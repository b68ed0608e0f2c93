----------------------------- MODULE GitIndexProofs -----------------------------
(***************************************************************************)
(* Proofs about GitIndex, for any hunks and bounds: the types, and that    *)
(* the writes which the worker skips are never the newest.                 *)
(***************************************************************************)
EXTENDS GitIndex, SequenceTheorems, TLAPS

Write == [key : {"WriteIndex"}, text : SUBSET Hunk, count : Nat, at : {"write", "written"}]
Recalculation ==
    [at : {"computing", "unstaged", "uncommitted"}, text : SUBSET Hunk,
     changed : BOOLEAN, prev : Nat]

Types ==
    /\ TypeOK
    /\ jobs \in Seq(Write \cup {ReloadJob})
    /\ running \in Write \cup {ReloadJob, None}
    /\ recalc \in Recalculation \cup {NoRecalc}

IsWrite(job) == job.key = "WriteIndex"
Writing == IsWrite(running) /\ running.at = "write"

(* The writes that are still to be done are newer than those that were, and  *)
(* the queue is in the order of the operations.                              *)
InOrder ==
    /\ \A i \in 1..Len(jobs) : IsWrite(jobs[i]) =>
           handled < jobs[i].count /\ jobs[i].count <= count /\ jobs[i].at = "write"
    /\ \A i, j \in 1..Len(jobs) : IsWrite(jobs[i]) /\ IsWrite(jobs[j]) /\ i < j =>
           jobs[i].count < jobs[j].count
    /\ Writing => /\ handled < running.count
                  /\ \A i \in 1..Len(jobs) : IsWrite(jobs[i]) => running.count < jobs[i].count
    /\ IsWrite(running) => running.count <= count

(* The newest operation is somewhere on its way, or done.                    *)
NewestKept ==
    \/ handled = count
    \/ Writing /\ running.count = count
    \/ \E i \in 1..Len(jobs) : IsWrite(jobs[i]) /\ jobs[i].count = count

IndexInv == Types /\ InOrder /\ NewestKept

-----------------------------------------------------------------------------
LEMMA TailFacts ==
    ASSUME NEW S, NEW s \in Seq(S), s # <<>>
    PROVE  /\ Tail(s) \in Seq(S) /\ Len(Tail(s)) = Len(s) - 1 /\ Len(s) >= 1
           /\ Head(s) = s[1] /\ Head(s) \in S
           /\ \A i \in 1..Len(Tail(s)) : Tail(s)[i] = s[i + 1] /\ i + 1 \in 1..Len(s)
  BY HeadTailProperties, EmptySeq

LEMMA AppendFacts ==
    ASSUME NEW S, NEW s \in Seq(S), NEW e \in S
    PROVE  /\ Append(s, e) \in Seq(S) /\ Len(Append(s, e)) = Len(s) + 1
           /\ \A i \in 1..Len(s) : Append(s, e)[i] = s[i]
           /\ Append(s, e)[Len(s) + 1] = e
  BY AppendProperties

LEMMA InitIndex == Init => IndexInv
<1> SUFFICES ASSUME Init PROVE IndexInv
  OBVIOUS
<1>1. TypeOK
  <2>1. count \in 0..MaxOps /\ asOfWrite \in 0..count /\ handled \in 0..count
    BY GitIndexAssumption DEF Init
  <2>2. pending \in [Hunk -> {"no", "stage", "unstage"}]
    BY DEF Init, NothingPending
  <2>3. recalc.at = "none" /\ running.key = "none"
    BY DEF Init, NoRecalc, None
  <2>4. QED
    BY <2>1, <2>2, <2>3 DEF Init, TypeOK
<1>2. Types
  BY <1>1 DEF Init, Types
<1>3. InOrder /\ NewestKept
  BY DEF Init, InOrder, NewestKept, Writing, IsWrite, None
<1>4. QED
  BY <1>2, <1>3 DEF IndexInv

(* Steps that leave the worker and its queue alone.                          *)
LEMMA QueueKept ==
    ASSUME IndexInv, Types', UNCHANGED <<jobs, running, count, handled>>
    PROVE  IndexInv'
  BY DEF IndexInv, InOrder, NewestKept, Writing

LEMMA RecalcSteps ==
    ASSUME IndexInv, RecalcStep \/ EditBuffer \/ ClearAfterFailure
    PROVE  IndexInv'
<1>1. Types
  BY DEF IndexInv
<1>2. CASE CancelRecalc
  BY <1>1, <1>2, QueueKept DEF CancelRecalc, diff, bounds, Types, TypeOK, NoRecalc
<1>3. CASE SetUnstagedDiff
  BY <1>1, <1>3, QueueKept DEF SetUnstagedDiff, bounds, Types, TypeOK, NoRecalc, Recalculation
<1>4. CASE SetUncommittedDiff
  BY <1>1, <1>4, QueueKept
     DEF SetUncommittedDiff, bounds, Types, TypeOK, NoRecalc, Recalculation, NothingPending
<1>5. CASE FinishRecalc
  BY <1>1, <1>5, QueueKept DEF FinishRecalc, bounds, Types, TypeOK, NoRecalc
<1>6. CASE EditBuffer
  BY <1>1, <1>6, QueueKept, GitIndexAssumption
     DEF EditBuffer, Recalculate, diff, Types, TypeOK, Recalculation
<1>7. CASE ClearAfterFailure
  BY <1>1, <1>7, QueueKept
     DEF ClearAfterFailure, bounds, Types, TypeOK, NothingPending, Overlay
<1>8. QED
  BY <1>2, <1>3, <1>4, <1>5, <1>6, <1>7 DEF RecalcStep

-----------------------------------------------------------------------------
(* The queue grows *)

LEMMA ToggleStep == ASSUME IndexInv, NEW h \in Hunk, Toggle(h) PROVE IndexInv'
<1>1. PICK e \in Write : e.count = count + 1 /\ e.at = "write" /\ jobs' = Append(jobs, e)
  <2> DEFINE stage == h \notin Overlay(base, pending)
             pend == [pending EXCEPT ![h] = IF stage THEN "stage" ELSE "unstage"]
             job == WriteJob(Overlay(base, pend), count + 1)
  <2>1. count + 1 \in Nat /\ Overlay(base, pend) \in SUBSET Hunk
    BY GitIndexAssumption DEF IndexInv, Types, TypeOK, Overlay
  <2>2. job \in Write /\ job.count = count + 1 /\ job.at = "write"
    BY <2>1 DEF WriteJob, Write
  <2>3. QED
    BY <2>2 DEF Toggle
<1>2. /\ count' = count + 1 /\ count \in Nat /\ count < MaxOps
      /\ UNCHANGED <<index, base, asOfWrite, indexText, indexChanged, recalc, running,
                     fsEvent, failed, handled>>
  BY GitIndexAssumption DEF Toggle, bounds, IndexInv, Types, TypeOK
<1>3. /\ jobs' \in Seq(Write \cup {ReloadJob}) /\ Len(jobs') = Len(jobs) + 1
      /\ \A i \in 1..Len(jobs) : jobs'[i] = jobs[i]
      /\ jobs'[Len(jobs) + 1] = e /\ Len(jobs) \in Nat /\ IsWrite(e)
  BY <1>1, AppendFacts DEF IndexInv, Types, IsWrite, Write
<1>4. Types'
  <2>1. pending' \in [Hunk -> {"no", "stage", "unstage"}] /\ want' \subseteq Hunk
    BY DEF Toggle, IndexInv, Types, TypeOK
  <2>2. count' \in 0..MaxOps /\ asOfWrite' \in 0..count' /\ handled' \in 0..count'
    BY <1>2, GitIndexAssumption DEF IndexInv, Types, TypeOK
  <2>3. TypeOK'
    BY <1>2, <2>1, <2>2 DEF IndexInv, Types, TypeOK
  <2>4. QED
    BY <1>2, <1>3, <2>3 DEF IndexInv, Types
<1>5. handled <= count /\ handled \in Nat
  BY GitIndexAssumption DEF IndexInv, Types, TypeOK
<1>6. \A i \in 1..Len(jobs') : i \in 1..Len(jobs) \/ i = Len(jobs) + 1
  BY <1>3
<1>7. InOrder'
  <2>1. \A i \in 1..Len(jobs) : IsWrite(jobs[i]) => jobs[i].count \in Nat
    BY ElementOfSeq DEF IndexInv, Types, IsWrite, Write, ReloadJob
  <2>2. IsWrite(running) => running.count \in Nat
    BY DEF IndexInv, Types, IsWrite, Write, ReloadJob, None
  <2>3. QED
    BY <1>1, <1>2, <1>3, <1>5, <1>6, <2>1, <2>2 DEF IndexInv, InOrder, Writing
<1>8. NewestKept'
  BY <1>1, <1>2, <1>3 DEF NewestKept
<1>9. QED
  BY <1>4, <1>7, <1>8 DEF IndexInv

LEMMA ReportStep == ASSUME IndexInv, ReportChange PROVE IndexInv'
<1>1. /\ jobs' \in Seq(Write \cup {ReloadJob}) /\ Len(jobs') = Len(jobs) + 1
      /\ \A i \in 1..Len(jobs) : jobs'[i] = jobs[i]
      /\ jobs'[Len(jobs) + 1] = ReloadJob /\ Len(jobs) \in Nat
  BY AppendFacts DEF ReportChange, IndexInv, Types
<1>2. ~IsWrite(ReloadJob)
  BY DEF IsWrite, ReloadJob
<1>3. UNCHANGED <<count, handled, running>>
  BY DEF ReportChange, diff
<1>4. Types'
  BY <1>1 DEF ReportChange, diff, bounds, IndexInv, Types, TypeOK
<1>5. \A i \in 1..Len(jobs') : i \in 1..Len(jobs) \/ i = Len(jobs) + 1
  BY <1>1
<1>6. InOrder'
  BY <1>1, <1>2, <1>3, <1>5 DEF IndexInv, InOrder, Writing
<1>7. NewestKept'
  BY <1>1, <1>3 DEF IndexInv, NewestKept, Writing
<1>8. QED
  BY <1>4, <1>6, <1>7 DEF IndexInv

-----------------------------------------------------------------------------
(* The worker *)

(* A job is skipped for one behind it that has the same key: if it is a      *)
(* write, a newer one.                                                       *)
LEMMA SkipStep == ASSUME IndexInv, SkipJob PROVE IndexInv'
<1>1. /\ jobs' = Tail(jobs) /\ jobs # <<>>
      /\ UNCHANGED <<index, diff, recalc, running, fsEvent, failed, bounds, handled, want>>
  BY DEF SkipJob
<1>2. /\ jobs' \in Seq(Write \cup {ReloadJob}) /\ Len(jobs') = Len(jobs) - 1
      /\ \A i \in 1..Len(jobs') : jobs'[i] = jobs[i + 1] /\ i + 1 \in 1..Len(jobs)
      /\ Len(jobs) \in Nat /\ 1 \in 1..Len(jobs) /\ Head(jobs) = jobs[1]
  BY <1>1, TailFacts DEF IndexInv, Types
<1>3. Types'
  BY <1>1, <1>2 DEF diff, bounds, IndexInv, Types, TypeOK
<1>4. UNCHANGED <<count, handled, running>>
  BY <1>1 DEF diff
<1>5. InOrder'
  <2>1. \A i, j \in 1..Len(jobs') : i < j => i + 1 < j + 1
    BY <1>2
  <2>2. QED
    BY <1>2, <1>4, <2>1 DEF IndexInv, InOrder, Writing
<1>6. NewestKept'
  <2>1. PICK k \in 2..Len(jobs) : jobs[k].key = jobs[1].key
    BY <1>2 DEF SkipJob, Superseded
  <2>2. IsWrite(jobs[1]) => jobs[1].count # count
    <3>1. \A i \in 1..Len(jobs) : IsWrite(jobs[i]) => jobs[i].count \in Nat
      BY ElementOfSeq DEF IndexInv, Types, IsWrite, Write, ReloadJob
    <3>2. count \in Nat
      BY GitIndexAssumption DEF IndexInv, Types, TypeOK
    <3>3. IsWrite(jobs[1]) => jobs[1].count < jobs[k].count /\ jobs[k].count <= count
      BY <1>2, <2>1 DEF IndexInv, InOrder, IsWrite
    <3>4. QED
      BY <1>2, <2>1, <3>1, <3>2, <3>3 DEF IsWrite
  <2>3. ASSUME NEW i \in 1..Len(jobs), IsWrite(jobs[i]), jobs[i].count = count
        PROVE  \E j \in 1..Len(jobs') : IsWrite(jobs'[j]) /\ jobs'[j].count = count
    <3>1. i # 1 /\ i - 1 \in 1..Len(jobs') /\ (i - 1) + 1 = i
      BY <1>2, <2>2, <2>3
    <3>2. jobs'[i - 1] = jobs[i]
      BY <1>2, <3>1
    <3>3. QED
      BY <2>3, <3>1, <3>2
  <2>4. QED
    BY <1>4, <2>3 DEF IndexInv, NewestKept, Writing
<1>7. QED
  BY <1>3, <1>5, <1>6 DEF IndexInv

LEMMA StartStep == ASSUME IndexInv, StartJob PROVE IndexInv'
<1>1. /\ jobs' = Tail(jobs) /\ jobs # <<>> /\ running' = Head(jobs) /\ running = None
      /\ UNCHANGED <<index, diff, recalc, fsEvent, failed, bounds, handled, want>>
  BY DEF StartJob
<1>2. /\ jobs' \in Seq(Write \cup {ReloadJob}) /\ Len(jobs') = Len(jobs) - 1
      /\ \A i \in 1..Len(jobs') : jobs'[i] = jobs[i + 1] /\ i + 1 \in 1..Len(jobs)
      /\ Len(jobs) \in Nat /\ 1 \in 1..Len(jobs) /\ running' = jobs[1]
      /\ running' \in Write \cup {ReloadJob}
  BY <1>1, TailFacts DEF IndexInv, Types
<1>3. running'.key \in {"WriteIndex", "ReloadBufferDiffBases"}
  BY <1>2 DEF Write, ReloadJob
<1>4. Types'
  BY <1>1, <1>2, <1>3 DEF diff, bounds, IndexInv, Types, TypeOK
<1>5. UNCHANGED <<count, handled>> /\ ~IsWrite(running)
  BY <1>1 DEF diff, IsWrite, None
<1>6. InOrder'
  <2>1. \A i \in 1..Len(jobs') : 1 < i + 1
    BY <1>2
  <2>2. \A i, j \in 1..Len(jobs') : i < j => i + 1 < j + 1
    BY <1>2
  <2>3. QED
    BY <1>2, <1>5, <2>1, <2>2 DEF IndexInv, InOrder, Writing
<1>7. IsWrite(jobs[1]) => Writing'
  BY <1>2 DEF IndexInv, InOrder, Writing
<1>8. NewestKept'
  <2>1. ASSUME NEW i \in 1..Len(jobs), IsWrite(jobs[i]), jobs[i].count = count
        PROVE  NewestKept'
    <3>1. CASE i = 1
      BY <1>2, <1>5, <1>7, <2>1, <3>1 DEF NewestKept
    <3>2. CASE i # 1
      <4>1. i - 1 \in 1..Len(jobs') /\ (i - 1) + 1 = i
        BY <1>2, <3>2
      <4>2. QED
        BY <1>2, <1>5, <2>1, <4>1 DEF NewestKept
    <3>3. QED
      BY <3>1, <3>2
  <2>2. QED
    BY <1>5, <2>1 DEF IndexInv, NewestKept, Writing
<1>9. QED
  BY <1>4, <1>6, <1>8 DEF IndexInv

LEMMA WorkStep == ASSUME IndexInv, WriteIndex \/ RecordWrite \/ FailWrite PROVE IndexInv'
<1>1. /\ running \in Write /\ IsWrite(running) /\ running.count \in Nat
      /\ running.text \subseteq Hunk
  BY DEF IndexInv, Types, WriteIndex, RecordWrite, FailWrite, Write, ReloadJob, None, IsWrite
<1>2. running.count <= count
  BY <1>1 DEF IndexInv, InOrder
<1>3. UNCHANGED <<jobs, count>>
  BY DEF WriteIndex, RecordWrite, FailWrite, diff
<1>4. count \in Nat /\ count \in 0..MaxOps
  BY GitIndexAssumption DEF IndexInv, Types, TypeOK
<1>5. ~IsWrite(None) /\ None.key = "none"
  BY DEF IsWrite, None
<1>6. CASE WriteIndex \/ FailWrite
  <2>1. Writing /\ handled' = running.count /\ UNCHANGED <<base, pending, asOfWrite, indexText,
                                                          indexChanged, recalc, want>>
    BY <1>1, <1>6 DEF WriteIndex, FailWrite, Writing, diff, bounds
  <2>2. /\ \/ running' = None
           \/ running' = [running EXCEPT !.at = "written"]
        /\ index' \subseteq Hunk /\ {fsEvent', failed'} \subseteq BOOLEAN
    BY <1>1, <1>6 DEF WriteIndex, FailWrite, bounds, IndexInv, Types, TypeOK
  <2>3. /\ running' \in Write \cup {None} /\ ~Writing'
        /\ IsWrite(running') => running'.count = running.count
        /\ running'.key \in {"none", "WriteIndex", "ReloadBufferDiffBases"}
    BY <1>1, <1>5, <2>2 DEF Write, Writing, IsWrite
  <2>4. Types'
    <3>1. handled' \in 0..count'
      BY <1>1, <1>2, <1>3, <1>4, <2>1
    <3>2. TypeOK'
      BY <1>3, <2>1, <2>2, <2>3, <3>1 DEF IndexInv, Types, TypeOK
    <3>3. QED
      BY <1>3, <2>1, <2>3, <3>2 DEF IndexInv, Types
  <2>5. InOrder'
    BY <1>2, <1>3, <2>1, <2>3 DEF IndexInv, InOrder
  <2>6. NewestKept'
    <3>1. CASE running.count = count
      BY <1>3, <2>1, <3>1 DEF NewestKept
    <3>2. CASE running.count # count
      <4>1. handled # count
        BY <1>1, <1>2, <1>4, <2>1, <3>2, GitIndexAssumption DEF IndexInv, InOrder, Types, TypeOK
      <4>2. QED
        BY <1>3, <3>2, <4>1 DEF IndexInv, NewestKept
    <3>3. QED
      BY <3>1, <3>2
  <2>7. QED
    BY <2>4, <2>5, <2>6 DEF IndexInv
<1>7. CASE RecordWrite
  <2>1. /\ ~Writing /\ running' = None /\ asOfWrite' = running.count
        /\ UNCHANGED <<index, base, pending, indexText, indexChanged, recalc, fsEvent, failed,
                       handled, want>>
    BY <1>7 DEF RecordWrite, Writing
  <2>2. Types'
    <3>1. asOfWrite' \in 0..count'
      BY <1>1, <1>2, <1>3, <1>4, <2>1
    <3>2. TypeOK'
      BY <1>3, <1>5, <2>1, <3>1 DEF IndexInv, Types, TypeOK
    <3>3. QED
      BY <1>3, <2>1, <3>2 DEF IndexInv, Types
  <2>3. InOrder' /\ NewestKept'
    BY <1>3, <1>5, <2>1 DEF IndexInv, InOrder, NewestKept, Writing
  <2>4. QED
    BY <2>2, <2>3 DEF IndexInv
<1>8. QED
  BY <1>6, <1>7

LEMMA ReloadStep == ASSUME IndexInv, Reload PROVE IndexInv'
<1>1. /\ running' = None /\ ~IsWrite(running) /\ ~IsWrite(None) /\ None.key = "none"
      /\ UNCHANGED <<jobs, count, handled>>
  BY DEF Reload, IsWrite, None
<1>2. asOfWrite \in Nat /\ index \subseteq Hunk /\ indexChanged' \in BOOLEAN
  BY GitIndexAssumption DEF IndexInv, Types, TypeOK, Reload
<1>3. recalc' \in Recalculation /\ recalc'.at = "computing"
  BY <1>2 DEF Reload, Recalculate, Recalculation
<1>4. TypeOK'
  BY <1>1, <1>2, <1>3 DEF Reload, bounds, IndexInv, Types, TypeOK
<1>5. Types'
  BY <1>1, <1>3, <1>4 DEF IndexInv, Types
<1>6. InOrder' /\ NewestKept'
  BY <1>1 DEF IndexInv, InOrder, NewestKept, Writing
<1>7. QED
  BY <1>5, <1>6 DEF IndexInv

-----------------------------------------------------------------------------
LEMMA IndexStep == IndexInv /\ [Next]_vars => IndexInv'
<1> SUFFICES ASSUME IndexInv, [Next]_vars PROVE IndexInv'
  OBVIOUS
<1>1. CASE \E h \in Hunk : Toggle(h)
  BY <1>1, ToggleStep
<1>2. CASE Worker
  BY <1>2, SkipStep, StartStep, WorkStep, ReloadStep DEF Worker
<1>3. CASE UNCHANGED vars
  <2>1. Types'
    BY <1>3 DEF vars, diff, bounds, IndexInv, Types, TypeOK
  <2>2. QED
    BY <1>3, <2>1, QueueKept DEF vars, diff
<1>4. QED
  BY <1>1, <1>2, <1>3, RecalcSteps, ReportStep DEF Next

(* The inductive invariant: writes stay in the order of their operations,    *)
(* and the newest one is on its way or done.                                 *)
THEOREM IndexInvariance == Spec => []IndexInv
  BY InitIndex, IndexStep, PTL DEF Spec

(* Types; in particular the recorded count never passes the operations.      *)
THEOREM IndexTypes == Spec => []TypeOK
  BY IndexInvariance, PTL DEF IndexInv, Types

(* The worker may skip any write that has another one behind it: when it is  *)
(* idle, the newest operation has been carried out (or has failed).          *)
THEOREM NewestNotSkipped == Spec => []NewestWriteHandled
<1>1. IndexInv => NewestWriteHandled
  BY DEF IndexInv, NewestKept, NewestWriteHandled, Idle, Writing, IsWrite, None
<1>2. QED
  BY <1>1, IndexInvariance, PTL
=============================================================================
