--------------------------- MODULE WatchChannelProofs ---------------------------
(***************************************************************************)
(* Proofs about WatchChannel, for any set of receivers and any bounds: its *)
(* invariants, and that every step is one that LatestValue allows.         *)
(***************************************************************************)
EXTENDS WatchChannel, TLAPS

(* A waker in the state is that of a future that has nothing to be told.     *)
Registered ==
    \A w \in wakers :
        /\ w.task \in waiting /\ pending[w.task] = w.id
        /\ seen[w.task] = version /\ ~closed

(* Ids are never given twice, so removing a waker by its id removes no       *)
(* other future's.                                                           *)
DistinctIds ==
    /\ \A r \in Receiver : pending[r] <= nextWakerId
    /\ \A q, r \in waiting : pending[q] = pending[r] => q = r \/ pending[r] = None

(* No receiver is ahead, and the sender leaves the channel open.             *)
NotAhead ==
    /\ \A r \in Receiver : seen[r] <= version /\ known[r] <= value
    /\ sender => ~closed

WatchInv ==
    /\ TypeOK /\ Registered /\ DistinctIds /\ NotAhead
    /\ NoMissedWakeup /\ VersionTellsValue

-----------------------------------------------------------------------------
(* The steps, each with what it changes of the invariant *)

LEMMA InitWatch == Init => WatchInv
<1> SUFFICES ASSUME Init PROVE WatchInv
  OBVIOUS
<1>1. TypeOK
  BY DEF Init, TypeOK, None, WakerSet
<1>2. Registered /\ NoMissedWakeup
  BY DEF Init, Registered, NoMissedWakeup
<1>3. DistinctIds /\ NotAhead /\ VersionTellsValue
  BY DEF Init, DistinctIds, NotAhead, VersionTellsValue, None
<1>4. QED
  BY <1>1, <1>2, <1>3 DEF WatchInv

LEMMA SendAloneStep == WatchInv /\ SendAlone => WatchInv'
  BY WatchAssumption
     DEF WatchInv, SendAlone, Free, tasks, TypeOK, Registered, DistinctIds, NotAhead,
         NoMissedWakeup, VersionTellsValue, None, WakerSet, Waker

(* All wakers of the state are on their way to be woken; no future is left   *)
(* between the two, since the lock is held.                                  *)
LEMMA SendStep == WatchInv /\ Send => WatchInv'
<1> SUFFICES ASSUME WatchInv, Send PROVE WatchInv'
  OBVIOUS
<1>1. TypeOK' /\ Registered'
  BY DEF WatchInv, Send, tasks, TypeOK, Registered
<1>2. DistinctIds' /\ NotAhead' /\ VersionTellsValue'
  BY DEF WatchInv, Send, tasks, TypeOK, DistinctIds, NotAhead, VersionTellsValue
<1>3. NoMissedWakeup'
  BY DEF WatchInv, Send, Free, tasks, NoMissedWakeup
<1>4. QED
  BY <1>1, <1>2, <1>3 DEF WatchInv

LEMMA WakeStep == WatchInv /\ Wake => WatchInv'
  BY DEF WatchInv, Wake, state, TypeOK, Registered, DistinctIds, NotAhead,
         NoMissedWakeup, VersionTellsValue, None, WakerSet, Waker

(* Every future that waits for nothing else has its waker in the state, so   *)
(* its task is woken, and sees that the channel is closed.                   *)
LEMMA DropSenderStep == WatchInv /\ DropSender => WatchInv'
<1> SUFFICES ASSUME WatchInv, DropSender PROVE WatchInv'
  OBVIOUS
<1>1. \A w \in wakers : w.task \in waiting
  BY DEF WatchInv, Registered
<1>2. TypeOK'
  <2>1. woken' \subseteq waiting'
    BY <1>1 DEF WatchInv, TypeOK, DropSender
  <2>2. wakers' = {} /\ sender' = FALSE /\ closed' = TRUE
    BY DEF DropSender
  <2>3. QED
    BY <2>1, <2>2 DEF WatchInv, TypeOK, DropSender
<1>3. Registered' /\ NotAhead'
  BY DEF WatchInv, DropSender, Registered, NotAhead
<1>4. DistinctIds' /\ VersionTellsValue'
  BY DEF WatchInv, DropSender, DistinctIds, VersionTellsValue
<1>5. NoMissedWakeup'
  <2> SUFFICES ASSUME NEW r \in waiting, r \notin woken PROVE r \in woken'
    BY DEF NoMissedWakeup, DropSender
  <2>1. Waker(pending[r], r) \in wakers
    BY DEF WatchInv, NoMissedWakeup, DropSender, Free
  <2>2. Waker(pending[r], r).task = r
    BY DEF Waker
  <2>3. QED
    BY <2>1, <2>2 DEF DropSender
<1>6. QED
  BY <1>2, <1>3, <1>4, <1>5 DEF WatchInv

LEMMA SubscribeStep == ASSUME NEW r \in Receiver PROVE WatchInv /\ Subscribe(r) => WatchInv'
  BY DEF WatchInv, Subscribe, Free, state, TypeOK, Registered, DistinctIds, NotAhead,
         NoMissedWakeup, VersionTellsValue, None, WakerSet, Waker

LEMMA CloneStep ==
    ASSUME NEW r \in Receiver, NEW from \in Receiver
    PROVE  WatchInv /\ Clone(r, from) => WatchInv'
  BY DEF WatchInv, Clone, Idle, state, TypeOK, Registered, DistinctIds, NotAhead,
         NoMissedWakeup, VersionTellsValue, None, WakerSet, Waker

LEMMA DropReceiverStep ==
    ASSUME NEW r \in Receiver PROVE WatchInv /\ DropReceiver(r) => WatchInv'
  BY DEF WatchInv, DropReceiver, Idle, state, TypeOK, Registered, DistinctIds, NotAhead,
         NoMissedWakeup, VersionTellsValue, None, WakerSet, Waker

LEMMA BorrowStep == ASSUME NEW r \in Receiver PROVE WatchInv /\ Borrow(r) => WatchInv'
  BY DEF WatchInv, Borrow, Idle, state, TypeOK, Registered, DistinctIds, NotAhead,
         NoMissedWakeup, VersionTellsValue, None, WakerSet, Waker

LEMMA ChangedStep == ASSUME NEW r \in Receiver PROVE WatchInv /\ Changed(r) => WatchInv'
  BY DEF WatchInv, Changed, Idle, state, TypeOK, Registered, DistinctIds, NotAhead,
         NoMissedWakeup, VersionTellsValue, None, WakerSet, Waker

LEMMA DropChangedStep ==
    ASSUME NEW r \in Receiver PROVE WatchInv /\ DropChanged(r) => WatchInv'
  BY DEF WatchInv, DropChanged, TypeOK, Registered, DistinctIds, NotAhead,
         NoMissedWakeup, VersionTellsValue, None, WakerSet, Waker

(* Three outcomes; the waker is removed and registered under one lock.       *)
LEMMA PollStep == ASSUME NEW r \in Receiver PROVE WatchInv /\ Poll(r) => WatchInv'
<1> SUFFICES ASSUME WatchInv, Poll(r) PROVE WatchInv'
  OBVIOUS
<1>1. CASE version # seen[r]   \* Ready: the future had no waker in the state
  BY <1>1 DEF WatchInv, Poll, state, TypeOK, Registered, DistinctIds, NotAhead,
              NoMissedWakeup, VersionTellsValue, None, WakerSet, Waker
<1>2. CASE version = seen[r] /\ closed   \* Ready: no future has
  BY <1>2 DEF WatchInv, Poll, state, TypeOK, Registered, DistinctIds, NotAhead,
              NoMissedWakeup, VersionTellsValue, None, WakerSet, Waker
<1>3. CASE version = seen[r] /\ ~closed   \* Pending, with a new id
  BY <1>3 DEF WatchInv, Poll, state, TypeOK, Registered, DistinctIds, NotAhead,
              NoMissedWakeup, VersionTellsValue, None, WakerSet, Waker
<1>4. QED
  BY <1>1, <1>2, <1>3

LEMMA WatchStep == WatchInv /\ [Next]_vars => WatchInv'
<1> SUFFICES ASSUME WatchInv, [Next]_vars PROVE WatchInv'
  OBVIOUS
<1>1. CASE SendAlone \/ Send \/ Wake \/ DropSender
  BY <1>1, SendAloneStep, SendStep, WakeStep, DropSenderStep
<1>2. ASSUME NEW r \in Receiver,
             Subscribe(r) \/ DropReceiver(r) \/ Borrow(r) \/ Changed(r) \/ Poll(r)
             \/ DropChanged(r) \/ \E from \in Receiver : Clone(r, from)
      PROVE  WatchInv'
  BY <1>2, SubscribeStep, DropReceiverStep, BorrowStep, ChangedStep, PollStep,
     DropChangedStep, CloneStep
<1>3. CASE UNCHANGED vars
  BY <1>3 DEF WatchInv, vars, state, tasks, TypeOK, Registered, DistinctIds, NotAhead,
              NoMissedWakeup, VersionTellsValue, Waker
<1>4. QED
  BY <1>1, <1>2, <1>3 DEF Next

(* The inductive invariant: each waker in the state belongs to one future    *)
(* that waits with nothing to be told.                                       *)
THEOREM WatchInvariance == Spec => []WatchInv
  BY InitWatch, WatchStep, PTL DEF Spec

-----------------------------------------------------------------------------
(* Types.                                                                    *)
THEOREM WatchTypes == Spec => []TypeOK
  BY WatchInvariance, PTL DEF WatchInv

(* No wakeup is missed, however sends, polls, drops and clones interleave    *)
(* (the upgradable lock of poll, mem::take and the loop of send).            *)
THEOREM NoWakeupMissed == Spec => []NoMissedWakeup
  BY WatchInvariance, PTL DEF WatchInv

(* No waker is leaked: those in the state belong to futures that wait (the   *)
(* removal in poll and in the drop of Changed).                              *)
THEOREM NoWakerLeaked == Spec => []WakersHaveFutures
<1>1. WatchInv => WakersHaveFutures
  BY DEF WatchInv, Registered, WakersHaveFutures
<1>2. QED
  BY <1>1, WatchInvariance, PTL

(* The version tells whether the value is a new one, although a send without *)
(* receivers replaces the value and keeps the version.                       *)
THEOREM VersionSound == Spec => []VersionTellsValue
  BY WatchInvariance, PTL DEF WatchInv

-----------------------------------------------------------------------------
(* The safety part of the refinement *)

LEMMA PromiseInit == Init => Promise!Init
  BY DEF Init, Promise!Init

(* A future that is ready at the end of the channel knows the last value.    *)
LEMMA PromisePoll ==
    ASSUME NEW r \in Receiver, WatchInv, Poll(r)
    PROVE  Promise!Told(r) \/ UNCHANGED Promise!vars
<1>1. CASE version # seen[r]
  BY <1>1 DEF WatchInv, TypeOK, VersionTellsValue, Poll, state, Promise!Told
<1>2. CASE version = seen[r] /\ closed
  <2>1. known[r] = value /\ known \in [Receiver -> Nat]
    BY <1>2 DEF WatchInv, TypeOK, VersionTellsValue, Poll
  <2>2. known = [known EXCEPT ![r] = value]
    BY <2>1
  <2>3. QED
    BY <1>2, <2>2 DEF Poll, Promise!Told
<1>3. CASE version = seen[r] /\ ~closed
  BY <1>3 DEF Poll, Promise!vars
<1>4. QED
  BY <1>1, <1>2, <1>3

LEMMA PromiseStep == WatchInv /\ [Next]_vars => [Promise!Next]_Promise!vars
<1> SUFFICES ASSUME WatchInv, [Next]_vars PROVE [Promise!Next]_Promise!vars
  OBVIOUS
<1>1. CASE SendAlone \/ Send
  BY <1>1 DEF WatchInv, NotAhead, SendAlone, Send, Free, tasks, Promise!Next, Promise!Publish
<1>2. CASE Wake
  BY <1>2 DEF Wake, state, Promise!vars
<1>3. CASE DropSender
  BY <1>3 DEF DropSender, Promise!Next, Promise!Finish
<1>4. ASSUME NEW r \in Receiver, Subscribe(r) \/ \E from \in Receiver : Clone(r, from)
      PROVE  Promise!Join(r)
  <2>1. CASE Subscribe(r)
    BY <2>1 DEF Subscribe, state, Promise!Join
  <2>2. ASSUME NEW from \in Receiver, Clone(r, from) PROVE Promise!Join(r)
    BY <2>2 DEF Clone, Idle, state, Promise!Join
  <2>3. QED
    BY <1>4, <2>1, <2>2
<1>5. ASSUME NEW r \in Receiver, DropReceiver(r) PROVE Promise!Leave(r)
  BY <1>5 DEF DropReceiver, Idle, state, Promise!Leave
<1>6. ASSUME NEW r \in Receiver, Borrow(r) PROVE Promise!Read(r)
  BY <1>6 DEF Borrow, Idle, state, Promise!Read
<1>7. ASSUME NEW r \in Receiver, Changed(r) PROVE Promise!Wait(r)
  BY <1>7 DEF Changed, Idle, state, Promise!Wait
<1>8. ASSUME NEW r \in Receiver, DropChanged(r) PROVE Promise!GiveUp(r)
  BY <1>8 DEF DropChanged, Promise!GiveUp
<1>9. CASE UNCHANGED vars
  BY <1>9 DEF vars, state, tasks, Promise!vars
<1>10. QED
  BY <1>1, <1>2, <1>3, <1>4, <1>5, <1>6, <1>7, <1>8, <1>9, PromisePoll
     DEF Next, Promise!Next

(* Receivers are told of new values, and of the end after the last value, as *)
(* LatestValue says; that those who wait are told in the end is left to TLC. *)
THEOREM PromiseSafety == Spec => Promise!Init /\ [][Promise!Next]_Promise!vars
  BY PromiseInit, PromiseStep, WatchInvariance, PTL DEF Spec
=============================================================================
