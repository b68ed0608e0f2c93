------------------------------ MODULE TextReplica ------------------------------
(***************************************************************************)
(* The replicated text buffer: replicas edit the same text at the same     *)
(* time, undo and redo edits, and exchange the operations, which arrive    *)
(* late, in any order, and more than once.                                 *)
(*                                                                         *)
(* A buffer keeps every character that was ever inserted, in one order,    *)
(* with the edits that deleted it.  The order of the replicas' operations  *)
(* does not matter: an edit names its place by counting the characters its *)
(* author had seen, and an operation waits until all it depends on is      *)
(* there.                                                                  *)
(*                                                                         *)
(* Simplifications: a fragment is one character (the code splits longer    *)
(* ones, and gives each a Locator that only keeps the order); an edit has  *)
(* one range (the code handles the ranges of an edit one after the other); *)
(* a transaction is one edit.                                              *)
(***************************************************************************)
EXTENDS Naturals, Sequences, FiniteSets, FiniteSetsExt

CONSTANTS
    Replica,    \* replica ids; id 0 (ReplicaId::LOCAL) is the base text's
    BaseLen,    \* characters of the base text
    MaxLen,     \* bound: characters that an edit inserts
    MaxOps,     \* bound: operations
    MaxUndos,   \* bound: undo operations among them
    MaxBatch    \* bound: operations that apply_ops is given at once

ASSUME TextAssumption ==
    /\ Replica \subseteq Nat \ {0} /\ BaseLen \in Nat \ {0}
    /\ {MaxLen, MaxOps, MaxUndos, MaxBatch} \subseteq Nat

VARIABLES
    buffer,     \* the Buffer of each replica
    ops         \* the operations that were sent

vars == <<buffer, ops>>

-----------------------------------------------------------------------------
(* Clocks: a Lamport timestamp, and a Global version: the newest timestamp   *)
(* of each replica that was observed                                         *)

Stamp(value, replica) == [value |-> value, replica |-> replica]

Earlier(a, b) == a.value < b.value \/ (a.value = b.value /\ a.replica < b.replica)

LaterSwapped(a, b) == Earlier(a, b)   \* mutant: < for >

Later(a, b) == Earlier(b, a)

Observed(version, ts) == version[ts.replica] >= ts.value
ObservedAll(version, other) == \A r \in DOMAIN version : version[r] >= other[r]
Observe(version, ts) == [version EXCEPT ![ts.replica] = Max({@, ts.value})]

-----------------------------------------------------------------------------
(* Undo counts: an edit is undone when the largest count for it is odd       *)

LargestCount(undos, edit) == Max({0} \cup {u.count : u \in {v \in undos : v.edit = edit}})

IsUndone(undos, edit) == LargestCount(undos, edit) % 2 = 1

WasUndone(undos, edit, version) ==
    IsUndone({u \in undos : Observed(version, u.id)}, edit)

IsVisible(undos, f) ==
    ~IsUndone(undos, f.ts) /\ \A d \in f.deletions : IsUndone(undos, d)

WasVisible(undos, f, version) ==
    /\ Observed(version, f.ts) /\ ~WasUndone(undos, f.ts, version)
    /\ \A d \in f.deletions : Observed(version, d) => WasUndone(undos, d, version)

-----------------------------------------------------------------------------
(* Fragments *)

Inserted(ts, len) ==
    [i \in 1..len |-> [ts |-> ts, offset |-> i, deletions |-> {}, visible |-> TRUE]]

(* The text with the marked fragments deleted and new ones after the k-th.   *)
Edited(frags, k, ts, len, deleted) ==
    LET marked == [i \in DOMAIN frags |->
            IF i \in deleted
            THEN [frags[i] EXCEPT !.deletions = @ \cup {ts}, !.visible = FALSE]
            ELSE frags[i]]
    IN SubSeq(marked, 1, k) \o Inserted(ts, len) \o SubSeq(marked, k + 1, Len(frags))

(* How many of the first i fragments an edit made at that version counts.    *)
Rank(frags, version, i) == Cardinality({j \in 1..i : Observed(version, frags[j].ts)})

VisibleBefore(frags, i) == Cardinality({j \in 1..i : frags[j].visible})
VisibleLen(frags) == VisibleBefore(frags, Len(frags))

(* Bias::Right: behind the invisible fragments that follow the s-th visible. *)
StartIndex(frags, s) ==
    Max({i \in 0..Len(frags) : VisibleBefore(frags, i) = s})

(* The offset behind the last character deleted, or the start.               *)
EndIndex(frags, s, e) ==
    IF e = s THEN StartIndex(frags, s)
    ELSE Min({i \in 0..Len(frags) : VisibleBefore(frags, i) = e})

(* Behind the character the edit counted last, and behind what others have   *)
(* inserted there with a later timestamp.                                    *)
RemoteIndex(frags, version, start, ts) ==
    LET anchor == Max({0} \cup {i \in DOMAIN frags :
                        Observed(version, frags[i].ts) /\ Rank(frags, version, i) <= start})
        place == IF start = 0 THEN 0 ELSE anchor
    IN Max({k \in place..Len(frags) : \A i \in place + 1..k : Later(frags[i].ts, ts)})

-----------------------------------------------------------------------------
(* A Buffer *)

Version0 == [r \in Replica \cup {0} |-> IF r = 0 THEN 1 ELSE 0]

NewBuffer ==
    [frags |-> Inserted(Stamp(1, 0), BaseLen),
     undos |-> {},
     version |-> Version0,
     clock |-> 2,
     deferred |-> {}]   \* deferred_ops, empty between calls unless something is missing

(* deferred_replicas: between two calls, the replicas with deferred_ops.     *)
Replicas(set) == {op.ts.replica : op \in set}

ClockUnmoved(clock, ts) == clock   \* mutant: the clock is not observed

ClockAfter(clock, ts) == Max({clock, ts.value}) + 1

ApplyRemoteEdit(b, op) ==
    LET k == RemoteIndex(b.frags, op.version, op.start, op.ts)
        deleted == {i \in DOMAIN b.frags :
                        /\ Rank(b.frags, op.version, i) \in op.start + 1..op.end
                        /\ WasVisible(b.undos, b.frags[i], op.version)}
    IN [b EXCEPT !.frags = Edited(b.frags, k, op.ts, op.len, deleted)]

ApplyUndoToInsertions(b, op) ==   \* mutant: what the edit deleted is forgotten
    LET undos == b.undos \cup {[edit |-> op.edit, count |-> op.count, id |-> op.ts]}
        Refreshed(f) == IF f.ts = op.edit
                        THEN [f EXCEPT !.visible = IsVisible(undos, f)]
                        ELSE f
    IN [b EXCEPT !.undos = undos,
                 !.frags = [i \in DOMAIN b.frags |-> Refreshed(b.frags[i])]]

ApplyUndo(b, op) ==
    LET undos == b.undos \cup {[edit |-> op.edit, count |-> op.count, id |-> op.ts]}
        Refreshed(f) == IF f.ts = op.edit \/ op.edit \in f.deletions
                        THEN [f EXCEPT !.visible = IsVisible(undos, f)]
                        ELSE f
    IN [b EXCEPT !.undos = undos,
                 !.frags = [i \in DOMAIN b.frags |-> Refreshed(b.frags[i])]]

ApplyOp(b, op) ==
    IF Observed(b.version, op.ts) THEN b
    ELSE LET applied == IF op.kind = "edit" THEN ApplyRemoteEdit(b, op) ELSE ApplyUndo(b, op)
         IN [applied EXCEPT !.version = Observe(@, op.ts), !.clock = ClockAfter(@, op.ts)]

(* Apply or defer each of a sequence; a replica with a deferred operation    *)
(* has all its next ones deferred.                                           *)
CanApplyAtOnce(b, blocked, op) == op.ts.replica \notin blocked   \* mutant

CanApply(b, blocked, op) ==
    op.ts.replica \notin blocked /\ ObservedAll(b.version, op.version)

TakeOne(acc, op) ==
    IF CanApply(acc.b, acc.blocked, op)
    THEN [acc EXCEPT !.b = ApplyOp(@, op)]
    ELSE [acc EXCEPT !.blocked = @ \cup {op.ts.replica}, !.deferred = @ \cup {op}]

TakeIn(b, blocked, seq) ==
    LET taken[n \in 0..Len(seq)] ==
            IF n = 0 THEN [b |-> b, blocked |-> blocked, deferred |-> {}]
            ELSE TakeOne(taken[n - 1], seq[n])
    IN taken[Len(seq)]

(* OperationQueue: the deferred operations in the order of their timestamps. *)
ByTimestamp(set) ==
    CHOOSE s \in [1..Cardinality(set) -> set] :
        \A i, j \in DOMAIN s : i < j => Earlier(s[i].ts, s[j].ts)

FlushBlocked(b) ==   \* mutant: deferred_replicas is not cleared
    LET after == TakeIn(b, Replicas(b.deferred), ByTimestamp(b.deferred))
    IN [after.b EXCEPT !.deferred = after.deferred]

FlushDeferredOps(b) ==
    LET after == TakeIn(b, {}, ByTimestamp(b.deferred))
    IN [after.b EXCEPT !.deferred = after.deferred]

ApplyOps(b, seq) ==
    LET after == TakeIn(b, Replicas(b.deferred), seq)
    IN FlushDeferredOps([after.b EXCEPT !.deferred = @ \cup after.deferred])

-----------------------------------------------------------------------------
Init ==
    /\ buffer = [r \in Replica |-> NewBuffer]
    /\ ops = {}

Sent(kind) == {op \in ops : op.kind = kind}

(* edit: the transaction takes a tick of the clock, the edit the next one.   *)
Edit(r, s, e, len) ==
    LET b == buffer[r]
        ts == Stamp(b.clock + 1, r)
        start == StartIndex(b.frags, s)
        deleted == {i \in DOMAIN b.frags :
                        b.frags[i].visible /\ VisibleBefore(b.frags, i) \in s + 1..e}
    IN /\ Cardinality(ops) < MaxOps
       /\ s <= e /\ e <= VisibleLen(b.frags)
       /\ s < e \/ len > 0
       /\ ops' = ops \cup {[kind |-> "edit", ts |-> ts, version |-> b.version,
                            start |-> start, end |-> EndIndex(b.frags, s, e), len |-> len]}
       /\ buffer' = [buffer EXCEPT ![r] =
              [b EXCEPT !.frags = Edited(b.frags, start, ts, len, deleted),
                        !.version = Observe(@, ts), !.clock = @ + 2]]

(* undo or redo of an edit the replica has seen (push_transaction puts edits *)
(* of other replicas on the undo stack, too).                                *)
Undo(r, edit) ==
    LET b == buffer[r]
        op == [kind |-> "undo", ts |-> Stamp(b.clock, r), version |-> b.version,
               edit |-> edit, count |-> LargestCount(b.undos, edit) + 1]
    IN /\ Cardinality(ops) < MaxOps /\ Cardinality(Sent("undo")) < MaxUndos
       /\ Observed(b.version, edit)
       /\ ops' = ops \cup {op}
       /\ buffer' = [buffer EXCEPT ![r] =
              [ApplyUndo(b, op) EXCEPT !.version = Observe(@, op.ts), !.clock = @ + 1]]

(* Operations arrive; the same ones may have arrived before.                 *)
Receive(r, seq) ==
    /\ buffer' = [buffer EXCEPT ![r] = ApplyOps(@, seq)]
    /\ UNCHANGED ops

Batches(set) == UNION {[1..n -> set] : n \in 1..MaxBatch}

Next ==
    \E r \in Replica :
        \/ \E s, e \in 0..VisibleLen(buffer[r].frags), len \in 0..MaxLen : Edit(r, s, e, len)
        \/ \E op \in Sent("edit") : Undo(r, op.ts)
        \/ \E seq \in Batches({op \in ops : op.ts.replica # r}) : Receive(r, seq)

Spec == Init /\ [][Next]_vars

-----------------------------------------------------------------------------
Stamps == [value : Nat, replica : Replica \cup {0}]

TypeOK ==
    \A r \in Replica :
        /\ buffer[r].frags \in Seq([ts : Stamps, offset : Nat, deletions : SUBSET Stamps,
                                    visible : BOOLEAN])
        /\ buffer[r].version \in [Replica \cup {0} -> Nat]
        /\ buffer[r].deferred \subseteq ops
        \* timestamps are fresh: nothing that is there is later than the clock
        /\ \A i \in DOMAIN buffer[r].frags : buffer[r].frags[i].ts.value < buffer[r].clock

(* Any two replicas have the characters both know in the same order, at any  *)
(* time, and none of them twice; and the same text and the same deletions    *)
(* when they have observed the same operations, in whatever order those came.*)
Char(f) == <<f.ts, f.offset>>

SameOrder(f, g) ==
    \A i \in DOMAIN f, m \in DOMAIN g : Char(f[i]) = Char(g[m]) =>
        \A j \in DOMAIN f, n \in DOMAIN g : Char(f[j]) = Char(g[n]) => (i < j <=> m < n)

Convergence ==
    \A q, r \in Replica : q <= r =>
        /\ SameOrder(buffer[q].frags, buffer[r].frags)
        /\ buffer[q].version = buffer[r].version => buffer[q].frags = buffer[r].frags

(* Fragment::visible, which the local edits trust, is what the deletions and *)
(* the undo counts say, although only some fragments are looked at again     *)
(* after an undo.                                                            *)
VisibleIsCurrent ==
    \A r \in Replica : \A i \in DOMAIN buffer[r].frags :
        buffer[r].frags[i].visible = IsVisible(buffer[r].undos, buffer[r].frags[i])

(* A version only keeps the newest timestamp of each replica; still, what it *)
(* claims to have observed was applied: the inserted characters are there,   *)
(* and the undo count is known.                                              *)
ObservedWasApplied ==
    \A r \in Replica : \A op \in ops :
        Observed(buffer[r].version, op.ts) =>
            IF op.kind = "edit"
            THEN \A o \in 1..op.len :
                     \E i \in DOMAIN buffer[r].frags : Char(buffer[r].frags[i]) = <<op.ts, o>>
            ELSE \E u \in buffer[r].undos : u.id = op.ts

(* An operation stays deferred only while something it depends on is         *)
(* missing, although one pass over the deferred operations is made per call: *)
(* when all operations have come none is left, for the earliest of them      *)
(* would miss nothing.                                                       *)
OnlyMissingDefer ==
    \A r \in Replica : \A op \in buffer[r].deferred :
        ~ObservedAll(buffer[r].version, op.version)

=============================================================================
