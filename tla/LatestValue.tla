------------------------------ MODULE LatestValue ------------------------------
(***************************************************************************)
(* What a watch channel promises, without locks, versions or wakers: there *)
(* is one current value; a reader knows some value; a reader that waits is *)
(* told, sooner or later, when the current value is another one than the   *)
(* one it knows, or when no value can follow.                              *)
(***************************************************************************)
EXTENDS Naturals

CONSTANT Reader
VARIABLES value, over, reading, known, waiting
vars == <<value, over, reading, known, waiting>>

Init ==
    /\ value = 0 /\ over = FALSE
    /\ reading \subseteq Reader
    /\ known = [r \in Reader |-> 0]
    /\ waiting = {}

Publish == value' = value + 1 /\ ~over /\ UNCHANGED <<over, reading, known, waiting>>

Finish == over' = TRUE /\ UNCHANGED <<value, reading, known, waiting>>

(* A new reader knows the current value, or what another reader knows.       *)
Join(r) ==
    /\ r \notin reading
    /\ reading' = reading \cup {r}
    /\ \E v \in {value} \cup {known[q] : q \in reading} : known' = [known EXCEPT ![r] = v]
    /\ UNCHANGED <<value, over, waiting>>

Leave(r) ==
    /\ r \notin waiting
    /\ reading' = reading \ {r}
    /\ UNCHANGED <<value, over, known, waiting>>

Read(r) ==
    /\ r \in reading \ waiting
    /\ known' = [known EXCEPT ![r] = value]
    /\ UNCHANGED <<value, over, reading, waiting>>

Wait(r) ==
    /\ r \in reading \ waiting
    /\ waiting' = waiting \cup {r}
    /\ UNCHANGED <<value, over, reading, known>>

GiveUp(r) ==
    /\ waiting' = waiting \ {r}
    /\ UNCHANGED <<value, over, reading, known>>

(* A reader that waits is told of a value it does not know.  It is told of   *)
(* the end only when it knows the last value.                                *)
Told(r) ==
    /\ r \in waiting
    /\ over \/ known[r] # value
    /\ waiting' = waiting \ {r}
    /\ known' = [known EXCEPT ![r] = value]
    /\ UNCHANGED <<value, over, reading>>

Next ==
    \/ Publish \/ Finish
    \/ \E r \in Reader : Join(r) \/ Leave(r) \/ Read(r) \/ Wait(r) \/ GiveUp(r) \/ Told(r)

Spec == Init /\ [][Next]_vars /\ \A r \in Reader : WF_vars(Told(r))
=============================================================================
