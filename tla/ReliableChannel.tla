----------------------------- MODULE ReliableChannel -----------------------------
(***************************************************************************)
(* What one direction of the remote channel promises: a message that was   *)
(* sent is kept until it was received.  Messages may be received more than *)
(* once and in another order than they were sent.                          *)
(***************************************************************************)
VARIABLES sent,      \* ids of the messages sent so far
          kept,      \* those the sender could still send again
          received   \* those the other end has handled

Init == sent = {} /\ kept = {} /\ received = {}

Send ==
    /\ sent \subseteq sent' /\ kept' = kept \cup (sent' \ sent)
    /\ UNCHANGED received

(* A message is handled, perhaps not for the first time. *)
Receive ==
    /\ \E id \in sent : received' = received \cup {id}
    /\ kept' \subseteq kept /\ kept \ kept' \subseteq received'
    /\ UNCHANGED sent

(* The sender gives up messages, all of them handled. *)
Forget ==
    /\ kept' \subseteq kept /\ kept \ kept' \subseteq received
    /\ UNCHANGED <<sent, received>>

Next == Send \/ Receive \/ Forget

Spec == Init /\ [][Next]_<<sent, kept, received>>
=============================================================================
