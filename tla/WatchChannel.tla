------------------------------ MODULE WatchChannel ------------------------------
(***************************************************************************)
(* The watch channel of the watch crate: a sender that replaces a value,   *)
(* receivers that wait for a change.  A receiver that waits leaves a waker *)
(* in the shared state; a send takes all wakers, releases the lock, and    *)
(* wakes their tasks one after the other, while other tasks run.           *)
(*                                                                         *)
(* Every step below is what happens under one hold of the state's lock.    *)
(* The value is the number of sends; a version does not wrap here.         *)
(***************************************************************************)
EXTENDS Naturals, FiniteSets

CONSTANTS
    Receiver,    \* receiver handles (each used by one task at a time)
    MaxSends,    \* bound: sends
    MaxWakers    \* bound: waker ids drawn before a task may poll unasked

ASSUME WatchAssumption == MaxSends \in Nat /\ MaxWakers \in Nat

None == 0

VARIABLES
    value, version, closed,   \* State
    wakers,       \* State::wakers: the registered [id, task]
    nextWakerId,  \* State::next_waker_id
    sender,       \* whether there is a Sender
    waking,       \* the wakers that send took and has still to wake
    alive,        \* receivers that exist
    seen,         \* Receiver::version
    waiting,      \* receivers with a Changed future
    pending,      \* Changed::pending_waker_id
    woken,        \* receivers whose task the executor will poll
    known         \* history: the value a receiver was last told of, or read

state == <<value, version, closed, wakers, nextWakerId>>
tasks == <<alive, seen, waiting, pending, woken, known>>
vars == <<state, sender, waking, tasks>>

Waker(id, r) == [id |-> id, task |-> r]

(* channel(), or with no sender, Receiver::constant().                       *)
Init ==
    /\ value = 0 /\ version = 0 /\ closed = FALSE
    /\ wakers = {} /\ nextWakerId = 0
    /\ sender \in BOOLEAN /\ waking = {}
    /\ \E r \in Receiver : alive = {r}
    /\ seen = [r \in Receiver |-> 0] /\ known = [r \in Receiver |-> 0]
    /\ waiting = {} /\ pending = [r \in Receiver |-> None] /\ woken = {}

-----------------------------------------------------------------------------
(* The sender *)

Free == sender /\ waking = {}   \* send takes &mut self, drop takes self

SendToOne ==   \* mutant: the only receiver is taken for none
    /\ Free /\ value < MaxSends
    /\ Cardinality(alive) <= 1
    /\ value' = value + 1
    /\ UNCHANGED <<version, closed, wakers, nextWakerId, sender, waking, tasks>>

(* Nobody can notice: the version stays.                                     *)
SendAlone ==
    /\ Free /\ value < MaxSends
    /\ alive = {}
    /\ value' = value + 1
    /\ UNCHANGED <<version, closed, wakers, nextWakerId, sender, waking, tasks>>

Send ==
    /\ Free /\ value < MaxSends
    /\ alive # {}
    /\ value' = value + 1
    /\ version' = version + 1
    /\ waking' = wakers /\ wakers' = {}
    /\ UNCHANGED <<closed, nextWakerId, sender, tasks>>

(* Waking a task whose future is gone has no effect on the channel.          *)
Wake ==
    \E w \in waking :
        /\ \A u \in waking : w.id <= u.id
        /\ waking' = waking \ {w}
        /\ woken' = woken \cup ({w.task} \cap waiting)
        /\ UNCHANGED <<state, sender, alive, seen, waiting, pending, known>>

DropSenderQuietly ==   \* mutant: the channel closes and nobody is woken
    /\ Free
    /\ sender' = FALSE /\ closed' = TRUE
    /\ UNCHANGED <<value, version, wakers, nextWakerId, waking, tasks>>

DropSender ==
    /\ Free
    /\ sender' = FALSE /\ closed' = TRUE
    /\ wakers' = {}
    /\ woken' = woken \cup {w.task : w \in wakers}
    /\ UNCHANGED <<value, version, nextWakerId, waking, alive, seen, waiting, pending, known>>

(* Sender::receiver                                                          *)
Subscribe(r) ==
    /\ Free /\ r \notin alive
    /\ alive' = alive \cup {r}
    /\ seen' = [seen EXCEPT ![r] = version]
    /\ known' = [known EXCEPT ![r] = value]
    /\ UNCHANGED <<state, sender, waking, waiting, pending, woken>>

-----------------------------------------------------------------------------
(* A receiver; while it has a Changed future, the future holds it            *)

Idle(r) == r \in alive \ waiting

CloneFresh(r, from) ==   \* mutant: the clone starts from the current version
    /\ Idle(from) /\ r \notin alive
    /\ alive' = alive \cup {r}
    /\ seen' = [seen EXCEPT ![r] = version]
    /\ known' = [known EXCEPT ![r] = known[from]]
    /\ UNCHANGED <<state, sender, waking, waiting, pending, woken>>

Clone(r, from) ==
    /\ Idle(from) /\ r \notin alive
    /\ alive' = alive \cup {r}
    /\ seen' = [seen EXCEPT ![r] = seen[from]]
    /\ known' = [known EXCEPT ![r] = known[from]]
    /\ UNCHANGED <<state, sender, waking, waiting, pending, woken>>

DropUnderFuture(r) ==   \* mutant: the future does not hold the receiver
    /\ r \in alive
    /\ alive' = alive \ {r}
    /\ UNCHANGED <<state, sender, waking, seen, waiting, pending, woken, known>>

DropReceiver(r) ==
    /\ Idle(r)
    /\ alive' = alive \ {r}
    /\ UNCHANGED <<state, sender, waking, seen, waiting, pending, woken, known>>

Borrow(r) ==
    /\ Idle(r)
    /\ seen' = [seen EXCEPT ![r] = version]
    /\ known' = [known EXCEPT ![r] = value]
    /\ UNCHANGED <<state, sender, waking, alive, waiting, pending, woken>>

(* The task that makes the future polls it.                                  *)
Changed(r) ==
    /\ Idle(r) /\ nextWakerId < MaxWakers
    /\ waiting' = waiting \cup {r}
    /\ woken' = woken \cup {r}
    /\ pending' = [pending EXCEPT ![r] = None]
    /\ UNCHANGED <<state, sender, waking, alive, seen, known>>

(* poll: Ready with the new version, or Ready with the error, or Pending.    *)
Poll(r) ==
    /\ r \in waiting
    /\ r \in woken \/ nextWakerId < MaxWakers
    /\ woken' = woken \ {r}
    /\ \/ /\ version # seen[r]
          /\ seen' = [seen EXCEPT ![r] = version]
          /\ known' = [known EXCEPT ![r] = value]
          /\ pending' = [pending EXCEPT ![r] = None]
          /\ waiting' = waiting \ {r}
          /\ UNCHANGED state
       \/ /\ version = seen[r] /\ closed
          /\ waiting' = waiting \ {r}
          /\ wakers' = {w \in wakers : w.id # pending[r]}   \* drop of Changed
          /\ UNCHANGED <<value, version, closed, nextWakerId, seen, known, pending>>
       \/ /\ version = seen[r] /\ ~closed
          /\ nextWakerId' = nextWakerId + 1
          /\ wakers' = {w \in wakers : w.id # pending[r]} \cup {Waker(nextWakerId + 1, r)}
          /\ pending' = [pending EXCEPT ![r] = nextWakerId + 1]
          /\ UNCHANGED <<value, version, closed, waiting, seen, known>>
    /\ UNCHANGED <<sender, waking, alive>>

PollWoken(r) == r \in woken /\ Poll(r)

ForgetChanged(r) ==   \* mutant: the waker stays behind
    /\ r \in waiting
    /\ waiting' = waiting \ {r} /\ woken' = woken \ {r}
    /\ UNCHANGED <<state, sender, waking, alive, seen, pending, known>>

(* A future that is dropped before it is ready takes its waker along.        *)
DropChanged(r) ==
    /\ r \in waiting
    /\ waiting' = waiting \ {r} /\ woken' = woken \ {r}
    /\ wakers' = {w \in wakers : w.id # pending[r]}
    /\ UNCHANGED <<value, version, closed, nextWakerId, sender, waking, alive, seen,
                   pending, known>>

-----------------------------------------------------------------------------
Next ==
    \/ SendAlone \/ Send \/ Wake \/ DropSender
    \/ \E r \in Receiver :
           \/ Subscribe(r) \/ DropReceiver(r) \/ Borrow(r)
           \/ Changed(r) \/ Poll(r) \/ DropChanged(r)
           \/ \E from \in Receiver : Clone(r, from)

Spec == Init /\ [][Next]_vars

(* The thread that sends runs its loop to the end; the executor polls a task *)
(* that was woken.  Nobody has to send, drop or poll unasked.                *)
FairSpec == Spec /\ WF_vars(Wake) /\ \A r \in Receiver : WF_vars(PollWoken(r))

-----------------------------------------------------------------------------
WakerSet == [id : Nat \ {None}, task : Receiver]

TypeOK ==
    /\ value \in Nat /\ version \in Nat /\ closed \in BOOLEAN
    /\ wakers \subseteq WakerSet /\ waking \subseteq WakerSet
    /\ nextWakerId \in Nat /\ sender \in BOOLEAN
    /\ alive \subseteq Receiver /\ waiting \subseteq alive /\ woken \subseteq waiting
    /\ seen \in [Receiver -> Nat] /\ known \in [Receiver -> Nat]
    /\ pending \in [Receiver -> Nat]

(* No missed wakeup: a receiver that waits and is not about to be polled has *)
(* its waker in the state while there is nothing to tell it, and a send on   *)
(* its way to wake it as soon as there is (send takes the wakers under the   *)
(* lock and wakes them after it; poll registers under the same lock).        *)
NoMissedWakeup ==
    \A r \in waiting \ woken :
        \/ Waker(pending[r], r) \in waking
        \/ /\ Waker(pending[r], r) \in wakers
           /\ seen[r] = version /\ ~closed

(* debug_assert in send: without receivers there are no wakers.  More: every *)
(* waker belongs to the future that waits with it, so none is ever leaked.   *)
WakersHaveFutures ==
    \A w \in wakers : w.task \in waiting /\ pending[w.task] = w.id

(* The version stands for the value although a send that no receiver can     *)
(* notice leaves it alone: a receiver is behind iff it knows another value.  *)
VersionTellsValue ==
    \A r \in alive : seen[r] = version <=> known[r] = value

(* The channel keeps the promise of LatestValue, liveness included: a        *)
(* receiver that awaits changed() is told of a value it does not know, or of *)
(* the sender's end, unless it gives up.                                     *)
Promise == INSTANCE LatestValue WITH
    Reader <- Receiver, over <- closed, reading <- alive

KeepsPromise == Promise!Spec
=============================================================================
