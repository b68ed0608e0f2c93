------------------------------ MODULE RemoteChannel ------------------------------
(***************************************************************************)
(* The message channel between the editor and a remote server: a           *)
(* ChannelClient at each end, and connections between them that break.     *)
(*                                                                         *)
(* Each end keeps the messages it sent in a buffer until an ack_id of the  *)
(* other end covers them.  After a reconnect the client asks the server to *)
(* flush its buffer, and sends its own again when the server has answered. *)
(* The client has new queues for every connection; the queues between the  *)
(* server's ChannelClient and its main loop outlive connections.           *)
(*                                                                         *)
(* Simplifications:                                                        *)
(*  - payloads are left out; a message is handled when it is received, and *)
(*    the handler of a request replies at any later time;                  *)
(*  - at the start the first connection is up, and the RemoteStarted of    *)
(*    both ends, each with id 0, have been answered;                       *)
(*  - an id is drawn and its message put into the buffer in one step.      *)
(***************************************************************************)
EXTENDS Integers, Sequences, FiniteSets, SequencesExt

CONSTANTS
    MaxSent,     \* bound: once so many messages were sent, the ends only reply
    MaxBreaks    \* bound: connections that break

ASSUME ChannelAssumption == MaxSent \in Nat /\ MaxBreaks \in Nat

End == {"client", "server"}
Peer(e) == IF e = "client" THEN "server" ELSE "client"
None == -1

VARIABLES
    nextId,       \* next_message_id of each end
    maxReceived,  \* max_received
    buffer,       \* sent and not acknowledged
    waiting,      \* response_channels: ids that wait for a response
    handling,     \* requests of the other end whose handler is running
    link,         \* the connection: "up", "down", or "resync"
    flush,        \* id of the FlushBufferedMessages resync waits for, or None
    c2s, s2c,     \* messages on their way
    arrived,      \* those in front of c2s that the server has read
    outgoing,     \* sent by the server and not written to a connection
    breaks,       \* connections that broke
    sent, received  \* history: ids each end has sent, and has handled

ends == <<nextId, maxReceived, buffer, waiting, handling, sent, received>>
wire == <<link, flush, c2s, s2c, arrived, outgoing, breaks>>
vars == <<ends, wire>>

Message(kind, id, ack, re) == [kind |-> kind, id |-> id, ack |-> ack, re |-> re]

Init ==
    /\ nextId = [e \in End |-> 1] /\ maxReceived = [e \in End |-> 0]
    /\ buffer = [e \in End |-> <<>>] /\ waiting = [e \in End |-> {}]
    /\ handling = [e \in End |-> <<>>]
    /\ link = "up" /\ flush = None
    /\ c2s = <<>> /\ s2c = <<>> /\ arrived = 0 /\ outgoing = <<>>
    /\ breaks = 0
    /\ sent = [e \in End |-> {}] /\ received = [e \in End |-> {}]

-----------------------------------------------------------------------------
(* Sending *)

(* outgoing_tx of each end.  The client's leads nowhere between connections. *)
Post(e, m) ==
    \/ e = "client" /\ link = "down" /\ UNCHANGED <<c2s, outgoing>>
    \/ e = "client" /\ link # "down" /\ c2s' = Append(c2s, m) /\ UNCHANGED outgoing
    \/ e = "server" /\ outgoing' = Append(outgoing, m) /\ UNCHANGED c2s

SendBuffered(e, kind, re) ==
    LET m == Message(kind, nextId[e], maxReceived[e], re)
    IN /\ nextId' = [nextId EXCEPT ![e] = @ + 1]
       /\ buffer' = [buffer EXCEPT ![e] = Append(@, m)]
       /\ sent' = [sent EXCEPT ![e] = @ \cup {m.id}]
       /\ Post(e, m)
       /\ UNCHANGED <<maxReceived, received, link, flush, s2c, arrived, breaks>>

CanSend == Cardinality(sent["client"]) + Cardinality(sent["server"]) < MaxSent

Send(e) ==
    /\ CanSend
    /\ SendBuffered(e, "message", None)
    /\ UNCHANGED <<waiting, handling>>

RequestNextId(e) ==   \* mutant: the counter is read again
    /\ CanSend
    /\ SendBuffered(e, "request", None)
    /\ waiting' = [waiting EXCEPT ![e] = @ \cup {nextId'[e]}]
    /\ UNCHANGED handling

Request(e) ==
    /\ CanSend
    /\ SendBuffered(e, "request", None)
    /\ waiting' = [waiting EXCEPT ![e] = @ \cup {nextId[e]}]
    /\ UNCHANGED handling

Reply(e, i) ==
    /\ SendBuffered(e, "reply", handling[e][i])
    /\ handling' = [handling EXCEPT ![e] = RemoveAt(@, i)]
    /\ UNCHANGED waiting

(* The server's main loop writes what was sent, if there is a connection.    *)
Write ==
    /\ link # "down" /\ outgoing # <<>>
    /\ s2c' = Append(s2c, Head(outgoing))
    /\ outgoing' = Tail(outgoing)
    /\ UNCHANGED <<ends, link, flush, c2s, arrived, breaks>>

-----------------------------------------------------------------------------
(* Receiving *)

TrimmedPast(buf, ack) == SelectSeq(buf, LAMBDA m : m.id > ack + 1)   \* mutant

Trimmed(buf, ack) ==   \* the buffer without the messages acknowledged in front
    LET popped == {i \in 1..Len(buf) : \A j \in 1..i : buf[j].id <= ack}
    IN SubSeq(buf, Cardinality(popped) + 1, Len(buf))

Acknowledge(e, m) == buffer' = [buffer EXCEPT ![e] = Trimmed(@, m.ack)]

(* A message other than Flush goes to its response channel or its handler.   *)
Handle(e, m) ==
    /\ maxReceived' = [maxReceived EXCEPT ![e] = m.id]
    /\ waiting' = [waiting EXCEPT ![e] = @ \ {m.re}]
    /\ handling' = IF m.kind = "request" THEN [handling EXCEPT ![e] = Append(@, m.id)]
                   ELSE handling
    /\ received' = IF m.kind = "ack" THEN received
                   ELSE [received EXCEPT ![e] = @ \cup {m.id}]

(* resync goes on as soon as its Flush is answered: the client sends its     *)
(* buffer again before it handles the next message.                          *)
Resync(m) ==
    /\ m.kind = "ack" /\ m.re = flush
    /\ link' = "up" /\ flush' = None
    /\ c2s' = c2s \o buffer["client"]

ReceiveAtClient ==
    /\ s2c # <<>>
    /\ s2c' = Tail(s2c)
    /\ LET m == Head(s2c)
       IN /\ Acknowledge("client", m)
          /\ Handle("client", m)
          /\ \/ Resync(m)
             \/ ~ (m.kind = "ack" /\ m.re = flush) /\ UNCHANGED <<link, flush, c2s>>
    /\ UNCHANGED <<nextId, sent, arrived, outgoing, breaks>>

(* FlushBufferedMessages and RemoteStarted do not count for max_received;    *)
(* their answers are drawn an id, and are not buffered.                      *)
Answer(m, before) ==
    /\ outgoing' = Append(outgoing \o before, Message("ack", nextId["server"], None, m.id))
    /\ nextId' = [nextId EXCEPT !["server"] = @ + 1]
    /\ UNCHANGED <<maxReceived, waiting, handling, received>>

FlushAckOnly(m) == m.kind = "flush" /\ Answer(m, <<>>)   \* mutant: nothing sent again

(* The buffer goes out again, then the answer.                               *)
FlushBuffer(m) == m.kind = "flush" /\ Answer(m, Trimmed(buffer["server"], m.ack))

RemoteStarted(m) == m.kind = "started" /\ Answer(m, <<>>)

ReceiveAtServer ==
    /\ c2s # <<>>
    /\ c2s' = Tail(c2s)
    /\ arrived' = IF arrived > 0 THEN arrived - 1 ELSE 0
    /\ LET m == Head(c2s)
       IN /\ Acknowledge("server", m)
          /\ \/ FlushBuffer(m) \/ RemoteStarted(m)
             \/ /\ m.kind \notin {"flush", "started"}
                /\ Handle("server", m)
                /\ UNCHANGED <<nextId, outgoing>>
    /\ UNCHANGED <<sent, link, flush, s2c, breaks>>

-----------------------------------------------------------------------------
(* Connections *)

(* The connection ends by itself, or is killed by a reconnect attempt, also  *)
(* because resync timed out.  What the other end has not read is lost.       *)
Break ==
    /\ link # "down" /\ breaks < MaxBreaks
    /\ breaks' = breaks + 1
    /\ link' = "down" /\ flush' = None
    /\ \E i \in arrived..Len(c2s) : c2s' = SubSeq(c2s, 1, i) /\ arrived' = i
    /\ \E i \in 0..Len(s2c) : s2c' = SubSeq(s2c, 1, i)
    /\ UNCHANGED <<ends, outgoing>>

(* ChannelClient::reconnect and the start of resync: new queues, and what    *)
(* the old connection had still delivered to the client is dropped.  The     *)
(* Flush is sent at once, RemoteStarted when the new task is first polled.   *)
Reconnect ==
    /\ link = "down"
    /\ link' = "resync" /\ flush' = nextId["client"]
    /\ nextId' = [nextId EXCEPT !["client"] = @ + 1]
    /\ waiting' = [waiting EXCEPT !["client"] = @ \cup {flush'}]
    /\ c2s' = c2s \o <<Message("flush", flush', maxReceived["client"], None),
                      Message("started", 0, None, None)>>
    /\ s2c' = <<>>
    /\ UNCHANGED <<maxReceived, buffer, handling, sent, received, arrived, outgoing, breaks>>

-----------------------------------------------------------------------------
SomeReply(e) == \E i \in 1..Len(handling[e]) : Reply(e, i)

Next ==
    \/ \E e \in End : Send(e) \/ Request(e) \/ SomeReply(e)
    \/ Write \/ ReceiveAtClient \/ ReceiveAtServer \/ Break \/ Reconnect

Spec == Init /\ [][Next]_vars

(* The loops that read and write keep running, handlers reply, and a         *)
(* connection can be made again.                                             *)
FairSpec ==
    /\ Spec
    /\ WF_vars(Write) /\ WF_vars(ReceiveAtClient) /\ WF_vars(ReceiveAtServer)
    /\ WF_vars(Reconnect)
    /\ \A e \in End : WF_vars(SomeReply(e))
-----------------------------------------------------------------------------
(* Properties *)

MessageType ==
    [kind : {"message", "request", "reply", "flush", "started", "ack"}, id : Nat,
     ack : Nat \cup {None}, re : Nat \cup {None}]

(* Every variable has its type; ids in use were drawn.                       *)
TypeOK ==
    /\ nextId \in [End -> Nat] /\ maxReceived \in [End -> Nat]
    /\ buffer \in [End -> Seq(MessageType)]
    /\ waiting \in [End -> SUBSET Nat]
    /\ \A e \in End : waiting[e] \subseteq 0..(nextId[e] - 1)
    /\ handling \in [End -> Seq(Nat)]
    /\ link \in {"up", "down", "resync"} /\ flush \in Nat \cup {None}
    /\ c2s \in Seq(MessageType) /\ s2c \in Seq(MessageType)
    /\ outgoing \in Seq(MessageType)
    /\ arrived \in 0..Len(c2s) /\ breaks \in 0..MaxBreaks
    /\ sent \in [End -> SUBSET Nat] /\ received \in [End -> SUBSET Nat]

Ids(messages) == {messages[i].id : i \in 1..Len(messages)}

(* Where a message of e can still come from.                                 *)
Kept(e) == Ids(buffer[e]) \cup Ids(IF e = "client" THEN c2s ELSE outgoing \o s2c)

(* Both directions of the channel: with one break, a message leaves the      *)
(* buffer only when the other end has handled it, or when it is on its way   *)
(* for the last time (ack_id, max_received, resync).                         *)
ClientChannel == INSTANCE ReliableChannel WITH
    sent <- sent["client"], kept <- Kept("client") \cap sent["client"],
    received <- received["server"]
ServerChannel == INSTANCE ReliableChannel WITH
    sent <- sent["server"], kept <- Kept("server") \cap sent["server"],
    received <- received["client"]
ClientToServer == ClientChannel!Spec
ServerToClient == ServerChannel!Spec

(* A request is answered, whichever part of it or of its response was lost   *)
(* (request_dynamic, FlushBufferedMessages, resync).                         *)
RequestsAnswered ==
    \A e \in End : \A id \in 1..(MaxSent + MaxBreaks) :
        (id \in waiting[e] /\ id \in sent[e]) ~> id \notin waiting[e]

(* remote_client.rs:1693: errors on send are ignored while the client is     *)
(* reconnecting, since the buffer has the message: it is not lost.           *)
NothingLost ==
    \A e \in End : sent[e] \subseteq received[Peer(e)] \cup Kept(e)
=============================================================================
