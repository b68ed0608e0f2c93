--------------------------- MODULE RemoteChannelProofs ---------------------------
(***************************************************************************)
(* Proofs about RemoteChannel, for any number of messages: the types, the  *)
(* invariant of a channel whose connection breaks at most once, and that   *)
(* both directions then implement ReliableChannel.                         *)
(*                                                                         *)
(* With a second break the invariant is false: the run second_break has a  *)
(* message that is lost.  So MaxBreaks <= 1 is a hypothesis of every       *)
(* theorem but the first.                                                  *)
(***************************************************************************)
EXTENDS RemoteChannel, SequenceTheorems, FiniteSetTheorems, TLAPS

(* Every nonempty set of natural numbers has a least element.                *)
LEMMA LeastElement ==
    ASSUME NEW T, T \subseteq Nat, T # {}
    PROVE  \E x \in T : \A y \in T : x <= y
<1>1. PICK x \in T : \A y \in T : ~ (<<y, x>> \in OpToRel(<, Nat))
  BY NatLessThanWellFounded, WFMin
<1>2. \A y \in T : ~ (y < x)
  BY <1>1 DEF OpToRel
<1>3. QED
  BY <1>2

(* SequencesExt!RemoveAt, by which a reply removes its request.              *)
LEMMA RemoveAtType ==
    ASSUME NEW S, NEW s \in Seq(S), NEW i \in 1..Len(s)
    PROVE  RemoveAt(s, i) \in Seq(S)
<1>1. SubSeq(s, 1, i - 1) \in Seq(S) /\ SubSeq(s, i + 1, Len(s)) \in Seq(S)
  BY SMT
<1>2. QED
  BY <1>1, ConcatProperties DEF RemoveAt

(* What is popped is the front of the buffer, up to some message k: what is  *)
(* trimmed away was acknowledged, and the rest is a suffix.                  *)
LEMMA TrimmedFacts ==
    ASSUME NEW buf \in Seq(MessageType), NEW ack \in Int
    PROVE  \E k \in 0..Len(buf) :
              /\ \A i \in 1..k : buf[i].id <= ack
              /\ Trimmed(buf, ack) \in Seq(MessageType)
              /\ Len(Trimmed(buf, ack)) = Len(buf) - k
              /\ \A i \in 1..(Len(buf) - k) : Trimmed(buf, ack)[i] = buf[i + k]
<1> DEFINE kept == {i \in 1..Len(buf) : ~ (buf[i].id <= ack)}
           popped == {i \in 1..Len(buf) : \A j \in 1..i : buf[j].id <= ack}
<1>1. \E k \in 0..Len(buf) : popped = 1..k
  <2>1. CASE kept = {}
    <3>1. popped = 1..Len(buf)
      BY <2>1, SMT
    <3>2. QED
      BY <3>1
  <2>2. CASE kept # {}
    <3>1. PICK x \in kept : \A y \in kept : x <= y
      <4>1. kept \subseteq Nat
        BY SMT
      <4>2. QED
        BY <2>2, <4>1, LeastElement
    <3>2. x \in 1..Len(buf) /\ ~ (buf[x].id <= ack)
      BY <3>1
    <3>3. \A j \in 1..(x - 1) : buf[j].id <= ack
      <4>1. SUFFICES ASSUME NEW j \in 1..(x - 1), ~ (buf[j].id <= ack)
                     PROVE  FALSE
        OBVIOUS
      <4>2. j \in kept
        BY <3>2, <4>1
      <4>3. QED
        BY <3>1, <4>2
    <3>4. popped = 1..(x - 1)
      <4>1. \A i \in popped : i \in 1..(x - 1)
        <5>1. SUFFICES ASSUME NEW i \in popped, ~ (i < x)
                       PROVE  FALSE
          BY <3>2
        <5>2. x \in 1..i
          BY <3>2, <5>1
        <5>3. QED
          BY <3>2, <5>1, <5>2
      <4>2. \A i \in 1..(x - 1) : i \in 1..Len(buf) /\ \A j \in 1..i : j \in 1..(x - 1)
        BY <3>2
      <4>3. \A i \in 1..(x - 1) : i \in popped
        BY <3>3, <4>2
      <4>4. QED
        BY <4>1, <4>3
    <3>5. QED
      BY <3>2, <3>4
  <2>3. QED
    BY <2>1, <2>2
<1>2. PICK k \in 0..Len(buf) : popped = 1..k
  BY <1>1
<1>3. Cardinality(popped) = k
  <2>1. Cardinality(1..k) = k
    BY FS_Interval
  <2>2. QED
    BY <1>2, <2>1
<1>4. \A i \in 1..k : buf[i].id <= ack
  BY <1>2
<1>5. Trimmed(buf, ack) = SubSeq(buf, k + 1, Len(buf))
  BY <1>3 DEF Trimmed
<1>6. \A i \in (k + 1)..Len(buf) : buf[i] \in MessageType
  BY SMT
<1>7. QED
  BY <1>4, <1>5, <1>6, SubSeqProperties

-----------------------------------------------------------------------------
(* Types, one lemma for each action                                          *)

LEMMA MessageTyped ==
    ASSUME NEW kind \in {"message", "request", "reply", "flush", "started", "ack"},
           NEW id \in Nat, NEW ack \in Nat \cup {None}, NEW re \in Nat \cup {None}
    PROVE  Message(kind, id, ack, re) \in MessageType
  BY DEF Message, MessageType

(* What sending changes, whatever is sent.                                   *)
SentTypes ==
    /\ nextId' \in [End -> Nat] /\ buffer' \in [End -> Seq(MessageType)]
    /\ sent' \in [End -> SUBSET Nat]
    /\ c2s' \in Seq(MessageType) /\ outgoing' \in Seq(MessageType)
    /\ arrived' \in 0..Len(c2s')
    /\ \A e \in End : nextId[e] <= nextId'[e]

LEMMA SendBufferedTypes ==
    ASSUME TypeOK, NEW e \in End, NEW kind \in {"message", "request", "reply"},
           NEW re \in Nat \cup {None}, SendBuffered(e, kind, re)
    PROVE  SentTypes
<1> DEFINE m == Message(kind, nextId[e], maxReceived[e], re)
<1>1. m \in MessageType /\ m.id = nextId[e]
  BY MessageTyped DEF TypeOK, End, Message
<1> HIDE DEF m
<1>2. nextId' \in [End -> Nat] /\ \A f \in End : nextId[f] <= nextId'[f]
  <2>1. nextId \in [End -> Nat]
    BY DEF TypeOK
  <2>2. nextId' = [nextId EXCEPT ![e] = @ + 1]
    BY Zenon DEF SendBuffered
  <2>3. nextId' \in [End -> Nat]
    BY <2>1, <2>2
  <2>4. \A f \in End : nextId[f] <= nextId'[f]
    BY <2>1, <2>2
  <2>5. QED
    BY <2>3, <2>4
<1>8. sent' \in [End -> SUBSET Nat]
  <2>1. sent' = [sent EXCEPT ![e] = @ \cup {m.id}]
    BY DEF SendBuffered, m
  <2>2. QED
    BY <1>1, <2>1 DEF TypeOK
<1>3. buffer' \in [End -> Seq(MessageType)]
  <2>1. buffer' = [buffer EXCEPT ![e] = Append(@, m)]
    BY DEF SendBuffered, m
  <2>2. Append(buffer[e], m) \in Seq(MessageType)
    BY <1>1, AppendProperties DEF TypeOK
  <2>3. QED
    BY <2>1, <2>2 DEF TypeOK
<1>4. Post(e, m) /\ UNCHANGED arrived
  BY DEF SendBuffered, m
<1>5. /\ c2s' \in Seq(MessageType) /\ outgoing' \in Seq(MessageType)
      /\ Len(c2s') >= Len(c2s)
  <2>1. /\ Append(c2s, m) \in Seq(MessageType) /\ Len(Append(c2s, m)) = Len(c2s) + 1
        /\ Append(outgoing, m) \in Seq(MessageType)
    BY <1>1, AppendProperties DEF TypeOK
  <2>2. c2s \in Seq(MessageType) /\ Len(c2s) \in Nat /\ outgoing \in Seq(MessageType)
    BY DEF TypeOK
  <2>3. \/ c2s' = c2s /\ outgoing' = outgoing
        \/ c2s' = Append(c2s, m) /\ outgoing' = outgoing
        \/ outgoing' = Append(outgoing, m) /\ c2s' = c2s
    BY <1>4 DEF Post
  <2>4. c2s' \in Seq(MessageType) /\ outgoing' \in Seq(MessageType)
    BY <2>1, <2>2, <2>3, Zenon
  <2>5. Len(c2s') = Len(c2s) \/ Len(c2s') = Len(c2s) + 1
    BY <2>1, <2>3, Zenon
  <2>6. QED
    BY <2>2, <2>4, <2>5
<1>6. arrived' \in 0..Len(c2s')
  BY <1>4, <1>5, LenProperties DEF TypeOK
<1>9. QED
  BY <1>2, <1>8, <1>3, <1>5, <1>6 DEF SentTypes

LEMMA WaitingTypes ==
    ASSUME TypeOK, SentTypes, NEW f \in End, NEW ids,
           ids \subseteq waiting[f] \cup {nextId[f]}, nextId[f] < nextId'[f] \/ ids \subseteq waiting[f]
    PROVE  ids \subseteq 0..(nextId'[f] - 1)
<1>1. nextId[f] \in Nat /\ nextId'[f] \in Nat /\ nextId[f] <= nextId'[f]
  BY DEF TypeOK, SentTypes
<1>2. waiting[f] \subseteq 0..(nextId[f] - 1)
  BY DEF TypeOK
<1>3. ASSUME NEW id \in ids PROVE id \in 0..(nextId'[f] - 1)
  BY <1>1, <1>2, <1>3
<1>4. QED
  BY <1>3

LEMMA SendTypes == ASSUME TypeOK, NEW e \in End, Send(e) PROVE TypeOK'
<1>1. SentTypes
  BY SendBufferedTypes DEF Send
<1>2. UNCHANGED <<waiting, handling, maxReceived, received, link, flush, s2c, breaks>>
  BY DEF Send, SendBuffered
<1>3. \A f \in End : waiting'[f] \subseteq 0..(nextId'[f] - 1)
  BY <1>1, <1>2, WaitingTypes
<1>4. QED
  BY <1>1, <1>2, <1>3 DEF SentTypes, TypeOK

LEMMA RequestTypes == ASSUME TypeOK, NEW e \in End, Request(e) PROVE TypeOK'
<1>1. SentTypes
  BY SendBufferedTypes DEF Request
<1>2. nextId'[e] = nextId[e] + 1
  BY DEF Request, SendBuffered, TypeOK
<1>3. UNCHANGED <<handling, maxReceived, received, link, flush, s2c, breaks>>
  BY DEF Request, SendBuffered
<1>4. waiting' = [waiting EXCEPT ![e] = @ \cup {nextId[e]}]
  BY DEF Request
<1>5. waiting' \in [End -> SUBSET Nat]
  BY <1>4 DEF TypeOK
<1>6. \A f \in End : waiting'[f] \subseteq 0..(nextId'[f] - 1)
  <2>1. SUFFICES ASSUME NEW f \in End
                 PROVE  waiting'[f] \subseteq 0..(nextId'[f] - 1)
    OBVIOUS
  <2>2. waiting'[f] \subseteq waiting[f] \cup {nextId[f]}
    BY <1>4 DEF TypeOK
  <2>3. nextId[f] < nextId'[f] \/ waiting'[f] \subseteq waiting[f]
    BY <1>2, <1>4 DEF TypeOK
  <2>4. QED
    BY <1>1, <2>2, <2>3, WaitingTypes
<1>7. QED
  BY <1>1, <1>3, <1>5, <1>6 DEF SentTypes, TypeOK

LEMMA ReplyTypes ==
    ASSUME TypeOK, NEW e \in End, NEW i \in 1..Len(handling[e]), Reply(e, i)
    PROVE  TypeOK'
<1>1. handling[e] \in Seq(Nat)
  BY DEF TypeOK
<1>2. handling[e][i] \in Nat
  BY <1>1, ElementOfSeq
<1>3. SentTypes
  BY <1>2, SendBufferedTypes DEF Reply
<1>4. handling' \in [End -> Seq(Nat)]
  BY <1>1, RemoveAtType DEF Reply, TypeOK
<1>5. UNCHANGED <<waiting, maxReceived, received, link, flush, s2c, breaks>>
  BY DEF Reply, SendBuffered
<1>6. \A f \in End : waiting'[f] \subseteq 0..(nextId'[f] - 1)
  BY <1>3, <1>5, WaitingTypes
<1>7. QED
  BY <1>3, <1>4, <1>5, <1>6 DEF SentTypes, TypeOK

(* What an end does with a message, whatever the message is.                 *)
LEMMA AcknowledgeTypes ==
    ASSUME TypeOK, NEW e \in End, NEW m \in MessageType, Acknowledge(e, m)
    PROVE  buffer' \in [End -> Seq(MessageType)]
<1>1. buffer[e] \in Seq(MessageType) /\ m.ack \in Int
  BY DEF TypeOK, MessageType, None
<1>2. Trimmed(buffer[e], m.ack) \in Seq(MessageType)
  BY <1>1, TrimmedFacts
<1>3. QED
  BY <1>2 DEF Acknowledge, TypeOK

LEMMA HandleTypes ==
    ASSUME TypeOK, NEW e \in End, NEW m \in MessageType, Handle(e, m)
    PROVE  /\ maxReceived' \in [End -> Nat] /\ handling' \in [End -> Seq(Nat)]
           /\ received' \in [End -> SUBSET Nat]
           /\ \A f \in End : waiting'[f] \subseteq waiting[f]
<1>1. m.id \in Nat
  BY DEF MessageType
<1>2. Append(handling[e], m.id) \in Seq(Nat)
  BY <1>1, AppendProperties DEF TypeOK
<1>3. handling' \in [End -> Seq(Nat)]
  BY <1>2 DEF Handle, TypeOK
<1>4. received' \in [End -> SUBSET Nat] /\ maxReceived' \in [End -> Nat]
  BY <1>1 DEF Handle, TypeOK
<1>5. \A f \in End : waiting'[f] \subseteq waiting[f]
  <2>1. DOMAIN waiting = End \/ e \notin DOMAIN waiting \/ TRUE
    OBVIOUS
  <2>2. QED
    BY DEF Handle, TypeOK
<1>6. QED
  BY <1>3, <1>4, <1>5

LEMMA WriteTypes == ASSUME TypeOK, Write PROVE TypeOK'
<1>1. /\ outgoing \in Seq(MessageType) /\ outgoing # <<>> /\ s2c \in Seq(MessageType)
      /\ s2c' = Append(s2c, Head(outgoing)) /\ outgoing' = Tail(outgoing)
  BY DEF Write, TypeOK
<1>2. Head(outgoing) \in MessageType /\ outgoing' \in Seq(MessageType)
  BY <1>1, HeadTailProperties
<1>3. s2c' \in Seq(MessageType)
  BY <1>1, <1>2, AppendProperties
<1>4. UNCHANGED <<ends, link, flush, c2s, arrived, breaks>>
  BY DEF Write
<1>5. QED
  BY <1>2, <1>3, <1>4 DEF TypeOK, ends

LEMMA ReceiveAtClientTypes == ASSUME TypeOK, ReceiveAtClient PROVE TypeOK'
<1> DEFINE m == Head(s2c)
<1>1. /\ s2c \in Seq(MessageType) /\ s2c # <<>> /\ s2c' = Tail(s2c)
      /\ Acknowledge("client", m) /\ Handle("client", m)
      /\ Resync(m) \/ UNCHANGED <<link, flush, c2s>>
      /\ UNCHANGED <<nextId, sent, arrived, outgoing, breaks>>
  BY DEF ReceiveAtClient, TypeOK
<1>2. m \in MessageType /\ s2c' \in Seq(MessageType)
  BY <1>1, HeadTailProperties
<1> HIDE DEF m
<1>3. "client" \in End
  BY DEF End
<1>4. buffer' \in [End -> Seq(MessageType)]
  BY <1>1, <1>2, <1>3, AcknowledgeTypes
<1>5. /\ maxReceived' \in [End -> Nat] /\ handling' \in [End -> Seq(Nat)]
      /\ received' \in [End -> SUBSET Nat]
      /\ \A f \in End : waiting'[f] \subseteq waiting[f]
  BY <1>1, <1>2, <1>3, HandleTypes
<1>6. /\ c2s' \in Seq(MessageType) /\ arrived' \in 0..Len(c2s')
      /\ link' \in {"up", "down", "resync"} /\ flush' \in Nat \cup {None}
  <2>1. c2s \in Seq(MessageType) /\ buffer["client"] \in Seq(MessageType)
        /\ arrived \in 0..Len(c2s) /\ arrived' = arrived
    BY <1>1, <1>3 DEF TypeOK
  <2>2. CASE Resync(m)
    <3>1. c2s' = c2s \o buffer["client"] /\ link' = "up" /\ flush' = None
      BY <2>2 DEF Resync
    <3>2. c2s' \in Seq(MessageType) /\ Len(c2s') = Len(c2s) + Len(buffer["client"])
      BY <2>1, <3>1, ConcatProperties
    <3>3. Len(c2s) \in Nat /\ Len(buffer["client"]) \in Nat
      BY <2>1, LenProperties
    <3>4. arrived' \in 0..Len(c2s')
      BY <2>1, <3>2, <3>3
    <3>5. QED
      BY <3>1, <3>2, <3>4
  <2>3. CASE UNCHANGED <<link, flush, c2s>>
    BY <2>1, <2>3 DEF TypeOK
  <2>4. QED
    BY <1>1, <2>2, <2>3
<1>7. waiting' \in [End -> SUBSET Nat]
  BY <1>1, <1>3 DEF Handle, TypeOK
<1>8. QED
  BY <1>1, <1>2, <1>4, <1>5, <1>6, <1>7 DEF TypeOK

LEMMA AnswerTypes ==
    ASSUME TypeOK, NEW m \in MessageType, NEW before \in Seq(MessageType), Answer(m, before)
    PROVE  /\ outgoing' \in Seq(MessageType) /\ nextId' \in [End -> Nat]
           /\ \A f \in End : nextId[f] <= nextId'[f]
<1> DEFINE ack == Message("ack", nextId["server"], None, m.id)
<1>1. "server" \in End /\ m.id \in Nat
  BY DEF End, MessageType
<1>2. ack \in MessageType
  BY <1>1, MessageTyped DEF TypeOK
<1>3. outgoing' = Append(outgoing \o before, ack)
  BY DEF Answer
<1> HIDE DEF ack
<1>4. outgoing \o before \in Seq(MessageType)
  BY ConcatProperties DEF TypeOK
<1>5. outgoing' \in Seq(MessageType)
  BY <1>2, <1>3, <1>4, AppendProperties
<1>6. nextId' = [nextId EXCEPT !["server"] = @ + 1]
  BY DEF Answer
<1>7. nextId \in [End -> Nat]
  BY DEF TypeOK
<1>8. nextId' \in [End -> Nat] /\ \A f \in End : nextId[f] <= nextId'[f]
  BY <1>1, <1>6, <1>7
<1>9. QED
  BY <1>5, <1>8

LEMMA ReceiveAtServerTypes == ASSUME TypeOK, ReceiveAtServer PROVE TypeOK'
<1> DEFINE m == Head(c2s)
<1>1. /\ c2s \in Seq(MessageType) /\ c2s # <<>> /\ c2s' = Tail(c2s)
      /\ arrived' = IF arrived > 0 THEN arrived - 1 ELSE 0
      /\ Acknowledge("server", m)
      /\ \/ FlushBuffer(m) \/ RemoteStarted(m)
         \/ Handle("server", m) /\ UNCHANGED <<nextId, outgoing>>
      /\ UNCHANGED <<sent, link, flush, s2c, breaks>>
  BY DEF ReceiveAtServer, TypeOK
<1>2. m \in MessageType /\ c2s' \in Seq(MessageType) /\ Len(c2s') = Len(c2s) - 1
  BY <1>1, HeadTailProperties
<1> HIDE DEF m
<1>3. "server" \in End
  BY DEF End
<1>4. buffer' \in [End -> Seq(MessageType)]
  BY <1>1, <1>2, <1>3, AcknowledgeTypes
<1>5. arrived' \in 0..Len(c2s')
  <2>1. arrived \in 0..Len(c2s) /\ Len(c2s) \in Nat /\ Len(c2s) # 0
    BY <1>1, EmptySeq, LenProperties DEF TypeOK
  <2>2. QED
    BY <1>1, <1>2, <2>1
<1>6. CASE \E before \in Seq(MessageType) : Answer(m, before)
  <2>1. PICK before \in Seq(MessageType) : Answer(m, before)
    BY <1>6
  <2>2. /\ outgoing' \in Seq(MessageType) /\ nextId' \in [End -> Nat]
        /\ \A f \in End : nextId[f] <= nextId'[f]
    BY <1>2, <2>1, AnswerTypes
  <2>3. UNCHANGED <<maxReceived, waiting, handling, received>>
    BY <2>1 DEF Answer
  <2>4. \A f \in End : waiting'[f] \subseteq 0..(nextId'[f] - 1)
    <3>1. SUFFICES ASSUME NEW f \in End
                   PROVE  waiting'[f] \subseteq 0..(nextId'[f] - 1)
      OBVIOUS
    <3>2. nextId[f] \in Nat /\ nextId'[f] \in Nat /\ nextId[f] <= nextId'[f]
          /\ waiting'[f] = waiting[f] /\ waiting[f] \subseteq 0..(nextId[f] - 1)
      BY <2>2, <2>3 DEF TypeOK
    <3>3. QED
      BY <3>2
  <2>5. QED
    BY <1>1, <1>2, <1>4, <1>5, <2>2, <2>3, <2>4 DEF TypeOK
<1>7. CASE Handle("server", m) /\ UNCHANGED <<nextId, outgoing>>
  <2>1. /\ maxReceived' \in [End -> Nat] /\ handling' \in [End -> Seq(Nat)]
        /\ received' \in [End -> SUBSET Nat]
        /\ \A f \in End : waiting'[f] \subseteq waiting[f]
    BY <1>2, <1>3, <1>7, HandleTypes
  <2>2. waiting' \in [End -> SUBSET Nat]
    BY <1>3, <1>7 DEF Handle, TypeOK
  <2>3. QED
    BY <1>1, <1>2, <1>4, <1>5, <1>7, <2>1, <2>2 DEF TypeOK
<1>8. FlushBuffer(m) \/ RemoteStarted(m) => \E before \in Seq(MessageType) : Answer(m, before)
  <2>1. buffer["server"] \in Seq(MessageType) /\ m.ack \in Int
    BY <1>2, <1>3 DEF TypeOK, MessageType, None
  <2>2. Trimmed(buffer["server"], m.ack) \in Seq(MessageType) /\ <<>> \in Seq(MessageType)
    BY <2>1, TrimmedFacts, EmptySeq
  <2>3. QED
    BY <2>2 DEF FlushBuffer, RemoteStarted
<1>9. QED
  BY <1>1, <1>6, <1>7, <1>8

LEMMA PrefixType ==
    ASSUME NEW S, NEW s \in Seq(S), NEW i \in 0..Len(s)
    PROVE  /\ SubSeq(s, 1, i) \in Seq(S) /\ Len(SubSeq(s, 1, i)) = i
           /\ \A j \in 1..i : SubSeq(s, 1, i)[j] = s[j]
<1>1. \A j \in 1..i : s[j] \in S
  BY ElementOfSeq, LenProperties
<1>2. i \in Int /\ 1 \in Int
  BY LenProperties
<1>3. /\ SubSeq(s, 1, i) \in Seq(S)
      /\ Len(SubSeq(s, 1, i)) = IF 1 <= i THEN i - 1 + 1 ELSE 0
      /\ \A j \in 1..(i - 1 + 1) : SubSeq(s, 1, i)[j] = s[1 + j - 1]
  BY <1>1, <1>2, SubSeqProperties
<1>4. QED
  BY <1>3, LenProperties

LEMMA BreakTypes == ASSUME TypeOK, Break PROVE TypeOK'
<1>1. /\ c2s \in Seq(MessageType) /\ s2c \in Seq(MessageType) /\ breaks \in 0..MaxBreaks
      /\ MaxBreaks \in Nat /\ arrived \in 0..Len(c2s) /\ Len(c2s) \in Nat
  BY ChannelAssumption, LenProperties DEF TypeOK
<1>2. PICK i \in arrived..Len(c2s) : c2s' = SubSeq(c2s, 1, i) /\ arrived' = i
  BY DEF Break
<1>3. PICK k \in 0..Len(s2c) : s2c' = SubSeq(s2c, 1, k)
  BY DEF Break
<1>4. i \in 0..Len(c2s)
  BY <1>1
<1>5. c2s' \in Seq(MessageType) /\ Len(c2s') = i
  BY <1>1, <1>2, <1>4, PrefixType
<1>6. s2c' \in Seq(MessageType)
  BY <1>1, <1>3, PrefixType
<1>7. /\ breaks' \in 0..MaxBreaks /\ link' = "down" /\ flush' = None
      /\ UNCHANGED <<ends, outgoing>>
  BY <1>1 DEF Break
<1>8. arrived' \in 0..Len(c2s')
  BY <1>2, <1>4, <1>5
<1>9. QED
  BY <1>5, <1>6, <1>7, <1>8 DEF TypeOK, ends

LEMMA ReconnectTypes == ASSUME TypeOK, Reconnect PROVE TypeOK'
<1> DEFINE f == Message("flush", flush', maxReceived["client"], None)
           started == Message("started", 0, None, None)
<1>1. /\ flush' = nextId["client"] /\ link' = "resync" /\ s2c' = <<>>
      /\ nextId' = [nextId EXCEPT !["client"] = @ + 1]
      /\ waiting' = [waiting EXCEPT !["client"] = @ \cup {flush'}]
      /\ c2s' = c2s \o <<f, started>>
      /\ UNCHANGED <<maxReceived, buffer, handling, sent, received, arrived, outgoing, breaks>>
  BY DEF Reconnect
<1>2. "client" \in End /\ nextId["client"] \in Nat /\ maxReceived["client"] \in Nat
  BY DEF TypeOK, End
<1>3. f \in MessageType /\ started \in MessageType
  BY <1>1, <1>2, MessageTyped
<1> HIDE DEF f, started
<1>4. <<f, started>> \in Seq(MessageType) /\ Len(<<f, started>>) = 2
  BY <1>3
<1>5. c2s' \in Seq(MessageType) /\ Len(c2s') = Len(c2s) + 2
  BY <1>1, <1>4, ConcatProperties DEF TypeOK
<1>6. arrived' \in 0..Len(c2s')
  BY <1>1, <1>5, LenProperties DEF TypeOK
<1>7. s2c' \in Seq(MessageType)
  BY <1>1, EmptySeq
<1>8. nextId' \in [End -> Nat] /\ waiting' \in [End -> SUBSET Nat]
  BY <1>1, <1>2 DEF TypeOK
<1>9. \A e \in End : waiting'[e] \subseteq 0..(nextId'[e] - 1)
  <2>1. SUFFICES ASSUME NEW e \in End PROVE waiting'[e] \subseteq 0..(nextId'[e] - 1)
    OBVIOUS
  <2>2. nextId[e] \in Nat /\ waiting[e] \subseteq 0..(nextId[e] - 1)
    BY DEF TypeOK
  <2>3. CASE e = "client"
    BY <1>1, <2>2, <2>3 DEF TypeOK
  <2>4. CASE e # "client"
    BY <1>1, <2>2, <2>4 DEF TypeOK
  <2>5. QED
    BY <2>3, <2>4
<1>10. QED
  BY <1>1, <1>2, <1>5, <1>6, <1>7, <1>8, <1>9 DEF TypeOK

LEMMA InitTypes == Init => TypeOK
<1>1. <<>> \in Seq(MessageType) /\ <<>> \in Seq(Nat) /\ Len(<<>>) = 0
  BY EmptySeq
<1>2. QED
  BY <1>1, ChannelAssumption DEF Init, TypeOK, End, None

(* Every variable keeps its type, however often the connection breaks, and   *)
(* ids in use were drawn from next_message_id (ChannelClient).               *)
THEOREM ChannelTypes == Spec => []TypeOK
<1>1. Init => TypeOK
  BY InitTypes
<1>2. TypeOK /\ [Next]_vars => TypeOK'
  <2>1. SUFFICES ASSUME TypeOK, [Next]_vars PROVE TypeOK'
    OBVIOUS
  <2>2. CASE UNCHANGED vars
    BY <2>1, <2>2 DEF TypeOK, vars, ends, wire
  <2>3. CASE \E e \in End : SomeReply(e)
    BY <2>1, <2>3, ReplyTypes DEF SomeReply
  <2>4. QED
    BY <2>1, <2>2, <2>3, SendTypes, RequestTypes, WriteTypes, ReceiveAtClientTypes,
       ReceiveAtServerTypes, BreakTypes, ReconnectTypes DEF Next
<1>3. QED
  BY <1>1, <1>2, PTL DEF Spec
-----------------------------------------------------------------------------
(* The invariant of a channel whose connection breaks at most once.          *)

Buffered == {"message", "request", "reply"}

Line == s2c \o outgoing   \* what is on its way from the server to the client

HasFlush(messages) == \E i \in 1..Len(messages) : messages[i].kind = "flush"

(* The server has answered the Flush of the reconnect: from here on what the *)
(* server sent is on its way again.                                          *)
FlushHandled == breaks > 0 /\ link # "down" /\ ~ HasFlush(c2s)

FlushAck(m) == m.kind = "ack" /\ m.re = flush

Missing(e) == sent[e] \ received[Peer(e)]

(* The numbers that acknowledge nothing of e which is missing.               *)
SoundAcks(e) == {a \in Int : \A id \in Missing(e) : id > a}

ClientMessages ==
    {m \in MessageType :
        /\ m.id < nextId["client"] /\ m.ack < nextId["server"]
        /\ \/ m.kind \in Buffered /\ m.id \in sent["client"]
           \/ m.kind \in {"flush", "started"} /\ m.id \notin sent["client"]}

ServerMessages ==
    {m \in MessageType :
        /\ m.id < nextId["server"] /\ m.ack < nextId["client"]
        /\ \/ m.kind \in Buffered /\ m.id \in sent["server"]
           \/ m.kind = "ack" /\ m.id \notin sent["server"] /\ m.ack = None /\ m.re # None}

(* Ids were drawn before they are used or acknowledged, and each names one   *)
(* message.                                                                  *)
IdsInv ==
    /\ \A e \in End : nextId[e] >= 1 /\ sent[e] \subseteq 1..(nextId[e] - 1)
    /\ maxReceived["client"] < nextId["server"] /\ maxReceived["server"] < nextId["client"]
    /\ received["client"] \subseteq sent["server"] /\ received["server"] \subseteq sent["client"]
    /\ \A i \in 1..Len(buffer["client"]) :
          buffer["client"][i] \in ClientMessages /\ buffer["client"][i].kind \in Buffered
    /\ \A i \in 1..Len(buffer["server"]) :
          buffer["server"][i] \in ServerMessages /\ buffer["server"][i].kind \in Buffered
    /\ \A i \in 1..Len(c2s) : c2s[i] \in ClientMessages
    /\ \A i \in 1..Len(Line) : Line[i] \in ServerMessages

(* One Flush, on its way while the client resyncs, or answered.              *)
PhaseInv ==
    /\ breaks = 0 => link = "up"
    /\ link # "resync" => flush = None /\ ~ HasFlush(c2s)
    /\ \A i \in 1..Len(c2s) : c2s[i].kind = "flush" =>
          c2s[i].id = flush /\ \A j \in 1..Len(c2s) : c2s[j].kind = "flush" => i = j
    /\ ~ FlushHandled => \A i \in 1..Len(c2s) : c2s[i].kind = "started" =>
          \E j \in 1..(i - 1) : c2s[j].kind = "flush"
    /\ ~ FlushHandled => \A i \in 1..Len(Line) : Line[i].kind # "ack"
    /\ FlushHandled /\ link = "resync" => \E i \in 1..Len(Line) : FlushAck(Line[i])

(* What the client sent and the server has not handled is on its way while   *)
(* the connection is up, and in the buffer when it must be sent again.       *)
ClientKept ==
    /\ link = "up" => Missing("client") \subseteq Ids(c2s)
    /\ breaks = 0 \/ link # "up" => Missing("client") \subseteq Ids(buffer["client"])

(* The server acknowledges nothing that is missing, until it has answered    *)
(* the Flush; the client handles that answer first, and sends again.         *)
ServerAcksSound ==
    /\ ~ FlushHandled =>
          /\ maxReceived["server"] \in SoundAcks("client")
          /\ \A i \in 1..Len(buffer["server"]) : buffer["server"][i].ack \in SoundAcks("client")
          /\ \A i \in 1..Len(Line) : Line[i].ack \in SoundAcks("client")
    /\ FlushHandled /\ link = "resync" =>
          \A i \in 1..Len(Line) :
             (\A j \in 1..i : ~ FlushAck(Line[j])) => Line[i].ack \in SoundAcks("client")

(* In front of the Flush messages come in the order of their ids, and none   *)
(* is left out.                                                              *)
ClientInOrder ==
    ~ FlushHandled =>
        \A i \in 1..Len(c2s) : (\A j \in 1..i : c2s[j].kind # "flush") =>
            \A id \in Missing("client") : id <= c2s[i].id => \E j \in 1..i : c2s[j].id = id

ServerKept ==
    /\ breaks = 0 \/ FlushHandled => Missing("server") \subseteq Ids(Line)
    /\ ~ FlushHandled => Missing("server") \subseteq Ids(buffer["server"])

(* The Flush itself, and what is in front of it, acknowledge nothing that is *)
(* missing.                                                                  *)
ClientAcksSound ==
    /\ ~ FlushHandled => \A i \in 1..Len(c2s) :
          (\A j \in 1..(i - 1) : c2s[j].kind # "flush") => c2s[i].ack \in SoundAcks("server")
    /\ breaks = 0 \/ link = "down" => maxReceived["client"] \in SoundAcks("server")

(* How much of the line is without gaps: what the old connection still       *)
(* delivers, but not what the server writes to a new one.                    *)
Whole == IF breaks = 0 THEN Len(Line) ELSE IF link = "down" THEN Len(s2c) ELSE 0

ServerInOrder ==
    \A i \in 1..Whole : \A id \in Missing("server") :
        id <= Line[i].id => \E j \in 1..i : Line[j].id = id

ChannelInv ==
    /\ TypeOK /\ IdsInv /\ PhaseInv
    /\ ClientKept /\ ServerAcksSound /\ ClientInOrder
    /\ ServerKept /\ ClientAcksSound /\ ServerInOrder
-----------------------------------------------------------------------------
(* Sequences of messages, and what their ids are                             *)

LEMMA AppendMessage ==
    ASSUME NEW s \in Seq(MessageType), NEW m \in MessageType
    PROVE  /\ Append(s, m) \in Seq(MessageType) /\ Len(Append(s, m)) = Len(s) + 1
           /\ Len(s) \in Nat
           /\ \A i \in 1..Len(s) : Append(s, m)[i] = s[i]
           /\ Append(s, m)[Len(s) + 1] = m
           /\ Ids(Append(s, m)) = Ids(s) \cup {m.id}
<1>1. /\ Append(s, m) \in Seq(MessageType) /\ Len(Append(s, m)) = Len(s) + 1
      /\ Len(s) \in Nat
      /\ \A i \in 1..Len(s) : Append(s, m)[i] = s[i]
      /\ Append(s, m)[Len(s) + 1] = m
  BY AppendProperties, LenProperties
<1> DEFINE t == Append(s, m)
<1> HIDE DEF t
<1>2. /\ Len(t) = Len(s) + 1 /\ Len(s) \in Nat
      /\ \A i \in 1..Len(s) : t[i] = s[i]
      /\ t[Len(s) + 1] = m
  BY <1>1 DEF t
<1>3. Ids(t) = Ids(s) \cup {m.id}
  BY <1>2 DEF Ids
<1>4. QED
  BY <1>1, <1>3 DEF t

LEMMA TailMessages ==
    ASSUME NEW s \in Seq(MessageType), s # <<>>
    PROVE  /\ Tail(s) \in Seq(MessageType) /\ Len(Tail(s)) = Len(s) - 1
           /\ Len(s) \in Nat /\ Len(s) >= 1 /\ s[1] \in MessageType /\ Head(s) = s[1]
           /\ \A i \in 1..(Len(s) - 1) : Tail(s)[i] = s[i + 1]
           /\ Ids(s) = Ids(Tail(s)) \cup {s[1].id}
<1>1. /\ Tail(s) \in Seq(MessageType) /\ Len(Tail(s)) = Len(s) - 1
      /\ \A i \in 1..(Len(s) - 1) : Tail(s)[i] = s[i + 1]
  BY HeadTailProperties
<1>2. Len(s) \in Nat /\ Len(s) >= 1
  BY EmptySeq, LenProperties
<1>3. s[1] \in MessageType /\ Head(s) = s[1]
  BY <1>2, ElementOfSeq, SMT
<1> DEFINE t == Tail(s)
<1> HIDE DEF t
<1>4. Len(t) = Len(s) - 1 /\ \A i \in 1..(Len(s) - 1) : t[i] = s[i + 1]
  BY <1>1 DEF t
<1>5. ASSUME NEW i \in 1..Len(s) PROVE i = 1 \/ (i - 1 \in 1..Len(t) /\ t[i - 1] = s[i])
  BY <1>2, <1>4
<1>6. Ids(s) = Ids(t) \cup {s[1].id}
  <2>1. Ids(s) \subseteq Ids(t) \cup {s[1].id}
    BY <1>5 DEF Ids
  <2>2. Ids(t) \subseteq Ids(s)
    <3>1. \A i \in 1..Len(t) : i + 1 \in 1..Len(s) /\ t[i] = s[i + 1]
      BY <1>2, <1>4
    <3>2. QED
      BY <3>1 DEF Ids
  <2>3. s[1].id \in Ids(s)
    BY <1>2 DEF Ids
  <2>4. QED
    BY <2>1, <2>2, <2>3
<1>7. QED
  BY <1>1, <1>2, <1>3, <1>6 DEF t

(* Messages that are queued in three places.                                 *)
LEMMA JoinAssociative ==
    ASSUME NEW s \in Seq(MessageType), NEW t \in Seq(MessageType), NEW w \in Seq(MessageType)
    PROVE  (s \o t) \o w = s \o (t \o w)
  BY ConcatAssociative

LEMMA JoinMessages ==
    ASSUME NEW s \in Seq(MessageType), NEW t \in Seq(MessageType)
    PROVE  /\ s \o t \in Seq(MessageType) /\ Len(s \o t) = Len(s) + Len(t)
           /\ Len(s) \in Nat /\ Len(t) \in Nat
           /\ \A i \in 1..Len(s) : (s \o t)[i] = s[i]
           /\ \A i \in 1..Len(t) : (s \o t)[Len(s) + i] = t[i]
           /\ Ids(s \o t) = Ids(s) \cup Ids(t)
<1> DEFINE u == s \o t
<1>1. Len(s) \in Nat /\ Len(t) \in Nat
  BY LenProperties
<1>2. /\ u \in Seq(MessageType) /\ Len(u) = Len(s) + Len(t)
      /\ \A i \in 1..(Len(s) + Len(t)) : u[i] = IF i <= Len(s) THEN s[i] ELSE t[i - Len(s)]
  BY ConcatProperties
<1> HIDE DEF u
<1>3. \A i \in 1..Len(s) : u[i] = s[i]
  BY <1>1, <1>2
<1>4. \A i \in 1..Len(t) : u[Len(s) + i] = t[i]
  <2>1. SUFFICES ASSUME NEW i \in 1..Len(t) PROVE u[Len(s) + i] = t[i]
    OBVIOUS
  <2>2. Len(s) + i \in 1..(Len(s) + Len(t)) /\ ~ (Len(s) + i <= Len(s)) /\ (Len(s) + i) - Len(s) = i
    BY <1>1
  <2>3. QED
    BY <1>2, <2>2
<1>5. Ids(u) = Ids(s) \cup Ids(t)
  <2>1. ASSUME NEW i \in 1..Len(u)
        PROVE  i \in 1..Len(s) \/ \E j \in 1..Len(t) : i = Len(s) + j
    <3>1. i \in 1..Len(s) \/ (i - Len(s) \in 1..Len(t) /\ i = Len(s) + (i - Len(s)))
      BY <1>1, <1>2
    <3>2. QED
      BY <3>1
  <2>2. Ids(u) \subseteq Ids(s) \cup Ids(t)
    <3>1. SUFFICES ASSUME NEW i \in 1..Len(u) PROVE u[i].id \in Ids(s) \cup Ids(t)
      BY DEF Ids
    <3>2. CASE i \in 1..Len(s)
      BY <1>3, <3>2 DEF Ids
    <3>3. CASE \E j \in 1..Len(t) : i = Len(s) + j
      BY <1>4, <3>3 DEF Ids
    <3>4. QED
      BY <2>1, <3>2, <3>3
  <2>3. \A i \in 1..Len(s) : i \in 1..Len(u)
    BY <1>1, <1>2
  <2>4. \A i \in 1..Len(t) : Len(s) + i \in 1..Len(u)
    BY <1>1, <1>2
  <2>5. Ids(s) \subseteq Ids(u) /\ Ids(t) \subseteq Ids(u)
    BY <1>3, <1>4, <2>3, <2>4 DEF Ids
  <2>6. QED
    BY <2>2, <2>5
<1>6. QED
  BY <1>1, <1>2, <1>3, <1>4, <1>5 DEF u

(* Trimming by an ack drops only acknowledged messages.                      *)
LEMMA TrimmedMessages ==
    ASSUME NEW buf \in Seq(MessageType), NEW ack \in Int
    PROVE  /\ Trimmed(buf, ack) \in Seq(MessageType)
           /\ \A i \in 1..Len(Trimmed(buf, ack)) :
                 \E j \in 1..Len(buf) : Trimmed(buf, ack)[i] = buf[j]
           /\ Ids(Trimmed(buf, ack)) \subseteq Ids(buf)
           /\ \A id \in Ids(buf) : id > ack => id \in Ids(Trimmed(buf, ack))
<1>1. PICK k \in 0..Len(buf) :
              /\ \A i \in 1..k : buf[i].id <= ack
              /\ Trimmed(buf, ack) \in Seq(MessageType)
              /\ Len(Trimmed(buf, ack)) = Len(buf) - k
              /\ \A i \in 1..(Len(buf) - k) : Trimmed(buf, ack)[i] = buf[i + k]
  BY TrimmedFacts
<1> DEFINE t == Trimmed(buf, ack)
<1> HIDE DEF t
<1>2. /\ t \in Seq(MessageType) /\ Len(t) = Len(buf) - k /\ Len(buf) \in Nat /\ k \in 0..Len(buf)
      /\ \A i \in 1..(Len(buf) - k) : t[i] = buf[i + k]
      /\ \A i \in 1..k : buf[i].id <= ack
  BY <1>1, LenProperties DEF t
<1>3. ASSUME NEW i \in 1..Len(t) PROVE i + k \in 1..Len(buf) /\ t[i] = buf[i + k]
  BY <1>2
<1>4. Ids(t) \subseteq Ids(buf)
  BY <1>3 DEF Ids
<1>5. ASSUME NEW id \in Ids(buf), id > ack PROVE id \in Ids(t)
  <2>1. PICK i \in 1..Len(buf) : id = buf[i].id
    BY DEF Ids
  <2>2. buf[i] \in MessageType
    BY ElementOfSeq
  <2>3. id \in Nat
    BY <2>1, <2>2 DEF MessageType
  <2>4. ~ (i \in 1..k)
    BY <1>2, <1>5, <2>1, <2>3
  <2>5. i - k \in 1..Len(t) /\ (i - k) + k = i
    BY <1>2, <2>4
  <2>6. t[i - k] = buf[i]
    BY <1>3, <2>5
  <2>7. QED
    BY <2>1, <2>5, <2>6 DEF Ids
<1>6. QED
  BY <1>2, <1>3, <1>4, <1>5 DEF t

(* The two queues on the way to the client, read as one.                     *)
LEMMA LineFacts ==
    ASSUME TypeOK
    PROVE  /\ Line \in Seq(MessageType) /\ Len(Line) = Len(s2c) + Len(outgoing)
           /\ Len(s2c) \in Nat /\ Len(outgoing) \in Nat
           /\ \A i \in 1..Len(s2c) : Line[i] = s2c[i]
           /\ \A i \in 1..Len(outgoing) : Line[Len(s2c) + i] = outgoing[i]
  BY JoinMessages DEF TypeOK, Line

(* Handling a message makes more acknowledgements sound, sending one fewer.  *)
LEMMA SoundGrow ==
    ASSUME NEW e, Missing(e)' \subseteq Missing(e)
    PROVE  SoundAcks(e) \subseteq SoundAcks(e)'
  BY DEF SoundAcks

LEMMA SoundWhenSent ==
    ASSUME NEW e, NEW n \in Int, Missing(e)' \subseteq Missing(e) \cup {n},
           NEW a \in SoundAcks(e), a < n
    PROVE  a \in SoundAcks(e)'
  BY DEF SoundAcks
-----------------------------------------------------------------------------
(* The invariant through the steps that send                                 *)

(* What is common to sending from either end.                                *)
SentBy(e, m) ==
    /\ m.kind \in Buffered /\ m.id = nextId[e] /\ m.ack = maxReceived[e]
    /\ m.id \in Nat \ {0} /\ m.id \notin sent[e]
    /\ nextId' = [nextId EXCEPT ![e] = @ + 1]
    /\ buffer' = [buffer EXCEPT ![e] = Append(@, m)]
    /\ sent' = [sent EXCEPT ![e] = @ \cup {m.id}]
    /\ Post(e, m)
    /\ UNCHANGED <<maxReceived, received, link, flush, s2c, arrived, breaks>>

LEMMA SendBufferedEffect ==
    ASSUME ChannelInv, NEW e \in End, NEW kind \in Buffered,
           NEW re \in Nat \cup {None}, SendBuffered(e, kind, re)
    PROVE  \E m \in MessageType : SentBy(e, m)
<1> DEFINE m == Message(kind, nextId[e], maxReceived[e], re)
<1>1. /\ m \in MessageType /\ m.id = nextId[e] /\ m.kind = kind /\ m.ack = maxReceived[e]
  <2>1. nextId[e] \in Nat /\ maxReceived[e] \in Nat
    BY DEF ChannelInv, TypeOK
  <2>2. QED
    BY <2>1, MessageTyped DEF Message, Buffered
<1>2. nextId[e] >= 1 /\ sent[e] \subseteq 1..(nextId[e] - 1) /\ nextId[e] \in Nat
  BY DEF ChannelInv, IdsInv, TypeOK
<1>3. /\ nextId' = [nextId EXCEPT ![e] = @ + 1]
      /\ buffer' = [buffer EXCEPT ![e] = Append(@, m)]
      /\ sent' = [sent EXCEPT ![e] = @ \cup {m.id}]
      /\ Post(e, m)
      /\ UNCHANGED <<maxReceived, received, link, flush, s2c, arrived, breaks>>
  BY DEF SendBuffered
<1> HIDE DEF m
<1>4. m.id \in Nat \ {0} /\ m.id \notin sent[e]
  BY <1>1, <1>2
<1>5. QED
  BY <1>1, <1>3, <1>4 DEF SentBy

(* Messages stay what they are when another one is sent.                     *)
LEMMA MessagesGrow ==
    ASSUME ChannelInv, NEW e \in End, NEW n \in Nat, n = nextId[e],
           nextId' = [nextId EXCEPT ![e] = @ + 1],
           sent' = [sent EXCEPT ![e] = @ \cup {n}] \/ sent' = sent
    PROVE  ClientMessages \subseteq ClientMessages' /\ ServerMessages \subseteq ServerMessages'
<1>1. nextId["client"] \in Nat /\ nextId["server"] \in Nat /\ e \in {"client", "server"}
  BY DEF ChannelInv, TypeOK, End
<1>2. /\ nextId'["client"] >= nextId["client"] /\ nextId'["server"] >= nextId["server"]
      /\ nextId'["client"] \in Nat /\ nextId'["server"] \in Nat
  <2>1. nextId \in [{"client", "server"} -> Nat]
    BY DEF ChannelInv, TypeOK, End
  <2>2. QED
    BY <1>1, <2>1
<1>3. /\ sent["client"] \subseteq sent'["client"] /\ sent'["client"] \subseteq sent["client"] \cup {nextId["client"]}
      /\ sent["server"] \subseteq sent'["server"] /\ sent'["server"] \subseteq sent["server"] \cup {nextId["server"]}
  <2>1. sent \in [{"client", "server"} -> SUBSET Nat]
    BY DEF ChannelInv, TypeOK, End
  <2>2. QED
    BY <1>1, <2>1
<1>4. ASSUME NEW m \in ClientMessages PROVE m \in ClientMessages'
  <2>1. /\ m \in MessageType /\ m.id < nextId["client"] /\ m.ack < nextId["server"]
        /\ \/ m.kind \in Buffered /\ m.id \in sent["client"]
           \/ m.kind \in {"flush", "started"} /\ m.id \notin sent["client"]
    BY DEF ClientMessages
  <2>2. m.id \in Nat /\ m.ack \in Int
    BY <2>1 DEF MessageType, None
  <2>3. m.id < nextId'["client"] /\ m.ack < nextId'["server"] /\ m.id # nextId["client"]
    BY <1>1, <1>2, <2>1, <2>2
  <2>4. QED
    BY <1>3, <2>1, <2>3 DEF ClientMessages
<1>5. ASSUME NEW m \in ServerMessages PROVE m \in ServerMessages'
  <2>1. /\ m \in MessageType /\ m.id < nextId["server"] /\ m.ack < nextId["client"]
        /\ \/ m.kind \in Buffered /\ m.id \in sent["server"]
           \/ m.kind = "ack" /\ m.id \notin sent["server"] /\ m.ack = None /\ m.re # None
    BY DEF ServerMessages
  <2>2. m.id \in Nat /\ m.ack \in Int
    BY <2>1 DEF MessageType, None
  <2>3. m.id < nextId'["server"] /\ m.ack < nextId'["client"] /\ m.id # nextId["server"]
    BY <1>1, <1>2, <2>1, <2>2
  <2>4. QED
    BY <1>3, <2>1, <2>3 DEF ServerMessages
<1>6. QED
  BY <1>4, <1>5

LEMMA ClientSends ==
    ASSUME ChannelInv, TypeOK', NEW m \in MessageType, SentBy("client", m)
    PROVE  ChannelInv'
<1>1. /\ TypeOK /\ IdsInv /\ PhaseInv
      /\ ClientKept /\ ServerAcksSound /\ ClientInOrder
      /\ ServerKept /\ ClientAcksSound /\ ServerInOrder
  BY DEF ChannelInv
<1>2. /\ m.kind \in Buffered /\ m.id = nextId["client"] /\ m.ack = maxReceived["client"]
      /\ m.id \in Nat \ {0} /\ m.id \notin sent["client"]
      /\ nextId' = [nextId EXCEPT !["client"] = @ + 1]
      /\ UNCHANGED <<maxReceived, received, link, flush, s2c, arrived, breaks, outgoing>>
  BY DEF SentBy, Post
<1>3. /\ buffer'["client"] = Append(buffer["client"], m) /\ buffer'["server"] = buffer["server"]
      /\ sent' = [sent EXCEPT !["client"] = @ \cup {m.id}]
      /\ sent'["client"] = sent["client"] \cup {m.id} /\ sent'["server"] = sent["server"]
      /\ nextId'["client"] = nextId["client"] + 1 /\ nextId'["server"] = nextId["server"]
      /\ buffer["client"] \in Seq(MessageType) /\ buffer["server"] \in Seq(MessageType)
      /\ c2s \in Seq(MessageType) /\ Len(c2s) \in Nat
      /\ nextId["client"] \in Nat /\ nextId["server"] \in Nat
      /\ maxReceived["client"] \in Nat /\ maxReceived["server"] \in Nat
  <2>1. /\ buffer' = [buffer EXCEPT !["client"] = Append(@, m)]
        /\ sent' = [sent EXCEPT !["client"] = @ \cup {m.id}]
        /\ nextId' = [nextId EXCEPT !["client"] = @ + 1]
    BY DEF SentBy
  <2>2. /\ buffer \in [End -> Seq(MessageType)] /\ sent \in [End -> SUBSET Nat]
        /\ nextId \in [End -> Nat] /\ maxReceived \in [End -> Nat]
        /\ "client" \in End /\ "server" \in End
    BY <1>1 DEF TypeOK, End
  <2>3. c2s \in Seq(MessageType) /\ Len(c2s) \in Nat
    BY <1>1, LenProperties DEF TypeOK
  <2>4. /\ buffer'["client"] = Append(buffer["client"], m) /\ buffer'["server"] = buffer["server"]
        /\ sent'["client"] = sent["client"] \cup {m.id} /\ sent'["server"] = sent["server"]
    BY <2>1, <2>2, Zenon
  <2>5. nextId'["client"] = nextId["client"] + 1 /\ nextId'["server"] = nextId["server"]
    BY <2>1, <2>2
  <2>6. QED
    BY <2>1, <2>2, <2>3, <2>4, <2>5
<1>4. Line' = Line
  BY <1>2 DEF Line
<1>5. \/ link = "down" /\ c2s' = c2s
      \/ /\ link # "down" /\ Len(c2s') = Len(c2s) + 1
         /\ \A i \in 1..Len(c2s) : c2s'[i] = c2s[i]
         /\ c2s'[Len(c2s) + 1] = m /\ Ids(c2s') = Ids(c2s) \cup {m.id}
  <2>1. \/ c2s' = c2s /\ link = "down"
        \/ c2s' = Append(c2s, m) /\ link # "down"
    <3>1. Post("client", m)
      BY DEF SentBy
    <3>2. QED
      BY <3>1 DEF Post
  <2>2. CASE c2s' = Append(c2s, m) /\ link # "down"
    <3>1. /\ Len(Append(c2s, m)) = Len(c2s) + 1
          /\ \A i \in 1..Len(c2s) : Append(c2s, m)[i] = c2s[i]
          /\ Append(c2s, m)[Len(c2s) + 1] = m /\ Ids(Append(c2s, m)) = Ids(c2s) \cup {m.id}
      BY <1>3, AppendMessage
    <3>2. QED
      BY <2>2, <3>1, Zenon
  <2>3. QED
    BY <2>1, <2>2
<1>6. /\ Len(buffer'["client"]) = Len(buffer["client"]) + 1 /\ Len(buffer["client"]) \in Nat
      /\ \A i \in 1..Len(buffer["client"]) : buffer'["client"][i] = buffer["client"][i]
      /\ buffer'["client"][Len(buffer["client"]) + 1] = m
      /\ Ids(buffer'["client"]) = Ids(buffer["client"]) \cup {m.id}
  BY <1>3, AppendMessage
<1>7. m.kind # "flush" /\ m.kind # "started" /\ m.id \in Nat
  BY <1>2 DEF Buffered
<1>8. (FlushHandled' <=> FlushHandled) /\ (HasFlush(c2s)' <=> HasFlush(c2s))
  <2>1. HasFlush(c2s)' <=> HasFlush(c2s)
    <3>1. \A i \in 1..Len(c2s) : i \in 1..Len(c2s') /\ c2s'[i] = c2s[i]
      BY <1>3, <1>5
    <3>2. \A i \in 1..Len(c2s') : c2s'[i].kind = "flush" => i \in 1..Len(c2s)
      BY <1>3, <1>5, <1>7
    <3>3. QED
      BY <3>1, <3>2 DEF HasFlush
  <2>2. QED
    BY <1>2, <2>1 DEF FlushHandled
<1>9. Missing("client")' = Missing("client") \cup {m.id} /\ Missing("server")' = Missing("server")
  <2>1. m.id \notin received["server"]
    BY <1>1, <1>2 DEF IdsInv
  <2>2. QED
    BY <1>2, <1>3, <2>1 DEF Missing, Peer
<1>10. SoundAcks("server") \subseteq SoundAcks("server")'
  BY <1>9, SoundGrow
<1>11. ASSUME NEW a \in SoundAcks("client"), a < m.id PROVE a \in SoundAcks("client")'
  BY <1>9, <1>7, <1>11, SoundWhenSent
<1>12. ClientMessages \subseteq ClientMessages' /\ ServerMessages \subseteq ServerMessages'
  <2>1. "client" \in End
    BY DEF End
  <2>2. QED
    BY <1>2, <1>3, <1>7, <2>1, MessagesGrow
<1>13. m \in ClientMessages'
  <2>1. m.id < nextId'["client"] /\ m.ack < nextId'["server"] /\ m.id \in sent'["client"]
    BY <1>1, <1>2, <1>3 DEF IdsInv
  <2>2. QED
    BY <1>2, <2>1 DEF ClientMessages
<1>14. IdsInv'
  <2>1. \A e \in End : nextId'[e] >= 1 /\ sent'[e] \subseteq 1..(nextId'[e] - 1)
    <3>1. nextId'["client"] >= 1 /\ sent'["client"] \subseteq 1..(nextId'["client"] - 1)
      BY <1>1, <1>2, <1>3 DEF IdsInv, End
    <3>2. nextId'["server"] >= 1 /\ sent'["server"] \subseteq 1..(nextId'["server"] - 1)
      BY <1>1, <1>3 DEF IdsInv, End
    <3>3. QED
      BY <3>1, <3>2 DEF End
  <2>2. /\ maxReceived'["client"] < nextId'["server"] /\ maxReceived'["server"] < nextId'["client"]
        /\ received'["client"] \subseteq sent'["server"] /\ received'["server"] \subseteq sent'["client"]
    BY <1>1, <1>2, <1>3 DEF IdsInv
  <2>3. \A i \in 1..Len(buffer'["client"]) :
           buffer'["client"][i] \in ClientMessages' /\ buffer'["client"][i].kind \in Buffered
    BY <1>1, <1>2, <1>6, <1>12, <1>13 DEF IdsInv
  <2>4. \A i \in 1..Len(buffer'["server"]) :
           buffer'["server"][i] \in ServerMessages' /\ buffer'["server"][i].kind \in Buffered
    BY <1>1, <1>3, <1>12 DEF IdsInv
  <2>5. \A i \in 1..Len(c2s') : c2s'[i] \in ClientMessages'
    BY <1>1, <1>3, <1>5, <1>12, <1>13 DEF IdsInv
  <2>6. \A i \in 1..Len(Line') : Line'[i] \in ServerMessages'
    BY <1>1, <1>4, <1>12 DEF IdsInv
  <2>7. QED
    BY <2>1, <2>2, <2>3, <2>4, <2>5, <2>6 DEF IdsInv
<1>15. PhaseInv'
  <2>1. \A i \in 1..Len(c2s') : c2s'[i].kind \in {"flush", "started"} =>
           i \in 1..Len(c2s) /\ c2s'[i] = c2s[i]
    BY <1>3, <1>5, <1>7
  <2>2. \A i \in 1..Len(c2s) : i \in 1..Len(c2s') /\ c2s'[i] = c2s[i]
    BY <1>3, <1>5
  <2>3. \A i \in 1..Len(c2s') : c2s'[i].kind = "flush" =>
           c2s'[i].id = flush' /\ \A j \in 1..Len(c2s') : c2s'[j].kind = "flush" => i = j
    BY <1>1, <1>2, <2>1 DEF PhaseInv
  <2>4. ~ FlushHandled' => \A i \in 1..Len(c2s') : c2s'[i].kind = "started" =>
           \E j \in 1..(i - 1) : c2s'[j].kind = "flush"
    <3>1. SUFFICES ASSUME ~ FlushHandled', NEW i \in 1..Len(c2s'), c2s'[i].kind = "started"
                   PROVE  \E j \in 1..(i - 1) : c2s'[j].kind = "flush"
      OBVIOUS
    <3>2. i \in 1..Len(c2s) /\ c2s[i].kind = "started"
      BY <2>1, <3>1
    <3>3. PICK j \in 1..(i - 1) : c2s[j].kind = "flush"
      BY <1>1, <1>8, <3>1, <3>2 DEF PhaseInv
    <3>4. c2s'[j] = c2s[j]
      BY <1>3, <2>2, <3>2, <3>3
    <3>5. QED
      BY <3>3, <3>4
  <2>5. QED
    BY <1>1, <1>2, <1>4, <1>8, <2>3, <2>4 DEF PhaseInv, FlushAck
<1>16. ClientKept'
  BY <1>1, <1>2, <1>5, <1>6, <1>9 DEF ClientKept
<1>17. ServerAcksSound'
  <2>1. /\ maxReceived["server"] < m.id
        /\ \A i \in 1..Len(buffer["server"]) : buffer["server"][i].ack < m.id
        /\ \A i \in 1..Len(Line) : Line[i].ack < m.id
    BY <1>1, <1>2 DEF IdsInv, ServerMessages
  <2>2. ~ FlushHandled' =>
          /\ maxReceived'["server"] \in SoundAcks("client")'
          /\ \A i \in 1..Len(buffer'["server"]) : buffer'["server"][i].ack \in SoundAcks("client")'
          /\ \A i \in 1..Len(Line') : Line'[i].ack \in SoundAcks("client")'
    BY <1>1, <1>2, <1>3, <1>4, <1>8, <1>11, <2>1 DEF ServerAcksSound
  <2>3. FlushHandled' /\ link' = "resync" =>
          \A i \in 1..Len(Line') :
             (\A j \in 1..i : ~ FlushAck(Line[j])') => Line'[i].ack \in SoundAcks("client")'
    BY <1>1, <1>2, <1>4, <1>8, <1>11, <2>1 DEF ServerAcksSound, FlushAck
  <2>4. QED
    BY <2>2, <2>3 DEF ServerAcksSound
<1>18. ClientInOrder'
  <2>1. SUFFICES ASSUME ~ FlushHandled', NEW i \in 1..Len(c2s'),
                        \A j \in 1..i : c2s'[j].kind # "flush",
                        NEW id \in Missing("client")', id <= c2s'[i].id
                 PROVE  \E j \in 1..i : c2s'[j].id = id
    BY DEF ClientInOrder
  <2>2. CASE i \in 1..Len(c2s)
    <3>1. \A j \in 1..i : j \in 1..Len(c2s) /\ c2s'[j] = c2s[j]
      BY <1>3, <1>5, <2>2
    <3>2. c2s[i] \in MessageType /\ c2s[i].id < m.id
      BY <1>1, <1>2, <2>2 DEF IdsInv, ClientMessages
    <3>3. id # m.id
      BY <1>2, <2>1, <2>2, <3>1, <3>2 DEF MessageType
    <3>4. id \in Missing("client") /\ id <= c2s[i].id /\ \A j \in 1..i : c2s[j].kind # "flush"
      BY <1>9, <2>1, <2>2, <3>1, <3>3
    <3>5. \E j \in 1..i : c2s[j].id = id
      BY <1>1, <1>8, <2>1, <2>2, <3>4 DEF ClientInOrder
    <3>6. QED
      BY <3>1, <3>5
  <2>3. CASE i \notin 1..Len(c2s)
    <3>1. link # "down" /\ i = Len(c2s') /\ Len(c2s') = Len(c2s) + 1
      BY <1>3, <1>5, <2>3
    <3>2. ~ HasFlush(c2s)'
      BY <2>1, <3>1 DEF HasFlush
    <3>3. link = "up"
      BY <1>1, <1>2, <1>8, <2>1, <3>1, <3>2 DEF FlushHandled, PhaseInv, TypeOK
    <3>4. id \in Ids(c2s')
      BY <1>1, <1>5, <1>9, <3>1, <3>3 DEF ClientKept
    <3>5. QED
      BY <3>1, <3>4 DEF Ids
  <2>4. QED
    BY <2>2, <2>3
<1>19. ServerKept'
  BY <1>1, <1>2, <1>3, <1>4, <1>8, <1>9 DEF ServerKept
<1>20. ClientAcksSound'
  <2>1. SUFFICES ASSUME ~ FlushHandled', NEW i \in 1..Len(c2s'),
                        \A j \in 1..(i - 1) : c2s'[j].kind # "flush"
                 PROVE  c2s'[i].ack \in SoundAcks("server")'
    BY <1>1, <1>2, <1>10 DEF ClientAcksSound
  <2>2. CASE i \in 1..Len(c2s)
    <3>1. \A j \in 1..i : j \in 1..Len(c2s) /\ c2s'[j] = c2s[j]
      BY <1>3, <1>5, <2>2
    <3>2. \A j \in 1..(i - 1) : c2s[j].kind # "flush"
      <4>1. \A j \in 1..(i - 1) : j \in 1..i
        BY <1>3, <2>2
      <4>2. QED
        BY <2>1, <3>1, <4>1
    <3>3. c2s[i].ack \in SoundAcks("server")
      BY <1>1, <1>8, <2>1, <2>2, <3>2 DEF ClientAcksSound
    <3>4. QED
      BY <1>3, <1>10, <2>2, <3>1, <3>3
  <2>3. CASE i \notin 1..Len(c2s)
    <3>1. link # "down" /\ i = Len(c2s') /\ Len(c2s') = Len(c2s) + 1 /\ c2s'[i] = m
      BY <1>3, <1>5, <2>3
    <3>2. ~ HasFlush(c2s)
      <4>1. \A j \in 1..Len(c2s) : c2s[j].kind # "flush"
        BY <1>3, <1>5, <2>1, <3>1
      <4>2. QED
        BY <4>1 DEF HasFlush
    <3>3. breaks = 0
      BY <1>1, <1>8, <2>1, <3>1, <3>2 DEF FlushHandled, TypeOK
    <3>4. m.ack \in SoundAcks("server")
      BY <1>1, <1>2, <3>3 DEF ClientAcksSound
    <3>5. QED
      BY <1>10, <3>1, <3>4
  <2>4. QED
    BY <2>2, <2>3
<1>21. ServerInOrder'
  BY <1>1, <1>2, <1>4, <1>9 DEF ServerInOrder, Whole
<1>22. QED
  BY <1>14, <1>15, <1>16, <1>17, <1>18, <1>19, <1>20, <1>21 DEF ChannelInv

LEMMA ServerSends ==
    ASSUME ChannelInv, TypeOK', NEW m \in MessageType, SentBy("server", m)
    PROVE  ChannelInv'
<1>1. /\ TypeOK /\ IdsInv /\ PhaseInv
      /\ ClientKept /\ ServerAcksSound /\ ClientInOrder
      /\ ServerKept /\ ClientAcksSound /\ ServerInOrder
  BY DEF ChannelInv
<1>2. /\ m.kind \in Buffered /\ m.id = nextId["server"] /\ m.ack = maxReceived["server"]
      /\ m.id \in Nat \ {0} /\ m.id \notin sent["server"]
      /\ nextId' = [nextId EXCEPT !["server"] = @ + 1]
      /\ outgoing' = Append(outgoing, m)
      /\ UNCHANGED <<maxReceived, received, link, flush, s2c, arrived, breaks, c2s>>
  <2>1. Post("server", m)
    BY DEF SentBy
  <2>2. outgoing' = Append(outgoing, m) /\ c2s' = c2s
    BY <2>1 DEF Post
  <2>3. QED
    BY <2>2 DEF SentBy
<1>3. /\ buffer'["server"] = Append(buffer["server"], m) /\ buffer'["client"] = buffer["client"]
      /\ sent' = [sent EXCEPT !["server"] = @ \cup {m.id}]
      /\ sent'["server"] = sent["server"] \cup {m.id} /\ sent'["client"] = sent["client"]
      /\ nextId'["server"] = nextId["server"] + 1 /\ nextId'["client"] = nextId["client"]
      /\ buffer["client"] \in Seq(MessageType) /\ buffer["server"] \in Seq(MessageType)
      /\ outgoing \in Seq(MessageType) /\ s2c \in Seq(MessageType)
      /\ nextId["client"] \in Nat /\ nextId["server"] \in Nat
      /\ maxReceived["client"] \in Nat /\ maxReceived["server"] \in Nat
  <2>1. /\ buffer' = [buffer EXCEPT !["server"] = Append(@, m)]
        /\ sent' = [sent EXCEPT !["server"] = @ \cup {m.id}]
        /\ nextId' = [nextId EXCEPT !["server"] = @ + 1]
    BY DEF SentBy
  <2>2. /\ buffer \in [End -> Seq(MessageType)] /\ sent \in [End -> SUBSET Nat]
        /\ nextId \in [End -> Nat] /\ maxReceived \in [End -> Nat]
        /\ "client" \in End /\ "server" \in End
    BY <1>1 DEF TypeOK, End
  <2>3. outgoing \in Seq(MessageType) /\ s2c \in Seq(MessageType)
    BY <1>1 DEF TypeOK
  <2>4. /\ buffer'["server"] = Append(buffer["server"], m) /\ buffer'["client"] = buffer["client"]
        /\ sent'["server"] = sent["server"] \cup {m.id} /\ sent'["client"] = sent["client"]
    BY <2>1, <2>2, Zenon
  <2>5. nextId'["server"] = nextId["server"] + 1 /\ nextId'["client"] = nextId["client"]
    BY <2>1, <2>2
  <2>6. QED
    BY <2>1, <2>2, <2>3, <2>4, <2>5
<1>4. /\ Len(Line') = Len(Line) + 1 /\ Len(Line) \in Nat
      /\ \A i \in 1..Len(Line) : Line'[i] = Line[i]
      /\ Line'[Len(Line) + 1] = m /\ Ids(Line') = Ids(Line) \cup {m.id}
      /\ Len(s2c) \in 0..Len(Line)
  <2>1. Line \in Seq(MessageType) /\ Len(s2c) \in 0..Len(Line)
    BY <1>1, LineFacts
  <2>2. outgoing' = outgoing \o <<m>> /\ <<m>> \in Seq(MessageType)
    BY <1>2, <1>3, AppendIsConcat
  <2>3. Line' = Line \o <<m>>
    <3>1. (s2c \o outgoing) \o <<m>> = s2c \o (outgoing \o <<m>>)
      <4>1. s2c \in Seq(MessageType) /\ outgoing \in Seq(MessageType)
        BY <1>3
      <4>2. <<m>> \in Seq(MessageType)
        BY <2>2
      <4>3. QED
        BY <4>1, <4>2, JoinAssociative
    <3>2. QED
      BY <1>2, <2>2, <3>1, Zenon DEF Line
  <2>4. Line' = Append(Line, m)
    BY <2>1, <2>3, AppendIsConcat
  <2>5. /\ Len(Append(Line, m)) = Len(Line) + 1 /\ Len(Line) \in Nat
        /\ \A i \in 1..Len(Line) : Append(Line, m)[i] = Line[i]
        /\ Append(Line, m)[Len(Line) + 1] = m /\ Ids(Append(Line, m)) = Ids(Line) \cup {m.id}
    BY <2>1, AppendMessage
  <2>6. QED
    BY <2>1, <2>4, <2>5, Zenon
<1>6. /\ Len(buffer'["server"]) = Len(buffer["server"]) + 1 /\ Len(buffer["server"]) \in Nat
      /\ \A i \in 1..Len(buffer["server"]) : buffer'["server"][i] = buffer["server"][i]
      /\ buffer'["server"][Len(buffer["server"]) + 1] = m
      /\ Ids(buffer'["server"]) = Ids(buffer["server"]) \cup {m.id}
  BY <1>3, AppendMessage
<1>7. m.kind # "ack" /\ m.id \in Nat
  BY <1>2 DEF Buffered
<1>8. FlushHandled' <=> FlushHandled
  BY <1>2 DEF FlushHandled, HasFlush
<1>9. Missing("server")' = Missing("server") \cup {m.id} /\ Missing("client")' = Missing("client")
  <2>1. m.id \notin received["client"]
    BY <1>1, <1>2 DEF IdsInv
  <2>2. QED
    BY <1>2, <1>3, <2>1 DEF Missing, Peer
<1>10. SoundAcks("client") \subseteq SoundAcks("client")'
  BY <1>9, SoundGrow
<1>11. ASSUME NEW a \in SoundAcks("server"), a < m.id PROVE a \in SoundAcks("server")'
  BY <1>9, <1>7, <1>11, SoundWhenSent
<1>12. ClientMessages \subseteq ClientMessages' /\ ServerMessages \subseteq ServerMessages'
  <2>1. "server" \in End
    BY DEF End
  <2>2. QED
    BY <1>2, <1>3, <1>7, <2>1, MessagesGrow
<1>13. m \in ServerMessages'
  <2>1. m.id < nextId'["server"] /\ m.ack < nextId'["client"] /\ m.id \in sent'["server"]
    BY <1>1, <1>2, <1>3 DEF IdsInv
  <2>2. QED
    BY <1>2, <2>1 DEF ServerMessages
<1>14. IdsInv'
  <2>1. \A e \in End : nextId'[e] >= 1 /\ sent'[e] \subseteq 1..(nextId'[e] - 1)
    <3>1. nextId'["server"] >= 1 /\ sent'["server"] \subseteq 1..(nextId'["server"] - 1)
      BY <1>1, <1>2, <1>3 DEF IdsInv, End
    <3>2. nextId'["client"] >= 1 /\ sent'["client"] \subseteq 1..(nextId'["client"] - 1)
      BY <1>1, <1>3 DEF IdsInv, End
    <3>3. QED
      BY <3>1, <3>2 DEF End
  <2>2. /\ maxReceived'["client"] < nextId'["server"] /\ maxReceived'["server"] < nextId'["client"]
        /\ received'["client"] \subseteq sent'["server"] /\ received'["server"] \subseteq sent'["client"]
    BY <1>1, <1>2, <1>3 DEF IdsInv
  <2>3. \A i \in 1..Len(buffer'["server"]) :
           buffer'["server"][i] \in ServerMessages' /\ buffer'["server"][i].kind \in Buffered
    <3>1. ASSUME NEW i \in 1..Len(buffer'["server"])
          PROVE  i \in 1..Len(buffer["server"]) \/ i = Len(buffer["server"]) + 1
      BY <1>6
    <3>2. \A i \in 1..Len(buffer["server"]) :
             buffer["server"][i] \in ServerMessages' /\ buffer["server"][i].kind \in Buffered
      BY <1>1, <1>12 DEF IdsInv
    <3>3. QED
      BY <1>2, <1>6, <1>13, <3>1, <3>2
  <2>4. \A i \in 1..Len(buffer'["client"]) :
           buffer'["client"][i] \in ClientMessages' /\ buffer'["client"][i].kind \in Buffered
    BY <1>1, <1>3, <1>12 DEF IdsInv
  <2>5. \A i \in 1..Len(Line') : Line'[i] \in ServerMessages'
    BY <1>1, <1>4, <1>12, <1>13 DEF IdsInv
  <2>6. \A i \in 1..Len(c2s') : c2s'[i] \in ClientMessages'
    BY <1>1, <1>2, <1>12 DEF IdsInv
  <2>7. QED
    BY <2>1, <2>2, <2>3, <2>4, <2>5, <2>6 DEF IdsInv
<1>15. PhaseInv'
  <2>1. ~ FlushHandled' => \A i \in 1..Len(Line') : Line'[i].kind # "ack"
    BY <1>1, <1>4, <1>7, <1>8 DEF PhaseInv
  <2>2. FlushHandled' /\ link' = "resync" => \E i \in 1..Len(Line') : FlushAck(Line[i])'
    <3>1. SUFFICES ASSUME FlushHandled', link' = "resync"
                   PROVE  \E i \in 1..Len(Line') : FlushAck(Line[i])'
      OBVIOUS
    <3>2. PICK i \in 1..Len(Line) : FlushAck(Line[i])
      BY <1>1, <1>2, <1>8, <3>1 DEF PhaseInv
    <3>3. i \in 1..Len(Line') /\ Line'[i] = Line[i]
      BY <1>4
    <3>4. QED
      BY <1>2, <3>2, <3>3 DEF FlushAck
  <2>3. QED
    BY <1>1, <1>2, <1>8, <2>1, <2>2 DEF PhaseInv, HasFlush
<1>16. ClientKept'
  BY <1>1, <1>2, <1>3, <1>9 DEF ClientKept
<1>17. ServerAcksSound'
  <2>1. ASSUME ~ FlushHandled'
        PROVE  /\ maxReceived'["server"] \in SoundAcks("client")'
               /\ \A i \in 1..Len(buffer'["server"]) : buffer'["server"][i].ack \in SoundAcks("client")'
               /\ \A i \in 1..Len(Line') : Line'[i].ack \in SoundAcks("client")'
    <3>1. /\ maxReceived["server"] \in SoundAcks("client")'
          /\ \A i \in 1..Len(buffer["server"]) : buffer["server"][i].ack \in SoundAcks("client")'
          /\ \A i \in 1..Len(Line) : Line[i].ack \in SoundAcks("client")'
      BY <1>1, <1>8, <1>10, <2>1 DEF ServerAcksSound
    <3>2. \A i \in 1..Len(buffer'["server"]) : buffer'["server"][i].ack \in SoundAcks("client")'
      <4>1. ASSUME NEW i \in 1..Len(buffer'["server"])
            PROVE  i \in 1..Len(buffer["server"]) \/ i = Len(buffer["server"]) + 1
        BY <1>6
      <4>2. m.ack \in SoundAcks("client")'
        BY <1>2, <3>1
      <4>3. QED
        BY <1>6, <3>1, <4>1, <4>2
    <3>3. \A i \in 1..Len(Line') : Line'[i].ack \in SoundAcks("client")'
      BY <1>2, <1>4, <3>1
    <3>4. QED
      BY <1>2, <3>1, <3>2, <3>3
  <2>2. ASSUME FlushHandled', link' = "resync", NEW i \in 1..Len(Line'),
               \A j \in 1..i : ~ FlushAck(Line[j])'
        PROVE  Line'[i].ack \in SoundAcks("client")'
    <3>1. PICK k \in 1..Len(Line) : FlushAck(Line[k])
      BY <1>1, <1>2, <1>8, <2>2 DEF PhaseInv
    <3>2. FlushAck(Line[k])'
      BY <1>2, <1>4, <3>1 DEF FlushAck
    <3>3. i \in 1..Len(Line)
      BY <1>4, <2>2, <3>2
    <3>4. \A j \in 1..i : ~ FlushAck(Line[j])
      <4>1. \A j \in 1..i : j \in 1..Len(Line) /\ Line'[j] = Line[j]
        BY <1>4, <3>3
      <4>2. QED
        BY <1>2, <2>2, <4>1 DEF FlushAck
    <3>5. Line[i].ack \in SoundAcks("client")
      BY <1>1, <1>2, <1>8, <2>2, <3>3, <3>4 DEF ServerAcksSound
    <3>6. QED
      BY <1>4, <1>10, <3>3, <3>5
  <2>3. QED
    BY <2>1, <2>2 DEF ServerAcksSound
<1>18. ClientInOrder'
  BY <1>1, <1>2, <1>8, <1>9 DEF ClientInOrder
<1>19. ServerKept'
  BY <1>1, <1>2, <1>4, <1>6, <1>8, <1>9 DEF ServerKept
<1>20. ClientAcksSound'
  <2>1. maxReceived["client"] < m.id /\ \A i \in 1..Len(c2s) : c2s[i].ack < m.id
    BY <1>1, <1>2 DEF IdsInv, ClientMessages
  <2>2. QED
    BY <1>1, <1>2, <1>8, <1>11, <2>1 DEF ClientAcksSound
<1>21. ServerInOrder'
  <2>1. SUFFICES ASSUME NEW i \in 1..Whole', NEW id \in Missing("server")', id <= Line'[i].id
                 PROVE  \E j \in 1..i : Line'[j].id = id
    BY DEF ServerInOrder
  <2>2. i \in 1..Len(Line') /\ (i = Len(Line') => breaks = 0)
    BY <1>2, <1>4, <2>1 DEF Whole
  <2>3. CASE i \in 1..Len(Line)
    <3>1. \A j \in 1..i : j \in 1..Len(Line) /\ Line'[j] = Line[j]
      BY <1>4, <2>3
    <3>2. Line[i] \in MessageType /\ Line[i].id < m.id /\ Line'[i] = Line[i]
      BY <1>1, <1>2, <1>4, <2>3 DEF IdsInv, ServerMessages
    <3>3. id # m.id
      BY <1>2, <2>1, <3>2 DEF MessageType
    <3>4. id \in Missing("server") /\ id <= Line[i].id
      BY <1>9, <2>1, <3>2, <3>3
    <3>5. i \in 1..Whole
      BY <1>2, <1>4, <2>1, <2>3 DEF Whole
    <3>6. \E j \in 1..i : Line[j].id = id
      BY <1>1, <3>4, <3>5 DEF ServerInOrder
    <3>7. QED
      BY <3>1, <3>6
  <2>4. CASE i \notin 1..Len(Line)
    <3>1. i = Len(Line') /\ breaks = 0
      BY <1>4, <2>2, <2>4
    <3>2. id \in Ids(Line')
      BY <1>1, <1>4, <1>9, <3>1 DEF ServerKept
    <3>3. QED
      BY <3>1, <3>2 DEF Ids
  <2>5. QED
    BY <2>3, <2>4
<1>22. QED
  BY <1>14, <1>15, <1>16, <1>17, <1>18, <1>19, <1>20, <1>21 DEF ChannelInv
-----------------------------------------------------------------------------
(* The invariant through the other steps                                     *)

LEMMA WriteKeeps == ASSUME ChannelInv, TypeOK', Write PROVE ChannelInv'
<1>1. /\ TypeOK /\ IdsInv /\ PhaseInv
      /\ ClientKept /\ ServerAcksSound /\ ClientInOrder
      /\ ServerKept /\ ClientAcksSound /\ ServerInOrder
  BY DEF ChannelInv
<1>2. /\ link # "down" /\ outgoing # <<>>
      /\ s2c' = Append(s2c, Head(outgoing)) /\ outgoing' = Tail(outgoing)
      /\ UNCHANGED <<nextId, maxReceived, buffer, waiting, handling, sent, received,
                     link, flush, c2s, arrived, breaks>>
  BY DEF Write, ends
<1>3. Line' = Line
  <2>1. s2c \in Seq(MessageType) /\ outgoing \in Seq(MessageType)
    BY <1>1 DEF TypeOK
  <2>2. Head(outgoing) \in MessageType /\ Tail(outgoing) \in Seq(MessageType)
    BY <1>2, <2>1, HeadTailProperties
  <2>3. <<Head(outgoing)>> \in Seq(MessageType)
    BY <2>2
  <2>4. s2c' = s2c \o <<Head(outgoing)>>
    BY <1>2, <2>1, <2>2, AppendIsConcat
  <2>5. outgoing = <<Head(outgoing)>> \o Tail(outgoing)
    <3>1. /\ Len(outgoing) \in Nat /\ Len(outgoing) >= 1 /\ Head(outgoing) = outgoing[1]
          /\ Len(Tail(outgoing)) = Len(outgoing) - 1
          /\ \A i \in 1..(Len(outgoing) - 1) : Tail(outgoing)[i] = outgoing[i + 1]
      BY <1>2, <2>1, TailMessages
    <3> DEFINE h == <<Head(outgoing)>>
               t == Tail(outgoing)
               u == h \o t
    <3>2. Len(h) = 1 /\ h[1] = outgoing[1]
      BY <3>1
    <3>3. /\ u \in Seq(MessageType) /\ Len(u) = Len(h) + Len(t)
          /\ \A i \in 1..(Len(h) + Len(t)) : u[i] = IF i <= Len(h) THEN h[i] ELSE t[i - Len(h)]
      BY <2>2, <2>3, ConcatProperties
    <3>4. Len(t) = Len(outgoing) - 1 /\ \A i \in 1..(Len(outgoing) - 1) : t[i] = outgoing[i + 1]
      BY <3>1
    <3> HIDE DEF h, t, u
    <3>5. Len(u) = Len(outgoing)
      BY <3>1, <3>2, <3>3, <3>4
    <3>6. \A i \in 1..Len(outgoing) : u[i] = outgoing[i]
      BY <3>1, <3>2, <3>3, <3>4
    <3>7. outgoing = u
      BY <2>1, <3>3, <3>5, <3>6, SeqEqual
    <3>8. QED
      BY <3>7 DEF u, h, t
  <2>6. (s2c \o <<Head(outgoing)>>) \o Tail(outgoing) = s2c \o (<<Head(outgoing)>> \o Tail(outgoing))
    BY <2>1, <2>2, <2>3, JoinAssociative
  <2>7. QED
    BY <1>2, <2>4, <2>5, <2>6, Zenon DEF Line
<1>4. Whole' = Whole
  BY <1>2, <1>3 DEF Whole
<1>5. FlushHandled' <=> FlushHandled
  BY <1>2 DEF FlushHandled, HasFlush
<1>6. Missing("client")' = Missing("client") /\ Missing("server")' = Missing("server")
  BY <1>2 DEF Missing
<1>7. SoundAcks("client")' = SoundAcks("client") /\ SoundAcks("server")' = SoundAcks("server")
  BY <1>6 DEF SoundAcks
<1>8. ClientMessages' = ClientMessages /\ ServerMessages' = ServerMessages
  BY <1>2 DEF ClientMessages, ServerMessages
<1>9. IdsInv'
  BY <1>1, <1>2, <1>3, <1>8 DEF IdsInv
<1>10. PhaseInv'
  BY <1>1, <1>2, <1>3, <1>5 DEF PhaseInv, HasFlush, FlushAck
<1>11. ClientKept' /\ ClientInOrder' /\ ClientAcksSound'
  BY <1>1, <1>2, <1>5, <1>6, <1>7 DEF ClientKept, ClientInOrder, ClientAcksSound
<1>12. ServerKept' /\ ServerInOrder' /\ ServerAcksSound'
  BY <1>1, <1>2, <1>3, <1>4, <1>5, <1>6, <1>7 DEF ServerKept, ServerInOrder, ServerAcksSound, FlushAck
<1>13. QED
  BY <1>9, <1>10, <1>11, <1>12 DEF ChannelInv

LEMMA ReceiveAtClientKeeps ==
    ASSUME ChannelInv, TypeOK', ReceiveAtClient PROVE ChannelInv'
<1>1. /\ TypeOK /\ IdsInv /\ PhaseInv
      /\ ClientKept /\ ServerAcksSound /\ ClientInOrder
      /\ ServerKept /\ ClientAcksSound /\ ServerInOrder
  BY DEF ChannelInv
<1>2. PICK m \in MessageType :
      /\ s2c # <<>> /\ s2c' = Tail(s2c) /\ m = s2c[1]
      /\ Acknowledge("client", m) /\ Handle("client", m)
      /\ \/ Resync(m)
         \/ ~ FlushAck(m) /\ UNCHANGED <<link, flush, c2s>>
      /\ UNCHANGED <<nextId, sent, arrived, outgoing, breaks>>
  <2>1. s2c # <<>> /\ s2c \in Seq(MessageType)
    BY <1>1 DEF ReceiveAtClient, TypeOK
  <2>2. Head(s2c) \in MessageType /\ Head(s2c) = s2c[1]
    BY <2>1, TailMessages
  <2>3. QED
    BY <2>2 DEF ReceiveAtClient, FlushAck
<1>3. m \in MessageType /\ m = s2c[1]
  BY <1>2
<1>4. /\ Len(Line) \in Nat /\ Len(Line) >= 1 /\ Line[1] = m /\ Len(Line') = Len(Line) - 1
      /\ \A i \in 1..(Len(Line) - 1) : Line'[i] = Line[i + 1]
      /\ Ids(Line) = Ids(Line') \cup {m.id}
      /\ Len(s2c) \in 1..Len(Line) /\ Len(s2c') = Len(s2c) - 1
  <2>1. /\ Tail(s2c) \in Seq(MessageType) /\ Len(Tail(s2c)) = Len(s2c) - 1
        /\ Len(s2c) \in Nat /\ Len(s2c) >= 1
        /\ \A i \in 1..(Len(s2c) - 1) : Tail(s2c)[i] = s2c[i + 1]
        /\ Ids(s2c) = Ids(Tail(s2c)) \cup {s2c[1].id}
        /\ outgoing \in Seq(MessageType) /\ s2c \in Seq(MessageType)
    BY <1>1, <1>2, TailMessages DEF TypeOK
  <2>2. /\ Len(Line) = Len(s2c) + Len(outgoing)
        /\ \A i \in 1..Len(s2c) : Line[i] = s2c[i]
        /\ \A i \in 1..Len(outgoing) : Line[Len(s2c) + i] = outgoing[i]
        /\ Ids(Line) = Ids(s2c) \cup Ids(outgoing) /\ Len(outgoing) \in Nat
    BY <2>1, JoinMessages DEF Line
  <2>3. /\ Len(Line') = Len(s2c') + Len(outgoing)
        /\ \A i \in 1..Len(s2c') : Line'[i] = s2c'[i]
        /\ \A i \in 1..Len(outgoing) : Line'[Len(s2c') + i] = outgoing[i]
        /\ Ids(Line') = Ids(s2c') \cup Ids(outgoing)
    <3>1. Line' = Tail(s2c) \o outgoing
      BY <1>2 DEF Line
    <3>2. QED
      BY <1>2, <2>1, <3>1, JoinMessages
  <2>4. Len(s2c') = Len(s2c) - 1 /\ \A i \in 1..(Len(s2c) - 1) : s2c'[i] = s2c[i + 1]
    BY <1>2, <2>1
  <2>5. ASSUME NEW i \in 1..(Len(Line) - 1) PROVE Line'[i] = Line[i + 1]
    <3>1. CASE i <= Len(s2c) - 1
      <4>1. i \in 1..Len(s2c') /\ i \in 1..(Len(s2c) - 1) /\ i + 1 \in 1..Len(s2c)
        BY <2>1, <2>4, <3>1
      <4>2. QED
        BY <2>2, <2>3, <2>4, <4>1
    <3>2. CASE i > Len(s2c) - 1
      <4>1. /\ i - Len(s2c') \in 1..Len(outgoing) /\ Len(s2c') + (i - Len(s2c')) = i
            /\ Len(s2c) + (i - Len(s2c')) = i + 1
        BY <2>1, <2>2, <2>4, <3>2
      <4>2. Line'[i] = outgoing[i - Len(s2c')] /\ Line[i + 1] = outgoing[i - Len(s2c')]
        BY <2>2, <2>3, <4>1
      <4>3. QED
        BY <4>2
    <3>3. QED
      BY <2>1, <3>1, <3>2
  <2>6. Ids(Line) = Ids(Line') \cup {m.id}
    BY <1>2, <1>3, <2>1, <2>2, <2>3
  <2>7. Line[1] = m
    BY <1>3, <2>1, <2>2
  <2>8. QED
    BY <2>1, <2>2, <2>3, <2>4, <2>5, <2>6, <2>7
<1>5. m \in ServerMessages /\ m.id \in Nat /\ m.ack \in Int
  BY <1>1, <1>3, <1>4 DEF IdsInv, MessageType, None
<1>6. /\ buffer'["client"] = Trimmed(buffer["client"], m.ack) /\ buffer'["server"] = buffer["server"]
      /\ maxReceived'["client"] = m.id /\ maxReceived'["server"] = maxReceived["server"]
      /\ received'["server"] = received["server"]
      /\ m.kind = "ack" => received'["client"] = received["client"]
      /\ m.kind # "ack" => received'["client"] = received["client"] \cup {m.id}
      /\ buffer["client"] \in Seq(MessageType)
  <2>1. /\ buffer \in [End -> Seq(MessageType)] /\ received \in [End -> SUBSET Nat]
        /\ maxReceived \in [End -> Nat] /\ "client" \in End /\ "server" \in End
    BY <1>1 DEF TypeOK, End
  <2>2. /\ buffer' = [buffer EXCEPT !["client"] = Trimmed(@, m.ack)]
        /\ maxReceived' = [maxReceived EXCEPT !["client"] = m.id]
        /\ received' = IF m.kind = "ack" THEN received
                       ELSE [received EXCEPT !["client"] = @ \cup {m.id}]
    BY <1>2 DEF Acknowledge, Handle
  <2>3. QED
    BY <2>1, <2>2, Zenon
<1>7. /\ Missing("client")' = Missing("client")
      /\ Missing("server")' = Missing("server") \ {m.id}
  BY <1>2, <1>5, <1>6 DEF Missing, Peer, ServerMessages, Buffered
<1>8. /\ SoundAcks("client")' = SoundAcks("client")
      /\ SoundAcks("server") \subseteq SoundAcks("server")'
  <2>1. Missing("server")' \subseteq Missing("server")
    BY <1>7
  <2>2. SoundAcks("server") \subseteq SoundAcks("server")'
    BY <2>1, SoundGrow
  <2>3. QED
    BY <1>7, <2>2 DEF SoundAcks
(* The answer to the Flush comes only when the server has handled it.        *)
<1>9. ASSUME FlushAck(m)
      PROVE  /\ FlushHandled /\ FlushHandled' /\ link = "resync" /\ link' = "up" /\ flush' = None
             /\ ~ HasFlush(c2s')
             /\ c2s' = c2s \o buffer["client"] /\ Ids(c2s') = Ids(c2s) \cup Ids(buffer["client"])
             /\ \A i \in 1..Len(c2s') : c2s'[i] \in ClientMessages
  <2>1. Resync(m)
    BY <1>2, <1>9
  <2>2. m.kind = "ack" /\ m.re = flush /\ m.re # None
    BY <1>5, <1>9 DEF FlushAck, ServerMessages, Buffered
  <2>3. link = "resync"
    BY <1>1, <2>2 DEF PhaseInv
  <2>4. FlushHandled
    BY <1>1, <1>4, <2>2 DEF PhaseInv
  <2>5. link' = "up" /\ flush' = None /\ c2s' = c2s \o buffer["client"]
    BY <2>1 DEF Resync
  <2>6. /\ Len(c2s') = Len(c2s) + Len(buffer["client"])
        /\ Len(c2s) \in Nat /\ Len(buffer["client"]) \in Nat
        /\ \A i \in 1..Len(c2s) : c2s'[i] = c2s[i]
        /\ \A i \in 1..Len(buffer["client"]) : c2s'[Len(c2s) + i] = buffer["client"][i]
        /\ Ids(c2s') = Ids(c2s) \cup Ids(buffer["client"])
    <3>1. c2s \in Seq(MessageType)
      BY <1>1 DEF TypeOK
    <3> DEFINE b == buffer["client"]
    <3>2. b \in Seq(MessageType)
      BY <1>6
    <3> HIDE DEF b
    <3>3. /\ Len(c2s \o b) = Len(c2s) + Len(b) /\ Len(c2s) \in Nat /\ Len(b) \in Nat
          /\ \A i \in 1..Len(c2s) : (c2s \o b)[i] = c2s[i]
          /\ \A i \in 1..Len(b) : (c2s \o b)[Len(c2s) + i] = b[i]
          /\ Ids(c2s \o b) = Ids(c2s) \cup Ids(b)
      BY <3>1, <3>2, JoinMessages
    <3>4. c2s' = c2s \o b
      BY <2>5 DEF b
    <3>5. QED
      BY <3>3, <3>4, Zenon DEF b
  <2>7. ASSUME NEW i \in 1..Len(c2s')
        PROVE  c2s'[i] \in ClientMessages /\ c2s'[i].kind # "flush"
    <3>1. CASE i \in 1..Len(c2s)
      BY <1>1, <2>4, <2>6, <3>1 DEF IdsInv, FlushHandled, HasFlush
    <3>2. CASE i \notin 1..Len(c2s)
      <4>1. i - Len(c2s) \in 1..Len(buffer["client"]) /\ Len(c2s) + (i - Len(c2s)) = i
        BY <2>6, <3>2
      <4>2. c2s'[i] = buffer["client"][i - Len(c2s)]
        BY <2>6, <4>1
      <4>3. QED
        BY <1>1, <4>1, <4>2 DEF IdsInv, Buffered
    <3>3. QED
      BY <3>1, <3>2
  <2>8. ~ HasFlush(c2s')
    BY <2>7 DEF HasFlush
  <2>9. FlushHandled'
    BY <1>2, <2>4, <2>5, <2>8 DEF FlushHandled, HasFlush
  <2>10. QED
    BY <2>3, <2>4, <2>5, <2>6, <2>7, <2>8, <2>9
<1>10. ASSUME ~ FlushAck(m)
       PROVE  UNCHANGED <<link, flush, c2s>> /\ (FlushHandled' <=> FlushHandled)
  <2>1. UNCHANGED <<link, flush, c2s>>
    BY <1>2, <1>10 DEF Resync, FlushAck
  <2>2. QED
    BY <1>2, <2>1 DEF FlushHandled, HasFlush
<1>11. /\ FlushHandled' <=> FlushHandled
       /\ breaks = 0 => ~ FlushAck(m)
       /\ ~ FlushHandled => ~ FlushAck(m)
       /\ link # "resync" => ~ FlushAck(m)
       /\ link' = "resync" => ~ FlushAck(m)
  BY <1>1, <1>9, <1>10 DEF FlushHandled, TypeOK
<1>12. ClientMessages' = ClientMessages /\ ServerMessages' = ServerMessages
  BY <1>2 DEF ClientMessages, ServerMessages
<1>13. /\ Ids(buffer'["client"]) \subseteq Ids(buffer["client"])
       /\ \A id \in Ids(buffer["client"]) : id > m.ack => id \in Ids(buffer'["client"])
       /\ \A i \in 1..Len(buffer'["client"]) :
             \E j \in 1..Len(buffer["client"]) : buffer'["client"][i] = buffer["client"][j]
  BY <1>5, <1>6, TrimmedMessages
<1>14. ASSUME NEW i \in 1..Len(Line') PROVE i + 1 \in 1..Len(Line) /\ Line'[i] = Line[i + 1]
  BY <1>4
<1>15. IdsInv'
  <2>1. \A e \in End : nextId'[e] >= 1 /\ sent'[e] \subseteq 1..(nextId'[e] - 1)
    BY <1>1, <1>2 DEF IdsInv
  <2>2. /\ maxReceived'["client"] < nextId'["server"] /\ maxReceived'["server"] < nextId'["client"]
        /\ received'["client"] \subseteq sent'["server"] /\ received'["server"] \subseteq sent'["client"]
    BY <1>1, <1>2, <1>5, <1>6 DEF IdsInv, ServerMessages
  <2>3. \A i \in 1..Len(buffer'["server"]) :
           buffer'["server"][i] \in ServerMessages' /\ buffer'["server"][i].kind \in Buffered
    BY <1>1, <1>6, <1>12 DEF IdsInv
  <2>4. \A i \in 1..Len(buffer'["client"]) :
           buffer'["client"][i] \in ClientMessages' /\ buffer'["client"][i].kind \in Buffered
    BY <1>1, <1>12, <1>13 DEF IdsInv
  <2>5. \A i \in 1..Len(Line') : Line'[i] \in ServerMessages'
    BY <1>1, <1>12, <1>14 DEF IdsInv
  <2>6. \A i \in 1..Len(c2s') : c2s'[i] \in ClientMessages'
    BY <1>1, <1>9, <1>10, <1>12 DEF IdsInv
  <2>7. QED
    BY <2>1, <2>2, <2>3, <2>4, <2>5, <2>6 DEF IdsInv
<1>16. PhaseInv'
  <2>1. ~ FlushHandled' => \A i \in 1..Len(Line') : Line'[i].kind # "ack"
    BY <1>1, <1>11, <1>14 DEF PhaseInv
  <2>2. FlushHandled' /\ link' = "resync" => \E i \in 1..Len(Line') : FlushAck(Line[i])'
    <3>1. SUFFICES ASSUME FlushHandled', link' = "resync"
                   PROVE  \E i \in 1..Len(Line') : FlushAck(Line[i])'
      OBVIOUS
    <3>2. ~ FlushAck(m) /\ UNCHANGED <<link, flush, c2s>> /\ FlushHandled
      BY <1>10, <1>11, <3>1
    <3>3. PICK i \in 1..Len(Line) : FlushAck(Line[i])
      BY <1>1, <3>1, <3>2 DEF PhaseInv
    <3>4. i # 1
      BY <1>4, <3>2, <3>3
    <3>5. i - 1 \in 1..Len(Line') /\ (i - 1) + 1 = i
      BY <1>4, <3>4
    <3>6. Line'[i - 1] = Line[i]
      BY <1>14, <3>5
    <3>7. QED
      BY <3>2, <3>3, <3>5, <3>6 DEF FlushAck
  <2>3. CASE FlushAck(m)
    BY <1>9, <2>1, <2>2, <2>3 DEF PhaseInv, HasFlush
  <2>4. CASE ~ FlushAck(m)
    BY <1>1, <1>2, <1>10, <2>1, <2>2, <2>4 DEF PhaseInv, HasFlush
  <2>5. QED
    BY <2>3, <2>4
<1>17. ClientKept'
  <2>1. CASE FlushAck(m)
    BY <1>1, <1>2, <1>7, <1>9, <2>1 DEF ClientKept, FlushHandled
  <2>2. CASE ~ FlushAck(m)
    <3>1. SUFFICES ASSUME breaks = 0 \/ link # "up", NEW id \in Missing("client")
                   PROVE  id \in Ids(buffer'["client"])
      BY <1>1, <1>2, <1>7, <1>10, <2>2 DEF ClientKept
    <3>2. id \in Ids(buffer["client"])
      BY <1>1, <3>1 DEF ClientKept
    <3>3. m.ack \in SoundAcks("client")
      <4>1. CASE ~ FlushHandled
        BY <1>1, <1>4, <4>1 DEF ServerAcksSound
      <4>2. CASE FlushHandled
        <5>1. link = "resync"
          BY <1>1, <3>1, <4>2 DEF FlushHandled, TypeOK
        <5>2. 1 \in 1..Len(Line) /\ \A j \in 1..1 : ~ FlushAck(Line[j])
          BY <1>4, <2>2
        <5>3. QED
          BY <1>1, <1>4, <4>2, <5>1, <5>2 DEF ServerAcksSound
      <4>3. QED
        BY <4>1, <4>2
    <3>4. id > m.ack
      BY <3>1, <3>3 DEF SoundAcks
    <3>5. QED
      BY <1>13, <3>2, <3>4
  <2>3. QED
    BY <2>1, <2>2
<1>18. ServerAcksSound'
  <2>1. ASSUME ~ FlushHandled'
        PROVE  /\ maxReceived'["server"] \in SoundAcks("client")'
               /\ \A i \in 1..Len(buffer'["server"]) : buffer'["server"][i].ack \in SoundAcks("client")'
               /\ \A i \in 1..Len(Line') : Line'[i].ack \in SoundAcks("client")'
    BY <1>1, <1>6, <1>8, <1>11, <1>14, <2>1 DEF ServerAcksSound
  <2>2. ASSUME FlushHandled', link' = "resync", NEW i \in 1..Len(Line'),
               \A j \in 1..i : ~ FlushAck(Line[j])'
        PROVE  Line'[i].ack \in SoundAcks("client")'
    <3>1. ~ FlushAck(m) /\ UNCHANGED <<link, flush, c2s>> /\ FlushHandled
      BY <1>10, <1>11, <2>2
    <3>2. \A j \in 1..(i + 1) : ~ FlushAck(Line[j])
      <4>1. SUFFICES ASSUME NEW j \in 1..(i + 1) PROVE ~ FlushAck(Line[j])
        OBVIOUS
      <4>2. CASE j = 1
        BY <1>4, <3>1, <4>2
      <4>3. CASE j # 1
        <5>1. j - 1 \in 1..i /\ j - 1 \in 1..Len(Line') /\ (j - 1) + 1 = j
          BY <1>4, <4>3
        <5>2. Line'[j - 1] = Line[j] /\ ~ FlushAck(Line[j - 1])'
          BY <1>14, <2>2, <5>1
        <5>3. QED
          BY <3>1, <5>2 DEF FlushAck
      <4>4. QED
        BY <4>2, <4>3
    <3>3. i + 1 \in 1..Len(Line) /\ Line'[i] = Line[i + 1]
      BY <1>14
    <3>4. Line[i + 1].ack \in SoundAcks("client")
      BY <1>1, <2>2, <3>1, <3>2, <3>3 DEF ServerAcksSound
    <3>5. QED
      BY <1>8, <3>3, <3>4
  <2>3. QED
    BY <2>1, <2>2 DEF ServerAcksSound
<1>19. ClientInOrder'
  BY <1>1, <1>7, <1>10, <1>11 DEF ClientInOrder
<1>20. ServerKept'
  BY <1>1, <1>2, <1>4, <1>6, <1>7, <1>11 DEF ServerKept
<1>21. ASSUME NEW i \in 1..Whole' PROVE i + 1 \in 1..Whole /\ i \in 1..Len(Line')
  BY <1>1, <1>2, <1>4, <1>10, <1>11, <1>9 DEF Whole, FlushHandled, PhaseInv
<1>22. ClientAcksSound'
  <2>1. ~ FlushHandled' => \A i \in 1..Len(c2s') :
           (\A j \in 1..(i - 1) : c2s'[j].kind # "flush") => c2s'[i].ack \in SoundAcks("server")'
    BY <1>1, <1>8, <1>10, <1>11 DEF ClientAcksSound
  <2>2. ASSUME breaks' = 0 \/ link' = "down" PROVE maxReceived'["client"] \in SoundAcks("server")'
    <3>1. breaks = 0 \/ link = "down"
      BY <1>2, <1>9, <1>10, <2>2
    <3>2. 1 \in 1..Whole
      BY <1>4, <3>1 DEF Whole
    <3>3. \A id \in Missing("server") : id <= m.id => \E j \in 1..1 : Line[j].id = id
      BY <1>1, <1>4, <3>2 DEF ServerInOrder
    <3>4. Missing("server") \subseteq Nat
      BY <1>1 DEF Missing, TypeOK, End
    <3>5. \A id \in Missing("server")' : id > m.id
      BY <1>4, <1>5, <1>7, <3>3, <3>4
    <3>6. QED
      BY <1>5, <1>6, <3>5 DEF SoundAcks
  <2>3. QED
    BY <2>1, <2>2 DEF ClientAcksSound
<1>23. ServerInOrder'
  <2>1. SUFFICES ASSUME NEW i \in 1..Whole', NEW id \in Missing("server")', id <= Line'[i].id
                 PROVE  \E j \in 1..i : Line'[j].id = id
    BY DEF ServerInOrder
  <2>2. i + 1 \in 1..Whole /\ Line'[i] = Line[i + 1] /\ i \in 1..Len(Line')
    BY <1>14, <1>21
  <2>3. PICK j \in 1..(i + 1) : Line[j].id = id
    BY <1>1, <1>7, <2>1, <2>2 DEF ServerInOrder
  <2>4. j # 1
    BY <1>4, <1>7, <2>1, <2>3
  <2>5. j - 1 \in 1..i /\ j - 1 \in 1..Len(Line') /\ (j - 1) + 1 = j
    BY <2>2, <2>4
  <2>6. Line'[j - 1] = Line[j]
    BY <1>14, <2>5
  <2>7. QED
    BY <2>3, <2>5, <2>6
<1>24. QED
  BY <1>15, <1>16, <1>17, <1>18, <1>19, <1>20, <1>22, <1>23 DEF ChannelInv
(* What is common to all messages the server takes.                          *)
ServerTakes(m) ==
    /\ Len(c2s) \in Nat /\ Len(c2s) >= 1 /\ m = c2s[1]
    /\ Len(c2s') = Len(c2s) - 1 /\ Ids(c2s) = Ids(c2s') \cup {m.id}
    /\ \A i \in 1..Len(c2s') : i + 1 \in 1..Len(c2s) /\ c2s'[i] = c2s[i + 1]
    /\ m \in ClientMessages /\ m.id \in Nat /\ m.ack \in Int
    /\ buffer'["client"] = buffer["client"]
    /\ buffer["server"] \in Seq(MessageType)
    /\ buffer'["server"] = Trimmed(buffer["server"], m.ack)
    /\ \A id \in Ids(buffer["server"]) : id > m.ack => id \in Ids(buffer'["server"])
    /\ \A i \in 1..Len(buffer'["server"]) :
          \E j \in 1..Len(buffer["server"]) : buffer'["server"][i] = buffer["server"][j]
    /\ UNCHANGED <<sent, link, flush, s2c, breaks>>

LEMMA ReceiveAtServerEffect ==
    ASSUME ChannelInv, ReceiveAtServer
    PROVE  \E m \in MessageType :
              /\ ServerTakes(m)
              /\ \/ FlushBuffer(m) \/ RemoteStarted(m)
                 \/ /\ m.kind \notin {"flush", "started"}
                    /\ Handle("server", m)
                    /\ UNCHANGED <<nextId, outgoing>>
<1>1. TypeOK /\ IdsInv
  BY DEF ChannelInv
<1>2. c2s # <<>> /\ c2s \in Seq(MessageType) /\ c2s' = Tail(c2s)
  BY <1>1 DEF ReceiveAtServer, TypeOK
<1>3. PICK m \in MessageType :
      /\ m = c2s[1]
      /\ Acknowledge("server", m)
      /\ \/ FlushBuffer(m) \/ RemoteStarted(m)
         \/ /\ m.kind \notin {"flush", "started"}
            /\ Handle("server", m)
            /\ UNCHANGED <<nextId, outgoing>>
      /\ UNCHANGED <<sent, link, flush, s2c, breaks>>
  <2>1. Head(c2s) \in MessageType /\ Head(c2s) = c2s[1]
    BY <1>2, TailMessages
  <2>2. QED
    BY <2>1 DEF ReceiveAtServer
<1>4. /\ Len(c2s) \in Nat /\ Len(c2s) >= 1
      /\ Len(c2s') = Len(c2s) - 1 /\ Ids(c2s) = Ids(c2s') \cup {m.id}
      /\ \A i \in 1..(Len(c2s) - 1) : c2s'[i] = c2s[i + 1]
  BY <1>2, <1>3, TailMessages
<1>5. \A i \in 1..Len(c2s') : i + 1 \in 1..Len(c2s) /\ c2s'[i] = c2s[i + 1]
  BY <1>4
<1>6. m \in ClientMessages /\ m.id \in Nat /\ m.ack \in Int
  BY <1>1, <1>3, <1>4 DEF IdsInv, MessageType, None
<1>7. /\ buffer \in [End -> Seq(MessageType)] /\ "client" \in End /\ "server" \in End
      /\ buffer' = [buffer EXCEPT !["server"] = Trimmed(@, m.ack)]
  BY <1>1, <1>3 DEF TypeOK, End, Acknowledge
<1>8. /\ buffer'["client"] = buffer["client"] /\ buffer["server"] \in Seq(MessageType)
      /\ buffer'["server"] = Trimmed(buffer["server"], m.ack)
  BY <1>7, Zenon
<1>9. /\ \A id \in Ids(buffer["server"]) : id > m.ack => id \in Ids(buffer'["server"])
      /\ \A i \in 1..Len(buffer'["server"]) :
            \E j \in 1..Len(buffer["server"]) : buffer'["server"][i] = buffer["server"][j]
  BY <1>6, <1>8, TrimmedMessages
<1>10. ServerTakes(m)
  BY <1>3, <1>4, <1>5, <1>6, <1>8, <1>9 DEF ServerTakes
<1>11. QED
  BY <1>3, <1>10

(* The answer to a Flush or a RemoteStarted, after the messages in before.   *)
LEMMA AnswerEffect ==
    ASSUME ChannelInv, NEW m \in MessageType, ServerTakes(m),
           NEW before \in Seq(MessageType), Answer(m, before)
    PROVE  \E a \in ServerMessages' :
              /\ a.kind = "ack" /\ a.re = m.id
              /\ Line \in Seq(MessageType) /\ Len(Line) \in Nat
              /\ Len(Line') = Len(Line) + Len(before) + 1 /\ Len(before) \in Nat
              /\ \A i \in 1..Len(Line) : Line'[i] = Line[i]
              /\ \A i \in 1..Len(before) : Line'[Len(Line) + i] = before[i]
              /\ Line'[Len(Line) + Len(before) + 1] = a
              /\ Ids(Line') = Ids(Line) \cup Ids(before) \cup {a.id}
              /\ ClientMessages \subseteq ClientMessages' /\ ServerMessages \subseteq ServerMessages'
              /\ nextId'["server"] = nextId["server"] + 1 /\ nextId'["client"] = nextId["client"]
<1>1. TypeOK /\ IdsInv
  BY DEF ChannelInv
<1> DEFINE a == Message("ack", nextId["server"], None, m.id)
<1>2. /\ a \in MessageType /\ a.kind = "ack" /\ a.re = m.id /\ a.id = nextId["server"] /\ a.ack = None
  <2>1. nextId["server"] \in Nat /\ m.id \in Nat
    BY <1>1 DEF TypeOK, End, MessageType
  <2>2. QED
    BY <2>1, MessageTyped DEF Message
<1>3. /\ outgoing' = Append(outgoing \o before, a)
      /\ nextId' = [nextId EXCEPT !["server"] = @ + 1]
      /\ UNCHANGED <<maxReceived, received, sent, s2c>>
  BY DEF Answer, ServerTakes
<1> HIDE DEF a
<1>4. nextId["server"] \in Nat /\ nextId["client"] \in Nat /\ nextId["client"] >= 1
  BY <1>1 DEF TypeOK, IdsInv, End
<1>5. nextId'["server"] = nextId["server"] + 1 /\ nextId'["client"] = nextId["client"]
  BY <1>1, <1>3 DEF TypeOK, End
<1>6. ClientMessages \subseteq ClientMessages' /\ ServerMessages \subseteq ServerMessages'
  <2>1. "server" \in End
    BY DEF End
  <2>2. QED
    BY <1>3, <1>4, <2>1, MessagesGrow
<1>7. a \in ServerMessages'
  <2>1. nextId["server"] \notin sent["server"]
    BY <1>1, <1>4 DEF IdsInv, End
  <2>2. a.id < nextId'["server"] /\ a.ack < nextId'["client"] /\ a.id \notin sent'["server"]
    BY <1>2, <1>3, <1>4, <1>5, <2>1 DEF None
  <2>3. m.id # None
    BY DEF MessageType, None
  <2>4. QED
    BY <1>2, <2>2, <2>3 DEF ServerMessages
<1>8. /\ s2c \in Seq(MessageType) /\ outgoing \in Seq(MessageType)
      /\ Line \in Seq(MessageType)
  BY <1>1, LineFacts DEF TypeOK
<1> DEFINE u == Line \o before
<1>9. Line' = Append(u, a)
  <2>1. <<a>> \in Seq(MessageType) /\ outgoing \o before \in Seq(MessageType)
    BY <1>2, <1>8, JoinMessages
  <2>2. outgoing' = (outgoing \o before) \o <<a>>
    BY <1>2, <1>3, <2>1, AppendIsConcat
  <2>3. s2c \o ((outgoing \o before) \o <<a>>) = (s2c \o (outgoing \o before)) \o <<a>>
    BY <1>8, <2>1, JoinAssociative
  <2>4. s2c \o (outgoing \o before) = (s2c \o outgoing) \o before
    BY <1>8, JoinAssociative
  <2>5. Line' = u \o <<a>>
    BY <1>3, <2>2, <2>3, <2>4, Zenon DEF Line
  <2>6. u \in Seq(MessageType)
    BY <1>8, JoinMessages
  <2>7. QED
    BY <1>2, <2>5, <2>6, AppendIsConcat
<1>10. /\ u \in Seq(MessageType) /\ Len(u) = Len(Line) + Len(before)
       /\ Len(Line) \in Nat /\ Len(before) \in Nat
       /\ \A i \in 1..Len(Line) : u[i] = Line[i]
       /\ \A i \in 1..Len(before) : u[Len(Line) + i] = before[i]
       /\ Ids(u) = Ids(Line) \cup Ids(before)
  BY <1>8, JoinMessages
<1> HIDE DEF u
<1>11. /\ Len(Append(u, a)) = Len(u) + 1
       /\ \A i \in 1..Len(u) : Append(u, a)[i] = u[i]
       /\ Append(u, a)[Len(u) + 1] = a
       /\ Ids(Append(u, a)) = Ids(u) \cup {a.id}
  BY <1>2, <1>10, AppendMessage
<1> DEFINE t == Line'
<1>12. /\ Len(t) = Len(u) + 1 /\ \A i \in 1..Len(u) : t[i] = u[i]
       /\ t[Len(u) + 1] = a /\ Ids(t) = Ids(u) \cup {a.id}
  BY <1>9, <1>11, Zenon
<1> HIDE DEF t
<1>13. /\ Len(t) = Len(Line) + Len(before) + 1
       /\ \A i \in 1..Len(Line) : t[i] = Line[i]
       /\ t[Len(Line) + Len(before) + 1] = a
       /\ Ids(t) = Ids(Line) \cup Ids(before) \cup {a.id}
  BY <1>10, <1>12
<1>14. \A i \in 1..Len(before) : t[Len(Line) + i] = before[i]
  <2>1. SUFFICES ASSUME NEW i \in 1..Len(before) PROVE t[Len(Line) + i] = before[i]
    OBVIOUS
  <2>2. Len(Line) + i \in 1..Len(u)
    BY <1>10
  <2>3. QED
    BY <1>10, <1>12, <2>2
<1>15. QED
  BY <1>2, <1>5, <1>6, <1>7, <1>8, <1>10, <1>13, <1>14 DEF t
(* Answering the Flush starts the last phase: what the client misses is on   *)
(* its way again.                                                            *)
LEMMA FlushKeeps ==
    ASSUME ChannelInv, TypeOK', NEW m \in MessageType, ServerTakes(m), FlushBuffer(m)
    PROVE  ChannelInv'
<1>1. /\ TypeOK /\ IdsInv /\ PhaseInv
      /\ ClientKept /\ ServerAcksSound /\ ClientInOrder
      /\ ServerKept /\ ClientAcksSound /\ ServerInOrder
  BY DEF ChannelInv
<1> DEFINE b == buffer'["server"]
<1>2. /\ m.kind = "flush" /\ Answer(m, b)
      /\ UNCHANGED <<maxReceived, received, sent, link, flush, s2c, breaks>>
      /\ buffer'["client"] = buffer["client"]
  BY DEF FlushBuffer, Answer, ServerTakes
<1>3. b \in Seq(MessageType)
  BY DEF TypeOK, End
<1>4. PICK a \in ServerMessages' :
      /\ a.kind = "ack" /\ a.re = m.id
      /\ Line \in Seq(MessageType) /\ Len(Line) \in Nat
      /\ Len(Line') = Len(Line) + Len(b) + 1 /\ Len(b) \in Nat
      /\ \A i \in 1..Len(Line) : Line'[i] = Line[i]
      /\ \A i \in 1..Len(b) : Line'[Len(Line) + i] = b[i]
      /\ Line'[Len(Line) + Len(b) + 1] = a
      /\ Ids(Line') = Ids(Line) \cup Ids(b) \cup {a.id}
      /\ ClientMessages \subseteq ClientMessages' /\ ServerMessages \subseteq ServerMessages'
      /\ nextId'["server"] = nextId["server"] + 1 /\ nextId'["client"] = nextId["client"]
  BY <1>2, <1>3, AnswerEffect
<1>5. /\ \A id \in Ids(buffer["server"]) : id > m.ack => id \in Ids(b)
      /\ \A i \in 1..Len(b) : \E j \in 1..Len(buffer["server"]) : b[i] = buffer["server"][j]
  BY DEF ServerTakes
<1> HIDE DEF b
<1>6. /\ Len(c2s) \in Nat /\ Len(c2s) >= 1 /\ m = c2s[1]
      /\ \A i \in 1..Len(c2s') : i + 1 \in 1..Len(c2s) /\ c2s'[i] = c2s[i + 1]
      /\ Ids(c2s) = Ids(c2s') \cup {m.id}
  BY DEF ServerTakes
<1>7. HasFlush(c2s) /\ ~ FlushHandled /\ link = "resync" /\ breaks > 0 /\ m.id = flush
  <2>1. HasFlush(c2s)
    BY <1>2, <1>6 DEF HasFlush
  <2>2. QED
    BY <1>1, <1>2, <1>6, <2>1 DEF PhaseInv, FlushHandled, TypeOK
<1>8. \A i \in 1..Len(c2s') : c2s'[i].kind # "flush"
  <2>1. SUFFICES ASSUME NEW i \in 1..Len(c2s'), c2s'[i].kind = "flush" PROVE FALSE
    OBVIOUS
  <2>2. 1 \in 1..Len(c2s) /\ i + 1 \in 1..Len(c2s) /\ c2s[i + 1].kind = "flush" /\ c2s[1].kind = "flush"
    BY <1>2, <1>6, <2>1
  <2>3. 1 = i + 1
    BY <1>1, <2>2 DEF PhaseInv
  <2>4. QED
    BY <2>3
<1>9. FlushHandled' /\ ~ HasFlush(c2s')
  BY <1>2, <1>7, <1>8 DEF FlushHandled, HasFlush
<1>10. Missing("client")' = Missing("client") /\ Missing("server")' = Missing("server")
  BY <1>2 DEF Missing
<1>11. SoundAcks("client")' = SoundAcks("client") /\ SoundAcks("server")' = SoundAcks("server")
  BY <1>10 DEF SoundAcks
<1>12. ASSUME NEW i \in 1..Len(Line')
       PROVE  \/ i \in 1..Len(Line) /\ Line'[i] = Line[i]
              \/ \E j \in 1..Len(buffer["server"]) : Line'[i] = buffer["server"][j]
              \/ i = Len(Line') /\ Line'[i] = a
  <2>1. \/ i \in 1..Len(Line)
        \/ i - Len(Line) \in 1..Len(b) /\ Len(Line) + (i - Len(Line)) = i
        \/ i = Len(Line) + Len(b) + 1
    BY <1>4
  <2>2. CASE i \in 1..Len(Line)
    BY <1>4, <2>2
  <2>3. CASE i - Len(Line) \in 1..Len(b) /\ Len(Line) + (i - Len(Line)) = i
    <3>1. Line'[i] = b[i - Len(Line)]
      BY <1>4, <2>3
    <3>2. QED
      BY <1>5, <2>3, <3>1
  <2>4. CASE i = Len(Line) + Len(b) + 1
    BY <1>4, <2>4
  <2>5. QED
    BY <2>1, <2>2, <2>3, <2>4
<1>13. IdsInv'
  <2>1. \A e \in End : nextId'[e] >= 1 /\ sent'[e] \subseteq 1..(nextId'[e] - 1)
    <3>1. nextId["client"] \in Nat /\ nextId["server"] \in Nat
      BY <1>1 DEF TypeOK, End
    <3>2. nextId'["server"] >= 1 /\ sent'["server"] \subseteq 1..(nextId'["server"] - 1)
      BY <1>1, <1>2, <1>4, <3>1 DEF IdsInv, End
    <3>3. nextId'["client"] >= 1 /\ sent'["client"] \subseteq 1..(nextId'["client"] - 1)
      BY <1>1, <1>2, <1>4, <3>1 DEF IdsInv, End
    <3>4. QED
      BY <3>2, <3>3 DEF End
  <2>2. /\ maxReceived'["client"] < nextId'["server"] /\ maxReceived'["server"] < nextId'["client"]
        /\ received'["client"] \subseteq sent'["server"] /\ received'["server"] \subseteq sent'["client"]
    <3>1. /\ maxReceived["client"] \in Nat /\ nextId["server"] \in Nat
          /\ maxReceived["client"] < nextId["server"] /\ maxReceived["server"] < nextId["client"]
          /\ received["client"] \subseteq sent["server"] /\ received["server"] \subseteq sent["client"]
      BY <1>1 DEF IdsInv, TypeOK, End
    <3>2. QED
      BY <1>2, <1>4, <3>1
  <2>3. \A i \in 1..Len(b) : b[i] \in ServerMessages' /\ b[i].kind \in Buffered
    BY <1>1, <1>4, <1>5 DEF IdsInv
  <2>4. \A i \in 1..Len(buffer'["client"]) :
           buffer'["client"][i] \in ClientMessages' /\ buffer'["client"][i].kind \in Buffered
    BY <1>1, <1>2, <1>4 DEF IdsInv
  <2>5. \A i \in 1..Len(Line') : Line'[i] \in ServerMessages'
    BY <1>1, <1>4, <1>12 DEF IdsInv
  <2>6. \A i \in 1..Len(c2s') : c2s'[i] \in ClientMessages'
    BY <1>1, <1>4, <1>6 DEF IdsInv
  <2>7. QED
    BY <2>1, <2>2, <2>3, <2>4, <2>5, <2>6 DEF IdsInv, b
<1>14. PhaseInv'
  <2>1. \E i \in 1..Len(Line') : FlushAck(Line[i])'
    <3>1. PICK n \in 1..Len(Line') : Line'[n] = a
      BY <1>4
    <3>2. FlushAck(Line[n])'
      BY <1>2, <1>4, <1>7, <3>1 DEF FlushAck
    <3>3. QED
      BY <3>2
  <2>2. QED
    BY <1>2, <1>7, <1>8, <1>9, <2>1 DEF PhaseInv
<1>15. ClientKept'
  BY <1>1, <1>2, <1>7, <1>10 DEF ClientKept
<1>16. ServerAcksSound'
  <2>1. SUFFICES ASSUME NEW i \in 1..Len(Line'), \A j \in 1..i : ~ FlushAck(Line[j])'
                 PROVE  Line'[i].ack \in SoundAcks("client")'
    BY <1>9 DEF ServerAcksSound
  <2>2. Line'[i] # a
    <3>1. i \in 1..i /\ a.kind = "ack" /\ a.re = flush'
      BY <1>2, <1>4, <1>7
    <3>2. ~ FlushAck(Line[i])'
      BY <2>1, <3>1
    <3>3. QED
      BY <3>1, <3>2 DEF FlushAck
  <2>3. QED
    BY <1>1, <1>7, <1>11, <1>12, <2>2 DEF ServerAcksSound
<1>17. ClientInOrder'
  BY <1>9 DEF ClientInOrder
<1>18. ServerKept'
  <2>1. Missing("server") \subseteq Ids(buffer["server"])
    BY <1>1, <1>7 DEF ServerKept
  <2>2. m.ack \in SoundAcks("server")
    BY <1>1, <1>6, <1>7 DEF ClientAcksSound
  <2>3. Missing("server") \subseteq Ids(b)
    BY <1>5, <2>1, <2>2 DEF SoundAcks
  <2>4. QED
    BY <1>4, <1>9, <1>10, <2>3 DEF ServerKept
<1>19. ClientAcksSound'
  BY <1>2, <1>7, <1>9 DEF ClientAcksSound
<1>20. ServerInOrder'
  <2>1. Whole' = 0
    BY <1>2, <1>7 DEF Whole
  <2>2. QED
    BY <2>1 DEF ServerInOrder
<1>21. QED
  BY <1>13, <1>14, <1>15, <1>16, <1>17, <1>18, <1>19, <1>20 DEF ChannelInv

LEMMA StartedKeeps ==
    ASSUME ChannelInv, TypeOK', NEW m \in MessageType, ServerTakes(m), RemoteStarted(m)
    PROVE  ChannelInv'
<1>1. /\ TypeOK /\ IdsInv /\ PhaseInv
      /\ ClientKept /\ ServerAcksSound /\ ClientInOrder
      /\ ServerKept /\ ClientAcksSound /\ ServerInOrder
  BY DEF ChannelInv
<1>2. /\ m.kind = "started" /\ Answer(m, <<>>)
      /\ UNCHANGED <<maxReceived, received, sent, link, flush, s2c, breaks>>
      /\ buffer'["client"] = buffer["client"]
  BY DEF RemoteStarted, Answer, ServerTakes
<1>3. <<>> \in Seq(MessageType) /\ Len(<<>>) = 0 /\ Ids(<<>>) = {}
  BY EmptySeq DEF Ids
<1> DEFINE none == <<>>
<1>4. none \in Seq(MessageType) /\ Answer(m, none) /\ Len(none) = 0 /\ Ids(none) = {}
  BY <1>2, <1>3
<1> HIDE DEF none
<1>5. PICK a \in ServerMessages' :
      /\ a.kind = "ack" /\ a.re = m.id
      /\ Len(Line) \in Nat /\ Len(Line') = Len(Line) + Len(none) + 1
      /\ \A i \in 1..Len(Line) : Line'[i] = Line[i]
      /\ Line'[Len(Line) + Len(none) + 1] = a
      /\ Ids(Line') = Ids(Line) \cup Ids(none) \cup {a.id}
      /\ ClientMessages \subseteq ClientMessages' /\ ServerMessages \subseteq ServerMessages'
      /\ nextId'["server"] = nextId["server"] + 1 /\ nextId'["client"] = nextId["client"]
  BY <1>4, AnswerEffect
<1>6. /\ Len(c2s) \in Nat /\ Len(c2s) >= 1 /\ m = c2s[1]
      /\ \A i \in 1..Len(c2s') : i + 1 \in 1..Len(c2s) /\ c2s'[i] = c2s[i + 1]
      /\ Ids(c2s) = Ids(c2s') \cup {m.id} /\ m \in ClientMessages
      /\ \A i \in 1..Len(buffer'["server"]) :
            \E j \in 1..Len(buffer["server"]) : buffer'["server"][i] = buffer["server"][j]
  BY DEF ServerTakes
<1>7. /\ Len(Line') = Len(Line) + 1 /\ Line'[Len(Line) + 1] = a
      /\ Ids(Line') = Ids(Line) \cup {a.id}
  BY <1>4, <1>5
<1>8. FlushHandled
  <2>1. ~ \E j \in 1..(1 - 1) : c2s[j].kind = "flush"
    OBVIOUS
  <2>2. QED
    BY <1>1, <1>2, <1>6, <2>1 DEF PhaseInv
<1>9. /\ FlushHandled' /\ ~ HasFlush(c2s') /\ breaks > 0 /\ link # "down"
      /\ \A i \in 1..Len(c2s') : c2s'[i].kind # "flush"
  <2>1. \A i \in 1..Len(c2s') : c2s'[i].kind # "flush"
    BY <1>6, <1>8 DEF FlushHandled, HasFlush
  <2>2. QED
    BY <1>2, <1>8, <2>1 DEF FlushHandled, HasFlush
<1>10. Missing("client")' = Missing("client") /\ Missing("server")' = Missing("server")
  BY <1>2 DEF Missing
<1>11. SoundAcks("client")' = SoundAcks("client") /\ SoundAcks("server")' = SoundAcks("server")
  BY <1>10 DEF SoundAcks
<1>12. IdsInv'
  <2>1. \A e \in End : nextId'[e] >= 1 /\ sent'[e] \subseteq 1..(nextId'[e] - 1)
    <3>1. nextId["client"] \in Nat /\ nextId["server"] \in Nat
      BY <1>1 DEF TypeOK, End
    <3>2. nextId'["server"] >= 1 /\ sent'["server"] \subseteq 1..(nextId'["server"] - 1)
      BY <1>1, <1>2, <1>5, <3>1 DEF IdsInv, End
    <3>3. nextId'["client"] >= 1 /\ sent'["client"] \subseteq 1..(nextId'["client"] - 1)
      BY <1>1, <1>2, <1>5, <3>1 DEF IdsInv, End
    <3>4. QED
      BY <3>2, <3>3 DEF End
  <2>2. /\ maxReceived'["client"] < nextId'["server"] /\ maxReceived'["server"] < nextId'["client"]
        /\ received'["client"] \subseteq sent'["server"] /\ received'["server"] \subseteq sent'["client"]
    <3>1. /\ maxReceived["client"] \in Nat /\ nextId["server"] \in Nat
          /\ maxReceived["client"] < nextId["server"] /\ maxReceived["server"] < nextId["client"]
          /\ received["client"] \subseteq sent["server"] /\ received["server"] \subseteq sent["client"]
      BY <1>1 DEF IdsInv, TypeOK, End
    <3>2. QED
      BY <1>2, <1>5, <3>1
  <2>3. \A i \in 1..Len(buffer'["server"]) :
           buffer'["server"][i] \in ServerMessages' /\ buffer'["server"][i].kind \in Buffered
    BY <1>1, <1>5, <1>6 DEF IdsInv
  <2>4. \A i \in 1..Len(buffer'["client"]) :
           buffer'["client"][i] \in ClientMessages' /\ buffer'["client"][i].kind \in Buffered
    BY <1>1, <1>2, <1>5 DEF IdsInv
  <2>5. \A i \in 1..Len(Line') : Line'[i] \in ServerMessages'
    <3>1. ASSUME NEW i \in 1..Len(Line') PROVE i \in 1..Len(Line) \/ i = Len(Line) + 1
      BY <1>5, <1>7
    <3>2. QED
      BY <1>1, <1>5, <1>7, <3>1 DEF IdsInv
  <2>6. \A i \in 1..Len(c2s') : c2s'[i] \in ClientMessages'
    BY <1>1, <1>5, <1>6 DEF IdsInv
  <2>7. QED
    BY <2>1, <2>2, <2>3, <2>4, <2>5, <2>6 DEF IdsInv
<1>13. ASSUME link = "resync"
       PROVE  \E k \in 1..Len(Line) : FlushAck(Line[k]) /\ FlushAck(Line[k])'
  <2>1. PICK k \in 1..Len(Line) : FlushAck(Line[k])
    BY <1>1, <1>8, <1>13 DEF PhaseInv
  <2>2. Line'[k] = Line[k]
    BY <1>5
  <2>3. FlushAck(Line[k])'
    BY <1>2, <2>1, <2>2 DEF FlushAck
  <2>4. QED
    BY <2>1, <2>3
<1>14. PhaseInv'
  <2>1. link' = "resync" => \E i \in 1..Len(Line') : FlushAck(Line[i])'
    BY <1>2, <1>5, <1>7, <1>13 DEF FlushAck
  <2>2. QED
    BY <1>1, <1>2, <1>9, <2>1 DEF PhaseInv
<1>15. ClientKept'
  <2>1. m.id \notin Missing("client")
    BY <1>2, <1>6 DEF Missing, ClientMessages, Buffered
  <2>2. QED
    BY <1>1, <1>2, <1>6, <1>10, <2>1 DEF ClientKept
<1>16. ServerAcksSound'
  <2>1. SUFFICES ASSUME link = "resync", NEW i \in 1..Len(Line'),
                        \A j \in 1..i : ~ FlushAck(Line[j])'
                 PROVE  Line'[i].ack \in SoundAcks("client")'
    BY <1>2, <1>9 DEF ServerAcksSound
  <2>2. PICK k \in 1..Len(Line) : FlushAck(Line[k]) /\ FlushAck(Line[k])'
    BY <1>13, <2>1
  <2>3. i \in 1..Len(Line)
    BY <1>5, <1>7, <2>1, <2>2
  <2>4. \A j \in 1..i : ~ FlushAck(Line[j])
    <3>1. \A j \in 1..i : j \in 1..Len(Line) /\ Line'[j] = Line[j]
      BY <1>5, <2>3
    <3>2. QED
      BY <1>2, <2>1, <3>1 DEF FlushAck
  <2>5. QED
    BY <1>1, <1>5, <1>8, <1>11, <2>1, <2>3, <2>4 DEF ServerAcksSound
<1>17. ClientInOrder'
  BY <1>9 DEF ClientInOrder
<1>18. ServerKept'
  BY <1>1, <1>7, <1>8, <1>9, <1>10 DEF ServerKept
<1>19. ClientAcksSound'
  BY <1>2, <1>9 DEF ClientAcksSound, TypeOK
<1>20. ServerInOrder'
  <2>1. Whole' = 0
    BY <1>2, <1>9 DEF Whole
  <2>2. QED
    BY <2>1 DEF ServerInOrder
<1>21. QED
  BY <1>12, <1>14, <1>15, <1>16, <1>17, <1>18, <1>19, <1>20 DEF ChannelInv
LEMMA HandledKeeps ==
    ASSUME ChannelInv, TypeOK', NEW m \in MessageType, ServerTakes(m),
           m.kind \notin {"flush", "started"}, Handle("server", m),
           UNCHANGED <<nextId, outgoing>>
    PROVE  ChannelInv'
<1>1. /\ TypeOK /\ IdsInv /\ PhaseInv
      /\ ClientKept /\ ServerAcksSound /\ ClientInOrder
      /\ ServerKept /\ ClientAcksSound /\ ServerInOrder
  BY DEF ChannelInv
<1>2. /\ Len(c2s) \in Nat /\ Len(c2s) >= 1 /\ m = c2s[1]
      /\ Len(c2s') = Len(c2s) - 1 /\ Ids(c2s) = Ids(c2s') \cup {m.id}
      /\ \A i \in 1..Len(c2s') : i + 1 \in 1..Len(c2s) /\ c2s'[i] = c2s[i + 1]
      /\ m.id \in Nat /\ m.ack \in Int /\ m \in ClientMessages
      /\ buffer'["client"] = buffer["client"]
      /\ \A id \in Ids(buffer["server"]) : id > m.ack => id \in Ids(buffer'["server"])
      /\ \A i \in 1..Len(buffer'["server"]) :
            \E j \in 1..Len(buffer["server"]) : buffer'["server"][i] = buffer["server"][j]
      /\ UNCHANGED <<sent, link, flush, s2c, breaks, nextId, outgoing>>
  BY DEF ServerTakes
<1>3. m.kind \in Buffered /\ m.id \in sent["client"] /\ m.id < nextId["client"]
  BY <1>2 DEF ClientMessages
<1>4. /\ maxReceived'["server"] = m.id /\ maxReceived'["client"] = maxReceived["client"]
      /\ received'["server"] = received["server"] \cup {m.id}
      /\ received'["client"] = received["client"]
  <2>1. /\ received \in [End -> SUBSET Nat] /\ maxReceived \in [End -> Nat]
        /\ "client" \in End /\ "server" \in End
    BY <1>1 DEF TypeOK, End
  <2>2. /\ maxReceived' = [maxReceived EXCEPT !["server"] = m.id]
        /\ received' = [received EXCEPT !["server"] = @ \cup {m.id}]
    BY <1>3 DEF Handle, Buffered
  <2>3. QED
    BY <2>1, <2>2, Zenon
<1>5. /\ Missing("client")' = Missing("client") \ {m.id}
      /\ Missing("server")' = Missing("server")
  BY <1>2, <1>4 DEF Missing, Peer
<1>6. /\ SoundAcks("server")' = SoundAcks("server")
      /\ SoundAcks("client") \subseteq SoundAcks("client")'
  <2>1. Missing("client")' \subseteq Missing("client")
    BY <1>5
  <2>2. SoundAcks("client") \subseteq SoundAcks("client")'
    BY <2>1, SoundGrow
  <2>3. QED
    BY <1>5, <2>2 DEF SoundAcks
<1>7. Line' = Line
  BY <1>2 DEF Line
<1>8. ClientMessages' = ClientMessages /\ ServerMessages' = ServerMessages
  BY <1>2 DEF ClientMessages, ServerMessages
<1>9. m.kind # "flush"
  OBVIOUS
<1>10. HasFlush(c2s') <=> HasFlush(c2s)
  <2>1. ASSUME NEW i \in 1..Len(c2s), c2s[i].kind = "flush" PROVE HasFlush(c2s')
    <3>1. i - 1 \in 1..Len(c2s') /\ (i - 1) + 1 = i
      BY <1>2, <1>9, <2>1
    <3>2. c2s'[i - 1] = c2s[i]
      BY <1>2, <3>1
    <3>3. QED
      BY <2>1, <3>1, <3>2 DEF HasFlush
  <2>2. QED
    BY <1>2, <2>1 DEF HasFlush
<1>11. FlushHandled' <=> FlushHandled
  BY <1>2, <1>10 DEF FlushHandled
<1>12. ASSUME NEW i \in 1..Len(c2s'), \A j \in 1..i : c2s'[j].kind # "flush"
       PROVE  \A j \in 1..(i + 1) : c2s[j].kind # "flush"
  <2>1. SUFFICES ASSUME NEW j \in 1..(i + 1) PROVE c2s[j].kind # "flush"
    OBVIOUS
  <2>2. CASE j = 1
    BY <1>2, <1>9, <2>2
  <2>3. CASE j # 1
    <3>1. j - 1 \in 1..i /\ j - 1 \in 1..Len(c2s') /\ (j - 1) + 1 = j
      BY <1>2, <2>3
    <3>2. c2s'[j - 1] = c2s[j]
      BY <1>2, <3>1
    <3>3. QED
      BY <1>12, <3>1, <3>2
  <2>4. QED
    BY <2>2, <2>3
<1>13. IdsInv'
  <2>1. /\ maxReceived'["client"] < nextId'["server"] /\ maxReceived'["server"] < nextId'["client"]
        /\ received'["client"] \subseteq sent'["server"] /\ received'["server"] \subseteq sent'["client"]
    BY <1>1, <1>2, <1>3, <1>4 DEF IdsInv
  <2>2. \A i \in 1..Len(buffer'["server"]) :
           buffer'["server"][i] \in ServerMessages' /\ buffer'["server"][i].kind \in Buffered
    BY <1>1, <1>2, <1>8 DEF IdsInv
  <2>3. \A i \in 1..Len(c2s') : c2s'[i] \in ClientMessages'
    BY <1>1, <1>2, <1>8 DEF IdsInv
  <2>4. QED
    BY <1>1, <1>2, <1>7, <1>8, <2>1, <2>2, <2>3 DEF IdsInv
<1>14. PhaseInv'
  <2>1. \A i \in 1..Len(c2s') : c2s'[i].kind = "flush" =>
           c2s'[i].id = flush' /\ \A j \in 1..Len(c2s') : c2s'[j].kind = "flush" => i = j
    <3>1. ASSUME NEW i \in 1..Len(c2s'), c2s'[i].kind = "flush"
          PROVE  c2s'[i].id = flush' /\ \A j \in 1..Len(c2s') : c2s'[j].kind = "flush" => i = j
      <4>1. i + 1 \in 1..Len(c2s) /\ c2s'[i] = c2s[i + 1]
        BY <1>2
      <4>2. c2s[i + 1].id = flush /\ \A j \in 1..Len(c2s) : c2s[j].kind = "flush" => i + 1 = j
        BY <1>1, <3>1, <4>1 DEF PhaseInv
      <4>3. ASSUME NEW j \in 1..Len(c2s'), c2s'[j].kind = "flush" PROVE i = j
        <5>1. j + 1 \in 1..Len(c2s) /\ c2s'[j] = c2s[j + 1]
          BY <1>2
        <5>2. i + 1 = j + 1
          BY <4>2, <4>3, <5>1
        <5>3. QED
          BY <5>2
      <4>4. QED
        BY <1>2, <4>1, <4>2, <4>3
    <3>2. QED
      BY <3>1
  <2>2. ~ FlushHandled' => \A i \in 1..Len(c2s') : c2s'[i].kind = "started" =>
           \E j \in 1..(i - 1) : c2s'[j].kind = "flush"
    <3>1. SUFFICES ASSUME ~ FlushHandled, NEW i \in 1..Len(c2s'), c2s'[i].kind = "started"
                   PROVE  \E j \in 1..(i - 1) : c2s'[j].kind = "flush"
      BY <1>11
    <3>2. i + 1 \in 1..Len(c2s) /\ c2s'[i] = c2s[i + 1]
      BY <1>2
    <3>3. PICK j \in 1..((i + 1) - 1) : c2s[j].kind = "flush"
      BY <1>1, <3>1, <3>2 DEF PhaseInv
    <3>4. j # 1
      BY <1>2, <1>9, <3>3
    <3>5. j - 1 \in 1..(i - 1) /\ j - 1 \in 1..Len(c2s') /\ (j - 1) + 1 = j
      BY <1>2, <3>3, <3>4
    <3>6. c2s'[j - 1] = c2s[j]
      BY <1>2, <3>5
    <3>7. QED
      BY <3>3, <3>5, <3>6
  <2>3. QED
    BY <1>1, <1>2, <1>7, <1>10, <1>11, <2>1, <2>2 DEF PhaseInv, FlushAck
<1>15. ClientKept'
  BY <1>1, <1>2, <1>5 DEF ClientKept
<1>16. ServerAcksSound'
  <2>1. ASSUME ~ FlushHandled'
        PROVE  /\ maxReceived'["server"] \in SoundAcks("client")'
               /\ \A i \in 1..Len(buffer'["server"]) : buffer'["server"][i].ack \in SoundAcks("client")'
               /\ \A i \in 1..Len(Line') : Line'[i].ack \in SoundAcks("client")'
    <3>1. \A j \in 1..1 : c2s[j].kind # "flush"
      BY <1>2, <1>9
    <3>2. \A id \in Missing("client") : id <= m.id => \E j \in 1..1 : c2s[j].id = id
      BY <1>1, <1>2, <1>11, <2>1, <3>1 DEF ClientInOrder
    <3>3. Missing("client") \subseteq Nat
      BY <1>1 DEF Missing, TypeOK, End
    <3>4. \A id \in Missing("client")' : id > m.id
      BY <1>2, <1>5, <3>2, <3>3
    <3>5. maxReceived'["server"] \in SoundAcks("client")'
      BY <1>2, <1>4, <3>4 DEF SoundAcks
    <3>6. /\ \A i \in 1..Len(buffer["server"]) : buffer["server"][i].ack \in SoundAcks("client")'
          /\ \A i \in 1..Len(Line) : Line[i].ack \in SoundAcks("client")'
      BY <1>1, <1>6, <1>11, <2>1 DEF ServerAcksSound
    <3>7. QED
      BY <1>2, <1>7, <3>5, <3>6
  <2>2. ASSUME FlushHandled', link' = "resync", NEW i \in 1..Len(Line'),
               \A j \in 1..i : ~ FlushAck(Line[j])'
        PROVE  Line'[i].ack \in SoundAcks("client")'
    <3>1. \A j \in 1..i : ~ FlushAck(Line[j])
      BY <1>2, <1>7, <2>2 DEF FlushAck
    <3>2. Line[i].ack \in SoundAcks("client")
      BY <1>1, <1>2, <1>7, <1>11, <2>2, <3>1 DEF ServerAcksSound
    <3>3. QED
      BY <1>6, <1>7, <3>2
  <2>3. QED
    BY <2>1, <2>2 DEF ServerAcksSound
<1>17. ClientInOrder'
  <2>1. SUFFICES ASSUME ~ FlushHandled, NEW i \in 1..Len(c2s'),
                        \A j \in 1..i : c2s'[j].kind # "flush",
                        NEW id \in Missing("client")', id <= c2s'[i].id
                 PROVE  \E j \in 1..i : c2s'[j].id = id
    BY <1>11 DEF ClientInOrder
  <2>2. i + 1 \in 1..Len(c2s) /\ c2s'[i] = c2s[i + 1] /\ id \in Missing("client") /\ id # m.id
    BY <1>2, <1>5
  <2>3. PICK j \in 1..(i + 1) : c2s[j].id = id
    BY <1>1, <1>12, <2>1, <2>2 DEF ClientInOrder
  <2>4. j # 1
    BY <1>2, <2>2, <2>3
  <2>5. j - 1 \in 1..i /\ j - 1 \in 1..Len(c2s') /\ (j - 1) + 1 = j
    BY <1>2, <2>3, <2>4
  <2>6. c2s'[j - 1] = c2s[j]
    BY <1>2, <2>5
  <2>7. QED
    BY <2>3, <2>5, <2>6
<1>18. ServerKept'
  <2>1. ASSUME ~ FlushHandled PROVE Missing("server") \subseteq Ids(buffer'["server"])
    <3>1. Missing("server") \subseteq Ids(buffer["server"])
      BY <1>1, <2>1 DEF ServerKept
    <3>2. m.ack \in SoundAcks("server")
      BY <1>1, <1>2, <2>1 DEF ClientAcksSound
    <3>3. QED
      BY <1>2, <3>1, <3>2 DEF SoundAcks
  <2>2. QED
    BY <1>1, <1>2, <1>5, <1>7, <1>11, <2>1 DEF ServerKept
<1>19. ClientAcksSound'
  <2>1. ASSUME ~ FlushHandled, NEW i \in 1..Len(c2s'),
               \A j \in 1..(i - 1) : c2s'[j].kind # "flush"
        PROVE  c2s'[i].ack \in SoundAcks("server")
    <3>1. i + 1 \in 1..Len(c2s) /\ c2s'[i] = c2s[i + 1]
      BY <1>2
    <3>2. \A j \in 1..((i + 1) - 1) : c2s[j].kind # "flush"
      <4>1. SUFFICES ASSUME NEW j \in 1..((i + 1) - 1) PROVE c2s[j].kind # "flush"
        OBVIOUS
      <4>2. CASE j = 1
        BY <1>2, <1>9, <4>2
      <4>3. CASE j # 1
        <5>1. j - 1 \in 1..(i - 1) /\ j - 1 \in 1..Len(c2s') /\ (j - 1) + 1 = j
          BY <1>2, <4>3
        <5>2. c2s'[j - 1] = c2s[j]
          BY <1>2, <5>1
        <5>3. QED
          BY <2>1, <5>1, <5>2
      <4>4. QED
        BY <4>2, <4>3
    <3>3. QED
      BY <1>1, <2>1, <3>1, <3>2 DEF ClientAcksSound
  <2>2. QED
    BY <1>1, <1>2, <1>4, <1>6, <1>11, <2>1 DEF ClientAcksSound
<1>20. ServerInOrder'
  BY <1>1, <1>2, <1>5, <1>7 DEF ServerInOrder, Whole
<1>21. QED
  BY <1>13, <1>14, <1>15, <1>16, <1>17, <1>18, <1>19, <1>20 DEF ChannelInv

LEMMA ReceiveAtServerKeeps ==
    ASSUME ChannelInv, TypeOK', ReceiveAtServer PROVE ChannelInv'
  BY ReceiveAtServerEffect, FlushKeeps, StartedKeeps, HandledKeeps
(* Only the first break is covered: the connection was up since the start.   *)
LEMMA BreakKeeps ==
    ASSUME MaxBreaks <= 1, ChannelInv, TypeOK', Break PROVE ChannelInv'
<1>1. /\ TypeOK /\ IdsInv /\ PhaseInv
      /\ ClientKept /\ ServerAcksSound /\ ClientInOrder
      /\ ServerKept /\ ClientAcksSound /\ ServerInOrder
  BY DEF ChannelInv
<1>2. /\ breaks = 0 /\ breaks' = 1 /\ link = "up" /\ link' = "down" /\ flush' = None
      /\ UNCHANGED <<nextId, maxReceived, buffer, sent, received, outgoing>>
  <2>1. breaks < MaxBreaks /\ breaks' = breaks + 1 /\ breaks \in 0..MaxBreaks /\ MaxBreaks \in Nat
    BY <1>1, ChannelAssumption DEF Break, TypeOK
  <2>2. breaks = 0 /\ breaks' = 1
    BY <2>1
  <2>3. QED
    BY <1>1, <2>2 DEF Break, PhaseInv, ends
<1>3. ~ FlushHandled /\ ~ FlushHandled' /\ \A i \in 1..Len(c2s) : c2s[i].kind # "flush"
  BY <1>1, <1>2 DEF FlushHandled, PhaseInv, HasFlush
<1>4. /\ Len(c2s) \in Nat /\ Len(c2s') \in 0..Len(c2s)
      /\ \A i \in 1..Len(c2s') : c2s'[i] = c2s[i]
  <2>1. c2s \in Seq(MessageType) /\ Len(c2s) \in Nat /\ arrived \in Nat
    BY <1>1, LenProperties DEF TypeOK
  <2>2. PICK k \in arrived..Len(c2s) : c2s' = SubSeq(c2s, 1, k)
    BY DEF Break
  <2>3. k \in 0..Len(c2s)
    BY <2>1
  <2>4. /\ Len(SubSeq(c2s, 1, k)) = k
        /\ \A i \in 1..k : SubSeq(c2s, 1, k)[i] = c2s[i]
    BY <2>1, <2>3, PrefixType
  <2>5. QED
    BY <2>1, <2>2, <2>3, <2>4
<1>5. /\ s2c' \in Seq(MessageType) /\ Len(s2c) \in Nat /\ Len(s2c') \in 0..Len(s2c)
      /\ \A i \in 1..Len(s2c') : s2c'[i] = s2c[i]
  <2>1. s2c \in Seq(MessageType) /\ Len(s2c) \in Nat
    BY <1>1, LenProperties DEF TypeOK
  <2>2. PICK k \in 0..Len(s2c) : s2c' = SubSeq(s2c, 1, k)
    BY DEF Break
  <2>3. /\ SubSeq(s2c, 1, k) \in Seq(MessageType) /\ Len(SubSeq(s2c, 1, k)) = k
        /\ \A i \in 1..k : SubSeq(s2c, 1, k)[i] = s2c[i]
    BY <2>1, PrefixType
  <2>4. QED
    BY <2>1, <2>2, <2>3
<1>6. /\ Len(Line) = Len(s2c) + Len(outgoing) /\ Len(outgoing) \in Nat
      /\ \A i \in 1..Len(s2c) : Line[i] = s2c[i]
      /\ \A i \in 1..Len(outgoing) : Line[Len(s2c) + i] = outgoing[i]
  BY <1>1, LineFacts
<1>7. /\ Len(Line') = Len(s2c') + Len(outgoing)
      /\ \A i \in 1..Len(s2c') : Line'[i] = s2c'[i]
      /\ \A i \in 1..Len(outgoing) : Line'[Len(s2c') + i] = outgoing[i]
  <2>1. Line' = s2c' \o outgoing /\ outgoing \in Seq(MessageType)
    BY <1>1, <1>2 DEF Line, TypeOK
  <2>2. /\ Len(s2c' \o outgoing) = Len(s2c') + Len(outgoing)
        /\ \A i \in 1..Len(s2c') : (s2c' \o outgoing)[i] = s2c'[i]
        /\ \A i \in 1..Len(outgoing) : (s2c' \o outgoing)[Len(s2c') + i] = outgoing[i]
    BY <1>5, <2>1, JoinMessages
  <2>3. QED
    BY <2>1, <2>2, Zenon
<1>8. \A i \in 1..Len(s2c') : Line'[i] = Line[i] /\ i \in 1..Len(Line)
  <2>1. SUFFICES ASSUME NEW i \in 1..Len(s2c') PROVE Line'[i] = Line[i] /\ i \in 1..Len(Line)
    OBVIOUS
  <2>2. i \in 1..Len(s2c) /\ i \in 1..Len(Line)
    BY <1>5, <1>6
  <2>3. Line'[i] = s2c'[i] /\ s2c'[i] = s2c[i] /\ Line[i] = s2c[i]
    BY <1>5, <1>6, <1>7, <2>2
  <2>4. QED
    BY <2>2, <2>3
<1>9. ASSUME NEW i \in 1..Len(Line') PROVE \E j \in 1..Len(Line) : Line'[i] = Line[j]
  <2>1. CASE i \in 1..Len(s2c')
    BY <1>8, <2>1
  <2>2. CASE i \notin 1..Len(s2c')
    <3>1. i - Len(s2c') \in 1..Len(outgoing) /\ Len(s2c') + (i - Len(s2c')) = i
      BY <1>5, <1>6, <1>7, <2>2
    <3>2. Len(s2c) + (i - Len(s2c')) \in 1..Len(Line)
      BY <1>5, <1>6, <3>1
    <3>3. Line'[i] = Line[Len(s2c) + (i - Len(s2c'))]
      BY <1>6, <1>7, <3>1
    <3>4. QED
      BY <3>2, <3>3
  <2>3. QED
    BY <2>1, <2>2
<1>10. Missing("client")' = Missing("client") /\ Missing("server")' = Missing("server")
  BY <1>2 DEF Missing
<1>11. SoundAcks("client")' = SoundAcks("client") /\ SoundAcks("server")' = SoundAcks("server")
  BY <1>10 DEF SoundAcks
<1>12. ClientMessages' = ClientMessages /\ ServerMessages' = ServerMessages
  BY <1>2 DEF ClientMessages, ServerMessages
<1>13. \A i \in 1..Len(c2s') : i \in 1..Len(c2s)
  BY <1>4
<1>14. IdsInv'
  BY <1>1, <1>2, <1>4, <1>9, <1>12, <1>13 DEF IdsInv
<1>15. PhaseInv'
  <2>1. \A i \in 1..Len(c2s') : c2s'[i].kind # "flush" /\ c2s'[i].kind # "started"
    BY <1>1, <1>3, <1>4, <1>13 DEF PhaseInv
  <2>2. ~ HasFlush(c2s')
    BY <2>1 DEF HasFlush
  <2>3. \A i \in 1..Len(Line') : Line'[i].kind # "ack"
    BY <1>1, <1>3, <1>9 DEF PhaseInv
  <2>4. QED
    BY <1>2, <1>3, <2>1, <2>2, <2>3 DEF PhaseInv
<1>16. ClientKept'
  BY <1>1, <1>2, <1>10 DEF ClientKept
<1>17. ServerAcksSound'
  BY <1>1, <1>2, <1>3, <1>9, <1>11 DEF ServerAcksSound
<1>18. ClientInOrder'
  <2>1. SUFFICES ASSUME NEW i \in 1..Len(c2s'), NEW id \in Missing("client"), id <= c2s'[i].id
                 PROVE  \E j \in 1..i : c2s'[j].id = id
    BY <1>10 DEF ClientInOrder
  <2>2. \A j \in 1..i : j \in 1..Len(c2s) /\ c2s'[j] = c2s[j]
    BY <1>4
  <2>3. i \in 1..i /\ i \in 1..Len(c2s)
    BY <1>4
  <2>4. \E j \in 1..i : c2s[j].id = id
    BY <1>1, <1>3, <2>1, <2>2, <2>3 DEF ClientInOrder
  <2>5. QED
    BY <2>2, <2>4
<1>19. ServerKept'
  BY <1>1, <1>2, <1>3, <1>10 DEF ServerKept
<1>20. ClientAcksSound'
  <2>1. \A i \in 1..Len(c2s') : c2s'[i].ack \in SoundAcks("server")
    <3>1. \A i \in 1..Len(c2s) : \A j \in 1..(i - 1) : j \in 1..Len(c2s)
      BY <1>4
    <3>2. \A i \in 1..Len(c2s) : c2s[i].ack \in SoundAcks("server")
      BY <1>1, <1>3, <3>1 DEF ClientAcksSound
    <3>3. QED
      BY <1>4, <1>13, <3>2
  <2>2. QED
    BY <1>1, <1>2, <1>11, <2>1 DEF ClientAcksSound
<1>21. ServerInOrder'
  <2>1. Whole' = Len(s2c') /\ Whole = Len(Line)
    BY <1>2 DEF Whole
  <2>2. SUFFICES ASSUME NEW i \in 1..Len(s2c'), NEW id \in Missing("server"), id <= Line'[i].id
                 PROVE  \E j \in 1..i : Line'[j].id = id
    BY <1>10, <2>1 DEF ServerInOrder
  <2>3. i \in 1..Len(Line) /\ Line'[i] = Line[i]
    BY <1>8
  <2>4. PICK j \in 1..i : Line[j].id = id
    BY <1>1, <2>1, <2>2, <2>3 DEF ServerInOrder
  <2>5. j \in 1..Len(s2c')
    BY <1>5, <2>2
  <2>6. QED
    BY <1>8, <2>4, <2>5
<1>22. QED
  BY <1>14, <1>15, <1>16, <1>17, <1>18, <1>19, <1>20, <1>21 DEF ChannelInv

LEMMA ReconnectKeeps == ASSUME ChannelInv, TypeOK', Reconnect PROVE ChannelInv'
<1>1. /\ TypeOK /\ IdsInv /\ PhaseInv
      /\ ClientKept /\ ServerAcksSound /\ ClientInOrder
      /\ ServerKept /\ ClientAcksSound /\ ServerInOrder
  BY DEF ChannelInv
<1> DEFINE f == Message("flush", nextId["client"], maxReceived["client"], None)
           st == Message("started", 0, None, None)
<1>2. nextId["client"] \in Nat /\ nextId["server"] \in Nat /\ maxReceived["client"] \in Nat
  BY <1>1 DEF TypeOK, End
<1>3. /\ f \in MessageType /\ f.kind = "flush" /\ f.id = nextId["client"] /\ f.ack = maxReceived["client"]
      /\ st \in MessageType /\ st.kind = "started" /\ st.id = 0 /\ st.ack = None
  BY <1>2, MessageTyped DEF Message
<1>4. /\ link = "down" /\ link' = "resync" /\ flush' = nextId["client"]
      /\ nextId' = [nextId EXCEPT !["client"] = @ + 1]
      /\ c2s' = c2s \o <<f, st>> /\ s2c' = <<>>
      /\ UNCHANGED <<maxReceived, buffer, sent, received, outgoing, breaks>>
  <2>1. flush' = nextId["client"]
    BY DEF Reconnect
  <2>2. QED
    BY <2>1 DEF Reconnect
<1> HIDE DEF f, st
<1>5. nextId'["client"] = nextId["client"] + 1 /\ nextId'["server"] = nextId["server"]
  BY <1>1, <1>4 DEF TypeOK, End
<1>6. /\ breaks # 0 /\ flush = None /\ ~ FlushHandled
      /\ \A i \in 1..Len(c2s) : c2s[i].kind # "flush"
  BY <1>1, <1>4 DEF PhaseInv, FlushHandled, HasFlush
<1> DEFINE p == <<f, st>>
<1>7. p \in Seq(MessageType) /\ Len(p) = 2 /\ p[1] = f /\ p[2] = st
  BY <1>3
<1> HIDE DEF p
<1> DEFINE t == c2s'
<1>8. /\ Len(t) = Len(c2s) + 2 /\ Len(c2s) \in Nat
      /\ \A i \in 1..Len(c2s) : t[i] = c2s[i]
      /\ t[Len(c2s) + 1] = f /\ t[Len(c2s) + 2] = st
  <2>1. c2s \in Seq(MessageType) /\ c2s' = c2s \o p
    BY <1>1, <1>4 DEF TypeOK, p
  <2>2. /\ Len(c2s \o p) = Len(c2s) + Len(p) /\ Len(c2s) \in Nat
        /\ \A i \in 1..Len(c2s) : (c2s \o p)[i] = c2s[i]
        /\ \A i \in 1..Len(p) : (c2s \o p)[Len(c2s) + i] = p[i]
    BY <1>7, <2>1, JoinMessages
  <2>3. 1 \in 1..Len(p) /\ 2 \in 1..Len(p)
    BY <1>7
  <2>4. QED
    BY <1>7, <2>1, <2>2, <2>3
<1> HIDE DEF t
<1>9. ASSUME NEW i \in 1..Len(t)
      PROVE  \/ i \in 1..Len(c2s) /\ t[i] = c2s[i]
             \/ i = Len(c2s) + 1 /\ t[i] = f
             \/ i = Len(c2s) + 2 /\ t[i] = st
  BY <1>8
<1>10. ~ FlushHandled' /\ HasFlush(t)
  <2>1. Len(c2s) + 1 \in 1..Len(t)
    BY <1>8
  <2>2. QED
    BY <1>3, <1>8, <2>1 DEF FlushHandled, HasFlush, t
<1>11. Missing("client")' = Missing("client") /\ Missing("server")' = Missing("server")
  BY <1>4 DEF Missing
<1>12. SoundAcks("client")' = SoundAcks("client") /\ SoundAcks("server")' = SoundAcks("server")
  BY <1>11 DEF SoundAcks
<1>13. ClientMessages \subseteq ClientMessages' /\ ServerMessages \subseteq ServerMessages'
  <2>1. "client" \in End
    BY DEF End
  <2>2. QED
    BY <1>2, <1>4, <2>1, MessagesGrow
<1>14. f \in ClientMessages' /\ st \in ClientMessages'
  <2>1. nextId["client"] \notin sent["client"] /\ 0 \notin sent["client"] /\ nextId["server"] >= 1
        /\ maxReceived["client"] < nextId["server"]
    BY <1>1, <1>2 DEF IdsInv, End
  <2>2. /\ f.id < nextId'["client"] /\ f.ack < nextId'["server"] /\ f.id \notin sent'["client"]
        /\ st.id < nextId'["client"] /\ st.ack < nextId'["server"] /\ st.id \notin sent'["client"]
    BY <1>2, <1>3, <1>4, <1>5, <2>1 DEF None
  <2>3. QED
    BY <1>3, <2>2 DEF ClientMessages
<1>15. /\ \A i \in 1..Len(Line') : \E j \in 1..Len(Line) : Line'[i] = Line[j]
  <2>1. /\ Len(Line) = Len(s2c) + Len(outgoing) /\ Len(s2c) \in Nat /\ Len(outgoing) \in Nat
        /\ \A i \in 1..Len(outgoing) : Line[Len(s2c) + i] = outgoing[i]
    BY <1>1, LineFacts
  <2>2. Line' = outgoing
    <3>1. outgoing \in Seq(MessageType)
      BY <1>1 DEF TypeOK
    <3>2. <<>> \o outgoing = outgoing
      BY <3>1, ConcatEmptySeq
    <3>3. QED
      BY <1>4, <3>2 DEF Line
  <2>3. ASSUME NEW i \in 1..Len(outgoing) PROVE Len(s2c) + i \in 1..Len(Line)
    BY <2>1
  <2>4. QED
    BY <2>1, <2>2, <2>3
<1>16. IdsInv'
  <2>1. \A e \in End : nextId'[e] >= 1 /\ sent'[e] \subseteq 1..(nextId'[e] - 1)
    <3>1. nextId'["client"] >= 1 /\ sent'["client"] \subseteq 1..(nextId'["client"] - 1)
      BY <1>1, <1>2, <1>4, <1>5 DEF IdsInv, End
    <3>2. nextId'["server"] >= 1 /\ sent'["server"] \subseteq 1..(nextId'["server"] - 1)
      BY <1>1, <1>2, <1>4, <1>5 DEF IdsInv, End
    <3>3. QED
      BY <3>1, <3>2 DEF End
  <2>2. /\ maxReceived'["client"] < nextId'["server"] /\ maxReceived'["server"] < nextId'["client"]
        /\ received'["client"] \subseteq sent'["server"] /\ received'["server"] \subseteq sent'["client"]
    <3>1. maxReceived["server"] \in Nat
      BY <1>1 DEF TypeOK, End
    <3>2. QED
      BY <1>1, <1>2, <1>4, <1>5, <3>1 DEF IdsInv
  <2>3. \A i \in 1..Len(buffer'["server"]) :
           buffer'["server"][i] \in ServerMessages' /\ buffer'["server"][i].kind \in Buffered
    BY <1>1, <1>4, <1>13 DEF IdsInv
  <2>4. \A i \in 1..Len(buffer'["client"]) :
           buffer'["client"][i] \in ClientMessages' /\ buffer'["client"][i].kind \in Buffered
    BY <1>1, <1>4, <1>13 DEF IdsInv
  <2>5. \A i \in 1..Len(Line') : Line'[i] \in ServerMessages'
    BY <1>1, <1>13, <1>15 DEF IdsInv
  <2>6. \A i \in 1..Len(t) : t[i] \in ClientMessages'
    BY <1>1, <1>9, <1>13, <1>14 DEF IdsInv
  <2>7. QED
    BY <2>1, <2>2, <2>3, <2>4, <2>5, <2>6 DEF IdsInv, t
<1>17. PhaseInv'
  <2>1. ASSUME NEW i \in 1..Len(t), t[i].kind = "flush"
        PROVE  i = Len(c2s) + 1 /\ t[i].id = flush'
    BY <1>3, <1>4, <1>6, <1>9, <2>1
  <2>2. ASSUME NEW i \in 1..Len(t), t[i].kind = "started"
        PROVE  \E j \in 1..(i - 1) : t[j].kind = "flush"
    <3>1. ~ (i \in 1..Len(c2s) /\ t[i] = c2s[i])
      <4>1. \A j \in 1..Len(c2s) : \A k \in 1..(j - 1) : k \in 1..Len(c2s)
        BY <1>8
      <4>2. QED
        BY <1>1, <1>6, <2>2, <4>1 DEF PhaseInv
    <3>2. i = Len(c2s) + 2
      BY <1>3, <1>9, <2>2, <3>1
    <3>3. Len(c2s) + 1 \in 1..(i - 1)
      BY <1>8, <3>2
    <3>4. QED
      BY <1>3, <1>8, <3>3
  <2>3. \A i \in 1..Len(Line') : Line'[i].kind # "ack"
    BY <1>1, <1>6, <1>15 DEF PhaseInv
  <2>4. \A i \in 1..Len(t) : t[i].kind = "flush" =>
           t[i].id = flush' /\ \A j \in 1..Len(t) : t[j].kind = "flush" => i = j
    BY <2>1
  <2>5. QED
    BY <1>4, <1>6, <1>10, <2>2, <2>3, <2>4 DEF PhaseInv, t
<1>18. ClientKept'
  BY <1>1, <1>4, <1>11 DEF ClientKept
<1>19. ServerAcksSound'
  BY <1>1, <1>4, <1>6, <1>10, <1>12, <1>15 DEF ServerAcksSound
<1>20. ASSUME NEW i \in 1..Len(t), \A j \in 1..i : t[j].kind # "flush" PROVE i \in 1..Len(c2s)
  <2>1. i < Len(c2s) + 1
    <3>1. SUFFICES ASSUME i >= Len(c2s) + 1 PROVE FALSE
      BY <1>8
    <3>2. Len(c2s) + 1 \in 1..i
      BY <1>8, <3>1
    <3>3. QED
      BY <1>3, <1>8, <1>20, <3>2
  <2>2. QED
    BY <1>8, <2>1
<1>21. ClientInOrder'
  <2>1. SUFFICES ASSUME NEW i \in 1..Len(t), \A j \in 1..i : t[j].kind # "flush",
                        NEW id \in Missing("client"), id <= t[i].id
                 PROVE  \E j \in 1..i : t[j].id = id
    BY <1>11 DEF ClientInOrder, t
  <2>2. i \in 1..Len(c2s)
    BY <1>20, <2>1
  <2>3. \A j \in 1..i : j \in 1..Len(c2s) /\ t[j] = c2s[j]
    BY <1>8, <2>2
  <2>4. \E j \in 1..i : c2s[j].id = id
    BY <1>1, <1>6, <1>8, <2>1, <2>2, <2>3 DEF ClientInOrder
  <2>5. QED
    BY <2>3, <2>4
<1>22. ServerKept'
  BY <1>1, <1>4, <1>6, <1>10, <1>11 DEF ServerKept
<1>23. ClientAcksSound'
  <2>1. ASSUME NEW i \in 1..Len(t), \A j \in 1..(i - 1) : t[j].kind # "flush"
        PROVE  t[i].ack \in SoundAcks("server")
    <3>1. CASE i \in 1..Len(c2s)
      <4>1. \A j \in 1..(i - 1) : j \in 1..Len(c2s)
        BY <1>8, <3>1
      <4>2. QED
        BY <1>1, <1>6, <1>8, <3>1, <4>1 DEF ClientAcksSound
    <3>2. CASE i = Len(c2s) + 1
      BY <1>1, <1>3, <1>4, <1>8, <3>2 DEF ClientAcksSound
    <3>3. i # Len(c2s) + 2
      <4>1. SUFFICES ASSUME i = Len(c2s) + 2 PROVE FALSE
        OBVIOUS
      <4>2. Len(c2s) + 1 \in 1..(i - 1)
        BY <1>8, <4>1
      <4>3. QED
        BY <1>3, <1>8, <2>1, <4>2
    <3>4. QED
      BY <1>9, <3>1, <3>2, <3>3
  <2>2. QED
    BY <1>4, <1>6, <1>12, <2>1 DEF ClientAcksSound, t
<1>24. ServerInOrder'
  <2>1. Whole' = 0
    BY <1>4, <1>6 DEF Whole
  <2>2. QED
    BY <2>1 DEF ServerInOrder
<1>25. QED
  BY <1>16, <1>17, <1>18, <1>19, <1>21, <1>22, <1>23, <1>24 DEF ChannelInv
-----------------------------------------------------------------------------
(* While at most one connection breaks, the phases of the resync, and which  *)
(* acknowledgements are sound in each, are kept by every step                *)
(* (ChannelClient::resync, ChannelClient::start_handling_messages).             *)
THEOREM ChannelInvariance == ASSUME MaxBreaks <= 1 PROVE Spec => []ChannelInv
<1>1. Init => ChannelInv
  <2>1. SUFFICES ASSUME Init PROVE ChannelInv
    OBVIOUS
  <2>2. TypeOK
    BY <2>1, InitTypes
  <2>3. Line = <<>>
    <3>1. <<>> \in Seq(MessageType)
      BY EmptySeq
    <3>2. <<>> \o <<>> = <<>>
      BY <3>1, ConcatEmptySeq
    <3>3. QED
      BY <2>1, <3>2 DEF Line, Init
  <2>4. Len(<<>>) = 0 /\ 1..0 = {}
    BY EmptySeq
  <2>5. /\ \A e \in End : Missing(e) = {}
        /\ \A e \in End : buffer[e] = <<>> /\ sent[e] = {} /\ received[e] = {}
                          /\ maxReceived[e] = 0 /\ nextId[e] = 1
        /\ c2s = <<>> /\ link = "up" /\ flush = None /\ breaks = 0
        /\ "client" \in End /\ "server" \in End
    BY <2>1 DEF Init, Missing, End, Peer
  <2>6. 0 \in SoundAcks("client") /\ 0 \in SoundAcks("server")
    BY <2>5 DEF SoundAcks
  <2>7. ~ FlushHandled /\ ~ HasFlush(c2s)
    BY <2>4, <2>5 DEF FlushHandled, HasFlush
  <2>8. IdsInv
    BY <2>3, <2>4, <2>5 DEF IdsInv
  <2>9. PhaseInv
    BY <2>3, <2>4, <2>5, <2>7 DEF PhaseInv
  <2>10. ClientKept /\ ServerKept
    BY <2>5 DEF ClientKept, ServerKept
  <2>11. ServerAcksSound /\ ClientAcksSound
    BY <2>3, <2>4, <2>5, <2>6, <2>7 DEF ServerAcksSound, ClientAcksSound
  <2>12. ClientInOrder /\ ServerInOrder
    BY <2>5 DEF ClientInOrder, ServerInOrder
  <2>13. QED
    BY <2>2, <2>8, <2>9, <2>10, <2>11, <2>12 DEF ChannelInv
<1>2. ChannelInv /\ TypeOK' /\ [Next]_vars => ChannelInv'
  <2>1. SUFFICES ASSUME ChannelInv, TypeOK', [Next]_vars PROVE ChannelInv'
    OBVIOUS
  <2>2. ASSUME NEW e \in End, NEW kind \in Buffered, NEW re \in Nat \cup {None},
               SendBuffered(e, kind, re)
        PROVE  ChannelInv'
    <3>1. PICK m \in MessageType : SentBy(e, m)
      BY <2>1, <2>2, SendBufferedEffect
    <3>2. QED
      BY <2>1, <3>1, ClientSends, ServerSends DEF End
  <2>3. ASSUME NEW e \in End, Send(e) PROVE ChannelInv'
    BY <2>2, <2>3 DEF Send, Buffered
  <2>4. ASSUME NEW e \in End, Request(e) PROVE ChannelInv'
    BY <2>2, <2>4 DEF Request, Buffered
  <2>5. ASSUME NEW e \in End, SomeReply(e) PROVE ChannelInv'
    <3>1. PICK i \in 1..Len(handling[e]) : Reply(e, i)
      BY <2>5 DEF SomeReply
    <3>2. handling[e][i] \in Nat
      BY <2>1, ElementOfSeq DEF ChannelInv, TypeOK
    <3>3. QED
      BY <2>2, <3>1, <3>2 DEF Reply, Buffered
  <2>6. CASE UNCHANGED vars
    <3>1. UNCHANGED <<nextId, maxReceived, buffer, waiting, handling, sent, received, link,
                      flush, c2s, s2c, arrived, outgoing, breaks>>
      BY <2>6 DEF vars, ends, wire
    <3>2. /\ Line' = Line /\ (FlushHandled' <=> FlushHandled) /\ Whole' = Whole
          /\ Missing("client")' = Missing("client") /\ Missing("server")' = Missing("server")
          /\ ClientMessages' = ClientMessages /\ ServerMessages' = ServerMessages
      BY <3>1 DEF Line, FlushHandled, HasFlush, Whole, Missing, ClientMessages, ServerMessages
    <3>3. SoundAcks("client")' = SoundAcks("client") /\ SoundAcks("server")' = SoundAcks("server")
      BY <3>2 DEF SoundAcks
    <3>4. IdsInv' /\ ClientKept' /\ ServerKept'
      BY <2>1, <3>1, <3>2 DEF ChannelInv, IdsInv, ClientKept, ServerKept
    <3>5. PhaseInv'
      BY <2>1, <3>1, <3>2 DEF ChannelInv, PhaseInv, HasFlush, FlushAck
    <3>6. ServerAcksSound' /\ ClientAcksSound'
      BY <2>1, <3>1, <3>2, <3>3 DEF ChannelInv, ServerAcksSound, ClientAcksSound, FlushAck
    <3>7. ClientInOrder' /\ ServerInOrder'
      BY <2>1, <3>1, <3>2 DEF ChannelInv, ClientInOrder, ServerInOrder
    <3>8. QED
      BY <2>1, <3>4, <3>5, <3>6, <3>7 DEF ChannelInv
  <2>7. QED
    BY <2>1, <2>3, <2>4, <2>5, <2>6, WriteKeeps, ReceiveAtClientKeeps, ReceiveAtServerKeeps,
       BreakKeeps, ReconnectKeeps DEF Next
<1>3. QED
  BY <1>1, <1>2, ChannelTypes, PTL DEF Spec

KeptParts ==
    /\ Kept("client") = Ids(buffer["client"]) \cup Ids(c2s)
    /\ Kept("server") = Ids(buffer["server"]) \cup Ids(outgoing) \cup Ids(s2c)
    /\ Kept("server") = Ids(buffer["server"]) \cup Ids(Line)

LEMMA KeptIs == TypeOK => KeptParts
<1> SUFFICES ASSUME TypeOK PROVE KeptParts
  OBVIOUS
<1>1. outgoing \in Seq(MessageType) /\ s2c \in Seq(MessageType)
  BY DEF TypeOK
<1>2. /\ Ids(outgoing \o s2c) = Ids(outgoing) \cup Ids(s2c)
      /\ Ids(s2c \o outgoing) = Ids(outgoing) \cup Ids(s2c)
  BY <1>1, JoinMessages
<1>3. Kept("client") = Ids(buffer["client"]) \cup Ids(c2s)
  BY DEF Kept
<1>4. Kept("server") = Ids(buffer["server"]) \cup Ids(outgoing \o s2c)
  BY DEF Kept
<1>5. QED
  BY <1>2, <1>3, <1>4 DEF Line, KeptParts

(* What an end sent and the other has not handled is in the sender's buffer  *)
(* or on its way, although errors on send are ignored while the client       *)
(* reconnects (ChannelClient::send_buffered).                                *)
LEMMA MissingKept == ChannelInv => NothingLost
<1>1. SUFFICES ASSUME ChannelInv PROVE NothingLost
  OBVIOUS
<1>2. Missing("client") \subseteq Kept("client")
  <2>1. Kept("client") = Ids(buffer["client"]) \cup Ids(c2s)
    BY <1>1, KeptIs DEF ChannelInv, KeptParts
  <2>2. QED
    BY <1>1, <2>1 DEF ChannelInv, ClientKept
<1>3. Missing("server") \subseteq Kept("server")
  <2>1. Kept("server") = Ids(buffer["server"]) \cup Ids(Line)
    BY <1>1, KeptIs DEF ChannelInv, KeptParts
  <2>2. QED
    BY <1>1, <2>1 DEF ChannelInv, ServerKept
<1>4. QED
  BY <1>2, <1>3 DEF NothingLost, Missing, End

(* So NothingLost, which a second break violates, holds up to the first one: *)
(* the buffer has what was sent while the client reconnects (send_buffered). *)
THEOREM OneBreakLosesNothing == ASSUME MaxBreaks <= 1 PROVE Spec => []NothingLost
<1>1. Spec => []ChannelInv
  BY ChannelInvariance
<1>2. QED
  BY <1>1, MissingKept, PTL
-----------------------------------------------------------------------------
(* Both directions implement ReliableChannel                                 *)

SendStep(e) ==
    \E id \in Nat \ sent[e] :
        /\ sent' = [sent EXCEPT ![e] = @ \cup {id}] /\ received' = received
        /\ Kept(e)' = Kept(e) \cup {id}
        /\ \A other \in End \ {e} : Kept(other)' = Kept(other)

LEMMA SendMaps ==
    ASSUME ChannelInv, TypeOK', NEW e \in End, NEW m \in MessageType, SentBy(e, m)
    PROVE  SendStep(e)
<1>1. /\ m.id \in Nat \ sent[e]
      /\ sent' = [sent EXCEPT ![e] = @ \cup {m.id}] /\ received' = received
      /\ buffer' = [buffer EXCEPT ![e] = Append(@, m)]
      /\ Post(e, m) /\ s2c' = s2c
  BY DEF SentBy
<1>2. /\ TypeOK /\ buffer \in [End -> Seq(MessageType)] /\ "client" \in End /\ "server" \in End
      /\ c2s \in Seq(MessageType) /\ outgoing \in Seq(MessageType)
  BY DEF ChannelInv, TypeOK, End
<1>3. /\ Ids(Append(c2s, m)) = Ids(c2s) \cup {m.id}
      /\ Ids(Append(outgoing, m)) = Ids(outgoing) \cup {m.id}
  BY <1>2, AppendMessage
<1>4. Ids(Append(buffer[e], m)) = Ids(buffer[e]) \cup {m.id}
  <2>1. buffer[e] \in Seq(MessageType)
    BY <1>2
  <2>2. QED
    BY <2>1, AppendMessage
<1>5. /\ Kept("client") = Ids(buffer["client"]) \cup Ids(c2s)
      /\ Kept("server") = Ids(buffer["server"]) \cup Ids(outgoing) \cup Ids(s2c)
  BY <1>2, KeptIs DEF KeptParts
<1>6. /\ Kept("client")' = Ids(buffer'["client"]) \cup Ids(c2s')
      /\ Kept("server")' = Ids(buffer'["server"]) \cup Ids(outgoing') \cup Ids(s2c')
  <2>1. KeptParts'
    BY KeptIs, PTL
  <2>2. QED
    BY <2>1 DEF KeptParts
<1>7. CASE e = "client"
  <2>1. buffer'["client"] = Append(buffer["client"], m) /\ buffer'["server"] = buffer["server"]
    BY <1>1, <1>2, <1>7, Zenon
  <2>2. outgoing' = outgoing /\ (c2s' = c2s \/ c2s' = Append(c2s, m))
    BY <1>1, <1>7 DEF Post
  <2>3. Kept("client")' = Kept("client") \cup {m.id} /\ Kept("server")' = Kept("server")
    BY <1>1, <1>3, <1>4, <1>5, <1>6, <1>7, <2>1, <2>2
  <2>4. QED
    BY <1>1, <1>7, <2>3 DEF SendStep, End
<1>8. CASE e = "server"
  <2>1. buffer'["server"] = Append(buffer["server"], m) /\ buffer'["client"] = buffer["client"]
    BY <1>1, <1>2, <1>8, Zenon
  <2>2. c2s' = c2s /\ outgoing' = Append(outgoing, m)
    BY <1>1, <1>8 DEF Post
  <2>3. Kept("server")' = Kept("server") \cup {m.id} /\ Kept("client")' = Kept("client")
    BY <1>1, <1>3, <1>4, <1>5, <1>6, <1>8, <2>1, <2>2
  <2>4. QED
    BY <1>1, <1>8, <2>3 DEF SendStep, End
<1>9. QED
  BY <1>7, <1>8 DEF End

(* What every other step does: it keeps nothing more, and an end handles at  *)
(* most one message of the other end.                                        *)
QuietStep ==
    /\ sent' = sent
    /\ \A e \in End : Kept(e)' \cap sent[e] \subseteq Kept(e)
    /\ \A e \in End : \/ received'[Peer(e)] = received[Peer(e)]
                      \/ \E id \in sent[e] : received'[Peer(e)] = received[Peer(e)] \cup {id}

(* Handle at one end, as the other end's channel sees it.                    *)
LEMMA HandleMaps ==
    ASSUME ChannelInv, NEW e \in End, NEW m \in MessageType, Handle(Peer(e), m),
           m.kind # "ack" => m.id \in sent[e]
    PROVE  \A d \in End : \/ received'[Peer(d)] = received[Peer(d)]
                          \/ \E id \in sent[d] : received'[Peer(d)] = received[Peer(d)] \cup {id}
<1>1. received \in [End -> SUBSET Nat]
  BY DEF ChannelInv, TypeOK
<1>2. received' = received \/ (m.kind # "ack" /\ received' = [received EXCEPT ![Peer(e)] = @ \cup {m.id}])
  BY DEF Handle
<1>3. CASE received' = received
  BY <1>3
<1>4. CASE m.kind # "ack" /\ received' = [received EXCEPT ![Peer(e)] = @ \cup {m.id}]
  <2>1. SUFFICES ASSUME NEW d \in End
                 PROVE  \/ received'[Peer(d)] = received[Peer(d)]
                        \/ \E id \in sent[d] : received'[Peer(d)] = received[Peer(d)] \cup {id}
    OBVIOUS
  <2>2. Peer(d) \in End /\ Peer(e) \in End /\ (d # e => Peer(d) # Peer(e))
    BY DEF Peer, End
  <2>3. CASE d = e
    <3>1. received'[Peer(e)] = received[Peer(e)] \cup {m.id}
      BY <1>1, <1>4, <2>2, Zenon
    <3>2. QED
      BY <1>4, <2>3, <3>1
  <2>4. CASE d # e
    BY <1>1, <1>4, <2>2, <2>4, Zenon
  <2>5. QED
    BY <2>3, <2>4
<1>5. QED
  BY <1>2, <1>3, <1>4

LEMMA QuietMaps ==
    ASSUME ChannelInv, TypeOK',
           Write \/ ReceiveAtClient \/ ReceiveAtServer \/ Break \/ Reconnect
    PROVE  QuietStep
<1>1. /\ TypeOK /\ IdsInv /\ buffer \in [End -> Seq(MessageType)]
      /\ c2s \in Seq(MessageType) /\ outgoing \in Seq(MessageType) /\ s2c \in Seq(MessageType)
      /\ "client" \in End /\ "server" \in End
  BY DEF ChannelInv, TypeOK, End
<1>2. /\ Kept("client") = Ids(buffer["client"]) \cup Ids(c2s)
      /\ Kept("server") = Ids(buffer["server"]) \cup Ids(outgoing) \cup Ids(s2c)
      /\ Kept("server") = Ids(buffer["server"]) \cup Ids(Line)
  BY <1>1, KeptIs DEF KeptParts
<1>3. /\ Kept("client")' = Ids(buffer'["client"]) \cup Ids(c2s')
      /\ Kept("server")' = Ids(buffer'["server"]) \cup Ids(outgoing') \cup Ids(s2c')
      /\ Kept("server")' = Ids(buffer'["server"]) \cup Ids(Line')
  <2>1. KeptParts'
    BY KeptIs, PTL
  <2>2. QED
    BY <2>1 DEF KeptParts
<1>4. \A e \in End : e = "client" \/ e = "server"
  BY DEF End
<1>5. CASE Write
  <2>1. /\ outgoing # <<>> /\ s2c' = Append(s2c, Head(outgoing)) /\ outgoing' = Tail(outgoing)
        /\ buffer' = buffer /\ c2s' = c2s /\ sent' = sent /\ received' = received
    BY <1>5 DEF Write, ends
  <2>2. /\ Ids(outgoing) = Ids(Tail(outgoing)) \cup {outgoing[1].id}
        /\ outgoing[1] \in MessageType /\ Head(outgoing) = outgoing[1]
    BY <1>1, <2>1, TailMessages
  <2>3. Ids(Append(s2c, outgoing[1])) = Ids(s2c) \cup {outgoing[1].id}
    BY <1>1, <2>2, AppendMessage
  <2>4. Kept("client")' = Kept("client") /\ Kept("server")' = Kept("server")
    BY <1>2, <1>3, <2>1, <2>2, <2>3
  <2>5. QED
    BY <1>4, <2>1, <2>4 DEF QuietStep
<1>6. CASE ReceiveAtClient
  <2>1. s2c # <<>> /\ s2c' = Tail(s2c) /\ outgoing' = outgoing /\ sent' = sent
    BY <1>6 DEF ReceiveAtClient
  <2>2. PICK m \in MessageType :
          /\ m = s2c[1] /\ Acknowledge("client", m) /\ Handle("client", m)
          /\ c2s' = c2s \/ c2s' = c2s \o buffer["client"]
    <3>1. Head(s2c) \in MessageType /\ Head(s2c) = s2c[1]
      BY <1>1, <2>1, TailMessages
    <3>2. QED
      BY <1>6, <3>1 DEF ReceiveAtClient, Resync
  <2>3. Ids(s2c') \subseteq Ids(s2c)
    BY <1>1, <2>1, TailMessages
  <2>4. buffer["client"] \in Seq(MessageType) /\ m.ack \in Int
    BY <1>1 DEF MessageType, None
  <2>5. /\ buffer'["client"] = Trimmed(buffer["client"], m.ack) /\ buffer'["server"] = buffer["server"]
    BY <1>1, <2>2, Zenon DEF Acknowledge
  <2>6. Ids(buffer'["client"]) \subseteq Ids(buffer["client"])
    BY <2>4, <2>5, TrimmedMessages
  <2>7. Ids(c2s \o buffer["client"]) = Ids(c2s) \cup Ids(buffer["client"])
    BY <1>1, <2>4, JoinMessages
  <2>8. Kept("client")' \subseteq Kept("client") /\ Kept("server")' \subseteq Kept("server")
    BY <1>2, <1>3, <2>1, <2>2, <2>3, <2>5, <2>6, <2>7
  <2>9. m.kind # "ack" => m.id \in sent["server"]
    <3>1. Len(Line) >= 1 /\ Line[1] = m /\ Len(Line) \in Nat
      <4>1. Len(s2c) >= 1 /\ Len(s2c) \in Nat
        BY <1>1, <2>1, TailMessages
      <4>2. QED
        BY <1>1, <2>2, <4>1, LineFacts
    <3>2. QED
      BY <1>1, <3>1 DEF IdsInv, ServerMessages
  <2>10. Peer("server") = "client"
    BY DEF Peer
  <2>11. \A d \in End : \/ received'[Peer(d)] = received[Peer(d)]
                        \/ \E id \in sent[d] : received'[Peer(d)] = received[Peer(d)] \cup {id}
    BY <1>1, <2>2, <2>9, <2>10, HandleMaps
  <2>12. QED
    BY <1>4, <2>1, <2>8, <2>11 DEF QuietStep
<1>7. CASE ReceiveAtServer
  <2>1. PICK m \in MessageType :
              /\ ServerTakes(m)
              /\ \/ FlushBuffer(m) \/ RemoteStarted(m)
                 \/ /\ m.kind \notin {"flush", "started"}
                    /\ Handle("server", m)
                    /\ UNCHANGED <<nextId, outgoing>>
    BY <1>7, ReceiveAtServerEffect
  <2>2. /\ sent' = sent /\ s2c' = s2c /\ buffer'["client"] = buffer["client"]
        /\ Ids(c2s) = Ids(c2s') \cup {m.id} /\ m \in ClientMessages
        /\ \A i \in 1..Len(buffer'["server"]) :
              \E j \in 1..Len(buffer["server"]) : buffer'["server"][i] = buffer["server"][j]
    BY <2>1 DEF ServerTakes
  <2>3. Ids(buffer'["server"]) \subseteq Ids(buffer["server"])
    BY <2>2 DEF Ids
  <2>4. Kept("client")' \subseteq Kept("client")
    BY <1>2, <1>3, <2>2, <2>3
  <2>5. ASSUME NEW before \in Seq(MessageType), Answer(m, before),
               Ids(before) \subseteq Ids(buffer["server"])
        PROVE  QuietStep
    <3>1. PICK a \in ServerMessages' :
             a.kind = "ack" /\ Ids(Line') = Ids(Line) \cup Ids(before) \cup {a.id}
      BY <2>1, <2>5, AnswerEffect
    <3>2. a.id \notin sent["server"]
      BY <2>2, <3>1 DEF ServerMessages, Buffered
    <3>3. Kept("server")' \cap sent["server"] \subseteq Kept("server")
      BY <1>2, <1>3, <2>3, <2>5, <3>1, <3>2
    <3>4. received' = received
      BY <2>5 DEF Answer
    <3>5. QED
      BY <1>4, <2>2, <2>4, <3>3, <3>4 DEF QuietStep
  <2>6. CASE FlushBuffer(m)
    <3>1. Answer(m, buffer'["server"]) /\ buffer'["server"] \in Seq(MessageType)
      BY <1>1, <2>1, <2>6 DEF FlushBuffer, ServerTakes, TypeOK, End
    <3>2. QED
      BY <2>3, <2>5, <3>1
  <2>7. CASE RemoteStarted(m)
    <3>1. <<>> \in Seq(MessageType) /\ Ids(<<>>) = {}
      BY EmptySeq DEF Ids
    <3>2. Answer(m, <<>>)
      BY <2>7 DEF RemoteStarted
    <3>3. QED
      BY <2>5, <3>1, <3>2
  <2>8. CASE /\ m.kind \notin {"flush", "started"}
             /\ Handle("server", m)
             /\ UNCHANGED <<nextId, outgoing>>
    <3>1. Peer("client") = "server" /\ m.id \in sent["client"]
      BY <2>2, <2>8 DEF Peer, ClientMessages
    <3>2. \A d \in End : \/ received'[Peer(d)] = received[Peer(d)]
                         \/ \E id \in sent[d] : received'[Peer(d)] = received[Peer(d)] \cup {id}
      BY <1>1, <2>8, <3>1, HandleMaps
    <3>3. Kept("server")' \subseteq Kept("server")
      BY <1>2, <1>3, <2>2, <2>3, <2>8
    <3>4. QED
      BY <1>4, <2>2, <2>4, <3>2, <3>3 DEF QuietStep
  <2>9. QED
    BY <2>1, <2>6, <2>7, <2>8
<1>8. CASE Break
  <2>1. /\ buffer' = buffer /\ outgoing' = outgoing /\ sent' = sent /\ received' = received
    BY <1>8 DEF Break, ends
  <2>2. ASSUME NEW s \in Seq(MessageType), NEW k \in 0..Len(s)
        PROVE  Ids(SubSeq(s, 1, k)) \subseteq Ids(s)
    <3>1. /\ Len(SubSeq(s, 1, k)) = k /\ Len(s) \in Nat
          /\ \A i \in 1..k : SubSeq(s, 1, k)[i] = s[i]
      BY PrefixType, LenProperties
    <3>2. \A i \in 1..k : i \in 1..Len(s)
      BY <3>1
    <3>3. QED
      BY <3>1, <3>2 DEF Ids
  <2>3. Ids(c2s') \subseteq Ids(c2s)
    <3>1. arrived \in Nat /\ Len(c2s) \in Nat
      BY <1>1, LenProperties DEF TypeOK
    <3>2. PICK k \in arrived..Len(c2s) : c2s' = SubSeq(c2s, 1, k)
      BY <1>8 DEF Break
    <3>3. k \in 0..Len(c2s)
      BY <3>1
    <3>4. QED
      BY <1>1, <2>2, <3>2, <3>3
  <2>4. Ids(s2c') \subseteq Ids(s2c)
    <3>1. PICK k \in 0..Len(s2c) : s2c' = SubSeq(s2c, 1, k)
      BY <1>8 DEF Break
    <3>2. QED
      BY <1>1, <2>2, <3>1
  <2>5. Kept("client")' \subseteq Kept("client") /\ Kept("server")' \subseteq Kept("server")
    BY <1>2, <1>3, <2>1, <2>3, <2>4
  <2>6. QED
    BY <1>4, <2>1, <2>5 DEF QuietStep
<1>9. CASE Reconnect
  <2> DEFINE p == <<Message("flush", nextId["client"], maxReceived["client"], None),
                    Message("started", 0, None, None)>>
  <2>1. /\ c2s' = c2s \o p /\ s2c' = <<>>
        /\ buffer' = buffer /\ outgoing' = outgoing /\ sent' = sent /\ received' = received
    <3>1. flush' = nextId["client"]
      BY <1>9 DEF Reconnect
    <3>2. QED
      BY <1>9, <3>1 DEF Reconnect
  <2>2. nextId["client"] \in Nat /\ maxReceived["client"] \in Nat
    BY <1>1 DEF TypeOK
  <2>3. /\ Message("flush", nextId["client"], maxReceived["client"], None) \in MessageType
        /\ Message("started", 0, None, None) \in MessageType
    BY <2>2, MessageTyped
  <2>4. p \in Seq(MessageType)
    BY <2>3
  <2>5. Ids(p) \subseteq {nextId["client"], 0}
    BY DEF Ids, Message
  <2> HIDE DEF p
  <2>6. Ids(c2s \o p) = Ids(c2s) \cup Ids(p)
    BY <1>1, <2>4, JoinMessages
  <2>7. nextId["client"] \notin sent["client"] /\ 0 \notin sent["client"]
    BY <1>1, <2>2 DEF IdsInv
  <2>8. Ids(<<>>) = {}
    BY EmptySeq DEF Ids
  <2>9. Kept("client")' \cap sent["client"] \subseteq Kept("client") /\ Kept("server")' \subseteq Kept("server")
    BY <1>2, <1>3, <2>1, <2>5, <2>6, <2>7, <2>8
  <2>10. QED
    BY <1>4, <2>1, <2>9 DEF QuietStep
<1>10. QED
  BY <1>5, <1>6, <1>7, <1>8, <1>9
LEMMA StepKinds ==
    ASSUME ChannelInv, TypeOK', [Next]_vars
    PROVE  (\E e \in End : SendStep(e)) \/ QuietStep
<1>1. ASSUME NEW e \in End, NEW kind \in Buffered, NEW re \in Nat \cup {None},
             SendBuffered(e, kind, re)
      PROVE  SendStep(e)
  BY <1>1, SendBufferedEffect, SendMaps
<1>2. ASSUME NEW e \in End, Send(e) PROVE SendStep(e)
  BY <1>1, <1>2 DEF Send, Buffered
<1>3. ASSUME NEW e \in End, Request(e) PROVE SendStep(e)
  BY <1>1, <1>3 DEF Request, Buffered
<1>4. ASSUME NEW e \in End, SomeReply(e) PROVE SendStep(e)
  <2>1. PICK i \in 1..Len(handling[e]) : Reply(e, i)
    BY <1>4 DEF SomeReply
  <2>2. handling[e][i] \in Nat
    BY ElementOfSeq DEF ChannelInv, TypeOK
  <2>3. QED
    BY <1>1, <2>1, <2>2 DEF Reply, Buffered
<1>5. CASE UNCHANGED vars
  BY <1>5 DEF vars, ends, wire, QuietStep, Kept
<1>6. QED
  BY <1>2, <1>3, <1>4, <1>5, QuietMaps DEF Next

LEMMA ClientStep ==
    ASSUME ChannelInv, ChannelInv', [Next]_vars
    PROVE  [ClientChannel!Next]_<<sent["client"], Kept("client") \cap sent["client"], received["server"]>>
<1> DEFINE kept == Kept("client") \cap sent["client"]
<1>1. sent \in [End -> SUBSET Nat] /\ "client" \in End /\ "server" \in End /\ TypeOK'
  BY DEF ChannelInv, TypeOK, End
<1>2. CASE \E e \in End : SendStep(e)
  <2>1. PICK e \in End : SendStep(e)
    BY <1>2
  <2>2. PICK id \in Nat \ sent[e] :
          /\ sent' = [sent EXCEPT ![e] = @ \cup {id}] /\ received' = received
          /\ Kept(e)' = Kept(e) \cup {id}
          /\ \A other \in End \ {e} : Kept(other)' = Kept(other)
    BY <2>1 DEF SendStep
  <2>3. CASE e = "client"
    <3>1. sent'["client"] = sent["client"] \cup {id}
      BY <1>1, <2>2, <2>3, Zenon
    <3>2. kept' = kept \cup (sent'["client"] \ sent["client"])
      BY <2>2, <2>3, <3>1
    <3>3. ClientChannel!Send
      BY <2>2, <3>1, <3>2 DEF ClientChannel!Send
    <3>4. QED
      BY <3>3 DEF ClientChannel!Next
  <2>4. CASE e # "client"
    <3>1. sent'["client"] = sent["client"]
      BY <1>1, <2>2, <2>4, Zenon
    <3>2. Kept("client")' = Kept("client")
      BY <1>1, <2>2, <2>4
    <3>3. QED
      BY <2>2, <3>1, <3>2
  <2>5. QED
    BY <2>3, <2>4
<1>3. CASE QuietStep
  <2>1. /\ sent' = sent /\ Kept("client")' \cap sent["client"] \subseteq Kept("client")
        /\ \/ received'["server"] = received["server"]
           \/ \E id \in sent["client"] : received'["server"] = received["server"] \cup {id}
    BY <1>1, <1>3 DEF QuietStep, Peer
  <2>2. sent'["client"] \subseteq received'["server"] \cup Kept("client")'
    <3>1. NothingLost'
      BY MissingKept, PTL
    <3>2. QED
      BY <1>1, <3>1 DEF NothingLost, Peer
  <2>3. kept' \subseteq kept /\ kept \ kept' \subseteq received'["server"]
    BY <2>1, <2>2
  <2>4. ClientChannel!Receive \/ ClientChannel!Forget
    BY <2>1, <2>3 DEF ClientChannel!Receive, ClientChannel!Forget
  <2>5. QED
    BY <2>4 DEF ClientChannel!Next
<1>4. QED
  BY <1>1, <1>2, <1>3, StepKinds

LEMMA ServerStep ==
    ASSUME ChannelInv, ChannelInv', [Next]_vars
    PROVE  [ServerChannel!Next]_<<sent["server"], Kept("server") \cap sent["server"], received["client"]>>
<1> DEFINE kept == Kept("server") \cap sent["server"]
<1>1. sent \in [End -> SUBSET Nat] /\ "client" \in End /\ "server" \in End /\ TypeOK'
  BY DEF ChannelInv, TypeOK, End
<1>2. CASE \E e \in End : SendStep(e)
  <2>1. PICK e \in End : SendStep(e)
    BY <1>2
  <2>2. PICK id \in Nat \ sent[e] :
          /\ sent' = [sent EXCEPT ![e] = @ \cup {id}] /\ received' = received
          /\ Kept(e)' = Kept(e) \cup {id}
          /\ \A other \in End \ {e} : Kept(other)' = Kept(other)
    BY <2>1 DEF SendStep
  <2>3. CASE e = "server"
    <3>1. sent'["server"] = sent["server"] \cup {id}
      BY <1>1, <2>2, <2>3, Zenon
    <3>2. kept' = kept \cup (sent'["server"] \ sent["server"])
      BY <2>2, <2>3, <3>1
    <3>3. ServerChannel!Send
      BY <2>2, <3>1, <3>2 DEF ServerChannel!Send
    <3>4. QED
      BY <3>3 DEF ServerChannel!Next
  <2>4. CASE e # "server"
    <3>1. sent'["server"] = sent["server"]
      BY <1>1, <2>2, <2>4, Zenon
    <3>2. Kept("server")' = Kept("server")
      BY <1>1, <2>2, <2>4
    <3>3. QED
      BY <2>2, <3>1, <3>2
  <2>5. QED
    BY <2>3, <2>4
<1>3. CASE QuietStep
  <2>1. /\ sent' = sent /\ Kept("server")' \cap sent["server"] \subseteq Kept("server")
        /\ \/ received'["client"] = received["client"]
           \/ \E id \in sent["server"] : received'["client"] = received["client"] \cup {id}
    BY <1>1, <1>3 DEF QuietStep, Peer
  <2>2. sent'["server"] \subseteq received'["client"] \cup Kept("server")'
    <3>1. NothingLost'
      BY MissingKept, PTL
    <3>2. QED
      BY <1>1, <3>1 DEF NothingLost, Peer
  <2>3. kept' \subseteq kept /\ kept \ kept' \subseteq received'["client"]
    BY <2>1, <2>2
  <2>4. ServerChannel!Receive \/ ServerChannel!Forget
    BY <2>1, <2>3 DEF ServerChannel!Receive, ServerChannel!Forget
  <2>5. QED
    BY <2>4 DEF ServerChannel!Next
<1>4. QED
  BY <1>1, <1>2, <1>3, StepKinds

(* What the client sends reaches the server: a message leaves the buffer and *)
(* the connection only when it was handled, across one reconnect             *)
(* (ChannelClient::resync, which sends the buffer again).                    *)
THEOREM ClientReliable == ASSUME MaxBreaks <= 1 PROVE Spec => ClientToServer
<1>1. Init => ClientChannel!Init
  BY DEF Init, ClientChannel!Init, End
<1>2. Spec => []ChannelInv
  BY ChannelInvariance
<1>3. ChannelInv /\ ChannelInv' /\ [Next]_vars =>
          [ClientChannel!Next]_<<sent["client"], Kept("client") \cap sent["client"], received["server"]>>
  BY ClientStep
<1>4. QED
  BY <1>1, <1>2, <1>3, PTL DEF Spec, ClientToServer, ClientChannel!Spec

(* The same for what the server sends, which it sends again when it handles  *)
(* FlushBufferedMessages (ChannelClient::start_handling_messages).           *)
THEOREM ServerReliable == ASSUME MaxBreaks <= 1 PROVE Spec => ServerToClient
<1>1. Init => ServerChannel!Init
  BY DEF Init, ServerChannel!Init, End
<1>2. Spec => []ChannelInv
  BY ChannelInvariance
<1>3. ChannelInv /\ ChannelInv' /\ [Next]_vars =>
          [ServerChannel!Next]_<<sent["server"], Kept("server") \cap sent["server"], received["client"]>>
  BY ServerStep
<1>4. QED
  BY <1>1, <1>2, <1>3, PTL DEF Spec, ServerToClient, ServerChannel!Spec
=============================================================================
