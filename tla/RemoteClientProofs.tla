--------------------------- MODULE RemoteClientProofs ---------------------------
(***************************************************************************)
(* Proofs about RemoteClient, for any limits on missed heartbeats and on   *)
(* attempts: its invariants, and that Disconnected is final.               *)
(***************************************************************************)
EXTENDS RemoteClient, FiniteSetTheorems, TLAPS

Final == {"exhausted", "gone", "none", "dropped"}

(* TypeOK in two parts: what needs no arithmetic, and what does.             *)
Shape ==
    /\ phase \in Phase
    /\ io \in {"none", "up", "silent"} \cup Ended
    /\ monitor \in BOOLEAN /\ activity \in BOOLEAN
    /\ hb \in HeartbeatType /\ tasks \subseteq TaskType
Counts ==
    /\ missed \in 0..MaxMissed - 1
    /\ tries \in 0..MaxAttempts + 1
    /\ disconnects \in Nat

(* The attempts of an outage are one task after the other, each counted in   *)
(* the next; a client that is connected has none.                            *)
AttemptsInv ==
    /\ \A s, t \in tasks : s = t
    /\ \A t \in tasks :
           IF t.attempt = 0
           THEN t.at \in {"start", "ping", "connected"} /\ phase \in {"connecting", "gone"}
           ELSE t.at \in {"kill", "connect", "resync", "connected", "failed"}
    /\ CanReconnect => tasks = {}
    /\ CanReconnect \/ Setup # {} => tries = 0
    /\ phase = "reconnecting" => \A t \in tasks : tries <= t.attempt
    /\ tries <= MaxAttempts

(* After Disconnected no monitor runs that could emit it again, and no       *)
(* attempt is left that would start one: only an attempt that has connected  *)
(* leaves a monitor.                                                         *)
Unconnected == {t \in tasks : t.at \in {"kill", "connect"}}
FinalInv ==
    /\ monitor => Unconnected = {}
    /\ disconnects > 0 =>
           phase \in Final /\ ~monitor /\ Setup = {} /\ Unconnected = {}

ClientInv == Shape /\ Counts /\ HeartbeatFindsState /\ AttemptsInv /\ FinalInv

-----------------------------------------------------------------------------
LEMMA TypeParts == Shape /\ Counts <=> TypeOK
  BY DEF Shape, Counts, TypeOK

LEMMA HeartbeatTypes ==
    /\ NoHeartbeat \in HeartbeatType /\ NoHeartbeat.at = "none"
    /\ NewHeartbeat \in HeartbeatType /\ NewHeartbeat.at = "timer" /\ NewHeartbeat.missed = 0
  BY RemoteClientAssumption DEF NoHeartbeat, NewHeartbeat, HeartbeatType

LEMMA TaskTypes ==
    ASSUME NEW n \in 0..MaxAttempts,
           NEW at \in {"start", "ping", "kill", "connect", "resync", "connected", "failed"}
    PROVE  Attempt(n, at) \in TaskType /\ Attempt(n, at).attempt = n /\ Attempt(n, at).at = at
  BY DEF Attempt, TaskType

LEMMA InitClient == Init => ClientInv
<1> SUFFICES ASSUME Init PROVE ClientInv
  OBVIOUS
<1>1. \A t \in tasks : t \in TaskType /\ t.attempt = 0 /\ t.at = "start"
  BY TaskTypes, RemoteClientAssumption DEF Init
<1>2. Shape
  BY <1>1, HeartbeatTypes DEF Init, Shape, Phase
<1>3. Counts
  BY RemoteClientAssumption DEF Init, Counts
<1>4. HeartbeatFindsState
  BY HeartbeatTypes DEF Init, HeartbeatFindsState
<1>5. phase = "connecting" /\ ~CanReconnect /\ \A s, t \in tasks : s = t
  BY DEF Init, CanReconnect
<1>6. AttemptsInv
  BY <1>1, <1>5, RemoteClientAssumption DEF Init, AttemptsInv
<1>7. FinalInv
  BY DEF Init, FinalInv
<1>8. QED
  BY <1>2, <1>3, <1>4, <1>6, <1>7 DEF ClientInv

(* A client that can reconnect has no task, no failed tries, no past.        *)
LEMMA Reconnectable ==
    ASSUME ClientInv, CanReconnect
    PROVE  tasks = {} /\ Setup = {} /\ tries = 0 /\ disconnects = 0
  BY DEF ClientInv, AttemptsInv, FinalInv, Final, CanReconnect, Setup, Counts

(* reconnect keeps the invariant when it replaces the last task there is,    *)
(* and the attempts it is given cover those of the outage so far.            *)
LEMMA ReconnectStep ==
    ASSUME ClientInv, NEW attempts \in 0..MaxAttempts,
           disconnects = 0, tries <= attempts, Setup = {},
           Reconnect(attempts, {})
    PROVE  ClientInv'
<1>1. /\ missed' = 0 /\ io' = "none" /\ monitor' = FALSE /\ activity' = FALSE
      /\ hb' = NoHeartbeat
  BY DEF Reconnect, DropConnection
<1>2. missed' \in 0..MaxMissed - 1
  BY <1>1, RemoteClientAssumption
<1>3. CASE attempts + 1 > MaxAttempts /\ phase' = "exhausted" /\ Disconnected
           /\ tasks' = {} /\ UNCHANGED tries
  <2>1. Shape'
    BY <1>1, <1>3, HeartbeatTypes DEF Shape, Phase
  <2>2. Counts'
    BY <1>2, <1>3 DEF ClientInv, Counts, Disconnected
  <2>3. HeartbeatFindsState'
    BY <1>1, <1>3, HeartbeatTypes DEF HeartbeatFindsState
  <2>4. AttemptsInv' /\ FinalInv'
    BY <1>1, <1>3
       DEF ClientInv, AttemptsInv, FinalInv, CanReconnect, Final, Setup, Unconnected
  <2>5. QED
    BY <2>1, <2>2, <2>3, <2>4 DEF ClientInv
<1>4. CASE attempts + 1 <= MaxAttempts /\ phase' = "reconnecting"
           /\ tasks' = {Attempt(attempts + 1, "kill")}
           /\ tries' = (IF tries > MaxAttempts THEN tries ELSE tries + 1)
           /\ UNCHANGED disconnects
  <2>1. tries' <= attempts + 1 /\ tries' \in 0..MaxAttempts + 1 /\ tries' <= MaxAttempts
    BY <1>4, RemoteClientAssumption DEF ClientInv, Counts, AttemptsInv
  <2>2. attempts + 1 \in 0..MaxAttempts
    BY <1>4, RemoteClientAssumption
  <2>3. \A t \in tasks' : t \in TaskType /\ t.attempt = attempts + 1 /\ t.at = "kill"
    BY <1>4, <2>2, TaskTypes
  <2>4. Shape'
    BY <1>1, <1>4, <2>3, HeartbeatTypes DEF Shape, Phase
  <2>5. Counts'
    BY <1>2, <1>4, <2>1 DEF ClientInv, Counts
  <2>6. HeartbeatFindsState'
    BY <1>1, <1>4, HeartbeatTypes DEF HeartbeatFindsState
  <2>7. Setup' = {} /\ ~CanReconnect'
    BY <1>4, <2>3 DEF Setup, CanReconnect
  <2>8. AttemptsInv' /\ FinalInv'
    BY <1>1, <1>4, <2>1, <2>3, <2>7 DEF AttemptsInv, FinalInv
  <2>9. QED
    BY <2>4, <2>5, <2>6, <2>8 DEF ClientInv
<1>5. QED
  BY <1>3, <1>4 DEF Reconnect

-----------------------------------------------------------------------------
(* The setup *)

LEMMA SetupStep ==
    ClientInv /\ (RemoteStarted \/ FirstPing \/ SetupDone \/ SetupFails) => ClientInv'
<1> SUFFICES ASSUME ClientInv, RemoteStarted \/ FirstPing \/ SetupDone \/ SetupFails
             PROVE  ClientInv'
  OBVIOUS
<1>1. PICK t \in tasks : t.attempt = 0
  BY DEF RemoteStarted, FirstPing, SetupDone, SetupFails, Setup, Attempt
<1>2. /\ Setup # {} /\ tries = 0 /\ ~CanReconnect /\ disconnects = 0
      /\ missed = 0 /\ hb.at = "none" /\ phase \in {"connecting", "gone"}
  BY <1>1 DEF ClientInv, AttemptsInv, FinalInv, Counts, HeartbeatFindsState, Setup, CanReconnect
<1>3. ASSUME NEW at \in {"ping", "connected"}, tasks' = {Attempt(0, at)},
             UNCHANGED <<phase, missed, io, activity, hb, tries, disconnects>>,
             monitor' \in BOOLEAN
      PROVE  ClientInv'
  <2>1. \A s \in tasks' : s \in TaskType /\ s.attempt = 0 /\ s.at = at
    BY <1>3, TaskTypes, RemoteClientAssumption
  <2>2. Shape'
    BY <1>3, <2>1 DEF ClientInv, Shape
  <2>3. Counts' /\ HeartbeatFindsState'
    BY <1>3 DEF ClientInv, Counts, HeartbeatFindsState
  <2>4. AttemptsInv'
    BY <1>2, <1>3, <2>1 DEF ClientInv, AttemptsInv, CanReconnect, Setup
  <2>5. FinalInv'
    BY <1>2, <1>3, <2>1 DEF FinalInv, Unconnected
  <2>6. QED
    BY <2>2, <2>3, <2>4, <2>5 DEF ClientInv
<1>4. ASSUME tasks' = {}, UNCHANGED <<missed, tries, disconnects>>, Shape',
             \/ phase' = "connected" /\ hb' = NewHeartbeat
             \/ phase' = "dropped" /\ hb' = NoHeartbeat
      PROVE  ClientInv'
  <2>1. Counts'
    BY <1>4 DEF ClientInv, Counts
  <2>2. HeartbeatFindsState'
    BY <1>2, <1>4, HeartbeatTypes DEF HeartbeatFindsState
  <2>3. AttemptsInv'
    BY <1>2, <1>4 DEF ClientInv, AttemptsInv, CanReconnect, Setup
  <2>4. FinalInv'
    BY <1>2, <1>4 DEF FinalInv, Unconnected
  <2>5. QED
    BY <1>4, <2>1, <2>2, <2>3, <2>4 DEF ClientInv
<1>5. CASE RemoteStarted
  BY <1>3, <1>5 DEF RemoteStarted
<1>6. CASE FirstPing
  BY <1>3, <1>6 DEF FirstPing, connection, ClientInv, Shape
<1>7. CASE SetupDone
  <2>1. Shape'
    BY <1>7, HeartbeatTypes DEF SetupDone, ClientInv, Shape, Phase
  <2>2. QED
    BY <1>4, <1>7, <2>1 DEF SetupDone
<1>8. CASE SetupFails
  <2>1. Shape'
    BY <1>8, HeartbeatTypes DEF SetupFails, DropConnection, Shape, Phase
  <2>2. QED
    BY <1>4, <1>8, <2>1 DEF SetupFails, DropConnection
<1>9. QED
  BY <1>5, <1>6, <1>7, <1>8

-----------------------------------------------------------------------------
(* The attempts *)

LEMMA KillStep ==
    ASSUME ClientInv, NEW t \in tasks \ Setup, Kill(t) \/ Connect(t) \/ Resync(t)
    PROVE  ClientInv'
<1>1. /\ tasks = {t} /\ t.attempt # 0 /\ t.attempt \in 0..MaxAttempts
      /\ ~CanReconnect /\ hb.at = "none" /\ (t.at \in {"kill", "connect"} => disconnects = 0 /\ ~monitor)
  BY DEF ClientInv, AttemptsInv, FinalInv, Unconnected, Shape, Counts, TaskType, Setup,
         CanReconnect, HeartbeatFindsState, Kill, Connect, Resync
<1>2. ASSUME NEW at \in {"connect", "failed", "resync", "connected"}, tasks' = {Attempt(t.attempt, at)},
             UNCHANGED <<phase, missed, tries, disconnects>>, Shape',
             hb' = hb \/ hb' = NoHeartbeat,
             monitor' => at # "connect", disconnects > 0 => ~monitor' /\ at # "connect"
      PROVE  ClientInv'
  <2>1. \A s \in tasks' : s.attempt = t.attempt /\ s.at = at
    BY <1>1, <1>2, TaskTypes
  <2>2. Counts' /\ HeartbeatFindsState'
    BY <1>1, <1>2, HeartbeatTypes DEF ClientInv, Counts, HeartbeatFindsState
  <2>3. AttemptsInv'
    BY <1>1, <1>2, <2>1 DEF ClientInv, AttemptsInv, CanReconnect, Setup
  <2>4. FinalInv'
    BY <1>1, <1>2, <2>1 DEF ClientInv, FinalInv, Setup, Unconnected
  <2>5. QED
    BY <1>2, <2>2, <2>3, <2>4 DEF ClientInv
<1>3. ASSUME NEW at \in {"connect", "failed", "resync", "connected"}, Step(t, at)
      PROVE  tasks' = {Attempt(t.attempt, at)} /\ tasks' \subseteq TaskType
  BY <1>1, <1>3, TaskTypes DEF Step
<1>4. CASE Kill(t)
  <2>1. PICK at \in {"connect", "failed"} : Step(t, at)
    BY <1>4 DEF Kill
  <2>2. Shape'
    BY <1>3, <1>4, <2>1 DEF Kill, connection, ClientInv, Shape
  <2>3. disconnects = 0 /\ ~monitor
    BY <1>1, <1>4 DEF Kill
  <2>4. QED
    BY <1>2, <1>3, <1>4, <2>1, <2>2, <2>3 DEF Kill, connection, ClientInv, Counts
<1>5. CASE Connect(t)
  <2>1. PICK at \in {"failed", "resync"} : Step(t, at)
    BY <1>5 DEF Connect
  <2>2. Shape'
    BY <1>3, <1>5, <2>1 DEF Connect, connection, ClientInv, Shape
  <2>3. disconnects = 0
    BY <1>1, <1>5 DEF Connect
  <2>4. QED
    BY <1>2, <1>3, <1>5, <2>1, <2>2, <2>3 DEF Connect, connection, ClientInv, Counts
<1>6. CASE Resync(t)
  <2>1. PICK at \in {"failed", "connected"} : Step(t, at)
    BY <1>6 DEF Resync
  <2>2. monitor' = monitor \/ monitor' = FALSE
    BY <1>6 DEF Resync, connection, DropConnection
  <2>3. Shape'
    BY <1>3, <1>6, <2>1, HeartbeatTypes DEF Resync, DropConnection, connection, ClientInv, Shape
  <2>4. QED
    BY <1>2, <1>3, <1>6, <2>1, <2>2, <2>3
       DEF Resync, DropConnection, connection, ClientInv, FinalInv
<1>7. QED
  BY <1>4, <1>5, <1>6

LEMMA ResultStep ==
    ASSUME ClientInv, NEW t \in tasks \ Setup, Outdated(t) \/ Reconnected(t) \/ TryAgain(t)
    PROVE  ClientInv'
<1>1. /\ tasks = {t} /\ t.attempt # 0 /\ t.attempt \in 0..MaxAttempts /\ Setup = {}
      /\ phase # "missed" /\ missed = 0
  BY DEF ClientInv, AttemptsInv, Shape, Counts, TaskType, Setup, CanReconnect,
         HeartbeatFindsState
<1>2. tasks \ {t} = {}
  BY <1>1
<1>3. CASE Outdated(t)
  <2>1. Shape'
    BY <1>2, <1>3, HeartbeatTypes DEF Outdated, DropConnection, ClientInv, Shape
  <2>2. Counts' /\ HeartbeatFindsState'
    BY <1>3, HeartbeatTypes DEF Outdated, DropConnection, ClientInv, Counts, HeartbeatFindsState
  <2>3. AttemptsInv' /\ FinalInv'
    BY <1>1, <1>2, <1>3
       DEF Outdated, DropConnection, ClientInv, AttemptsInv, FinalInv, CanReconnect, Setup,
           Unconnected
  <2>4. QED
    BY <2>1, <2>2, <2>3 DEF ClientInv
<1>4. CASE Reconnected(t)
  <2>1. disconnects = 0
    BY <1>4 DEF Reconnected, ClientInv, Counts, FinalInv, Final
  <2>2. Shape'
    BY <1>2, <1>4, HeartbeatTypes DEF Reconnected, ClientInv, Shape, Phase
  <2>3. tries' = 0 /\ Counts'
    BY <1>4, RemoteClientAssumption DEF Reconnected, ClientInv, Counts
  <2>4. HeartbeatFindsState'
    BY <1>1, <1>4, HeartbeatTypes DEF Reconnected, HeartbeatFindsState
  <2>5. AttemptsInv' /\ FinalInv'
    BY <1>2, <1>4, <2>1, <2>3, RemoteClientAssumption
       DEF Reconnected, AttemptsInv, FinalInv, CanReconnect, Setup, Unconnected
  <2>6. QED
    BY <2>2, <2>3, <2>4, <2>5 DEF ClientInv
<1>5. CASE TryAgain(t)
  <2>1. disconnects = 0 /\ tries <= t.attempt
    BY <1>5 DEF TryAgain, ClientInv, Counts, FinalInv, Final, AttemptsInv
  <2>2. Reconnect(t.attempt, {})
    BY <1>2, <1>5 DEF TryAgain
  <2>3. QED
    BY <1>1, <2>1, <2>2, ReconnectStep
<1>6. QED
  BY <1>3, <1>4, <1>5

-----------------------------------------------------------------------------
(* The monitor, the heartbeat, the user and the network *)

(* A client that can reconnect starts its first attempt.                     *)
LEMMA FirstAttempt ==
    ASSUME ClientInv, CanReconnect, NEW n \in 0..MaxAttempts, Reconnect(n, tasks)
    PROVE  ClientInv'
<1>1. tasks = {} /\ Setup = {} /\ tries = 0 /\ disconnects = 0
  BY Reconnectable
<1>2. QED
  BY <1>1, ReconnectStep

LEMMA MonitorStep ==
    ASSUME ClientInv, MonitorReconnects \/ MonitorGivesUp
    PROVE  ClientInv'
<1>1. disconnects = 0
  BY DEF ClientInv, FinalInv, Counts, MonitorReconnects, MonitorGivesUp
<1>2. CASE MonitorReconnects /\ CanReconnect
  <2>1. Reconnect(0, tasks) /\ 0 \in 0..MaxAttempts
    BY <1>2, RemoteClientAssumption DEF MonitorReconnects
  <2>2. QED
    BY <1>2, <2>1, FirstAttempt
<1>3. CASE MonitorReconnects /\ ~CanReconnect
  BY <1>1, <1>3 DEF MonitorReconnects, ClientInv, Shape, Counts, HeartbeatFindsState,
                    AttemptsInv, FinalInv, CanReconnect, Setup, Unconnected
<1>4. CASE MonitorGivesUp
  <2>1. /\ phase' = "gone" /\ missed' = 0 /\ monitor' = FALSE /\ Disconnected
        /\ UNCHANGED <<tasks, tries>>
    BY <1>4 DEF MonitorGivesUp, DropConnection
  <2>2. hb'.at = "none" /\ Shape'
    BY <1>4, HeartbeatTypes
       DEF MonitorGivesUp, DropConnection, ClientInv, Shape, Phase, HeartbeatFindsState,
           CanReconnect
  <2>3. Counts'
    BY <2>1, RemoteClientAssumption DEF ClientInv, Counts, Disconnected
  <2>4. HeartbeatFindsState'
    BY <2>1, <2>2 DEF HeartbeatFindsState
  <2>5. AttemptsInv'
    BY <2>1 DEF ClientInv, AttemptsInv, CanReconnect, Setup
  <2>6. Unconnected = {}
    BY <1>4 DEF MonitorGivesUp, ClientInv, FinalInv
  <2>7. FinalInv'
    BY <1>1, <2>1, <2>6 DEF Disconnected, FinalInv, Final, Setup, Unconnected
  <2>8. QED
    BY <2>2, <2>3, <2>4, <2>5, <2>7 DEF ClientInv
<1>5. QED
  BY <1>2, <1>3, <1>4 DEF MonitorReconnects

(* The count of the heartbeat is the one in the State.                       *)
LEMMA HeartbeatStep ==
    ASSUME ClientInv, Heartbeat
    PROVE  ClientInv'
<1>1. CanReconnect /\ tasks = {} /\ Setup = {} /\ tries = 0 /\ disconnects = 0
  <2>1. CanReconnect
    BY DEF ClientInv, HeartbeatFindsState, CanReconnect, Heartbeat, NoticeActivity,
           HeartbeatStops, TimerFires, PingAnswered, PingFails, MissedAtMost, Idle
  <2>2. QED
    BY <2>1, Reconnectable
<1>2. ASSUME UNCHANGED <<monitor, tasks, tries, disconnects>>, Shape', missed' \in 0..MaxMissed - 1,
             HeartbeatFindsState', phase' \in {"connected", "missed"}
      PROVE  ClientInv'
  BY <1>1, <1>2 DEF ClientInv, Counts, AttemptsInv, FinalInv, CanReconnect, Setup, Unconnected
<1>3. /\ hb \in HeartbeatType /\ hb.missed \in 0..MaxMissed - 1
      /\ missed \in 0..MaxMissed - 1 /\ missed \in Nat /\ MaxMissed \in Nat
      /\ phase \in {"connected", "missed"}
  BY <1>1, RemoteClientAssumption DEF ClientInv, Shape, Counts, HeartbeatType, CanReconnect
<1>4. CASE NoticeActivity
  <2>1. Shape'
    BY <1>4, HeartbeatTypes DEF NoticeActivity, Recovered, ClientInv, Shape, Phase
  <2>2. HeartbeatFindsState' /\ phase' \in {"connected", "missed"} /\ missed' \in 0..MaxMissed - 1
    BY <1>3, <1>4, HeartbeatTypes, RemoteClientAssumption
       DEF NoticeActivity, Recovered, Idle, ClientInv, HeartbeatFindsState
  <2>3. QED
    BY <1>2, <1>4, <2>1, <2>2 DEF NoticeActivity
<1>5. CASE HeartbeatStops
  <2>1. Shape'
    BY <1>5, HeartbeatTypes DEF HeartbeatStops, ClientInv, Shape
  <2>2. HeartbeatFindsState'
    BY <1>5, HeartbeatTypes DEF HeartbeatStops, ClientInv, HeartbeatFindsState
  <2>3. QED
    BY <1>2, <1>3, <1>5, <2>1, <2>2 DEF HeartbeatStops
<1>6. CASE TimerFires
  <2>1. hb' \in HeartbeatType /\ hb'.missed = hb.missed
    BY <1>3, <1>6 DEF TimerFires, HeartbeatType
  <2>2. Shape'
    BY <1>6, <2>1 DEF TimerFires, ClientInv, Shape
  <2>3. HeartbeatFindsState'
    BY <1>6, <2>1 DEF TimerFires, ClientInv, HeartbeatFindsState
  <2>4. QED
    BY <1>2, <1>3, <1>6, <2>2, <2>3 DEF TimerFires
<1>7. CASE PingAnswered
  <2>1. hb' \in HeartbeatType /\ hb'.missed = 0
    BY <1>3, <1>7, HeartbeatTypes DEF PingAnswered, HeartbeatType
  <2>2. Shape'
    BY <1>7, <2>1 DEF PingAnswered, Recovered, ClientInv, Shape, Phase
  <2>3. HeartbeatFindsState' /\ phase' \in {"connected", "missed"} /\ missed' \in 0..MaxMissed - 1
    BY <1>3, <1>7, <2>1, RemoteClientAssumption
       DEF PingAnswered, Recovered, ClientInv, HeartbeatFindsState
  <2>4. QED
    BY <1>2, <1>7, <2>2, <2>3 DEF PingAnswered
<1>8. CASE PingFails
  <2>1. hb.missed = missed
    BY <1>3, <1>8 DEF PingFails, MissedAtMost, ClientInv, HeartbeatFindsState
  <2>2. CASE hb.missed + 1 < MaxMissed
    <3>1. /\ hb' = [at |-> "timer", missed |-> hb.missed + 1]
          /\ phase' = "missed" /\ missed' = missed + 1
          /\ UNCHANGED <<io, monitor, activity, tasks, tries, disconnects>>
      BY <1>3, <1>8, <2>2 DEF PingFails, MissedAtMost
    <3>2. missed' \in 0..MaxMissed - 1 /\ missed' > 0
      BY <1>3, <2>1, <2>2, <3>1
    <3>3. hb' \in HeartbeatType /\ hb'.missed = missed'
      BY <2>1, <3>1, <3>2 DEF HeartbeatType
    <3>4. Shape'
      BY <3>1, <3>3 DEF ClientInv, Shape, Phase
    <3>5. HeartbeatFindsState'
      BY <3>1, <3>2, <3>3 DEF HeartbeatFindsState
    <3>6. QED
      BY <1>2, <3>1, <3>2, <3>4, <3>5
  <2>3. CASE ~(hb.missed + 1 < MaxMissed)
    <3>1. Reconnect(0, tasks) /\ 0 \in 0..MaxAttempts
      BY <1>8, <2>3, RemoteClientAssumption DEF PingFails, MissedAtMost
    <3>2. QED
      BY <1>1, <3>1, FirstAttempt
  <2>4. QED
    BY <2>2, <2>3
<1>9. QED
  BY <1>4, <1>5, <1>6, <1>7, <1>8 DEF Heartbeat

LEMMA UserStep ==
    ASSUME ClientInv,
           (\E n \in {0, MaxAttempts} : ForceHeartbeatTimeout(n)) \/ ShutdownProcesses
    PROVE  ClientInv'
<1>1. Setup = {}
  BY DEF ForceHeartbeatTimeout, ShutdownProcesses
<1>2. ASSUME NEW n \in {0, MaxAttempts}, phase = "connected", Reconnect(n, tasks)
      PROVE  ClientInv'
  <2>1. n \in 0..MaxAttempts /\ CanReconnect
    BY <1>2, RemoteClientAssumption DEF CanReconnect
  <2>2. QED
    BY <1>2, <2>1, FirstAttempt
<1>3. ASSUME phase' \in {"none", "dropped"}, missed' = 0, hb'.at = "none", Shape',
             UNCHANGED <<tries, disconnects>>, tasks' = tasks \/ tasks' = {},
             monitor' = monitor \/ monitor' = FALSE
      PROVE  ClientInv'
  <2>1. Counts' /\ HeartbeatFindsState'
    BY <1>3, RemoteClientAssumption DEF ClientInv, Counts, HeartbeatFindsState
  <2>2. Setup' = {}
    BY <1>1, <1>3 DEF Setup
  <2>3. AttemptsInv'
    BY <1>1, <1>3, <2>2 DEF ClientInv, AttemptsInv, CanReconnect, Setup
  <2>4. FinalInv'
    BY <1>3, <2>2 DEF ClientInv, FinalInv, Final, Unconnected
  <2>5. QED
    BY <1>3, <2>1, <2>3, <2>4 DEF ClientInv
<1>4. ASSUME phase = "missed", phase' = "none", missed' = 0, DropConnection,
             UNCHANGED <<tasks, tries, disconnects>>
      PROVE  ClientInv'
  BY <1>3, <1>4, HeartbeatTypes DEF DropConnection, ClientInv, Shape, Phase
<1>5. ASSUME ~CanReconnect, phase' = "none",
             UNCHANGED <<missed, connection, tasks, tries, disconnects>>
      PROVE  ClientInv'
  <2>1. missed = 0 /\ hb.at = "none"
    BY <1>5 DEF ClientInv, HeartbeatFindsState, Counts, CanReconnect
  <2>2. Shape'
    BY <1>5 DEF ClientInv, Shape, Phase, connection
  <2>3. QED
    BY <1>3, <1>5, <2>1, <2>2 DEF connection
<1>6. CASE ShutdownProcesses
  <2>1. Shape'
    BY <1>6, HeartbeatTypes DEF ShutdownProcesses, DropConnection, Shape, Phase
  <2>2. QED
    BY <1>3, <1>6, <2>1, HeartbeatTypes DEF ShutdownProcesses, DropConnection
<1>7. ASSUME NEW n \in {0, MaxAttempts}, ForceHeartbeatTimeout(n)
      PROVE  ClientInv'
  BY <1>2, <1>4, <1>5, <1>7 DEF ForceHeartbeatTimeout, CanReconnect
<1>8. QED
  BY <1>6, <1>7

LEMMA NetworkStep ==
    ASSUME ClientInv, IoEnds \/ IoFalters \/ DataArrives \/ UNCHANGED vars
    PROVE  ClientInv'
<1>1. Shape'
  BY DEF ClientInv, Shape, IoEnds, IoFalters, DataArrives, vars, connection, Ended
<1>2. UNCHANGED <<phase, missed, monitor, hb, tasks, tries, disconnects>>
  BY DEF IoEnds, IoFalters, DataArrives, vars, connection
<1>3. QED
  BY <1>1, <1>2 DEF ClientInv, Counts, HeartbeatFindsState, AttemptsInv, FinalInv,
                    CanReconnect, Setup, Unconnected

-----------------------------------------------------------------------------
LEMMA ClientStep == ClientInv /\ [Next]_vars => ClientInv'
<1> SUFFICES ASSUME ClientInv, [Next]_vars PROVE ClientInv'
  OBVIOUS
<1>1. CASE Reconnecting
  BY <1>1, KillStep, ResultStep DEF Reconnecting
<1>2. QED
  BY <1>1, SetupStep, MonitorStep, HeartbeatStep, UserStep, NetworkStep DEF Next

(* The inductive invariant: one task at a time, whose attempt counts those   *)
(* of the outage, and nothing left to run after Disconnected.                *)
THEOREM ClientInvariance == Spec => []ClientInv
  BY InitClient, ClientStep, PTL DEF Spec

(* Types.                                                                    *)
THEOREM ClientTypes == Spec => []TypeOK
<1>1. ClientInv => TypeOK
  BY TypeParts DEF ClientInv
<1>2. QED
  BY <1>1, ClientInvariance, PTL

(* handle_heartbeat_result never unwraps an empty state, and the State's     *)
(* count of missed heartbeats is the heartbeat's own.                        *)
THEOREM HeartbeatSafe == Spec => []HeartbeatFindsState
  BY ClientInvariance, PTL DEF ClientInv

(* One attempt at a time, and at most MAX_RECONNECT_ATTEMPTS of them in an   *)
(* outage, whatever the monitor, the heartbeat and the user do meanwhile.    *)
THEOREM AttemptsBounded == Spec => []OneAttempt
<1>1. ASSUME AttemptsInv PROVE OneAttempt
  <2>1. CASE tasks = {}
    BY <1>1, <2>1, FS_EmptySet DEF OneAttempt, AttemptsInv
  <2>2. CASE tasks # {}
    <3>1. PICK t : tasks = {t}
      BY <1>1, <2>2 DEF AttemptsInv
    <3>2. Cardinality({t}) = 1
      BY FS_Singleton
    <3>3. QED
      BY <1>1, <3>1, <3>2 DEF OneAttempt, AttemptsInv
  <2>3. QED
    BY <2>1, <2>2
<1>2. ClientInv => OneAttempt
  BY <1>1 DEF ClientInv
<1>3. QED
  BY <1>2, ClientInvariance, PTL

LEMMA FinalStep ==
    ASSUME ClientInv, [Next]_vars, disconnects > 0
    PROVE  disconnects' = disconnects /\ phase' \in Final
<1>1. ~monitor /\ Setup = {} /\ phase \in Final /\ ~CanReconnect /\ phase # "reconnecting"
  BY DEF ClientInv, FinalInv, Final, CanReconnect
<1>2. hb.at = "none"
  BY <1>1 DEF ClientInv, HeartbeatFindsState, CanReconnect
<1>3. disconnects' = disconnects
  <2>1. ~MonitorReconnects /\ ~MonitorGivesUp /\ ~Heartbeat
    BY <1>1, <1>2 DEF MonitorReconnects, MonitorGivesUp, Heartbeat, NoticeActivity,
       HeartbeatStops, TimerFires, PingAnswered, PingFails, MissedAtMost, Idle
  <2>2. CASE Reconnecting
    BY <1>1, <2>2 DEF Reconnecting, Kill, Connect, Resync, Outdated, Reconnected, TryAgain
  <2>3. ASSUME NEW n \in {0, MaxAttempts}, ForceHeartbeatTimeout(n)
        PROVE  disconnects' = disconnects
    BY <1>1, <2>3 DEF ForceHeartbeatTimeout, CanReconnect
  <2>4. QED
    BY <2>1, <2>2, <2>3
       DEF Next, RemoteStarted, FirstPing, SetupDone, SetupFails, ShutdownProcesses,
           IoEnds, IoFalters, DataArrives, vars
<1>4. phase' \in Final
  <2>1. ClientInv'
    BY ClientStep
  <2>2. QED
    BY <1>3, <2>1 DEF ClientInv, FinalInv
<1>5. QED
  BY <1>3, <1>4

(* After Disconnected no attempt in flight revives the client, and the event *)
(* is not emitted again.                                                     *)
THEOREM DisconnectedForGood == Spec => DisconnectedIsFinal
<1>1. ClientInv /\ [Next]_vars =>
          [disconnects > 0 =>
               /\ phase' \in {"exhausted", "gone", "none", "dropped"}
               /\ disconnects' = disconnects]_vars
  BY FinalStep DEF Final
<1>2. QED
  BY <1>1, ClientInvariance, PTL DEF Spec, DisconnectedIsFinal
=============================================================================
