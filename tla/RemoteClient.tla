------------------------------ MODULE RemoteClient ------------------------------
(***************************************************************************)
(* The connection state of a RemoteClient, and the tasks that change it:   *)
(* the setup in new(), the monitor of the proxy process, the heartbeat,    *)
(* and the attempts to reconnect.  All run on the editor's main thread,    *)
(* one step between two awaits at a time; the proxy process and the        *)
(* network do not wait for them.                                           *)
(*                                                                         *)
(* A State owns its monitor, heartbeat and connection: when it is replaced *)
(* or lost, they end with it.  ReconnectFailed is left in the update that  *)
(* enters it and appears here as an argument of Reconnect only.  Time is   *)
(* left out: a timer that runs may fire.                                   *)
(***************************************************************************)
EXTENDS Naturals, FiniteSets

CONSTANTS
    MaxMissed,     \* MAX_MISSED_HEARTBEATS
    MaxAttempts    \* MAX_RECONNECT_ATTEMPTS

ASSUME RemoteClientAssumption == MaxMissed \in Nat \ {0} /\ MaxAttempts \in Nat \ {0}

VARIABLES
    phase,        \* the State; "none" is Option::None, "dropped" no client
    missed,       \* missed_heartbeats of State::HeartbeatMissed
    io,           \* the proxy process: "none", "up", "silent", or how it ended
    monitor,      \* whether a monitor task awaits io
    activity,     \* whether there is an item in the connection_activity channel
    hb,           \* the heartbeat task: where it awaits, its missed_heartbeats
    tasks,        \* attempts in flight (attempt 0 is the setup in new)
    tries,        \* history: attempts since the client was last connected
    disconnects   \* history: Disconnected events since new returned the client

connection == <<io, monitor, activity, hb>>
vars == <<phase, missed, connection, tasks, tries, disconnects>>

Attempt(n, at) == [attempt |-> n, at |-> at]
Setup == {t \in tasks : t.attempt = 0}
NoHeartbeat == [at |-> "none", missed |-> 0]
NewHeartbeat == [at |-> "timer", missed |-> 0]
Ended == {"exited", "server_gone"}   \* ProxyLaunchError::ServerNotRunning, or not

Init ==
    /\ phase = "connecting" /\ missed = 0
    /\ io = "up" /\ monitor = FALSE /\ activity = FALSE /\ hb = NoHeartbeat
    /\ tasks = {Attempt(0, "start")}
    /\ tries = 0 /\ disconnects = 0

-----------------------------------------------------------------------------
(* Changes of the State *)

DropMonitorOnly ==   \* mutant: the heartbeat is detached, not owned
    /\ io' = "none" /\ monitor' = FALSE /\ activity' = FALSE
    /\ UNCHANGED hb

DropConnection ==
    /\ io' = "none" /\ monitor' = FALSE /\ activity' = FALSE
    /\ hb' = NoHeartbeat

Disconnected ==   \* emitted by set_state
    disconnects' = IF Setup = {} THEN disconnects + 1 ELSE disconnects

CanReconnectTwice == phase \in {"connected", "missed", "reconnecting"}   \* mutant
CanReconnect == phase \in {"connected", "missed"}

(* reconnect, when so many attempts have failed.                             *)
Reconnect(attempts, others) ==
    /\ missed' = 0
    /\ DropConnection
    /\ \/ /\ attempts + 1 > MaxAttempts
          /\ phase' = "exhausted"
          /\ Disconnected
          /\ tasks' = others
          /\ UNCHANGED tries
       \/ /\ attempts + 1 <= MaxAttempts
          /\ phase' = "reconnecting"
          /\ tasks' = others \cup {Attempt(attempts + 1, "kill")}
          /\ tries' = IF tries > MaxAttempts THEN tries ELSE tries + 1
          /\ UNCHANGED disconnects

-----------------------------------------------------------------------------
(* The setup: wait_for_remote_started, ping, State::Connected                *)

RemoteStarted ==
    /\ Attempt(0, "start") \in tasks /\ io = "up"
    /\ tasks' = {Attempt(0, "ping")}
    /\ monitor' = TRUE
    /\ UNCHANGED <<phase, missed, io, activity, hb, tries, disconnects>>

FirstPing ==
    /\ Attempt(0, "ping") \in tasks /\ io = "up"
    /\ tasks' = {Attempt(0, "connected")}
    /\ UNCHANGED <<phase, missed, connection, tries, disconnects>>

(* The State is assigned, whatever it has become meanwhile.                  *)
SetupDone ==
    /\ Attempt(0, "connected") \in tasks
    /\ tasks' = {}
    /\ phase' = "connected"
    /\ hb' = NewHeartbeat
    /\ UNCHANGED <<missed, io, monitor, activity, tries, disconnects>>

(* An error, a timeout, or the user cancels.                                 *)
SetupFails ==
    /\ Setup # {}
    /\ tasks' = {} /\ phase' = "dropped"
    /\ DropConnection
    /\ UNCHANGED <<missed, tries, disconnects>>

-----------------------------------------------------------------------------
(* An attempt to reconnect: kill, connect, resync.  Its result is awaited by *)
(* a second task.                                                            *)

Step(t, at) == tasks' = (tasks \ {t}) \cup {Attempt(t.attempt, at)}

Kill(t) ==
    /\ t.at = "kill"
    /\ \E at \in {"connect", "failed"} : Step(t, at)
    /\ UNCHANGED <<phase, missed, connection, tries, disconnects>>

Connect(t) ==
    /\ t.at = "connect"
    /\ \/ /\ Step(t, "failed")
          /\ UNCHANGED connection
       \/ /\ Step(t, "resync")
          /\ io' = "up" /\ monitor' = TRUE /\ activity' = FALSE
          /\ UNCHANGED hb
    /\ UNCHANGED <<phase, missed, tries, disconnects>>

Resync(t) ==
    /\ t.at = "resync"
    /\ \/ /\ io = "up"
          /\ Step(t, "connected")
          /\ UNCHANGED connection
       \/ /\ Step(t, "failed")   \* the timeout
          /\ DropConnection
    /\ UNCHANGED <<phase, missed, tries, disconnects>>

(* The second task: try_set_state, and reconnect again after a failure.      *)
Outdated(t) ==
    /\ t.at \in {"connected", "failed"} /\ phase # "reconnecting"
    /\ tasks' = tasks \ {t}
    /\ DropConnection
    /\ UNCHANGED <<phase, missed, tries, disconnects>>

ReconnectedAnyway(t) ==   \* mutant: the State is assigned unchecked
    /\ t.at = "connected"
    /\ tasks' = tasks \ {t}
    /\ phase' = "connected"
    /\ hb' = NewHeartbeat
    /\ tries' = 0
    /\ UNCHANGED <<missed, io, monitor, activity, disconnects>>

Reconnected(t) ==
    /\ t.at = "connected" /\ phase = "reconnecting"
    /\ tasks' = tasks \ {t}
    /\ phase' = "connected"
    /\ hb' = NewHeartbeat
    /\ tries' = 0
    /\ UNCHANGED <<missed, io, monitor, activity, disconnects>>

TryAfresh(t) ==   \* mutant: the failed attempts are forgotten
    /\ t.at = "failed" /\ phase = "reconnecting"
    /\ Reconnect(0, tasks \ {t})

TryAgain(t) ==
    /\ t.at = "failed" /\ phase = "reconnecting"
    /\ Reconnect(t.attempt, tasks \ {t})

Reconnecting ==
    \E t \in tasks \ Setup :
        \/ Kill(t) \/ Connect(t) \/ Resync(t)
        \/ Outdated(t) \/ Reconnected(t) \/ TryAgain(t)

-----------------------------------------------------------------------------
(* The monitor *)

MonitorReconnects ==
    /\ monitor /\ io = "exited"
    /\ \/ CanReconnect /\ Reconnect(0, tasks)
       \/ /\ ~CanReconnect
          /\ monitor' = FALSE
          /\ UNCHANGED <<phase, missed, io, activity, hb, tasks, tries, disconnects>>

(* set_state: a State with a connection takes it along.                      *)
MonitorGivesUp ==
    /\ monitor /\ io = "server_gone"
    /\ phase' = "gone" /\ missed' = 0
    /\ Disconnected
    /\ \/ CanReconnect /\ DropConnection
       \/ ~CanReconnect /\ monitor' = FALSE /\ UNCHANGED <<io, activity, hb>>
    /\ UNCHANGED <<tasks, tries>>

-----------------------------------------------------------------------------
(* The heartbeat.  Both of its selects look at the activity channel first.   *)

Idle == hb.at \in {"timer", "unarmed"}

Recovered ==   \* handle_heartbeat_result(0)
    /\ phase' = IF phase = "missed" THEN "connected" ELSE phase
    /\ missed' = 0

NoticeActivity ==
    /\ Idle /\ activity
    /\ activity' = FALSE
    /\ hb' = NewHeartbeat
    /\ \/ hb.missed # 0 /\ Recovered
       \/ hb.missed = 0 /\ UNCHANGED <<phase, missed>>
    /\ UNCHANGED <<io, monitor, tasks, tries, disconnects>>

(* The channel is dropped with the tasks that read the process.              *)
HeartbeatStops ==
    /\ Idle /\ ~activity /\ io \in Ended
    /\ hb' = NoHeartbeat
    /\ UNCHANGED <<phase, missed, io, monitor, activity, tasks, tries, disconnects>>

TimerFires ==
    /\ hb.at = "timer" /\ ~activity /\ io \notin Ended
    /\ hb' = [hb EXCEPT !.at = "ping"]
    /\ UNCHANGED <<phase, missed, io, monitor, activity, tasks, tries, disconnects>>

(* A response, other activity, or the end of the channel.  If no heartbeat   *)
(* was missed before, `continue` leaves the timer as it is: fired.           *)
PingAnswered ==
    /\ hb.at = "ping"
    /\ activity \/ io = "up" \/ io \in Ended
    /\ activity' = FALSE
    /\ \/ /\ hb.missed # 0
          /\ hb' = NewHeartbeat
          /\ Recovered
       \/ /\ hb.missed = 0
          /\ hb' = [hb EXCEPT !.at = "unarmed"]
          /\ UNCHANGED <<phase, missed>>
    /\ UNCHANGED <<io, monitor, tasks, tries, disconnects>>

(* handle_heartbeat_result with a count; it breaks the loop at the n-th.     *)
MissedAtMost(n) ==
    /\ hb.at = "ping" /\ ~activity /\ io \notin Ended
    /\ \/ /\ hb.missed + 1 < n
          /\ hb' = [at |-> "timer", missed |-> hb.missed + 1]
          /\ phase' = "missed" /\ missed' = missed + 1
          /\ UNCHANGED <<io, monitor, activity, tasks, tries, disconnects>>
       \/ /\ hb.missed + 1 >= n
          /\ Reconnect(0, tasks)

PingFailsLate == MissedAtMost(MaxMissed + 1)   \* mutant: > for >=

PingFailsUnarmed ==   \* mutant: a failure does not set the timer
    \/ hb.missed = 0 /\ MissedAtMost(MaxMissed)
    \/ /\ hb.at = "ping" /\ ~activity /\ io \notin Ended /\ hb.missed > 0
       /\ hb' = [hb EXCEPT !.at = "unarmed"]
       /\ UNCHANGED <<phase, missed, io, monitor, activity, tasks, tries, disconnects>>

PingFails == MissedAtMost(MaxMissed)

Heartbeat == NoticeActivity \/ HeartbeatStops \/ TimerFires \/ PingAnswered \/ PingFails

-----------------------------------------------------------------------------
(* The user: remote_debug actions, and the end of the project                *)

(* With n failed attempts.  In another State than Connected, take() has      *)
(* removed it and nothing puts it back.                                      *)
ForceHeartbeatTimeout(n) ==
    /\ phase # "dropped" /\ Setup = {}
    /\ \/ phase = "connected" /\ Reconnect(n, tasks)
       \/ /\ phase = "missed"
          /\ phase' = "none" /\ missed' = 0
          /\ DropConnection
          /\ UNCHANGED <<tasks, tries, disconnects>>
       \/ /\ phase \notin {"connected", "missed"}
          /\ phase' = "none"
          /\ UNCHANGED <<missed, connection, tasks, tries, disconnects>>

(* shutdown_processes, called when the project that holds the client ends:   *)
(* no task finds the client again.                                           *)
ShutdownProcesses ==
    /\ phase # "dropped" /\ Setup = {}
    /\ phase' = "dropped" /\ missed' = 0 /\ tasks' = {}
    /\ DropConnection
    /\ UNCHANGED <<tries, disconnects>>

-----------------------------------------------------------------------------
(* The network and the proxy process.  force_disconnect ends the process.    *)

IoEnds ==
    /\ io \in {"up", "silent"}
    /\ io' \in Ended
    /\ UNCHANGED <<phase, missed, monitor, activity, hb, tasks, tries, disconnects>>

IoFalters ==
    /\ \/ io = "up" /\ io' = "silent"
       \/ io = "silent" /\ io' = "up"
    /\ UNCHANGED <<phase, missed, monitor, activity, hb, tasks, tries, disconnects>>

DataArrives ==
    /\ io = "up" /\ activity' = TRUE
    /\ UNCHANGED <<phase, missed, io, monitor, hb, tasks, tries, disconnects>>

-----------------------------------------------------------------------------
Next ==
    \/ RemoteStarted \/ FirstPing \/ SetupDone \/ SetupFails
    \/ Reconnecting
    \/ MonitorReconnects \/ MonitorGivesUp
    \/ Heartbeat
    \/ \E n \in {0, MaxAttempts} : ForceHeartbeatTimeout(n)
    \/ ShutdownProcesses
    \/ IoEnds \/ IoFalters \/ DataArrives

Spec == Init /\ [][Next]_vars

(* Main thread tasks run; timers fire; kill, connect and resync return (the  *)
(* code gives resync a timeout, and relies on ssh for the other two).        *)
FairSpec ==
    /\ Spec
    /\ WF_vars(Reconnecting)
    /\ WF_vars(MonitorReconnects \/ MonitorGivesUp)
    /\ WF_vars(Heartbeat)

-----------------------------------------------------------------------------
Phase == {"connecting", "connected", "missed", "reconnecting", "exhausted", "gone",
          "none", "dropped"}
HeartbeatType == [at : {"none", "timer", "unarmed", "ping"}, missed : 0..MaxMissed - 1]
TaskType == [attempt : 0..MaxAttempts,
             at : {"start", "ping", "kill", "connect", "resync", "connected", "failed"}]

TypeOK ==
    /\ phase \in Phase
    /\ missed \in 0..MaxMissed - 1
    /\ io \in {"none", "up", "silent"} \cup Ended
    /\ monitor \in BOOLEAN /\ activity \in BOOLEAN
    /\ hb \in HeartbeatType /\ tasks \subseteq TaskType
    /\ tries \in 0..MaxAttempts + 1
    /\ disconnects \in Nat

(* handle_heartbeat_result unwraps the State: a heartbeat runs only while    *)
(* there is one that owns it, and the count in it is the heartbeat's own.    *)
HeartbeatFindsState ==
    /\ hb.at # "none" =>
           \/ phase = "connected" /\ hb.missed = 0
           \/ phase = "missed" /\ hb.missed = missed
    /\ phase = "missed" <=> missed > 0

(* Only one attempt to reconnect is in flight, and MAX_RECONNECT_ATTEMPTS    *)
(* bounds the attempts of one outage, whoever starts them: the monitor, the  *)
(* heartbeat, a failed attempt, or the user.                                 *)
OneAttempt == Cardinality(tasks) <= 1 /\ tries <= MaxAttempts

(* Once Disconnected was emitted, an attempt that is still in flight does    *)
(* not revive the client, and the event is not emitted again.                *)
DisconnectedIsFinal ==
    [][disconnects > 0 =>
           /\ phase' \in {"exhausted", "gone", "none", "dropped"}
           /\ disconnects' = disconnects]_vars

(* Reconnecting ends, connected or not, however often attempts fail.         *)
ReconnectEnds == phase = "reconnecting" ~> phase # "reconnecting"

(* A network that falls silent while the timer runs, and stays silent, is    *)
(* noticed after MaxMissed heartbeats.                                       *)
ArmedHeartbeatNotices ==
    hb.at = "timer" /\ io = "silent" ~> io # "silent" \/ ~CanReconnect

(* remote_client.rs:1015 says that missing heartbeat responses cause         *)
(* heartbeat failures and eventually trigger a reconnection.                 *)
SilenceTriggersReconnect ==
    phase = "connected" /\ io = "silent" ~> io # "silent" \/ ~CanReconnect
=============================================================================
