------------------------------ MODULE SubagentTail ------------------------------
(***************************************************************************)
(* One Claude Code subagent as the editor sees it: its entry in            *)
(* ClaudeSubagentStore, the Start and Stop requests that hook processes    *)
(* send over IPC, and the background task that tails the transcript file   *)
(* and appends what the subagent did to the entry's log.                   *)
(*                                                                         *)
(* The task awaits between looking at the size of the file and reading it, *)
(* so the transcript may grow, be truncated or be replaced in between.     *)
(* Everything it does to the store is done on the main thread at once.     *)
(*                                                                         *)
(* Simplifications:                                                        *)
(*  - line n of the transcript is two bytes n and a newline, and is flushed *)
(*    whole or in two parts; a torn line does not parse;                   *)
(*  - Mine are the lines with the subagent's parent_tool_use_id that       *)
(*    classify_entry keeps; a log entry is the number of its line;         *)
(*  - time is counted in polls;                                            *)
(*  - metadata of the entry (prompt, cwd, pid, result) is left out.        *)
(***************************************************************************)
EXTENDS Integers, Sequences, FiniteSets, FiniteSetsExt

CONSTANTS
    MaxLines,     \* bound: lines ever written to the transcript
    Mine,         \* the lines of this subagent
    MaxRead,      \* MAX_READ_PER_TICK, in bytes
    MaxLog,       \* MAX_LOG_ENTRIES
    Grace,        \* POST_STOP_GRACE, in polls
    MaxResets,    \* bound: times the transcript is truncated or replaced
    MaxRequests   \* bound: Start requests, and Stop requests, ever sent

ASSUME TailAssumption ==
    /\ MaxLines \in Nat /\ Mine \subseteq 1..MaxLines
    /\ MaxRead \in Nat \ {0} /\ MaxLog \in Nat \ {0} /\ Grace \in Nat \ {0}
    /\ MaxResets \in Nat /\ MaxRequests \in Nat

Newline == 0
NoFile  == 0
File    == 1..(MaxResets + 1)

VARIABLES
    status,      \* SubagentState.status, or "none" without an entry
    log,         \* SubagentState.log
    tailSpawned, \* SubagentState.tail_spawned
    requests,    \* requests sent by hooks and not yet handled, with their number
    nStarts, nStops,
    transcript,  \* the bytes of every file that had the transcript's path
    path,        \* the file that has it now, or NoFile
    resets,      \* times the transcript was truncated or replaced
    nLines,      \* lines begun
    partial,     \* TRUE when only the first byte of the last line was flushed
    tail,        \* where the task is
    handle,      \* file_slot
    offset, lastSize, size,
    since,       \* polls since stopped_since was set, -1 before that, at most Grace
    final        \* the read under way is the last one

store   == <<status, log, tailSpawned>>
hooks   == <<requests, nStarts, nStops>>
writer  == <<transcript, path, resets, nLines, partial>>
tailing == <<tail, handle, offset, lastSize, size, since, final>>
vars    == <<store, hooks, writer, tailing>>

Init ==
    /\ status = "none" /\ log = <<>> /\ tailSpawned = FALSE
    /\ requests = {} /\ nStarts = 0 /\ nStops = 0
    /\ transcript = [f \in File |-> <<>>] /\ path \in {NoFile, 1} /\ resets = 0
    /\ nLines = 0 /\ partial = FALSE
    /\ tail = "none" /\ handle = NoFile
    /\ offset = 0 /\ lastSize = 0 /\ size = 0 /\ since = -1 /\ final = FALSE

-----------------------------------------------------------------------------
(* The hooks and the transcript, outside the editor *)

(* A hook may be registered twice, and its process may be killed before the  *)
(* request reaches the editor; requests are handled by tasks of their own.   *)
SendStart ==
    /\ nStarts < MaxRequests
    /\ nStarts' = nStarts + 1
    /\ \E withPath \in BOOLEAN :
          requests' = requests \cup {[kind |-> "Start", no |-> nStarts', path |-> withPath]}
    /\ UNCHANGED <<store, nStops, writer, tailing>>

SendStop ==
    /\ nStops < MaxRequests /\ nStarts > 0
    /\ nStops' = nStops + 1
    /\ requests' = requests \cup {[kind |-> "Stop", no |-> nStops', path |-> FALSE]}
    /\ UNCHANGED <<store, nStarts, writer, tailing>>

LoseRequest(r) ==
    /\ requests' = requests \ {r}
    /\ UNCHANGED <<store, nStarts, nStops, writer, tailing>>

Append1(bytes) == transcript' = [transcript EXCEPT ![path] = @ \o bytes]

Flush ==   \* Claude Code appends to the transcript
    /\ path # NoFile
    /\ \/ /\ partial
          /\ Append1(<<nLines, Newline>>)
          /\ partial' = FALSE /\ UNCHANGED nLines
       \/ /\ ~ partial /\ nLines < MaxLines
          /\ nLines' = nLines + 1
          /\ \/ Append1(<<nLines', nLines', Newline>>) /\ UNCHANGED partial
             \/ Append1(<<nLines'>>) /\ partial' = TRUE
    /\ UNCHANGED <<store, hooks, path, resets, tailing>>

CreateTranscript ==
    /\ path = NoFile
    /\ path' = 1
    /\ UNCHANGED <<store, hooks, transcript, resets, nLines, partial, tailing>>

Truncate ==
    /\ path # NoFile /\ ~ partial /\ resets < MaxResets
    /\ transcript' = [transcript EXCEPT ![path] = <<>>]
    /\ resets' = resets + 1
    /\ UNCHANGED <<store, hooks, path, nLines, partial, tailing>>

Rotate ==   \* another file takes the path
    /\ path # NoFile /\ ~ partial /\ resets < MaxResets
    /\ path' = path + 1
    /\ resets' = resets + 1
    /\ UNCHANGED <<store, hooks, transcript, nLines, partial, tailing>>

-----------------------------------------------------------------------------
(* handle_subagent_request *)

StartTail ==
    /\ tail' = "check" /\ handle' = NoFile
    /\ offset' = 0 /\ lastSize' = 0 /\ size' = 0 /\ since' = -1 /\ final' = FALSE

(* upsert_start, then try_mark_tail_spawned when the request has a path.     *)
HandleStart(r) ==
    /\ r.kind = "Start"
    /\ requests' = requests \ {r}
    /\ status' = "Running"
    /\ \/ r.path /\ ~ tailSpawned /\ tailSpawned' = TRUE /\ StartTail
       \/ ~ (r.path /\ ~ tailSpawned) /\ UNCHANGED <<tailSpawned, tailing>>
    /\ UNCHANGED <<log, nStarts, nStops, writer>>

(* mark_stopped: a Stop without an entry is ignored.                         *)
HandleStop(r) ==
    /\ r.kind = "Stop"
    /\ requests' = requests \ {r}
    /\ status' = IF status = "none" THEN "none" ELSE "Completed"
    /\ UNCHANGED <<log, tailSpawned, nStarts, nStops, writer, tailing>>

-----------------------------------------------------------------------------
(* tail_loop *)

AfterRead == IF final THEN "done" ELSE "sleep"

(* stopped_since.get_or_insert(now), and the time that has passed since.     *)
SinceRestarted == {IF status = "Completed" THEN 0 ELSE since}   \* mutant: insert(now)

Since ==
    IF since >= 0 THEN Min({since + 1, Grace})..Grace
    ELSE {IF status = "Completed" THEN 0 ELSE since}

CheckStatus ==
    /\ tail = "check"
    /\ since' \in Since
    /\ final' = (status = "Completed" /\ since' >= Grace)
    /\ tail' = "measure"
    /\ UNCHANGED <<store, hooks, writer, handle, offset, lastSize, size>>

(* read_new_lines up to its first await after the file is open: the size is  *)
(* taken, and the early returns.                                             *)
Measure ==
    LET f == IF handle = NoFile THEN path ELSE handle
        n == Len(transcript[f])
    IN /\ tail = "measure" /\ f # NoFile
       /\ \/ /\ n < offset
             /\ handle' = NoFile /\ offset' = 0 /\ lastSize' = 0 /\ size' = 0
             /\ tail' = AfterRead
          \/ /\ n >= offset /\ (n = lastSize \/ n = offset)
             /\ handle' = f /\ lastSize' = n /\ size' = 0
             /\ tail' = AfterRead /\ UNCHANGED offset
          \/ /\ n > offset /\ n # lastSize
             /\ handle' = f /\ size' = n
             /\ tail' = "read" /\ UNCHANGED <<offset, lastSize>>
       /\ UNCHANGED <<store, hooks, writer, since, final>>

NoTranscript ==
    /\ tail = "measure" /\ handle = NoFile /\ path = NoFile
    /\ tail' = AfterRead
    /\ UNCHANGED <<store, hooks, writer, handle, offset, lastSize, size, since, final>>

(* Metadata, seek or read failed.  The offset is kept.                       *)
ReadError ==
    /\ tail \in {"measure", "read"} /\ handle # NoFile
    /\ handle' = NoFile /\ size' = 0
    /\ tail' = AfterRead
    /\ UNCHANGED <<store, hooks, writer, offset, lastSize, since, final>>

Ascending(lines) ==
    CHOOSE s \in [1..Cardinality(lines) -> lines] :
        \A i, j \in DOMAIN s : i < j => s[i] < s[j]

(* The lines that are whole in a run of bytes, in order.                     *)
WholeLines(bytes) ==
    Ascending({n \in Mine : \E i \in 1..(Len(bytes) - 2) :
                  bytes[i] = n /\ bytes[i + 1] = n /\ bytes[i + 2] = Newline})

(* append_log for each of them: the oldest entries make place.               *)
AppendAll(entries) == log \o entries   \* mutant: without the limit

AppendLog(entries) ==
    LET all == log \o entries
    IN SubSeq(all, Max({1, Len(all) - MaxLog + 1}), Len(all))

(* process_until: the bytes up to the last newline of a buffer.  What comes   *)
(* after it is rolled back.                                                  *)
ProcessUntil(buf) == Max({0} \cup {i \in 1..Len(buf) : buf[i] = Newline})

OffsetAfterRead(buf) == offset + Len(buf)   \* mutant: no rollback of the rest
OffsetKept(buf) == offset                   \* mutant: never advanced

OffsetAfter(buf) == offset + ProcessUntil(buf)

(* read may return less than it was asked for, and nothing after a           *)
(* truncation.                                                               *)
ReadLines ==
    /\ tail = "read"
    /\ LET bytes  == transcript[handle]
           wanted == Min({size - offset, MaxRead, Len(bytes) - offset})
       IN \E k \in IF wanted > 0 THEN 1..wanted ELSE {0} :
             LET buf == SubSeq(bytes, offset + 1, offset + k)
             IN /\ offset' = OffsetAfter(buf)
                /\ log' = AppendLog(WholeLines(SubSeq(buf, 1, ProcessUntil(buf))))
    /\ lastSize' = size /\ size' = 0
    /\ tail' = AfterRead
    /\ UNCHANGED <<status, tailSpawned, hooks, writer, handle, since, final>>

Sleep ==
    /\ tail = "sleep"
    /\ tail' = "check"
    /\ UNCHANGED <<store, hooks, writer, handle, offset, lastSize, size, since, final>>

-----------------------------------------------------------------------------
Outside ==
    \/ SendStart \/ SendStop \/ Flush \/ CreateTranscript \/ Truncate \/ Rotate
    \/ \E r \in requests : LoseRequest(r)

Handle == \E r \in requests : HandleStart(r) \/ HandleStop(r)

TailLoop == CheckStatus \/ Measure \/ NoTranscript \/ ReadLines \/ Sleep

Next == Outside \/ Handle \/ TailLoop \/ ReadError

Spec == Init /\ [][Next]_vars

(* The executor keeps running the task and the timer keeps firing.           *)
FairSpec == Spec /\ WF_vars(TailLoop)
-----------------------------------------------------------------------------
Request == [kind : {"Start", "Stop"}, no : 1..MaxRequests, path : BOOLEAN]

(* Every variable has its type.                                              *)
TypeOK ==
    /\ status \in {"none", "Running", "Completed"} /\ tailSpawned \in BOOLEAN
    /\ log \in Seq(Mine) /\ Len(log) <= MaxLog
    /\ requests \subseteq Request
    /\ nStarts \in 0..MaxRequests /\ nStops \in 0..MaxRequests
    /\ transcript \in [File -> Seq(0..MaxLines)] /\ path \in {NoFile} \cup File
    /\ resets \in 0..MaxResets /\ nLines \in 0..MaxLines /\ partial \in BOOLEAN
    /\ tail \in {"none", "check", "measure", "read", "sleep", "done"}
    /\ handle \in {NoFile} \cup File
    /\ offset \in Nat /\ lastSize \in Nat /\ size \in Nat
    /\ since \in -1..Grace /\ final \in BOOLEAN

(* No line is logged twice or out of order, through short reads, rollbacks,  *)
(* errors, truncation and replacement of the transcript.                     *)
LoggedOnceInOrder ==
    \A i, j \in 1..Len(log) : i < j => log[i] < log[j]

(* As long as the transcript was only appended to, the log is exactly the    *)
(* last MaxLog lines of the subagent below the offset, and the offset stands *)
(* at the start of a line: nothing below it was skipped or torn.             *)
LogMatchesOffset ==
    resets = 0 =>
        LET seen == WholeLines(SubSeq(transcript[1], 1, offset))
        IN /\ offset > 0 => transcript[1][offset] = Newline
           /\ log = SubSeq(seen, Max({1, Len(seen) - MaxLog + 1}), Len(seen))

(* A subagent that stays completed is not tailed forever (POST_STOP_GRACE).  *)
TailEnds == <>[](status = "Completed") => <>[](tail \in {"none", "done"})
=============================================================================
