-------------------------------- MODULE GitIndex --------------------------------
(***************************************************************************)
(* Staging hunks of one buffer: what the user sees at once, the jobs that  *)
(* write the git index one after the other, and the reload that follows    *)
(* when the file system reports the write.                                 *)
(*                                                                         *)
(* A staged hunk is pending in the BufferDiff until a recalculation of the *)
(* diff has read the index back.  The text of a new index is the index the *)
(* diff knows with all pending hunks put into it.                          *)
(*                                                                         *)
(* Simplifications: hunks do not overlap, and an index is the set of hunks *)
(* staged in it; edits of the buffer leave the hunks what they are; HEAD   *)
(* does not move; only this editor writes the index.                       *)
(***************************************************************************)
EXTENDS Naturals, Sequences

CONSTANTS
    Hunk,
    MaxOps,      \* bound: hunks staged or unstaged
    MaxEdits,    \* bound: edits of the buffer
    MaxFailures  \* bound: index writes that fail

ASSUME GitIndexAssumption == MaxOps \in Nat /\ MaxEdits \in Nat /\ MaxFailures \in Nat

VARIABLES
    index,      \* the index on disk
    base,       \* base text of the unstaged diff: the index it was computed with
    pending,    \* pending_hunks of the uncommitted diff
    count,      \* hunk_staging_operation_count
    asOfWrite,  \* hunk_staging_operation_count_as_of_write
    indexText, indexChanged,  \* index_text and index_changed of BufferGitState
    recalc,     \* recalculate_diff_task
    jobs,       \* jobs sent to the git worker
    running,    \* the job the worker runs
    fsEvent,    \* whether the watcher has a change of the index to report
    failed,     \* failed writes whose senders were not told yet
    edits, failures,  \* how many there were
    handled,    \* history: the newest operation whose write has succeeded or failed
    want        \* history: the hunks the user has staged and not unstaged

diff == <<base, pending, count, asOfWrite, indexText, indexChanged>>
bounds == <<edits, failures>>
vars == <<index, diff, recalc, jobs, running, fsEvent, failed, bounds, handled, want>>

None == [key |-> "none"]
WriteJob(text, n) == [key |-> "WriteIndex", text |-> text, count |-> n, at |-> "write"]
ReloadJob == [key |-> "ReloadBufferDiffBases"]
NoRecalc == [at |-> "none"]
NothingPending == [h \in Hunk |-> "no"]

Init ==
    /\ index = {} /\ base = {} /\ pending = NothingPending
    /\ count = 0 /\ asOfWrite = 0
    /\ indexText = {} /\ indexChanged = FALSE
    /\ recalc = NoRecalc /\ jobs = <<>> /\ running = None
    /\ fsEvent = FALSE /\ failed = FALSE
    /\ edits = 0 /\ failures = 0 /\ handled = 0 /\ want = {}

-----------------------------------------------------------------------------
(* The user *)

Overlay(text, pend) ==
    {h \in Hunk : pend[h] = "stage" \/ (pend[h] = "no" /\ h \in text)}

(* stage_or_unstage_hunks, and the handler of its event: the diff shows the  *)
(* hunk as staged or not at once, and the new index text is sent.            *)
Toggle(h) ==
    LET stage == h \notin Overlay(base, pending)
        pend == [pending EXCEPT ![h] = IF stage THEN "stage" ELSE "unstage"]
    IN /\ count < MaxOps
       /\ pending' = pend
       /\ count' = count + 1
       /\ jobs' = Append(jobs, WriteJob(Overlay(base, pend), count + 1))
       /\ want' = IF stage THEN want \cup {h} ELSE want \ {h}
       /\ UNCHANGED <<index, base, asOfWrite, indexText, indexChanged, recalc, running,
                      fsEvent, failed, bounds, handled>>

-----------------------------------------------------------------------------
(* recalculate_diffs: a new call takes the place of the running task         *)

Recalculate(text, changed) ==
    recalc' = [at |-> "computing", text |-> text, changed |-> changed, prev |-> asOfWrite]

EditBuffer ==
    /\ edits < MaxEdits
    /\ edits' = edits + 1
    /\ Recalculate(indexText, indexChanged)
    /\ UNCHANGED <<index, diff, jobs, running, fsEvent, failed, failures, handled, want>>

ForgetChange ==   \* mutant: a cancelled recalculation resets index_changed
    /\ recalc.at = "computing" /\ count > recalc.prev
    /\ indexChanged' = FALSE
    /\ recalc' = NoRecalc
    /\ UNCHANGED <<index, base, pending, count, asOfWrite, indexText, jobs, running, fsEvent,
                   failed, bounds, handled, want>>

(* Operations came after the write that was the last when it started.        *)
CancelRecalc ==
    /\ recalc.at = "computing" /\ count > recalc.prev
    /\ recalc' = NoRecalc
    /\ UNCHANGED <<index, diff, jobs, running, fsEvent, failed, bounds, handled, want>>

(* The check and the first of the diffs are one step, the rest is not.       *)
SetUnstagedDiff ==
    /\ recalc.at = "computing" /\ count <= recalc.prev
    /\ base' = IF recalc.changed THEN recalc.text ELSE base
    /\ recalc' = [recalc EXCEPT !.at = "unstaged"]
    /\ UNCHANGED <<index, pending, count, asOfWrite, indexText, indexChanged, jobs, running,
                   fsEvent, failed, bounds, handled, want>>

SetUncommittedDiff ==
    /\ recalc.at = "unstaged"
    /\ pending' = NothingPending
    /\ recalc' = [recalc EXCEPT !.at = "uncommitted"]
    /\ UNCHANGED <<index, base, count, asOfWrite, indexText, indexChanged, jobs, running,
                   fsEvent, failed, bounds, handled, want>>

FinishRecalc ==
    /\ recalc.at = "uncommitted"
    /\ indexChanged' = FALSE
    /\ recalc' = NoRecalc
    /\ UNCHANGED <<index, base, pending, count, asOfWrite, indexText, jobs, running,
                   fsEvent, failed, bounds, handled, want>>

RecalcStep == CancelRecalc \/ SetUnstagedDiff \/ SetUncommittedDiff \/ FinishRecalc

-----------------------------------------------------------------------------
(* The git worker *)

AnyQueued(job) == Len(jobs) > 1   \* mutant: the keys are not compared

Superseded(job) == \E i \in 2..Len(jobs) : jobs[i].key = job.key

SkipJob ==   \* its sender learns nothing
    /\ running = None /\ jobs # <<>>
    /\ Superseded(Head(jobs))
    /\ jobs' = Tail(jobs)
    /\ UNCHANGED <<index, diff, recalc, running, fsEvent, failed, bounds, handled, want>>

StartJob ==
    /\ running = None /\ jobs # <<>>
    /\ ~Superseded(Head(jobs))
    /\ running' = Head(jobs)
    /\ jobs' = Tail(jobs)
    /\ UNCHANGED <<index, diff, recalc, fsEvent, failed, bounds, handled, want>>

(* spawn_set_index_text_job: set_index_text, and then the count as of write. *)
WriteIndex ==
    /\ running.key = "WriteIndex" /\ running.at = "write"
    /\ index' = running.text
    /\ fsEvent' = TRUE
    /\ running' = [running EXCEPT !.at = "written"]
    /\ handled' = running.count
    /\ UNCHANGED <<diff, recalc, jobs, failed, bounds, want>>

RecordNext ==   \* mutant: the count after the operation's own is recorded
    /\ running.key = "WriteIndex" /\ running.at = "written"
    /\ asOfWrite' = running.count + 1
    /\ running' = None
    /\ UNCHANGED <<index, base, pending, count, indexText, indexChanged, recalc, jobs,
                   fsEvent, failed, bounds, handled, want>>

RecordWrite ==
    /\ running.key = "WriteIndex" /\ running.at = "written"
    /\ asOfWrite' = running.count
    /\ running' = None
    /\ UNCHANGED <<index, base, pending, count, indexText, indexChanged, recalc, jobs,
                   fsEvent, failed, bounds, handled, want>>

FailWrite ==
    /\ running.key = "WriteIndex" /\ running.at = "write"
    /\ failures < MaxFailures
    /\ failures' = failures + 1
    /\ failed' = TRUE
    /\ running' = None
    /\ handled' = running.count
    /\ UNCHANGED <<index, diff, recalc, jobs, fsEvent, edits, want>>

(* The task that awaits the job: the pending hunks go, the count stays.      *)
ClearAfterFailure ==
    /\ failed
    /\ failed' = FALSE
    /\ pending' = NothingPending
    /\ want' = Overlay(base, NothingPending)
    /\ UNCHANGED <<index, base, count, asOfWrite, indexText, indexChanged, recalc, jobs,
                   running, fsEvent, bounds, handled>>

(* reload_buffer_diff_bases: recalculates even if the index has not changed. *)
Reload ==
    /\ running.key = "ReloadBufferDiffBases"
    /\ indexText' = index
    /\ indexChanged' = (indexChanged \/ index # indexText)
    /\ Recalculate(index, indexChanged')
    /\ running' = None
    /\ UNCHANGED <<index, base, pending, count, asOfWrite, jobs, fsEvent, failed, bounds,
                   handled, want>>

Worker == SkipJob \/ StartJob \/ WriteIndex \/ RecordWrite \/ FailWrite \/ Reload

(* local_worktree_git_repos_changed                                          *)
ReportChange ==
    /\ fsEvent
    /\ fsEvent' = FALSE
    /\ jobs' = Append(jobs, ReloadJob)
    /\ UNCHANGED <<index, diff, recalc, running, failed, bounds, handled, want>>

-----------------------------------------------------------------------------
Next ==
    \/ \E h \in Hunk : Toggle(h)
    \/ EditBuffer \/ RecalcStep
    \/ Worker \/ ClearAfterFailure \/ ReportChange

Spec == Init /\ [][Next]_vars

(* The worker and the main thread's tasks run, and the watcher reports.      *)
FairSpec ==
    Spec /\ WF_vars(RecalcStep) /\ WF_vars(Worker) /\ WF_vars(ClearAfterFailure)
         /\ WF_vars(ReportChange)

-----------------------------------------------------------------------------
Idle == jobs = <<>> /\ running = None

TypeOK ==
    /\ {index, base, indexText, want} \subseteq SUBSET Hunk
    /\ pending \in [Hunk -> {"no", "stage", "unstage"}]
    /\ count \in 0..MaxOps /\ asOfWrite \in 0..count /\ handled \in 0..count
    /\ recalc.at \in {"none", "computing", "unstaged", "uncommitted"}
    /\ running.key \in {"none", "WriteIndex", "ReloadBufferDiffBases"}
    /\ {fsEvent, failed, indexChanged} \subseteq BOOLEAN

(* The worker skips a write when a newer one is queued; what it has carried  *)
(* out, when nothing is left to do, is the newest operation, and an index    *)
(* write never undoes a newer one.                                           *)
NewestWriteHandled == Idle => handled = count

(* "Another recalculation will come along later": when the user stops and    *)
(* the newest write has succeeded, the diff ends up with the index that is   *)
(* on disk and nothing pending, whatever was cancelled or replaced before.   *)
DiffSettles == <>[](asOfWrite = count => base = index /\ pending = NothingPending)

(* git_store.rs:3424: a recalculation clears the pending state only when all *)
(* operations have quiesced, "i.e. both the corresponding write and the read *)
(* of that write".  The pending state is what the next index text is made    *)
(* of: a hunk the user has staged is staged, when all writes are done.       *)
StagedStays == Idle /\ failures = 0 => index = want
=============================================================================
