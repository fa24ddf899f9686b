------------------------------ MODULE IngestJob ------------------------------
(***************************************************************************)
(* Turning uploaded material into cards (api/app/ingest: router, job_worker, *)
(* job_repository, pipeline.process_source, recovery).                      *)
(*                                                                          *)
(* A job names the sources to extract and has one row for each of them.  An *)
(* accepted request leaves a background task in the memory of the API       *)
(* process; the task claims the job and works through the rows that were    *)
(* queued when it looked.  Extraction takes minutes with no connection      *)
(* held: in between, the owner retries, forces, deletes and creates jobs,   *)
(* and none of these asks what the tasks are doing.  What keeps the cards   *)
(* single is the recovery state of the row, replaced by compare-and-set.    *)
(*                                                                          *)
(* Data abstraction.  A source has cards or not, an extraction lost some    *)
(* segments or none.  A recovery value is its phase, whether segments were  *)
(* lost, and the extraction whose facts it holds (a commit empties them).   *)
(* Consecutive statements of a task are one action when they write what     *)
(* nobody reads in between; transactions are one action.                    *)
(***************************************************************************)
EXTENDS Naturals, FiniteSets

CONSTANTS
    Sources,      \* source_id of the uploaded sources, in the order rows are taken
    Jobs,         \* idempotency keys of the jobs that may be created
    Batches,      \* the sets of sources a job may name
    Workers,      \* background tasks that run at the same time
    NoJob,        \* job of a task that POST /ingest/process started
    MaxRequests,  \* bound on replayed creations, retries, extract-anyway and process requests
    Deletions,    \* sources the owner may delete
    Layouts,      \* may settings that shape segments change between runs?
    Crashes       \* may the process die, or a statement of a task fail?

ASSUME IngestAssumption ==
    /\ Sources \subseteq Nat \ {0} /\ IsFiniteSet(Sources)
    /\ Batches \subseteq (SUBSET Sources) \ {{}}
    /\ NoJob \notin Jobs
    /\ MaxRequests \in Nat
    /\ Deletions \subseteq Sources /\ {Layouts, Crashes} \subseteq BOOLEAN

VARIABLES
    source,     \* sources: status, availability, saved intake decision, linked cards
    job,        \* ingest_jobs.status, "none" without a row
    row,        \* ingest_job_sources
    creating,   \* sources checked by an open creation of every job
    retrying,   \* rows of every job that an open retry has reset and locked
    deleting,   \* sources an open deletion has locked and found idle
    task,       \* background tasks not started yet, by job
    forcing,    \* sources an open POST /ingest/process has checked
    direct,     \* background tasks of POST /ingest/process not started yet
    worker,     \* local state of every running task
    notified,   \* jobs with an INGEST_COMPLETED notification
    requests,   \* number of those requests so far
    committed,  \* history: whole extractions of a row committed since it was cleared
    disturbed,  \* history: jobs whose work was overlapped, failed or died
    crossed     \* history: <<job, source>> of creations and retries that crossed a deletion

requestVars == <<creating, retrying, deleting, forcing, direct, requests, crossed>>
vars == <<source, job, row, task, worker, notified, committed, disturbed, requestVars>>

----------------------------------------------------------------------------
Active == {"QUEUED", "EXTRACTING", "CLASSIFYING"}
Finished == {"SUCCEEDED", "PARTIAL", "NO_RESULT", "FAILED"}

(* recovery_state: whether it lost segments, and of an extraction not yet   *)
(* committed, which one it is and whether it covers the whole source.       *)
NoRecovery == [phase |-> "none", lost |-> FALSE, whole |-> FALSE, facts |-> 0]
Recoveries == [phase : {"none", "EXTRACTED", "COMMITTED"}, lost : BOOLEAN, whole : BOOLEAN,
               facts : Nat]

NoRow == [status |-> "none", intake_none |-> FALSE, cards |-> FALSE, lost |-> FALSE,
          recovery |-> NoRecovery, extractions |-> 0]
Idle == [pc |-> "idle", job |-> NoJob, todo |-> {}, source |-> 0, retry |-> FALSE,
         previous |-> NoRecovery, lost |-> FALSE, outcome |-> "none"]

TypeOK ==
    /\ source \in [Sources -> [status : {"UPLOADED", "PROCESSING", "DONE", "FAILED"},
                               deleted : BOOLEAN, intake : {"none", "work", "NONE"},
                               cards : BOOLEAN]]
    /\ job \in [Jobs -> Active \cup Finished \cup {"none"}]
    /\ row \in [Jobs -> [Sources -> [status : Active \cup Finished \cup {"none"},
                                     intake_none : BOOLEAN, cards : BOOLEAN, lost : BOOLEAN,
                                     recovery : Recoveries, extractions : Nat]]]
    /\ creating \in [Jobs -> SUBSET Sources] /\ retrying \in [Jobs -> SUBSET Sources]
    /\ deleting \subseteq Sources /\ crossed \subseteq Jobs \X Sources
    /\ task \in [Jobs -> Nat] /\ forcing \subseteq Sources /\ direct \subseteq Sources
    /\ worker \in [Workers -> [pc : {"idle", "select", "next", "load", "redo", "start",
                                     "classify", "intake", "layout", "extract", "commit",
                                     "fail", "record", "refresh"},
                               job : Jobs \cup {NoJob}, todo : SUBSET (Sources \X BOOLEAN),
                               source : Sources \cup {0}, retry : BOOLEAN,
                               previous : Recoveries, lost : BOOLEAN,
                               outcome : {"none", "INTAKE_NONE", "PARTIAL_RETRY_UNAVAILABLE"}]]
    /\ notified \subseteq Jobs
    /\ requests \in Nat
    /\ committed \in [Jobs -> [Sources -> Nat]]
    /\ disturbed \subseteq Jobs

Init ==
    /\ source = [s \in Sources |-> [status |-> "UPLOADED", deleted |-> FALSE,
                                    intake |-> "none", cards |-> FALSE]]
    /\ job = [j \in Jobs |-> "none"]
    /\ row = [j \in Jobs |-> [s \in Sources |-> NoRow]]
    /\ creating = [j \in Jobs |-> {}] /\ retrying = [j \in Jobs |-> {}]
    /\ deleting = {} /\ crossed = {}
    /\ task = [j \in Jobs |-> 0] /\ forcing = {} /\ direct = {}
    /\ worker = [w \in Workers |-> Idle]
    /\ notified = {}
    /\ requests = 0
    /\ committed = [j \in Jobs |-> [s \in Sources |-> 0]]
    /\ disturbed = {}

----------------------------------------------------------------------------
Busy(w) == worker[w].pc # "idle"
OfJob(w) == worker[w].job # NoJob
InJob(j) == {w \in Workers : Busy(w) /\ worker[w].job = j}
OnSource(s) == {w \in Workers : Busy(w) /\ worker[w].source = s}
Rows(j) == {s \in Sources : row[j][s].status # "none"}

Count == requests' = requests + 1
SetStatus(s, status) == source' = [source EXCEPT ![s].status = status]
Disturb(jobs) == disturbed' = disturbed \cup (jobs \ {NoJob})
MeetsOthers(j, s) == Disturb(IF OnSource(s) = {} THEN {}
                             ELSE {j} \cup {worker[w].job : w \in OnSource(s)})

(* Fault: a job takes the word that sources use.                            *)
FaultStatusWord(rows) ==
    IF \A s \in DOMAIN rows : rows[s].status \in {"none", "FAILED"} THEN "FAILED" ELSE "DONE"

(* Fault: rows that lost segments are not counted.                          *)
FaultStatusOrder(rows) ==
    IF \A s \in DOMAIN rows : rows[s].status \in {"none", "FAILED"} THEN "FAILED"
    ELSE IF \E s \in DOMAIN rows : rows[s].status = "FAILED" THEN "PARTIAL"
    ELSE IF \E s \in DOMAIN rows : rows[s].cards THEN "SUCCEEDED" ELSE "NO_RESULT"

(* job_worker.final_job_status of the rows of a job, as _refresh_job counts *)
(* them.                                                                    *)
final_job_status(rows) ==
    LET sources == {s \in DOMAIN rows : rows[s].status # "none"}
        having(status) == {s \in sources : rows[s].status = status}
    IN IF having("FAILED") = sources THEN "FAILED"
       ELSE IF having("FAILED") # {} THEN "PARTIAL"
       ELSE IF \A s \in sources : ~rows[s].cards THEN "NO_RESULT"
       ELSE IF having("PARTIAL") # {} THEN "PARTIAL" ELSE "SUCCEEDED"

----------------------------------------------------------------------------
(* The owner's requests *)

(* router.create_ingest_job: the sources are read without a lock, their     *)
(* rows and the job become visible at the commit.  Each row refers to its   *)
(* source, so its insertion waits for a deletion that has locked it.        *)
BeginCreate(j, batch) ==
    /\ job[j] = "none" /\ creating[j] = {}
    /\ \A s \in batch : ~source[s].deleted /\ source[s].status \in {"UPLOADED", "FAILED"}
    /\ creating' = [creating EXCEPT ![j] = batch]
    /\ UNCHANGED <<source, job, row, retrying, deleting, task, forcing, direct, worker, notified,
                   requests, committed, disturbed, crossed>>

CommitCreate(j) ==
    /\ creating[j] # {} /\ creating[j] \cap deleting = {}
    /\ creating' = [creating EXCEPT ![j] = {}]
    /\ job' = [job EXCEPT ![j] = "QUEUED"]
    /\ row' = [row EXCEPT ![j] = [s \in Sources |->
                  IF s \in creating[j] THEN [NoRow EXCEPT !.status = "QUEUED"] ELSE NoRow]]
    /\ task' = [task EXCEPT ![j] = @ + 1]
    /\ UNCHANGED <<source, retrying, deleting, forcing, direct, worker, notified, requests,
                   committed, disturbed, crossed>>

(* The same key again: a job that is still queued gets another task.        *)
ReplayCreate(j) ==
    /\ requests < MaxRequests
    /\ job[j] = "QUEUED"
    /\ task' = [task EXCEPT ![j] = @ + 1]
    /\ Count
    /\ UNCHANGED <<source, job, row, creating, retrying, deleting, forcing, direct, worker, notified,
                   committed, disturbed, crossed>>

(* job_repository.reset_retryable_sources: a failed row keeps its recovery  *)
(* state, a row without a result starts from nothing, a partial row keeps   *)
(* its cards and the segments it lost.                                      *)
ResetRow(r) ==
    CASE r.status = "FAILED" -> [r EXCEPT !.status = "QUEUED", !.intake_none = FALSE,
                                          !.cards = FALSE, !.lost = FALSE]
      [] r.status = "NO_RESULT" -> [NoRow EXCEPT !.status = "QUEUED",
                                                 !.extractions = r.extractions]
      [] OTHER -> [r EXCEPT !.status = "QUEUED", !.intake_none = FALSE]
Retryable(j, statuses) ==
    {s \in Sources : row[j][s].status \in statuses /\ ~source[s].deleted}

(* _requeue_job and the new task: whoever is in the job stays in it.        *)
Requeue(j, rows) ==
    /\ row' = [row EXCEPT ![j] = [s \in Sources |->
                  IF s \in rows THEN ResetRow(row[j][s]) ELSE row[j][s]]]
    /\ committed' = [committed EXCEPT ![j] = [s \in Sources |->
                        IF s \in rows /\ row[j][s].status = "NO_RESULT" THEN 0
                                                                        ELSE committed[j][s]]]
    /\ job' = [job EXCEPT ![j] = "QUEUED"]
    /\ task' = [task EXCEPT ![j] = @ + 1]
    /\ Disturb({worker[w].job : w \in InJob(j)})

(* router.retry_ingest_job: its UPDATEs lock the rows they reset and read   *)
(* the sources without a lock; nobody sees the rows before the commit.  (A  *)
(* second retry of the job waits for the first.)                            *)
BeginRetry(j, include_no_result) ==
    LET rows == Retryable(j, {"FAILED", "PARTIAL"}
                             \cup (IF include_no_result THEN {"NO_RESULT"} ELSE {}))
    IN /\ requests < MaxRequests /\ retrying[j] = {}
       /\ rows # {}
       /\ retrying' = [retrying EXCEPT ![j] = rows]
       /\ Count
       /\ UNCHANGED <<source, job, row, creating, deleting, task, forcing, direct, worker, notified,
                      committed, disturbed, crossed>>

CommitRetry(j) ==
    /\ retrying[j] # {}
    /\ Requeue(j, retrying[j])
    /\ retrying' = [retrying EXCEPT ![j] = {}]
    /\ crossed' = crossed \cup {<<j, s>> : s \in retrying[j] \cap deleting}
    /\ UNCHANGED <<source, creating, deleting, forcing, direct, worker, notified, requests>>

(* The retry is the victim of a deadlock: it locks the rows and then the    *)
(* job, extract_source_anyway the job and then the row.                     *)
AbortRetry(j) ==
    /\ retrying[j] # {}
    /\ retrying' = [retrying EXCEPT ![j] = {}]
    /\ UNCHANGED <<source, job, row, creating, deleting, task, forcing, direct, worker, notified,
                   requests, committed, disturbed, crossed>>

(* router.extract_source_anyway: under locks on the job and its row, and,   *)
(* because the new decision refers to it, on the source.                    *)
extract_source_anyway(j, s) ==
    /\ requests < MaxRequests
    /\ s \notin retrying[j] /\ s \notin deleting
    /\ job[j] \notin Active
    /\ row[j][s].status = "NO_RESULT" /\ row[j][s].intake_none
    /\ ~source[s].deleted /\ source[s].intake = "NONE"
    /\ source' = [source EXCEPT ![s].intake = "work"]
    /\ Requeue(j, {s})
    /\ Count
    /\ UNCHANGED <<creating, retrying, deleting, forcing, direct, worker, notified, crossed>>

(* Fault: a row that waits in a job is not looked at.                       *)
FaultSourceInProgress(s) == source[s].status = "PROCESSING"

(* job_repository.source_in_progress: the committed rows, without a lock.   *)
source_in_progress(s) ==
    source[s].status = "PROCESSING" \/ \E j \in Jobs : row[j][s].status \in Active

(* router.delete_ingest_source: the source is locked, looked at, and marked *)
(* deleted at the commit.  The lock keeps no retry from committing.         *)
BeginDelete(s) ==
    /\ s \in Deletions /\ ~source[s].deleted /\ s \notin deleting
    /\ ~source_in_progress(s)
    /\ deleting' = deleting \cup {s}
    /\ UNCHANGED <<source, job, row, creating, retrying, task, forcing, direct, worker, notified,
                   requests, committed, disturbed, crossed>>

CommitDelete(s) ==
    /\ s \in deleting
    /\ deleting' = deleting \ {s}
    /\ source' = [source EXCEPT ![s].deleted = TRUE]
    /\ crossed' = crossed \cup {<<j, s>> : j \in {i \in Jobs : s \in creating[i] \cup retrying[i]}}
    /\ UNCHANGED <<job, row, creating, retrying, task, forcing, direct, worker, notified, requests,
                   committed, disturbed>>

(* router.process: extraction without a job, DONE only with force.  The     *)
(* status is read, and written by a statement of its own.                   *)
BeginProcess(s) ==
    /\ requests < MaxRequests
    /\ ~source[s].deleted /\ source[s].status # "PROCESSING"
    /\ forcing' = forcing \cup {s}
    /\ Count
    /\ UNCHANGED <<source, job, row, creating, retrying, deleting, task, direct, worker, notified,
                   committed, disturbed, crossed>>

CommitProcess(s) ==
    /\ s \in forcing /\ s \notin deleting
    /\ forcing' = forcing \ {s}
    /\ SetStatus(s, "PROCESSING")
    /\ direct' = direct \cup {s}
    /\ Disturb({worker[w].job : w \in OnSource(s)})
    /\ UNCHANGED <<job, row, creating, retrying, deleting, task, worker, notified, requests,
                   committed, crossed>>

----------------------------------------------------------------------------
(* job_worker.process_ingest_job *)

Step(w, pc) == worker' = [worker EXCEPT ![w].pc = pc]
Return(w) == worker' = [worker EXCEPT ![w] = Idle]

(* Updates of a row wait for an open retry of it, updates of a source for   *)
(* an open deletion.                                                        *)
RowFree(w) == OfJob(w) => worker[w].source \notin retrying[worker[w].job]
SourceFree(w) == worker[w].source \notin deleting

RequestsFrame == UNCHANGED requestVars
TaskFrame == RequestsFrame /\ UNCHANGED task

(* Fault: only a job that never ran can be claimed.                         *)
FaultClaimable(j) == job[j] = "QUEUED" /\ \A s \in Rows(j) : row[j][s].status = "QUEUED"

Claimable(j) == job[j] = "QUEUED"

ClaimJob(w, j) ==
    /\ ~Busy(w) /\ task[j] > 0
    /\ task' = [task EXCEPT ![j] = @ - 1]
    /\ IF Claimable(j)
       THEN /\ job' = [job EXCEPT ![j] = "EXTRACTING"]
            /\ worker' = [worker EXCEPT ![w] = [Idle EXCEPT !.pc = "select", !.job = j]]
       ELSE UNCHANGED <<job, worker>>
    /\ RequestsFrame /\ UNCHANGED <<source, row, notified, committed, disturbed>>

(* The rows queued now are the work of this task, whoever queues more.      *)
SelectRows(w) == LET j == worker[w].job IN
    /\ worker[w].pc = "select"
    /\ worker' = [worker EXCEPT ![w].pc = "next",
           ![w].todo = {<<s, row[j][s].lost>> : s \in {r \in Sources : row[j][r].status = "QUEUED"}}]
    /\ TaskFrame /\ UNCHANGED <<source, job, row, notified, committed, disturbed>>

BeginRow(w) == LET j == worker[w].job IN
    /\ worker[w].pc = "next"
    /\ \E t \in worker[w].todo :
          /\ \A u \in worker[w].todo : t[1] <= u[1]
          /\ t[1] \notin retrying[j]
          /\ row' = [row EXCEPT ![j][t[1]].status = "EXTRACTING"]
          /\ worker' = [worker EXCEPT ![w] =
                [Idle EXCEPT !.pc = "load", !.job = j, !.todo = worker[w].todo \ {t},
                             !.source = t[1], !.retry = t[2]]]
          /\ MeetsOthers(j, t[1])
    /\ TaskFrame /\ UNCHANGED <<source, job, notified, committed>>

(* What process_source left in the row and in the source decides the row.   *)
RowResult(w) ==
    LET j == worker[w].job  s == worker[w].source
        result(status, none) == [row[j][s] EXCEPT !.status = status, !.intake_none = none,
                                                  !.cards = source[s].cards]
    IN IF source[s].status = "FAILED"
       THEN result(IF worker[w].retry THEN "PARTIAL" ELSE "FAILED", FALSE)
       ELSE IF worker[w].outcome = "PARTIAL_RETRY_UNAVAILABLE"
       THEN result(IF source[s].cards THEN "PARTIAL" ELSE "FAILED", FALSE)
       ELSE IF worker[w].outcome = "INTAKE_NONE" THEN result("NO_RESULT", TRUE)
       ELSE IF ~source[s].cards THEN result("NO_RESULT", FALSE)
       ELSE result(IF row[j][s].lost THEN "PARTIAL" ELSE "SUCCEEDED", FALSE)

RecordRow(w) ==
    /\ worker[w].pc = "record" /\ RowFree(w)
    /\ row' = [row EXCEPT ![worker[w].job][worker[w].source] = RowResult(w)]
    /\ worker' = [worker EXCEPT ![w] = [Idle EXCEPT !.pc = "refresh", !.job = worker[w].job,
                                                   !.todo = worker[w].todo]]
    /\ TaskFrame /\ UNCHANGED <<source, job, notified, committed, disturbed>>

(* _refresh_job(final=False) *)
Refresh(w) == LET j == worker[w].job IN
    /\ worker[w].pc = "refresh"
    /\ job' = [job EXCEPT ![j] = "EXTRACTING"]
    /\ Step(w, "next")
    /\ TaskFrame /\ UNCHANGED <<source, row, notified, committed, disturbed>>

(* _refresh_job(final=True), and one notification for a job with cards.     *)
FinishJob(w) == LET j == worker[w].job  status == final_job_status(row[j]) IN
    /\ worker[w].pc = "next" /\ worker[w].todo = {}
    /\ job' = [job EXCEPT ![j] = status]
    /\ notified' = IF status \in {"SUCCEEDED", "PARTIAL"} /\ \E s \in Sources : row[j][s].cards
                   THEN notified \cup {j} ELSE notified
    /\ Return(w)
    /\ TaskFrame /\ UNCHANGED <<source, row, committed, disturbed>>

(* The except of process_ingest_job.                                        *)
FailJob(w) ==
    /\ job' = [job EXCEPT ![worker[w].job] = "FAILED"]
    /\ Return(w)

(* A statement between the sources of a job fails.                          *)
TaskFails(w) ==
    /\ Crashes /\ worker[w].pc \in {"next", "record", "refresh"}
    /\ FailJob(w)
    /\ Disturb({worker[w].job})
    /\ TaskFrame /\ UNCHANGED <<source, row, notified, committed>>

----------------------------------------------------------------------------
(* pipeline.process_source, for a row of a job or (NoJob) without one       *)

Recovery(w) == row[worker[w].job][worker[w].source].recovery

(* End of process_source: a task without a job has nobody to report to.     *)
EndSource(w, outcome) ==
    worker' = [worker EXCEPT ![w] =
        IF OfJob(w) THEN [@ EXCEPT !.pc = "record", !.outcome = outcome, !.previous = NoRecovery,
                                   !.lost = FALSE]
                    ELSE Idle]

BeginDirect(w, s) ==
    /\ ~Busy(w) /\ s \in direct
    /\ direct' = direct \ {s}
    /\ worker' = [worker EXCEPT ![w] = [Idle EXCEPT !.pc = "start", !.source = s]]
    /\ MeetsOthers(NoJob, s)
    /\ UNCHANGED <<source, job, row, creating, retrying, deleting, task, forcing, notified, requests,
                   committed, crossed>>

(* A whole commit is not repeated: the caller only missed its result.       *)
LoadRecovery(w) ==
    /\ worker[w].pc = "load"
    /\ worker' = [worker EXCEPT ![w].previous = Recovery(w),
           ![w].pc = IF Recovery(w).phase = "COMMITTED" /\ ~Recovery(w).lost THEN "redo" ELSE "start"]
    /\ TaskFrame /\ UNCHANGED <<source, job, row, notified, committed, disturbed>>

RedoDone(w) ==
    /\ worker[w].pc = "redo" /\ SourceFree(w)
    /\ SetStatus(worker[w].source, "DONE")
    /\ EndSource(w, "none")
    /\ TaskFrame /\ UNCHANGED <<job, row, notified, committed, disturbed>>

StartSource(w) ==
    /\ worker[w].pc = "start" /\ SourceFree(w)
    /\ SetStatus(worker[w].source, "PROCESSING")
    /\ Step(w, IF OfJob(w) THEN "classify" ELSE "intake")
    /\ TaskFrame /\ UNCHANGED <<job, row, notified, committed, disturbed>>

ShowClassifying(w) == LET j == worker[w].job  s == worker[w].source IN
    /\ worker[w].pc = "classify" /\ RowFree(w)
    /\ row' = [row EXCEPT ![j][s].status = "CLASSIFYING"]
    /\ job' = [job EXCEPT ![j] = "CLASSIFYING"]
    /\ Step(w, "intake")
    /\ TaskFrame /\ UNCHANGED <<source, notified, committed, disturbed>>

(* route_source: a saved decision is used again.  A source that is not      *)
(* work material ends here (_finish_intake_none), with no segment lost.     *)
(* (The decisions a task may make for its sources together are made here.)  *)
Intake(w) == LET j == worker[w].job  s == worker[w].source IN
    /\ worker[w].pc = "intake" /\ SourceFree(w) /\ RowFree(w)
    /\ \E decision \in IF source[s].intake = "none" THEN {"work", "NONE"} ELSE {source[s].intake} :
          IF decision = "NONE"
          THEN /\ source' = [source EXCEPT ![s].intake = "NONE", ![s].status = "DONE"]
               /\ row' = IF OfJob(w) THEN [row EXCEPT ![j][s].lost = FALSE] ELSE row
               /\ EndSource(w, "INTAKE_NONE")
          ELSE /\ source' = [source EXCEPT ![s].intake = "work"]
               /\ Step(w, "layout") /\ UNCHANGED row
    /\ TaskFrame /\ UNCHANGED <<job, notified, committed, disturbed>>

(* The exception handler: RecoveryConflict leaves the source to the task    *)
(* that moved the recovery state and fails the job; any other exception     *)
(* fails the source.                                                        *)
RecoveryConflict(w) == FailJob(w) /\ UNCHANGED <<source, row, committed>>

RaiseInSource(w) ==
    /\ worker[w].pc \in {"intake", "layout", "extract", "commit"}
                        \cup (IF Crashes THEN {"load", "redo", "start", "classify"} ELSE {})
    /\ Step(w, "fail")
    /\ TaskFrame /\ UNCHANGED <<source, job, row, notified, committed, disturbed>>

(* _mark_failed gives up when its second attempt fails as well.             *)
MarkFailed(w) ==
    /\ worker[w].pc = "fail" /\ SourceFree(w)
    /\ \/ SetStatus(worker[w].source, "FAILED") /\ UNCHANGED disturbed
       \/ Crashes /\ Disturb({worker[w].job}) /\ UNCHANGED source
    /\ EndSource(w, "none")
    /\ TaskFrame /\ UNCHANGED <<job, row, notified, committed>>

(* Lost segments can be read alone only while segment numbers mean what     *)
(* they meant: the layout hash of the recovery state must be today's.       *)
OnlyLost(w) == worker[w].retry \/ worker[w].previous.phase = "COMMITTED"

CheckLayout(w) ==
    /\ worker[w].pc = "layout" /\ SourceFree(w)
    /\ \E changed \in {FALSE, Layouts} :
          IF \/ worker[w].previous.phase # "none" /\ changed
             \/ worker[w].previous.phase = "none" /\ worker[w].retry
          THEN SetStatus(worker[w].source, "DONE") /\ EndSource(w, "PARTIAL_RETRY_UNAVAILABLE")
          ELSE /\ UNCHANGED source
               /\ IF worker[w].previous.phase = "EXTRACTED"
                  THEN worker' = [worker EXCEPT ![w].pc = "commit",
                                                ![w].lost = worker[w].previous.lost]
                  ELSE Step(w, "extract")
    /\ TaskFrame /\ UNCHANGED <<job, row, notified, committed, disturbed>>

(* Fault: the recovery state is replaced without looking at it.             *)
FaultSame(w) == TRUE

(* recovery.replace: under the lock of the row.                             *)
Same(w) == Recovery(w) = worker[w].previous

(* The extraction is kept before the cards are assembled from it.           *)
SaveExtraction(w) == LET j == worker[w].job  s == worker[w].source IN
    /\ worker[w].pc = "extract" /\ RowFree(w)
    /\ \E lost \in BOOLEAN :
          IF ~OfJob(w)
          THEN /\ worker' = [worker EXCEPT ![w].pc = "commit", ![w].lost = lost]
               /\ UNCHANGED <<source, job, row, committed>>
          ELSE IF ~Same(w) THEN RecoveryConflict(w)
          ELSE LET pending == [phase |-> "EXTRACTED", lost |-> lost, whole |-> ~OnlyLost(w),
                               facts |-> row[j][s].extractions + 1]
               IN /\ row' = [row EXCEPT ![j][s].recovery = pending, ![j][s].extractions = @ + 1]
                  /\ worker' = [worker EXCEPT ![w].pc = "commit", ![w].lost = lost,
                                              ![w].previous = pending]
                  /\ UNCHANGED <<source, job, committed>>
    /\ TaskFrame /\ UNCHANGED <<notified, disturbed>>

StillProcessing(s) == source[s].status = "PROCESSING"

(* Recovery state, cards, lost segments and DONE in one transaction.        *)
Commit(w) == LET j == worker[w].job  s == worker[w].source IN
    /\ worker[w].pc = "commit" /\ SourceFree(w) /\ RowFree(w)
    /\ IF OfJob(w) /\ ~Same(w) THEN RecoveryConflict(w)
       ELSE IF ~StillProcessing(s)
       THEN Step(w, "fail") /\ UNCHANGED <<source, job, row, committed>>
       ELSE /\ \E cards \in BOOLEAN :
                  source' = [source EXCEPT ![s].status = "DONE", ![s].cards = @ \/ cards]
            /\ IF OfJob(w)
               THEN /\ row' = [row EXCEPT ![j][s].lost = worker[w].lost, ![j][s].recovery =
                                  [NoRecovery EXCEPT !.phase = "COMMITTED", !.lost = worker[w].lost]]
                    /\ committed' = [committed EXCEPT ![j][s] =
                                        @ + IF worker[w].previous.whole THEN 1 ELSE 0]
               ELSE UNCHANGED <<row, committed>>
            /\ EndSource(w, "none")
            /\ UNCHANGED job
    /\ TaskFrame /\ UNCHANGED <<notified, disturbed>>

----------------------------------------------------------------------------
(* The process dies: its tasks are nowhere else.                            *)
Crash ==
    /\ Crashes
    /\ worker' = [w \in Workers |-> Idle]
    /\ task' = [j \in Jobs |-> 0] /\ direct' = {}
    /\ creating' = [j \in Jobs |-> {}] /\ retrying' = [j \in Jobs |-> {}]
    /\ forcing' = {} /\ deleting' = {}
    /\ Disturb({j \in Jobs : task[j] > 0 \/ InJob(j) # {}})
    /\ UNCHANGED <<source, job, row, notified, requests, committed, crossed>>

JobStep(w) ==
    \/ \E j \in Jobs : ClaimJob(w, j)
    \/ SelectRows(w) \/ BeginRow(w) \/ RecordRow(w) \/ Refresh(w) \/ FinishJob(w)

SourceStep(w) ==
    \/ \E s \in Sources : BeginDirect(w, s)
    \/ LoadRecovery(w) \/ RedoDone(w) \/ StartSource(w) \/ ShowClassifying(w) \/ Intake(w)
    \/ CheckLayout(w) \/ SaveExtraction(w) \/ Commit(w) \/ MarkFailed(w)

Request ==
    \/ \E j \in Jobs, batch \in Batches : BeginCreate(j, batch)
    \/ \E j \in Jobs : CommitCreate(j) \/ ReplayCreate(j) \/ CommitRetry(j) \/ AbortRetry(j)
    \/ \E j \in Jobs, include_no_result \in BOOLEAN : BeginRetry(j, include_no_result)
    \/ \E j \in Jobs, s \in Sources : extract_source_anyway(j, s)
    \/ \E s \in Sources :
          BeginDelete(s) \/ CommitDelete(s) \/ BeginProcess(s) \/ CommitProcess(s)

Next ==
    \/ Request
    \/ \E w \in Workers : JobStep(w) \/ SourceStep(w) \/ RaiseInSource(w) \/ TaskFails(w)
    \/ Crash

Spec == Init /\ [][Next]_vars

----------------------------------------------------------------------------
(* The facts of one extraction of a whole source become cards once, however *)
(* many tasks are in the job and whatever is retried: a commit replaces the *)
(* recovery state it started from (recovery.py "CAS").                      *)
CommittedOnce == \A j \in Jobs, s \in Sources : committed[j][s] <= 1

(* Nothing is left behind: unless a retry or another extraction overlapped  *)
(* it, a statement failed or the process died, an unfinished job has a task *)
(* that will finish it, every unfinished row is that task's to do, and no   *)
(* row of a finished job is unfinished.                                     *)
Pending(j, s) ==
    \/ \E w \in InJob(j) : worker[w].pc = "select"
    \/ \E w \in InJob(j) : worker[w].source = s \/ \E t \in worker[w].todo : t[1] = s
    \/ job[j] = "QUEUED" /\ task[j] > 0

NothingLeftBehind == \A j \in Jobs \ disturbed :
    /\ job[j] \in Active => InJob(j) # {} \/ (job[j] = "QUEUED" /\ task[j] > 0)
    /\ \A s \in Sources : row[j][s].status \in Active => Pending(j, s)

(* A row reported SUCCEEDED has committed an extraction that lost nothing,  *)
(* and its job never says SUCCEEDED over a row that lost segments.          *)
SucceededIsComplete == \A j \in Jobs \ disturbed :
    /\ \A s \in Sources : row[j][s].status = "SUCCEEDED" =>
          row[j][s].recovery = [NoRecovery EXCEPT !.phase = "COMMITTED"] /\ ~row[j][s].lost
    /\ job[j] = "SUCCEEDED" => \A s \in Rows(j) :
          row[j][s].status \in {"SUCCEEDED", "NO_RESULT"}

(* job_repository.py:202: a deleted source cannot be opened and is not      *)
(* extracted again.  Deletion, creation and retry lock different rows, so   *)
(* the promise is kept for a job only where none of them was under way      *)
(* while the source was deleted.                                            *)
DeletedIsNotRead == \A j \in Jobs \ disturbed : \A w \in InJob(j) : LET s == worker[w].source IN
    s # 0 /\ source[s].deleted => <<j, s>> \in crossed
=============================================================================
