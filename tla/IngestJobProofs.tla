--------------------------- MODULE IngestJobProofs ---------------------------
(***************************************************************************)
(* Theorems of IngestJob, for every set of sources, jobs and tasks: type   *)
(* correctness, that the compare-and-set of the recovery state makes the   *)
(* facts of one extraction become cards once, that a job nobody disturbed  *)
(* is finished by its task, completely, and that it reads a deleted source *)
(* only where a creation or a retry crossed the deletion.                  *)
(***************************************************************************)
EXTENDS IngestJob, TLAPS

SourceRows == [status : {"UPLOADED", "PROCESSING", "DONE", "FAILED"}, deleted : BOOLEAN,
               intake : {"none", "work", "NONE"}, cards : BOOLEAN]
JobStates == Active \cup Finished \cup {"none"}
RowRows == [status : JobStates, intake_none : BOOLEAN, cards : BOOLEAN, lost : BOOLEAN,
            recovery : Recoveries, extractions : Nat]
WorkerRows == [pc : {"idle", "select", "next", "load", "redo", "start", "classify", "intake",
                     "layout", "extract", "commit", "fail", "record", "refresh"},
               job : Jobs \cup {NoJob}, todo : SUBSET (Sources \X BOOLEAN),
               source : Sources \cup {0}, retry : BOOLEAN, previous : Recoveries,
               lost : BOOLEAN, outcome : {"none", "INTAKE_NONE", "PARTIAL_RETRY_UNAVAILABLE"}]

(* Where a task works on a source, and where it works for a job.            *)
AtSource == {"load", "redo", "start", "classify", "intake", "layout", "extract", "commit", "fail",
             "record"}
AtJob == {"select", "next", "load", "redo", "classify", "record", "refresh"}
Placed(r) == /\ r \in WorkerRows
             /\ r.pc \in AtSource => r.source \in Sources
             /\ r.pc \in AtJob => r.job \in Jobs

(* The parts of TypeOK, with the place of every task.                       *)
SourcesType == source \in [Sources -> SourceRows]
JobsType == job \in [Jobs -> JobStates]
RowsType == row \in [Jobs -> [Sources -> RowRows]]
RequestsType == /\ creating \in [Jobs -> SUBSET Sources] /\ retrying \in [Jobs -> SUBSET Sources]
                /\ deleting \subseteq Sources /\ crossed \subseteq Jobs \X Sources
                /\ task \in [Jobs -> Nat] /\ forcing \subseteq Sources
                /\ direct \subseteq Sources /\ requests \in Nat
HistoryType == /\ notified \subseteq Jobs /\ disturbed \subseteq Jobs
               /\ committed \in [Jobs -> [Sources -> Nat]]
WorkersType == worker \in [Workers -> WorkerRows] /\ \A w \in Workers : Placed(worker[w])

TypeInv == SourcesType /\ JobsType /\ RowsType /\ RequestsType /\ HistoryType /\ WorkersType

LEMMA TypeInvOK == TypeInv => TypeOK
  BY DEF TypeInv, TypeOK, SourcesType, JobsType, RowsType, RequestsType, HistoryType, WorkersType,
         SourceRows, JobStates, RowRows, WorkerRows

LEMMA IdleType == Placed(Idle) /\ NoRow \in RowRows /\ NoRecovery \in Recoveries
                  /\ Idle \in WorkerRows
  <1>1. NoRecovery \in Recoveries
    BY DEF NoRecovery, Recoveries
  <1> HIDE DEF NoRecovery
  <1>2. Idle \in WorkerRows /\ Idle.pc = "idle"
    BY <1>1 DEF Idle, WorkerRows
  <1>3. NoRow \in RowRows
    BY <1>1 DEF NoRow, RowRows, JobStates
  <1> QED
    BY <1>1, <1>2, <1>3 DEF Placed, AtSource, AtJob

LEMMA InitType == Init => TypeInv
  <1> SUFFICES ASSUME Init PROVE TypeInv
    OBVIOUS
  <1>1. SourcesType /\ JobsType /\ RequestsType /\ HistoryType
    BY DEF Init, SourcesType, SourceRows, JobsType, JobStates, RequestsType, HistoryType
  <1>2. RowsType /\ WorkersType
    BY IdleType DEF Init, RowsType, WorkersType
  <1> QED
    BY <1>1, <1>2 DEF TypeInv

----------------------------------------------------------------------------
(* Updates of one record *)

LEMMA WorkerChange ==
  ASSUME WorkersType, NEW w \in Workers, NEW r, Placed(r), worker' = [worker EXCEPT ![w] = r]
  PROVE  WorkersType' /\ \A v \in Workers : worker'[v] = IF v = w THEN r ELSE worker[v]
  BY DEF WorkersType, Placed

LEMMA ReturnType ==
  ASSUME WorkersType, NEW w \in Workers, Return(w)
  PROVE  WorkersType'
  <1>1. Placed(Idle)
    BY IdleType
  <1> HIDE DEF Idle
  <1> QED
    BY <1>1, WorkerChange DEF Return

(* A task that goes on within a source, or within a job.                    *)
LEMMA StepType ==
  ASSUME WorkersType, NEW w \in Workers, NEW pc, Step(w, pc),
         \/ pc \in AtSource \ AtJob /\ worker[w].source \in Sources
         \/ pc \in AtJob \ AtSource /\ worker[w].job \in Jobs
         \/ pc \in AtSource /\ worker[w].source \in Sources /\ worker[w].job \in Jobs
  PROVE  WorkersType'
  <1> DEFINE r == [worker[w] EXCEPT !.pc = pc]
  <1>1. worker[w] \in WorkerRows
    BY DEF WorkersType
  <1>2. r \in WorkerRows /\ r.pc = pc /\ r.source = worker[w].source /\ r.job = worker[w].job
    BY <1>1 DEF WorkerRows, AtSource, AtJob
  <1>3. worker' = [worker EXCEPT ![w] = r]
    BY DEF Step
  <1> HIDE DEF r
  <1>4. Placed(r)
    BY <1>2 DEF Placed, AtSource, AtJob
  <1> QED
    BY <1>3, <1>4, WorkerChange

LEMMA EndSourceType ==
  ASSUME WorkersType, NEW w \in Workers, worker[w].pc \in AtSource,
         NEW outcome \in {"none", "INTAKE_NONE", "PARTIAL_RETRY_UNAVAILABLE"},
         EndSource(w, outcome)
  PROVE  WorkersType'
  <1> DEFINE r == [worker[w] EXCEPT !.pc = "record", !.outcome = outcome,
                                    !.previous = NoRecovery, !.lost = FALSE]
  <1>1. worker[w] \in WorkerRows /\ worker[w].source \in Sources
    BY DEF WorkersType, Placed
  <1>2. CASE OfJob(w)
    <2>1. worker[w].job \in Jobs
      BY <1>1, <1>2 DEF OfJob, WorkerRows
    <2>2. NoRecovery \in Recoveries
      BY IdleType
    <2>3. worker' = [worker EXCEPT ![w] = r]
      BY <1>2 DEF EndSource
    <2> HIDE DEF NoRecovery
    <2>4. r \in WorkerRows /\ r.source = worker[w].source /\ r.job = worker[w].job
      BY <1>1, <2>2 DEF WorkerRows
    <2> HIDE DEF r
    <2>5. Placed(r)
      BY <1>1, <2>1, <2>4 DEF Placed
    <2> QED
      BY <2>3, <2>5, WorkerChange
  <1>3. CASE ~OfJob(w)
    BY <1>3, ReturnType DEF EndSource, Return
  <1> QED
    BY <1>2, <1>3

LEMMA RowChange ==
  ASSUME RowsType, NEW j \in Jobs, NEW s \in Sources, NEW r \in RowRows,
         row' = [row EXCEPT ![j][s] = r]
  PROVE  /\ RowsType'
         /\ \A k \in Jobs, t \in Sources : row'[k][t] = IF k = j /\ t = s THEN r ELSE row[k][t]
  BY DEF RowsType

LEMMA StatusType ==
  ASSUME SourcesType, NEW s \in Sources, NEW status, SetStatus(s, status),
         status \in {"UPLOADED", "PROCESSING", "DONE", "FAILED"}
  PROVE  SourcesType'
  <1> DEFINE r == [source[s] EXCEPT !.status = status]
  <1>1. source' = [source EXCEPT ![s] = r]
    BY DEF SetStatus
  <1>2. r \in SourceRows
    BY DEF SourcesType, SourceRows
  <1> HIDE DEF r
  <1> QED
    BY <1>1, <1>2 DEF SourcesType

LEMMA DisturbType ==
  ASSUME disturbed \subseteq Jobs, NEW jobs \in SUBSET (Jobs \cup {NoJob}), Disturb(jobs)
  PROVE  disturbed' \subseteq Jobs
  BY DEF Disturb

LEMMA WorkerJobs ==
  ASSUME WorkersType
  PROVE  \A w \in Workers : worker[w].job \in Jobs \cup {NoJob}
  BY DEF WorkersType, WorkerRows

----------------------------------------------------------------------------
(* Type correctness, action by action *)

(* What an action leaves alone keeps its type.                              *)
LEMMA FrameType ==
  ASSUME TypeInv
  PROVE  /\ UNCHANGED source => SourcesType'
         /\ UNCHANGED job => JobsType'
         /\ UNCHANGED row => RowsType'
         /\ UNCHANGED <<requestVars, task>> => RequestsType'
         /\ UNCHANGED <<notified, committed, disturbed>> => HistoryType'
         /\ UNCHANGED worker => WorkersType'
  BY DEF TypeInv, SourcesType, JobsType, RowsType, RequestsType, HistoryType, WorkersType,
         requestVars

LEMMA CreateType ==
  ASSUME TypeInv, NEW j \in Jobs, NEW batch,
         (batch \in Batches /\ BeginCreate(j, batch)) \/ CommitCreate(j) \/ ReplayCreate(j)
  PROVE  TypeInv'
  <1>1. SourcesType' /\ HistoryType' /\ WorkersType'
    BY FrameType DEF BeginCreate, CommitCreate, ReplayCreate
  <1>2. CASE batch \in Batches /\ BeginCreate(j, batch)
    <2>1. JobsType' /\ RowsType'
      BY <1>2, FrameType DEF BeginCreate
    <2>2. batch \subseteq Sources
      BY <1>2, IngestAssumption
    <2>3. RequestsType'
      BY <1>2, <2>2 DEF BeginCreate, TypeInv, RequestsType
    <2> QED
      BY <1>1, <2>1, <2>3 DEF TypeInv
  <1>3. CASE CommitCreate(j)
    <2> DEFINE queued == [NoRow EXCEPT !.status = "QUEUED"]
               rows == [s \in Sources |-> IF s \in creating[j] THEN queued ELSE NoRow]
    <2>1. queued \in RowRows /\ NoRow \in RowRows
      <3>1. NoRow \in RowRows
        BY IdleType
      <3> QED
        BY <3>1 DEF RowRows, JobStates, Active
    <2>2. row' = [row EXCEPT ![j] = rows]
      BY <1>3 DEF CommitCreate
    <2> HIDE DEF NoRow, queued
    <2>3. RowsType'
      BY <2>1, <2>2 DEF TypeInv, RowsType
    <2>4. JobsType' /\ RequestsType'
      BY <1>3 DEF CommitCreate, TypeInv, JobsType, JobStates, Active, RequestsType
    <2> QED
      BY <1>1, <2>3, <2>4 DEF TypeInv
  <1>4. CASE ReplayCreate(j)
    <2>1. JobsType' /\ RowsType'
      BY <1>4, FrameType DEF ReplayCreate
    <2>2. RequestsType'
      BY <1>4 DEF ReplayCreate, Count, TypeInv, RequestsType
    <2> QED
      BY <1>1, <2>1, <2>2 DEF TypeInv
  <1> QED
    BY <1>2, <1>3, <1>4

LEMMA ResetRowType ==
  ASSUME NEW r \in RowRows
  PROVE  ResetRow(r) \in RowRows
  <1>1. NoRow \in RowRows
    BY IdleType
  <1>2. r.extractions \in Nat
    BY DEF RowRows
  <1>3. CASE r.status = "NO_RESULT"
    <2>1. ResetRow(r) = [NoRow EXCEPT !.status = "QUEUED", !.extractions = r.extractions]
      BY <1>3 DEF ResetRow
    <2> HIDE DEF NoRow
    <2> QED
      BY <1>1, <1>2, <2>1 DEF RowRows, JobStates, Active
  <1>4. CASE r.status = "FAILED"
    BY <1>4 DEF ResetRow, RowRows, JobStates, Active
  <1>5. CASE r.status \notin {"FAILED", "NO_RESULT"}
    BY <1>5 DEF ResetRow, RowRows, JobStates, Active
  <1> QED
    BY <1>3, <1>4, <1>5

LEMMA RequeueType ==
  ASSUME TypeInv, NEW j \in Jobs, NEW rows \in SUBSET Sources, Requeue(j, rows),
         UNCHANGED <<creating, deleting, forcing, direct, worker, notified>>,
         retrying' \in [Jobs -> SUBSET Sources], crossed' \subseteq Jobs \X Sources,
         requests' \in Nat
  PROVE  JobsType' /\ RowsType' /\ RequestsType' /\ HistoryType' /\ WorkersType'
  <1>1. RowsType'
    <2> DEFINE rest == [s \in Sources |-> IF s \in rows THEN ResetRow(row[j][s]) ELSE row[j][s]]
    <2>1. \A s \in Sources : row[j][s] \in RowRows
      BY DEF TypeInv, RowsType
    <2>2. rest \in [Sources -> RowRows]
      BY <2>1, ResetRowType
    <2>3. row' = [row EXCEPT ![j] = rest]
      BY DEF Requeue
    <2> HIDE DEF rest
    <2> QED
      BY <2>2, <2>3 DEF TypeInv, RowsType
  <1>2. JobsType'
    BY DEF Requeue, TypeInv, JobsType, JobStates, Active
  <1>3. RequestsType'
    <2>1. task' \in [Jobs -> Nat]
      BY DEF Requeue, TypeInv, RequestsType
    <2> QED
      BY <2>1 DEF TypeInv, RequestsType
  <1>4. HistoryType'
    <2>1. {worker[w].job : w \in InJob(j)} \in SUBSET (Jobs \cup {NoJob})
      BY WorkerJobs DEF TypeInv, InJob
    <2>2. disturbed' \subseteq Jobs
      BY <2>1, DisturbType DEF TypeInv, HistoryType, Requeue
    <2>3. committed' \in [Jobs -> [Sources -> Nat]]
      <3> DEFINE rest == [s \in Sources |-> IF s \in rows /\ row[j][s].status = "NO_RESULT"
                                            THEN 0 ELSE committed[j][s]]
      <3>1. rest \in [Sources -> Nat]
        BY DEF TypeInv, HistoryType
      <3>2. committed' = [committed EXCEPT ![j] = rest]
        BY DEF Requeue
      <3> HIDE DEF rest
      <3> QED
        BY <3>1, <3>2 DEF TypeInv, HistoryType
    <2> QED
      BY <2>2, <2>3 DEF TypeInv, HistoryType
  <1>5. WorkersType'
    BY FrameType
  <1> QED
    BY <1>1, <1>2, <1>3, <1>4, <1>5

LEMMA RetryType ==
  ASSUME TypeInv, NEW j \in Jobs, NEW include_no_result,
         BeginRetry(j, include_no_result) \/ CommitRetry(j) \/ AbortRetry(j)
  PROVE  TypeInv'
  <1>1. CASE BeginRetry(j, include_no_result)
    <2> DEFINE rows == Retryable(j, {"FAILED", "PARTIAL"}
                                    \cup (IF include_no_result THEN {"NO_RESULT"} ELSE {}))
    <2>1. rows \in SUBSET Sources
      BY DEF Retryable
    <2>2. retrying' = [retrying EXCEPT ![j] = rows]
      BY <1>1 DEF BeginRetry
    <2> HIDE DEF rows
    <2>3. RequestsType'
      BY <1>1, <2>1, <2>2 DEF BeginRetry, Count, TypeInv, RequestsType
    <2> QED
      BY <1>1, <2>3, FrameType DEF BeginRetry, TypeInv
  <1>2. CASE CommitRetry(j)
    <2>1. retrying[j] \in SUBSET Sources /\ retrying' \in [Jobs -> SUBSET Sources]
      BY <1>2 DEF CommitRetry, TypeInv, RequestsType
    <2>2. crossed' \subseteq Jobs \X Sources
      BY <1>2, <2>1 DEF CommitRetry, TypeInv, RequestsType
    <2>3. requests' \in Nat /\ UNCHANGED <<creating, deleting, forcing, direct, worker, notified>>
      BY <1>2 DEF CommitRetry, TypeInv, RequestsType
    <2>4. Requeue(j, retrying[j]) /\ UNCHANGED source
      BY <1>2 DEF CommitRetry
    <2> QED
      BY <2>1, <2>2, <2>3, <2>4, RequeueType, FrameType DEF TypeInv
  <1>3. CASE AbortRetry(j)
    <2>1. RequestsType'
      BY <1>3 DEF AbortRetry, TypeInv, RequestsType
    <2> QED
      BY <1>3, <2>1, FrameType DEF AbortRetry, TypeInv
  <1> QED
    BY <1>1, <1>2, <1>3

LEMMA ExtractAnywayType ==
  ASSUME TypeInv, NEW j \in Jobs, NEW s \in Sources, extract_source_anyway(j, s)
  PROVE  TypeInv'
  <1>1. SourcesType'
    <2> DEFINE r == [source[s] EXCEPT !.intake = "work"]
    <2>1. source' = [source EXCEPT ![s] = r]
      BY DEF extract_source_anyway
    <2>2. r \in SourceRows
      BY DEF TypeInv, SourcesType, SourceRows
    <2> HIDE DEF r
    <2> QED
      BY <2>1, <2>2 DEF TypeInv, SourcesType
  <1>2. {s} \in SUBSET Sources /\ Requeue(j, {s})
        /\ UNCHANGED <<creating, deleting, forcing, direct, worker, notified, retrying, crossed>>
    BY DEF extract_source_anyway
  <1>3. retrying' \in [Jobs -> SUBSET Sources] /\ crossed' \subseteq Jobs \X Sources
        /\ requests' \in Nat
    BY DEF extract_source_anyway, Count, TypeInv, RequestsType
  <1> QED
    BY <1>1, <1>2, <1>3, RequeueType DEF TypeInv

LEMMA DeleteType ==
  ASSUME TypeInv, NEW s \in Sources, BeginDelete(s) \/ CommitDelete(s)
  PROVE  TypeInv'
  <1>1. JobsType' /\ RowsType' /\ WorkersType' /\ HistoryType'
    BY FrameType DEF BeginDelete, CommitDelete
  <1>2. SourcesType'
    <2> DEFINE r == [source[s] EXCEPT !.deleted = TRUE]
    <2>1. UNCHANGED source \/ source' = [source EXCEPT ![s] = r]
      BY DEF BeginDelete, CommitDelete
    <2>2. r \in SourceRows
      BY DEF TypeInv, SourcesType, SourceRows
    <2> HIDE DEF r
    <2> QED
      BY <2>1, <2>2 DEF TypeInv, SourcesType
  <1>3. RequestsType'
    BY DEF BeginDelete, CommitDelete, TypeInv, RequestsType
  <1> QED
    BY <1>1, <1>2, <1>3 DEF TypeInv

LEMMA ProcessType ==
  ASSUME TypeInv, NEW s \in Sources, BeginProcess(s) \/ CommitProcess(s)
  PROVE  TypeInv'
  <1>1. JobsType' /\ RowsType' /\ WorkersType'
    BY FrameType DEF BeginProcess, CommitProcess
  <1>2. RequestsType'
    BY DEF BeginProcess, CommitProcess, Count, TypeInv, RequestsType
  <1>3. SourcesType'
    BY FrameType, StatusType DEF BeginProcess, CommitProcess, TypeInv
  <1>4. HistoryType'
    <2>1. {worker[w].job : w \in OnSource(s)} \in SUBSET (Jobs \cup {NoJob})
      BY WorkerJobs DEF TypeInv, OnSource
    <2> QED
      BY <2>1, DisturbType, FrameType DEF BeginProcess, CommitProcess, TypeInv, HistoryType
  <1> QED
    BY <1>1, <1>2, <1>3, <1>4 DEF TypeInv

LEMMA JobStatusType ==
  ASSUME RowsType, NEW j \in Jobs
  PROVE  final_job_status(row[j]) \in Finished
  BY DEF final_job_status, Finished

LEMMA ClaimType ==
  ASSUME TypeInv, NEW w \in Workers, NEW j \in Jobs, ClaimJob(w, j)
  PROVE  TypeInv'
  <1>1. SourcesType' /\ RowsType' /\ HistoryType'
    BY FrameType DEF ClaimJob
  <1>2. RequestsType'
    BY DEF ClaimJob, RequestsFrame, requestVars, TypeInv, RequestsType
  <1>3. JobsType'
    BY DEF ClaimJob, TypeInv, JobsType, JobStates, Active
  <1>4. WorkersType'
    <2> DEFINE r == [Idle EXCEPT !.pc = "select", !.job = j]
    <2>1. Idle \in WorkerRows
      BY IdleType
    <2>2. Placed(r)
      BY <2>1 DEF Placed, WorkerRows, AtSource, AtJob, Idle
    <2>3. UNCHANGED worker \/ worker' = [worker EXCEPT ![w] = r]
      BY DEF ClaimJob
    <2> HIDE DEF r
    <2> QED
      BY <2>2, <2>3, WorkerChange, FrameType DEF TypeInv
  <1> QED
    BY <1>1, <1>2, <1>3, <1>4 DEF TypeInv

LEMMA SelectType ==
  ASSUME TypeInv, NEW w \in Workers, SelectRows(w)
  PROVE  TypeInv'
  <1>1. /\ SourcesType' /\ JobsType' /\ RowsType' /\ RequestsType' /\ HistoryType'
    BY FrameType DEF SelectRows, TaskFrame, RequestsFrame, requestVars
  <1> DEFINE j == worker[w].job
             todo == {<<s, row[j][s].lost>> : s \in {r \in Sources : row[j][r].status = "QUEUED"}}
             r == [worker[w] EXCEPT !.pc = "next", !.todo = todo]
  <1>2. worker[w] \in WorkerRows /\ j \in Jobs
    BY DEF SelectRows, TypeInv, WorkersType, Placed, AtJob
  <1>3. todo \in SUBSET (Sources \X BOOLEAN)
    <2>1. \A s \in Sources : row[j][s].lost \in BOOLEAN
      BY <1>2 DEF TypeInv, RowsType, RowRows
    <2> QED
      BY <2>1
  <1>4. worker' = [worker EXCEPT ![w] = r]
    BY <1>2 DEF SelectRows, TypeInv, WorkersType
  <1> HIDE DEF todo
  <1>5. Placed(r)
    BY <1>2, <1>3 DEF Placed, WorkerRows, AtSource, AtJob
  <1> HIDE DEF r
  <1>6. WorkersType'
    BY <1>4, <1>5, WorkerChange DEF TypeInv
  <1> QED
    BY <1>1, <1>6 DEF TypeInv

LEMMA BeginRowType ==
  ASSUME TypeInv, NEW w \in Workers, BeginRow(w)
  PROVE  TypeInv'
  <1> DEFINE j == worker[w].job
             rest(t) == worker[w].todo \ {t}
             r(t) == [Idle EXCEPT !.pc = "load", !.job = j, !.todo = rest(t), !.source = t[1],
                                  !.retry = t[2]]
             y(t) == [row[j][t[1]] EXCEPT !.status = "EXTRACTING"]
  <1>1. worker[w] \in WorkerRows /\ j \in Jobs
    BY DEF BeginRow, TypeInv, WorkersType, Placed, AtJob
  <1>2. PICK t \in worker[w].todo : /\ row' = [row EXCEPT ![j][t[1]].status = "EXTRACTING"]
                                    /\ worker' = [worker EXCEPT ![w] = r(t)]
                                    /\ MeetsOthers(j, t[1])
    BY DEF BeginRow
  <1>3. t[1] \in Sources /\ t[2] \in BOOLEAN /\ rest(t) \in SUBSET (Sources \X BOOLEAN)
    BY <1>1, <1>2 DEF WorkerRows
  <1>4. WorkersType'
    <2>1. Idle \in WorkerRows
      BY IdleType
    <2> HIDE DEF rest
    <2>2. Placed(r(t))
      BY <1>1, <1>3, <2>1 DEF Placed, WorkerRows, AtSource, AtJob, Idle
    <2> HIDE DEF r
    <2> QED
      BY <1>2, <2>2, WorkerChange DEF TypeInv
  <1>5. RowsType'
    <2>1. y(t) \in RowRows
      <3>1. row[j][t[1]] \in RowRows
        BY <1>1, <1>3 DEF TypeInv, RowsType
      <3> QED
        BY <3>1 DEF RowRows, JobStates, Active
    <2>2. row' = [row EXCEPT ![j][t[1]] = y(t)]
      BY <1>2
    <2> HIDE DEF y
    <2> QED
      BY <1>1, <1>3, <2>1, <2>2, RowChange DEF TypeInv
  <1>6. HistoryType'
    <2>1. {worker[v].job : v \in OnSource(t[1])} \in SUBSET (Jobs \cup {NoJob})
      BY WorkerJobs DEF TypeInv, OnSource
    <2>2. (IF OnSource(t[1]) = {} THEN {} ELSE {j} \cup {worker[v].job : v \in OnSource(t[1])})
            \in SUBSET (Jobs \cup {NoJob})
      BY <1>1, <2>1
    <2>3. disturbed' \subseteq Jobs
      BY <1>2, <2>2, DisturbType DEF MeetsOthers, TypeInv, HistoryType
    <2> QED
      BY <2>3 DEF BeginRow, TypeInv, HistoryType
  <1> QED
    BY <1>4, <1>5, <1>6, FrameType DEF BeginRow, TaskFrame, RequestsFrame, requestVars, TypeInv

LEMMA RecordType ==
  ASSUME TypeInv, NEW w \in Workers, RecordRow(w)
  PROVE  TypeInv'
  <1> DEFINE j == worker[w].job
             s == worker[w].source
             r == [Idle EXCEPT !.pc = "refresh", !.job = j, !.todo = worker[w].todo]
  <1>1. worker[w] \in WorkerRows /\ j \in Jobs /\ s \in Sources
    BY DEF RecordRow, TypeInv, WorkersType, Placed, AtJob, AtSource
  <1>2. WorkersType'
    <2>1. Idle \in WorkerRows /\ worker[w].todo \in SUBSET (Sources \X BOOLEAN)
      BY <1>1, IdleType DEF WorkerRows
    <2>2. worker' = [worker EXCEPT ![w] = r]
      BY DEF RecordRow
    <2>3. Placed(r)
      BY <1>1, <2>1 DEF Placed, WorkerRows, AtSource, AtJob, Idle
    <2> HIDE DEF r
    <2> QED
      BY <2>2, <2>3, WorkerChange DEF TypeInv
  <1>3. RowsType'
    <2>1. row[j][s] \in RowRows /\ source[s].cards \in BOOLEAN
      BY <1>1 DEF TypeInv, RowsType, SourcesType, SourceRows
    <2>2. \A status \in Finished, none \in BOOLEAN :
             [row[j][s] EXCEPT !.status = status, !.intake_none = none, !.cards = source[s].cards]
               \in RowRows
      BY <2>1 DEF RowRows, JobStates
    <2>3. RowResult(w) \in RowRows
      BY <2>2 DEF RowResult, Finished
    <2> QED
      BY <1>1, <2>3, RowChange DEF RecordRow, TypeInv
  <1> QED
    BY <1>2, <1>3, FrameType DEF RecordRow, TaskFrame, RequestsFrame, requestVars, TypeInv

LEMMA JobEndType ==
  ASSUME TypeInv, NEW w \in Workers, Refresh(w) \/ FinishJob(w) \/ TaskFails(w)
  PROVE  TypeInv'
  <1>1. worker[w].job \in Jobs
    BY DEF Refresh, FinishJob, TaskFails, TypeInv, WorkersType, Placed, AtJob
  <1>2. JobsType'
    BY <1>1, JobStatusType DEF Refresh, FinishJob, TaskFails, FailJob, TypeInv, JobsType, JobStates,
       Active, Finished
  <1>3. WorkersType'
    BY <1>1, StepType, ReturnType DEF Refresh, FinishJob, TaskFails, FailJob, TypeInv, AtJob, AtSource
  <1>4. HistoryType'
    BY <1>1, DisturbType DEF Refresh, FinishJob, TaskFails, TypeInv, HistoryType
  <1> QED
    BY <1>2, <1>3, <1>4, FrameType DEF Refresh, FinishJob, TaskFails, TaskFrame, RequestsFrame, requestVars,
       TypeInv

LEMMA BeginDirectType ==
  ASSUME TypeInv, NEW w \in Workers, NEW s \in Sources, BeginDirect(w, s)
  PROVE  TypeInv'
  <1> DEFINE r == [Idle EXCEPT !.pc = "start", !.source = s]
  <1>1. WorkersType'
    <2>1. Idle \in WorkerRows
      BY IdleType
    <2>2. worker' = [worker EXCEPT ![w] = r]
      BY DEF BeginDirect
    <2>3. Placed(r)
      BY <2>1 DEF Placed, WorkerRows, AtSource, AtJob, Idle
    <2> HIDE DEF r
    <2> QED
      BY <2>2, <2>3, WorkerChange DEF TypeInv
  <1>2. HistoryType'
    <2>1. (IF OnSource(s) = {} THEN {} ELSE {NoJob} \cup {worker[v].job : v \in OnSource(s)})
            \in SUBSET (Jobs \cup {NoJob})
      BY WorkerJobs DEF TypeInv, OnSource
    <2>2. disturbed' \subseteq Jobs
      BY <2>1, DisturbType DEF BeginDirect, MeetsOthers, TypeInv, HistoryType
    <2> QED
      BY <2>2 DEF BeginDirect, TypeInv, HistoryType
  <1>3. RequestsType'
    BY DEF BeginDirect, TypeInv, RequestsType
  <1> QED
    BY <1>1, <1>2, <1>3, FrameType DEF BeginDirect, TypeInv

LEMMA RecoveryType ==
  ASSUME RowsType, WorkersType, NEW w \in Workers, worker[w].job \in Jobs,
         worker[w].source \in Sources
  PROVE  Recovery(w) \in Recoveries
  <1>1. row[worker[w].job][worker[w].source] \in RowRows
    BY DEF RowsType
  <1> QED
    BY <1>1 DEF Recovery, RowRows

LEMMA LoadType ==
  ASSUME TypeInv, NEW w \in Workers, LoadRecovery(w)
  PROVE  TypeInv'
  <1> DEFINE pc == IF Recovery(w).phase = "COMMITTED" /\ ~Recovery(w).lost THEN "redo" ELSE "start"
             r == [worker[w] EXCEPT !.previous = Recovery(w), !.pc = pc]
  <1>1. worker[w] \in WorkerRows /\ worker[w].job \in Jobs /\ worker[w].source \in Sources
    BY DEF LoadRecovery, TypeInv, WorkersType, Placed, AtJob, AtSource
  <1>2. Recovery(w) \in Recoveries
    BY <1>1, RecoveryType DEF TypeInv
  <1>3. pc \in {"redo", "start"}
    OBVIOUS
  <1>4. worker' = [worker EXCEPT ![w] = r]
    BY DEF LoadRecovery, TypeInv, WorkersType
  <1> HIDE DEF pc
  <1>5. Placed(r)
    BY <1>1, <1>2, <1>3 DEF Placed, WorkerRows, AtSource, AtJob
  <1> HIDE DEF r
  <1>6. WorkersType'
    BY <1>4, <1>5, WorkerChange DEF TypeInv
  <1> QED
    BY <1>6, FrameType DEF LoadRecovery, TaskFrame, RequestsFrame, requestVars, TypeInv

(* Steps that change one source and one task.                               *)
LEMMA SourceOnlyType ==
  ASSUME TypeInv, NEW w \in Workers,
         RedoDone(w) \/ StartSource(w) \/ CheckLayout(w) \/ RaiseInSource(w) \/ MarkFailed(w)
  PROVE  TypeInv'
  <1>1. worker[w] \in WorkerRows /\ worker[w].source \in Sources /\ worker[w].pc \in AtSource
    BY DEF RedoDone, StartSource, CheckLayout, RaiseInSource, MarkFailed, TypeInv, WorkersType,
           Placed, AtSource
  <1>2. SourcesType'
    BY <1>1, FrameType, StatusType DEF RedoDone, StartSource, CheckLayout, RaiseInSource, MarkFailed,
       TypeInv
  <1>3. HistoryType'
    <2>1. {worker[w].job} \in SUBSET (Jobs \cup {NoJob})
      BY <1>1 DEF WorkerRows
    <2> QED
      BY <2>1, DisturbType, FrameType DEF RedoDone, StartSource, CheckLayout, RaiseInSource,
         MarkFailed, TypeInv, HistoryType
  <1>4. WorkersType'
    <2>1. CASE RedoDone(w) \/ MarkFailed(w)
      BY <1>1, <2>1, EndSourceType DEF RedoDone, MarkFailed, TypeInv
    <2>2. CASE RaiseInSource(w)
      BY <1>1, <2>2, StepType DEF RaiseInSource, TypeInv, AtSource, AtJob
    <2>3. CASE StartSource(w)
      <3>1. OfJob(w) => worker[w].job \in Jobs
        BY <1>1 DEF OfJob, WorkerRows
      <3> QED
        BY <1>1, <2>3, <3>1, StepType DEF StartSource, TypeInv, AtSource, AtJob
    <2>4. CASE CheckLayout(w)
      <3> DEFINE lost == worker[w].previous.lost
                 r == [worker[w] EXCEPT !.pc = "commit", !.lost = lost]
      <3>1. \/ EndSource(w, "PARTIAL_RETRY_UNAVAILABLE")
            \/ Step(w, "extract")
            \/ worker' = [worker EXCEPT ![w] = r]
        BY <1>1, <2>4 DEF CheckLayout, TypeInv, WorkersType
      <3>2. lost \in BOOLEAN
        BY <1>1 DEF WorkerRows, Recoveries
      <3> HIDE DEF lost
      <3>3. Placed(r)
        BY <1>1, <3>2 DEF Placed, WorkerRows, AtSource, AtJob
      <3> HIDE DEF r
      <3>4. CASE worker' = [worker EXCEPT ![w] = r]
        BY <3>3, <3>4, WorkerChange DEF TypeInv
      <3> QED
        BY <1>1, <3>1, <3>4, EndSourceType, StepType DEF TypeInv, AtSource, AtJob
    <2> QED
      BY <2>1, <2>2, <2>3, <2>4
  <1> QED
    BY <1>2, <1>3, <1>4, FrameType DEF RedoDone, StartSource, CheckLayout, RaiseInSource,
       MarkFailed, TaskFrame, RequestsFrame, requestVars, TypeInv

LEMMA ClassifyingType ==
  ASSUME TypeInv, NEW w \in Workers, ShowClassifying(w)
  PROVE  TypeInv'
  <1> DEFINE j == worker[w].job
             s == worker[w].source
             r == [row[j][s] EXCEPT !.status = "CLASSIFYING"]
  <1>1. j \in Jobs /\ s \in Sources
    BY DEF ShowClassifying, TypeInv, WorkersType, Placed, AtSource, AtJob
  <1>2. RowsType'
    <2>1. row' = [row EXCEPT ![j][s] = r]
      BY DEF ShowClassifying
    <2>2. row[j][s] \in RowRows
      BY <1>1 DEF TypeInv, RowsType
    <2>3. r \in RowRows
      BY <2>2 DEF RowRows, JobStates, Active
    <2> HIDE DEF r
    <2> QED
      BY <1>1, <2>1, <2>3, RowChange DEF TypeInv
  <1>3. JobsType'
    BY DEF ShowClassifying, TypeInv, JobsType, JobStates, Active
  <1>4. WorkersType'
    BY <1>1, StepType DEF ShowClassifying, TypeInv, AtSource, AtJob
  <1> QED
    BY <1>2, <1>3, <1>4, FrameType DEF ShowClassifying, TaskFrame, RequestsFrame, requestVars, TypeInv

LEMMA IntakeType ==
  ASSUME TypeInv, NEW w \in Workers, Intake(w)
  PROVE  TypeInv'
  <1> DEFINE j == worker[w].job
             s == worker[w].source
             none == [source[s] EXCEPT !.intake = "NONE", !.status = "DONE"]
             work == [source[s] EXCEPT !.intake = "work"]
             r == [row[j][s] EXCEPT !.lost = FALSE]
  <1>1. worker[w] \in WorkerRows /\ s \in Sources /\ worker[w].pc \in AtSource
    BY DEF Intake, TypeInv, WorkersType, Placed, AtSource
  <1>2. OfJob(w) => j \in Jobs
    BY <1>1 DEF OfJob, WorkerRows
  <1>3. \/ /\ source' = [source EXCEPT ![s] = none]
           /\ row' = IF OfJob(w) THEN [row EXCEPT ![j][s] = r] ELSE row
           /\ EndSource(w, "INTAKE_NONE")
        \/ source' = [source EXCEPT ![s] = work] /\ Step(w, "layout") /\ UNCHANGED row
    BY <1>1 DEF Intake, TypeInv, SourcesType
  <1>4. none \in SourceRows /\ work \in SourceRows
    BY <1>1 DEF TypeInv, SourcesType, SourceRows
  <1>5. OfJob(w) => r \in RowRows
    <2>1. OfJob(w) => row[j][s] \in RowRows
      BY <1>1, <1>2 DEF TypeInv, RowsType
    <2> QED
      BY <2>1 DEF RowRows
  <1> HIDE DEF none, work, r
  <1>6. SourcesType'
    BY <1>1, <1>3, <1>4 DEF TypeInv, SourcesType
  <1>7. RowsType'
    BY <1>1, <1>2, <1>3, <1>5, RowChange, FrameType DEF TypeInv
  <1>8. WorkersType'
    BY <1>1, <1>3, EndSourceType, StepType DEF TypeInv, AtSource, AtJob
  <1> QED
    BY <1>6, <1>7, <1>8, FrameType DEF Intake, TaskFrame, RequestsFrame, requestVars, TypeInv

(* The recovery states that an extraction and a commit leave.               *)
Extracted(w, lost) ==
    [phase |-> "EXTRACTED", lost |-> lost, whole |-> ~OnlyLost(w),
     facts |-> row[worker[w].job][worker[w].source].extractions + 1]
Done(lost) == [NoRecovery EXCEPT !.phase = "COMMITTED", !.lost = lost]

(* What SaveExtraction does, with one record for the task and one for the   *)
(* row: it gives up, goes on without a job, or keeps what was extracted.    *)
GivesUp(w) == /\ Return(w) /\ OfJob(w) /\ UNCHANGED row
              /\ job' = [job EXCEPT ![worker[w].job] = "FAILED"]
GoesOn(w, lost) == /\ ~OfJob(w) /\ UNCHANGED <<job, row>>
                   /\ worker' = [worker EXCEPT ![w] =
                                    [worker[w] EXCEPT !.pc = "commit", !.lost = lost]]
Keeps(w, lost, n) ==
    /\ OfJob(w) /\ Same(w) /\ Extracted(w, lost) \in Recoveries /\ UNCHANGED job
    /\ row' = [row EXCEPT ![worker[w].job][worker[w].source] =
                  [row[worker[w].job][worker[w].source] EXCEPT !.recovery = Extracted(w, lost),
                                                               !.extractions = n]]
    /\ worker' = [worker EXCEPT ![w] = [worker[w] EXCEPT !.pc = "commit", !.lost = lost,
                                                         !.previous = Extracted(w, lost)]]

LEMMA SaveEffect ==
  ASSUME TypeInv, NEW w \in Workers, SaveExtraction(w)
  PROVE  /\ worker[w] \in WorkerRows /\ worker[w].source \in Sources
         /\ OfJob(w) => worker[w].job \in Jobs
         /\ \/ GivesUp(w)
            \/ \E lost \in BOOLEAN : GoesOn(w, lost)
            \/ \E lost \in BOOLEAN, n \in Nat : Keeps(w, lost, n)
  <1> DEFINE j == worker[w].job
             s == worker[w].source
             n == row[j][s].extractions + 1
  <1>1. worker[w] \in WorkerRows /\ s \in Sources
    BY DEF SaveExtraction, TypeInv, WorkersType, Placed, AtSource
  <1>2. OfJob(w) => j \in Jobs
    BY <1>1 DEF OfJob, WorkerRows
  <1>3. PICK lost \in BOOLEAN :
          IF ~OfJob(w)
          THEN /\ worker' = [worker EXCEPT ![w].pc = "commit", ![w].lost = lost]
               /\ UNCHANGED <<source, job, row, committed>>
          ELSE IF ~Same(w) THEN RecoveryConflict(w)
          ELSE /\ row' = [row EXCEPT ![j][s].recovery = Extracted(w, lost), ![j][s].extractions = n]
               /\ worker' = [worker EXCEPT ![w].pc = "commit", ![w].lost = lost,
                                           ![w].previous = Extracted(w, lost)]
               /\ UNCHANGED <<source, job, committed>>
    BY DEF SaveExtraction, Extracted
  <1>4. CASE ~OfJob(w)
    <2>1. worker' = [worker EXCEPT ![w] = [worker[w] EXCEPT !.pc = "commit", !.lost = lost]]
      BY <1>3, <1>4 DEF TypeInv, WorkersType
    <2> QED
      BY <1>1, <1>3, <1>4, <2>1 DEF GoesOn
  <1>5. CASE OfJob(w) /\ ~Same(w)
    BY <1>1, <1>2, <1>3, <1>5 DEF RecoveryConflict, FailJob, GivesUp
  <1>6. CASE OfJob(w) /\ Same(w)
    <2> DEFINE e == Extracted(w, lost)
    <2>1. row[j][s] \in RowRows
      BY <1>1, <1>2, <1>6 DEF TypeInv, RowsType
    <2>2. n \in Nat
      BY <2>1 DEF RowRows
    <2>3. e \in Recoveries
      BY <1>1, <2>2 DEF Extracted, Recoveries, OnlyLost, WorkerRows
    <2> HIDE DEF n
    <2>4. row' = [row EXCEPT ![j][s] = [row[j][s] EXCEPT !.recovery = e, !.extractions = n]]
      <3>1. row' = [row EXCEPT ![j][s].recovery = e, ![j][s].extractions = n]
        BY <1>3, <1>6
      <3> HIDE DEF e
      <3> QED
        BY <1>1, <1>2, <1>6, <3>1 DEF TypeInv, RowsType
    <2>5. worker' = [worker EXCEPT ![w] = [worker[w] EXCEPT !.pc = "commit", !.lost = lost,
                                                            !.previous = e]]
      <3>1. worker' = [worker EXCEPT ![w].pc = "commit", ![w].lost = lost, ![w].previous = e]
        BY <1>3, <1>6
      <3> HIDE DEF e
      <3> QED
        BY <3>1 DEF TypeInv, WorkersType
    <2> QED
      BY <1>1, <1>2, <1>3, <1>6, <2>2, <2>3, <2>4, <2>5 DEF Keeps
  <1> QED
    BY <1>4, <1>5, <1>6

LEMMA SaveType ==
  ASSUME TypeInv, NEW w \in Workers, SaveExtraction(w)
  PROVE  TypeInv'
  <1>1. worker[w] \in WorkerRows /\ worker[w].source \in Sources
    BY SaveEffect
  <1>2. SourcesType' /\ RequestsType' /\ HistoryType'
    BY FrameType DEF SaveExtraction, TaskFrame, RequestsFrame, requestVars, RecoveryConflict
  <1>3. JobsType' /\ RowsType' /\ WorkersType'
    <2>1. CASE GivesUp(w)
      BY <2>1, ReturnType, FrameType DEF GivesUp, TypeInv, JobsType, JobStates, Finished
    <2>2. CASE \E lost \in BOOLEAN : GoesOn(w, lost)
      <3> PICK lost \in BOOLEAN : GoesOn(w, lost)
        BY <2>2
      <3> DEFINE r == [worker[w] EXCEPT !.pc = "commit", !.lost = lost]
      <3>1. Placed(r)
        BY <1>1 DEF Placed, WorkerRows, AtSource, AtJob
      <3>2. worker' = [worker EXCEPT ![w] = r]
        BY DEF GoesOn
      <3> HIDE DEF r
      <3> QED
        BY <3>1, <3>2, WorkerChange, FrameType DEF TypeInv, GoesOn
    <2>3. CASE \E lost \in BOOLEAN, n \in Nat : Keeps(w, lost, n)
      <3> DEFINE j == worker[w].job
                 s == worker[w].source
      <3>1. PICK lost \in BOOLEAN, n \in Nat : Keeps(w, lost, n)
        BY <2>3
      <3> DEFINE e == Extracted(w, lost)
                 r == [worker[w] EXCEPT !.pc = "commit", !.lost = lost, !.previous = e]
                 y == [row[j][s] EXCEPT !.recovery = e, !.extractions = n]
      <3>2. e \in Recoveries /\ j \in Jobs
        BY <1>1, <3>1 DEF Keeps, OfJob, WorkerRows
      <3>3. worker' = [worker EXCEPT ![w] = r] /\ row' = [row EXCEPT ![j][s] = y]
        BY <3>1 DEF Keeps
      <3> HIDE DEF e
      <3>4. Placed(r)
        BY <1>1, <3>2 DEF Placed, WorkerRows, AtSource, AtJob
      <3>5. y \in RowRows
        <4>1. row[j][s] \in RowRows
          BY <1>1, <3>2 DEF TypeInv, RowsType
        <4> QED
          BY <3>1, <3>2, <4>1 DEF RowRows
      <3> HIDE DEF r, y
      <3>6. WorkersType'
        BY <3>3, <3>4, WorkerChange DEF TypeInv
      <3>7. RowsType'
        BY <1>1, <3>2, <3>3, <3>5, RowChange DEF TypeInv
      <3> QED
        BY <3>1, <3>6, <3>7, FrameType DEF Keeps
    <2> QED
      BY <2>1, <2>2, <2>3, SaveEffect
  <1> QED
    BY <1>2, <1>3 DEF TypeInv

(* What Commit does when it commits.                                        *)
CommittedRow(w) ==
    LET j == worker[w].job  s == worker[w].source  lost == worker[w].lost IN
    IF OfJob(w)
    THEN /\ Same(w)
         /\ row' = [row EXCEPT ![j][s] = [row[j][s] EXCEPT !.lost = lost, !.recovery = Done(lost)]]
         /\ committed' = [committed EXCEPT ![j][s] =
                             committed[j][s] + IF worker[w].previous.whole THEN 1 ELSE 0]
    ELSE UNCHANGED <<row, committed>>
Commits(w) == /\ SourcesType' /\ EndSource(w, "none") /\ UNCHANGED job
              /\ CommittedRow(w)

LEMMA CommitEffect ==
  ASSUME TypeInv, NEW w \in Workers, Commit(w)
  PROVE  /\ worker[w] \in WorkerRows /\ worker[w].source \in Sources /\ worker[w].pc = "commit"
         /\ OfJob(w) => worker[w].job \in Jobs
         /\ UNCHANGED disturbed /\ TaskFrame /\ UNCHANGED notified
         /\ \/ GivesUp(w) /\ UNCHANGED <<source, committed>>
            \/ Step(w, "fail") /\ UNCHANGED <<source, job, row, committed>>
            \/ Commits(w)
  <1> DEFINE j == worker[w].job
             s == worker[w].source
             lost == worker[w].lost
             y == [row[j][s] EXCEPT !.lost = lost, !.recovery = Done(lost)]
  <1>1. worker[w] \in WorkerRows /\ s \in Sources /\ worker[w].pc = "commit"
    BY DEF Commit, TypeInv, WorkersType, Placed, AtSource
  <1>2. OfJob(w) => j \in Jobs
    BY <1>1 DEF OfJob, WorkerRows
  <1>3. CASE OfJob(w) /\ ~Same(w)
    BY <1>1, <1>2, <1>3 DEF Commit, RecoveryConflict, FailJob, GivesUp, TaskFrame
  <1>4. CASE ~(OfJob(w) /\ ~Same(w)) /\ ~StillProcessing(s)
    BY <1>1, <1>2, <1>4 DEF Commit, TaskFrame
  <1>5. CASE ~(OfJob(w) /\ ~Same(w)) /\ StillProcessing(s)
    <2>1. SourcesType'
      <3>1. PICK cards \in BOOLEAN : source' = [source EXCEPT ![s].status = "DONE",
                                                              ![s].cards = @ \/ cards]
        BY <1>5 DEF Commit
      <3> DEFINE has == source[s].cards \/ cards
                 r == [source[s] EXCEPT !.status = "DONE", !.cards = has]
      <3>2. source' = [source EXCEPT ![s] = r]
        BY <1>1, <3>1 DEF TypeInv, SourcesType
      <3>3. has \in BOOLEAN
        OBVIOUS
      <3> HIDE DEF has
      <3>4. r \in SourceRows
        <4>1. source[s] \in SourceRows
          BY <1>1 DEF TypeInv, SourcesType
        <4> QED
          BY <3>3, <4>1 DEF SourceRows
      <3> HIDE DEF r
      <3> QED
        BY <3>2, <3>4 DEF TypeInv, SourcesType
    <2>2. EndSource(w, "none") /\ UNCHANGED job
      BY <1>5 DEF Commit
    <2>3. CASE ~OfJob(w)
      BY <1>1, <1>5, <2>1, <2>2, <2>3 DEF Commit, Commits, CommittedRow, TaskFrame
    <2>4. CASE OfJob(w)
      <3>1. row' = [row EXCEPT ![j][s].lost = lost, ![j][s].recovery = Done(lost)]
        BY <1>5, <2>4 DEF Commit, Done
      <3>2. row' = [row EXCEPT ![j][s] = y]
        BY <1>1, <1>2, <2>4, <3>1 DEF TypeInv, RowsType
      <3>3. committed' = [committed EXCEPT ![j][s] =
                             committed[j][s] + IF worker[w].previous.whole THEN 1 ELSE 0]
        BY <1>5, <2>4 DEF Commit
      <3>4. CommittedRow(w)
        BY <1>5, <2>4, <3>2, <3>3 DEF CommittedRow
      <3> QED
        BY <1>1, <1>2, <2>1, <2>2, <3>4 DEF Commit, Commits, TaskFrame
    <2> QED
      BY <2>3, <2>4
  <1> QED
    BY <1>3, <1>4, <1>5

LEMMA CommitType ==
  ASSUME TypeInv, NEW w \in Workers, Commit(w)
  PROVE  TypeInv'
  <1>1. /\ worker[w] \in WorkerRows /\ worker[w].source \in Sources /\ worker[w].pc = "commit"
        /\ OfJob(w) => worker[w].job \in Jobs
        /\ UNCHANGED disturbed /\ TaskFrame /\ UNCHANGED notified
    BY CommitEffect
  <1>2. CASE GivesUp(w) /\ UNCHANGED <<source, committed>>
    BY <1>1, <1>2, ReturnType, FrameType DEF GivesUp, TypeInv, JobsType, JobStates, Finished,
       TaskFrame, RequestsFrame, requestVars
  <1>3. CASE Step(w, "fail") /\ UNCHANGED <<source, job, row, committed>>
    BY <1>1, <1>3, StepType, FrameType DEF TypeInv, TaskFrame, RequestsFrame, requestVars, AtSource, AtJob
  <1>4. CASE Commits(w)
    <2> DEFINE j == worker[w].job
               s == worker[w].source
               lost == worker[w].lost
               y == [row[j][s] EXCEPT !.lost = lost, !.recovery = Done(lost)]
    <2>1. SourcesType' /\ JobsType' /\ WorkersType' /\ RequestsType'
      BY <1>1, <1>4, EndSourceType, FrameType DEF Commits, TypeInv, TaskFrame, RequestsFrame, requestVars, AtSource
    <2>2. CASE ~OfJob(w)
      BY <1>1, <1>4, <2>1, <2>2, FrameType DEF Commits, CommittedRow, TypeInv
    <2>3. CASE OfJob(w)
      <3>1. y \in RowRows
        <4>1. row[j][s] \in RowRows /\ lost \in BOOLEAN
          BY <1>1, <2>3 DEF TypeInv, RowsType, WorkerRows
        <4>2. Done(lost) \in Recoveries
          BY <4>1 DEF Done, NoRecovery, Recoveries
        <4> QED
          BY <4>1, <4>2 DEF RowRows
      <3>2. row' = [row EXCEPT ![j][s] = y]
        BY <1>4, <2>3 DEF Commits, CommittedRow
      <3> HIDE DEF y
      <3>3. RowsType'
        BY <1>1, <2>3, <3>1, <3>2, RowChange DEF TypeInv
      <3>4. committed' \in [Jobs -> [Sources -> Nat]]
        <4> DEFINE n == committed[j][s] + IF worker[w].previous.whole THEN 1 ELSE 0
        <4>1. n \in Nat
          BY <1>1, <2>3 DEF TypeInv, HistoryType
        <4>2. committed' = [committed EXCEPT ![j][s] = n]
          BY <1>4, <2>3 DEF Commits, CommittedRow
        <4> HIDE DEF n
        <4> QED
          BY <4>1, <4>2 DEF TypeInv, HistoryType
      <3> QED
        BY <1>1, <2>1, <3>3, <3>4 DEF TypeInv, HistoryType
    <2> QED
      BY <2>2, <2>3
  <1> QED
    BY <1>2, <1>3, <1>4, CommitEffect

LEMMA CrashType ==
  ASSUME TypeInv, Crash
  PROVE  TypeInv'
  <1>1. WorkersType'
    <2>1. Idle \in WorkerRows /\ Placed(Idle)
      BY IdleType
    <2> HIDE DEF Idle
    <2> QED
      BY <2>1 DEF Crash, WorkersType
  <1>2. RequestsType'
    BY DEF Crash, TypeInv, RequestsType
  <1>3. HistoryType'
    <2>1. {j \in Jobs : task[j] > 0 \/ InJob(j) # {}} \in SUBSET (Jobs \cup {NoJob})
      OBVIOUS
    <2> QED
      BY <2>1, DisturbType DEF Crash, TypeInv, HistoryType
  <1> QED
    BY <1>1, <1>2, <1>3, FrameType DEF Crash, TypeInv

LEMMA TypeStep == TypeInv /\ [Next]_vars => TypeInv'
  <1> SUFFICES ASSUME TypeInv, [Next]_vars PROVE TypeInv'
    OBVIOUS
  <1>1. CASE Request
    <2>1. CASE \E j \in Jobs, batch \in Batches : BeginCreate(j, batch)
      BY <2>1, CreateType
    <2>2. CASE \E j \in Jobs : CommitCreate(j) \/ ReplayCreate(j) \/ CommitRetry(j) \/ AbortRetry(j)
      BY <2>2, CreateType, RetryType
    <2>3. CASE \E j \in Jobs, b \in BOOLEAN : BeginRetry(j, b)
      BY <2>3, RetryType
    <2>4. CASE \E j \in Jobs, s \in Sources : extract_source_anyway(j, s)
      BY <2>4, ExtractAnywayType
    <2>5. CASE \E s \in Sources :
                 BeginDelete(s) \/ CommitDelete(s) \/ BeginProcess(s) \/ CommitProcess(s)
      BY <2>5, DeleteType, ProcessType
    <2> QED
      BY <1>1, <2>1, <2>2, <2>3, <2>4, <2>5 DEF Request
  <1>2. CASE \E w \in Workers : JobStep(w)
    BY <1>2, ClaimType, SelectType, BeginRowType, RecordType, JobEndType DEF JobStep
  <1>3. CASE \E w \in Workers : SourceStep(w)
    BY <1>3, BeginDirectType, LoadType, SourceOnlyType, ClassifyingType, IntakeType, SaveType,
       CommitType DEF SourceStep
  <1>4. CASE \E w \in Workers : RaiseInSource(w) \/ TaskFails(w)
    BY <1>4, SourceOnlyType, JobEndType
  <1>5. CASE Crash
    BY <1>5, CrashType
  <1>6. CASE UNCHANGED vars
    BY <1>6, FrameType DEF vars, TypeInv
  <1> QED
    BY <1>1, <1>2, <1>3, <1>4, <1>5, <1>6 DEF Next

LEMMA TypeInvariant == Spec => []TypeInv
  BY InitType, TypeStep, PTL DEF Spec

(* Sources, jobs, rows and tasks keep the values the code gives them: no    *)
(* status of one is ever written to another, and a task that works on a row *)
(* has a job and a source.                                                  *)
THEOREM IngestTypeCorrect == Spec => []TypeOK
  BY TypeInvariant, TypeInvOK, PTL

----------------------------------------------------------------------------
(* Extractions are committed once *)

(* A whole extraction that is not committed yet, or none at all, has been   *)
(* committed zero times.                                                    *)
Kept(j, s) == /\ committed[j][s] <= 1
              /\ row[j][s].recovery.phase = "none" \/ row[j][s].recovery.whole
                    => committed[j][s] = 0

(* A job that does not exist has no row, nothing committed, no task and no  *)
(* retry; a creation that is open creates it.                               *)
Absent(j) == job[j] = "none" => \A s \in Sources : /\ row[j][s].status = "none"
                                                   /\ committed[j][s] = 0
Created == /\ \A j \in Jobs : /\ Absent(j) /\ (creating[j] # {} => job[j] = "none")
                              /\ retrying[j] # {} => job[j] # "none"
           /\ \A w \in Workers : worker[w].job \in Jobs => job[worker[w].job] # "none"

(* An extraction in progress started from no recovery state, or from a      *)
(* committed one.                                                           *)
Fresh(r) == r.pc = "extract" => r.previous.phase # "EXTRACTED"

OnceInv == /\ \A j \in Jobs, s \in Sources : Kept(j, s)
           /\ Created
           /\ \A w \in Workers : Fresh(worker[w])

LEMMA InitOnce == Init => OnceInv
  BY IngestAssumption DEF Init, OnceInv, Kept, Created, Absent, Fresh, Idle, NoRow, NoRecovery

(* What a step does to the rows, to the jobs and to the tasks.              *)
RowsKept == \A j \in Jobs, s \in Sources :
    \/ committed'[j][s] = committed[j][s] /\ row'[j][s].recovery = row[j][s].recovery
    \/ committed'[j][s] = 0
JobsMade == \A j \in Jobs :
    /\ job'[j] = "none" => job[j] = "none" /\ row'[j] = row[j] /\ committed'[j] = committed[j]
    /\ creating'[j] # {} => job'[j] = "none"
    /\ retrying'[j] # {} => job[j] # "none"
Onward(w) == /\ worker'[w].job \in Jobs => job[worker'[w].job] # "none"
             /\ Fresh(worker'[w])

LEMMA StepOnce ==
  ASSUME TypeInv, OnceInv, RowsKept \/ \A j \in Jobs, s \in Sources : Kept(j, s)', JobsMade,
         \A w \in Workers : Onward(w)
  PROVE  OnceInv'
  <1>1. \A j \in Jobs, s \in Sources : Kept(j, s)'
    BY DEF OnceInv, Kept, RowsKept
  <1>2. \A j \in Jobs : /\ Absent(j)' /\ (creating'[j] # {} => job'[j] = "none")
                        /\ retrying'[j] # {} => job'[j] # "none"
    BY DEF OnceInv, Created, Absent, JobsMade
  <1>3. \A w \in Workers : worker'[w].job \in Jobs => job'[worker'[w].job] # "none"
    BY DEF Onward, JobsMade
  <1> QED
    BY <1>1, <1>2, <1>3 DEF OnceInv, Created, Onward

(* Tasks that do not move, end, go on or finish a source.                   *)
LEMMA StayOnward ==
  ASSUME OnceInv, UNCHANGED worker PROVE \A w \in Workers : Onward(w)
  BY DEF OnceInv, Created, Onward

LEMMA ChangeOnward ==
  ASSUME TypeInv, OnceInv, NEW w \in Workers, NEW r, worker' = [worker EXCEPT ![w] = r],
         r.job \in Jobs => job[r.job] # "none", Fresh(r)
  PROVE  \A v \in Workers : Onward(v)
  <1>1. \A v \in Workers : worker'[v] = IF v = w THEN r ELSE worker[v]
    BY DEF TypeInv, WorkersType
  <1> QED
    BY <1>1 DEF OnceInv, Created, Onward

LEMMA IdleOnward == (Idle.job \in Jobs => FALSE) /\ Fresh(Idle)
  BY IngestAssumption DEF Idle, Fresh

LEMMA ReturnOnward ==
  ASSUME TypeInv, OnceInv, NEW w \in Workers, Return(w)
  PROVE  \A v \in Workers : Onward(v)
  <1> HIDE DEF Idle
  <1> QED
    BY IdleOnward, ChangeOnward DEF Return

LEMMA StepOnward ==
  ASSUME TypeInv, OnceInv, NEW w \in Workers, NEW pc, Step(w, pc),
         pc # "extract" \/ worker[w].previous.phase # "EXTRACTED"
  PROVE  \A v \in Workers : Onward(v)
  <1> DEFINE r == [worker[w] EXCEPT !.pc = pc]
  <1>1. worker[w] \in WorkerRows
    BY DEF TypeInv, WorkersType
  <1>2. r.pc = pc /\ r.job = worker[w].job /\ r.previous = worker[w].previous
    BY <1>1 DEF WorkerRows
  <1>3. worker' = [worker EXCEPT ![w] = r]
    BY DEF Step
  <1> HIDE DEF r
  <1> QED
    BY <1>2, <1>3, ChangeOnward DEF OnceInv, Created, Fresh

LEMMA EndSourceOnward ==
  ASSUME TypeInv, OnceInv, NEW w \in Workers, NEW outcome, EndSource(w, outcome)
  PROVE  \A v \in Workers : Onward(v)
  <1> DEFINE r == [worker[w] EXCEPT !.pc = "record", !.outcome = outcome,
                                    !.previous = NoRecovery, !.lost = FALSE]
  <1>1. worker[w] \in WorkerRows
    BY DEF TypeInv, WorkersType
  <1>2. CASE OfJob(w)
    <2>1. worker' = [worker EXCEPT ![w] = r]
      BY <1>2 DEF EndSource
    <2>2. r.pc = "record" /\ r.job = worker[w].job
      BY <1>1 DEF WorkerRows
    <2> HIDE DEF r
    <2> QED
      BY <2>1, <2>2, ChangeOnward DEF OnceInv, Created, Fresh
  <1>3. CASE ~OfJob(w)
    BY <1>3, ReturnOnward DEF EndSource, Return
  <1> QED
    BY <1>2, <1>3

(* Steps that write no row and no job.                                      *)
LEMMA PrivateOnce ==
  ASSUME TypeInv, OnceInv, UNCHANGED <<job, row, committed, creating, retrying>>,
         \A w \in Workers : Onward(w)
  PROVE  OnceInv'
  <1>1. RowsKept /\ JobsMade
    BY DEF RowsKept, JobsMade, OnceInv, Created
  <1> QED
    BY <1>1, StepOnce

(* Steps of a task that change the status of its job.                       *)
LEMMA JobOnce ==
  ASSUME TypeInv, OnceInv, UNCHANGED <<row, committed, creating, retrying>>, NEW j \in Jobs,
         job[j] # "none", NEW status, status # "none", job' = [job EXCEPT ![j] = status],
         \A w \in Workers : Onward(w)
  PROVE  OnceInv'
  <1>1. \A k \in Jobs : job'[k] = "none" <=> job[k] = "none"
    BY DEF TypeInv, JobsType
  <1>2. RowsKept /\ JobsMade
    BY <1>1 DEF RowsKept, JobsMade, OnceInv, Created
  <1> QED
    BY <1>2, StepOnce

(* Steps of a task that change its row, but not the recovery state.         *)
LEMMA RowOnce ==
  ASSUME TypeInv, OnceInv, UNCHANGED <<committed, creating, retrying>>, NEW j \in Jobs, NEW s \in Sources,
         NEW r \in RowRows, row' = [row EXCEPT ![j][s] = r], r.recovery = row[j][s].recovery,
         job[j] # "none", \A k \in Jobs : job'[k] = "none" <=> job[k] = "none",
         \A w \in Workers : Onward(w)
  PROVE  OnceInv'
  <1>1. \A k \in Jobs, t \in Sources : row'[k][t] = IF k = j /\ t = s THEN r ELSE row[k][t]
    BY RowChange DEF TypeInv
  <1>2. RowsKept
    BY <1>1 DEF RowsKept
  <1>3. JobsMade
    BY DEF TypeInv, RowsType, JobsMade, OnceInv, Created
  <1> QED
    BY <1>2, <1>3, StepOnce

LEMMA CreateOnce ==
  ASSUME TypeInv, OnceInv, NEW j \in Jobs, NEW batch,
         BeginCreate(j, batch) \/ CommitCreate(j) \/ ReplayCreate(j)
  PROVE  OnceInv'
  <1>1. \A w \in Workers : Onward(w)
    BY StayOnward DEF BeginCreate, CommitCreate, ReplayCreate
  <1>2. CASE BeginCreate(j, batch)
    <2>1. \A k \in Jobs : creating'[k] # {} => job[k] = "none"
      BY <1>2 DEF BeginCreate, OnceInv, Created, TypeInv, RequestsType
    <2>2. RowsKept /\ JobsMade
      BY <1>2, <2>1 DEF BeginCreate, RowsKept, JobsMade, OnceInv, Created
    <2> QED
      BY <1>1, <2>2, StepOnce
  <1>3. CASE CommitCreate(j)
    <2>1. job[j] = "none" /\ \A s \in Sources : committed[j][s] = 0
      BY <1>3 DEF CommitCreate, OnceInv, Created, Absent
    <2>2. job'[j] = "QUEUED" /\ creating'[j] = {} /\ committed' = committed /\ UNCHANGED retrying
          /\ \A k \in Jobs \ {j} : job'[k] = job[k] /\ row'[k] = row[k] /\ creating'[k] = creating[k]
      BY <1>3 DEF CommitCreate, TypeInv, JobsType, RowsType, RequestsType
    <2>3. RowsKept /\ JobsMade
      BY <2>1, <2>2 DEF RowsKept, JobsMade, OnceInv, Created
    <2> QED
      BY <1>1, <2>3, StepOnce
  <1>4. CASE ReplayCreate(j)
    BY <1>1, <1>4, PrivateOnce DEF ReplayCreate
  <1> QED
    BY <1>2, <1>3, <1>4

LEMMA RequeueOnce ==
  ASSUME TypeInv, OnceInv, NEW j \in Jobs, NEW rows \in SUBSET Sources, rows # {}, Requeue(j, rows),
         job[j] # "none", UNCHANGED <<creating, worker>>,
         \A k \in Jobs : retrying'[k] \subseteq retrying[k]
  PROVE  OnceInv'
  <1>1. job[j] # "none"
    OBVIOUS
  <1>2. job'[j] = "QUEUED"
        /\ \A k \in Jobs \ {j} : job'[k] = job[k] /\ row'[k] = row[k] /\ committed'[k] = committed[k]
    BY DEF Requeue, TypeInv, JobsType, RowsType, HistoryType
  <1>3. ASSUME NEW s \in Sources
        PROVE  \/ committed'[j][s] = committed[j][s] /\ row'[j][s].recovery = row[j][s].recovery
               \/ committed'[j][s] = 0
    <2>1. /\ row'[j][s] = IF s \in rows THEN ResetRow(row[j][s]) ELSE row[j][s]
          /\ committed'[j][s] = IF s \in rows /\ row[j][s].status = "NO_RESULT" THEN 0
                                                                             ELSE committed[j][s]
      BY DEF Requeue, TypeInv, RowsType, HistoryType
    <2>2. row[j][s] \in RowRows
      BY DEF TypeInv, RowsType
    <2>3. s \in rows /\ row[j][s].status # "NO_RESULT" =>
             ResetRow(row[j][s]).recovery = row[j][s].recovery
      BY <2>2 DEF ResetRow, RowRows
    <2> QED
      BY <2>1, <2>3
  <1>4. RowsKept
    BY <1>2, <1>3 DEF RowsKept
  <1>5. JobsMade
    BY <1>1, <1>2 DEF JobsMade, OnceInv, Created
  <1> QED
    BY <1>4, <1>5, StepOnce, StayOnward

LEMMA RetryOnce ==
  ASSUME TypeInv, OnceInv, NEW j \in Jobs, NEW include_no_result,
         BeginRetry(j, include_no_result) \/ CommitRetry(j) \/ AbortRetry(j)
  PROVE  OnceInv'
  <1>1. CASE BeginRetry(j, include_no_result)
    <2> DEFINE rows == Retryable(j, {"FAILED", "PARTIAL"}
                                    \cup (IF include_no_result THEN {"NO_RESULT"} ELSE {}))
    <2>1. \A s \in rows : s \in Sources /\ row[j][s].status # "none"
      BY DEF Retryable
    <2>2. rows # {} /\ retrying' = [retrying EXCEPT ![j] = rows]
          /\ UNCHANGED <<job, row, committed, creating, worker>>
      BY <1>1 DEF BeginRetry
    <2> HIDE DEF rows
    <2>3. job[j] # "none"
      BY <2>1, <2>2 DEF OnceInv, Created, Absent
    <2>4. \A k \in Jobs : retrying'[k] # {} => job[k] # "none"
      BY <2>2, <2>3 DEF OnceInv, Created, TypeInv, RequestsType
    <2>5. RowsKept /\ JobsMade
      BY <2>2, <2>4 DEF RowsKept, JobsMade, OnceInv, Created
    <2> QED
      BY <2>2, <2>5, StepOnce, StayOnward
  <1>2. CASE CommitRetry(j)
    <2>1. \A k \in Jobs : retrying'[k] \subseteq retrying[k]
      BY <1>2 DEF CommitRetry, TypeInv, RequestsType
    <2>2. /\ retrying[j] \in SUBSET Sources /\ retrying[j] # {} /\ Requeue(j, retrying[j])
          /\ UNCHANGED <<creating, worker>>
      BY <1>2 DEF CommitRetry, TypeInv, RequestsType
    <2>3. job[j] # "none"
      BY <2>2 DEF OnceInv, Created
    <2> QED
      BY <2>1, <2>2, <2>3, RequeueOnce
  <1>3. CASE AbortRetry(j)
    <2>1. \A k \in Jobs : retrying'[k] \subseteq retrying[k]
      BY <1>3 DEF AbortRetry, TypeInv, RequestsType
    <2>2. UNCHANGED <<job, row, committed, creating, worker>>
      BY <1>3 DEF AbortRetry
    <2>3. RowsKept /\ JobsMade
      BY <2>1, <2>2 DEF RowsKept, JobsMade, OnceInv, Created
    <2> QED
      BY <2>2, <2>3, StepOnce, StayOnward
  <1> QED
    BY <1>1, <1>2, <1>3

LEMMA RequestOnce ==
  ASSUME TypeInv, OnceInv, Request
  PROVE  OnceInv'
  <1>1. CASE \E j \in Jobs, batch \in Batches : BeginCreate(j, batch)
    BY <1>1, CreateOnce
  <1>2. CASE \E j \in Jobs : CommitCreate(j) \/ ReplayCreate(j) \/ CommitRetry(j) \/ AbortRetry(j)
    BY <1>2, CreateOnce, RetryOnce
  <1>3. CASE \E j \in Jobs, b \in BOOLEAN : BeginRetry(j, b)
    BY <1>3, RetryOnce
  <1>4. CASE \E j \in Jobs, s \in Sources : extract_source_anyway(j, s)
    <2> PICK j \in Jobs, s \in Sources : extract_source_anyway(j, s)
      BY <1>4
    <2>1. {s} \in SUBSET Sources /\ Requeue(j, {s}) /\ UNCHANGED <<creating, retrying, worker>>
          /\ row[j][s].status # "none"
      BY DEF extract_source_anyway
    <2>2. job[j] # "none"
      BY <2>1 DEF OnceInv, Created, Absent
    <2> QED
      BY <2>1, <2>2, RequeueOnce
  <1>5. CASE \E s \in Sources :
               BeginDelete(s) \/ CommitDelete(s) \/ BeginProcess(s) \/ CommitProcess(s)
    BY <1>5, PrivateOnce, StayOnward DEF BeginDelete, CommitDelete, BeginProcess, CommitProcess
  <1> QED
    BY <1>1, <1>2, <1>3, <1>4, <1>5 DEF Request

(* The job of a task exists, and so does its row.                           *)
LEMMA TaskFacts ==
  ASSUME TypeInv, OnceInv, NEW w \in Workers
  PROVE  /\ worker[w] \in WorkerRows
         /\ worker[w].pc \in AtSource => worker[w].source \in Sources
         /\ worker[w].pc \in AtJob => worker[w].job \in Jobs
         /\ OfJob(w) => worker[w].job \in Jobs
         /\ worker[w].job \in Jobs => job[worker[w].job] # "none"
  BY DEF TypeInv, WorkersType, Placed, WorkerRows, OfJob, OnceInv, Created

LEMMA ClaimOnce ==
  ASSUME TypeInv, OnceInv, NEW w \in Workers, NEW j \in Jobs, ClaimJob(w, j)
  PROVE  OnceInv'
  <1> DEFINE r == [Idle EXCEPT !.pc = "select", !.job = j]
  <1>1. CASE Claimable(j)
    <2>1. worker' = [worker EXCEPT ![w] = r] /\ job' = [job EXCEPT ![j] = "EXTRACTING"]
            /\ UNCHANGED <<row, committed, creating, retrying>>
      BY <1>1 DEF ClaimJob, RequestsFrame, requestVars
    <2>2. r.job = j /\ r.pc = "select"
      BY DEF Idle
    <2>3. job[j] # "none"
      BY <1>1 DEF Claimable
    <2> HIDE DEF r
    <2>4. \A v \in Workers : Onward(v)
      BY <2>1, <2>2, <2>3, ChangeOnward DEF Fresh
    <2> QED
      BY <2>1, <2>3, <2>4, JobOnce
  <1>2. CASE ~Claimable(j)
    BY <1>2, PrivateOnce, StayOnward DEF ClaimJob, RequestsFrame, requestVars
  <1> QED
    BY <1>1, <1>2

LEMMA SelectOnce ==
  ASSUME TypeInv, OnceInv, NEW w \in Workers, SelectRows(w) \/ LoadRecovery(w)
  PROVE  OnceInv'
  <1> DEFINE Turn(at, rows, found) ==
        /\ at \in {"next", "redo", "start"}
        /\ worker' = [worker EXCEPT ![w] = [worker[w] EXCEPT !.pc = at, !.todo = rows,
                                                             !.previous = found]]
  <1>1. PICK pc, todo, previous : Turn(pc, todo, previous)
    <2>1. worker[w] \in WorkerRows
      BY TaskFacts
    <2>2. CASE SelectRows(w)
      <3> DEFINE j == worker[w].job
                 todo == {<<s, row[j][s].lost>> :
                            s \in {r \in Sources : row[j][r].status = "QUEUED"}}
      <3>1. worker' = [worker EXCEPT ![w].pc = "next", ![w].todo = todo]
        BY <2>2 DEF SelectRows
      <3> HIDE DEF todo
      <3>2. worker' = [worker EXCEPT ![w] = [worker[w] EXCEPT !.pc = "next", !.todo = todo,
                                                     !.previous = worker[w].previous]]
        BY <2>1, <3>1 DEF TypeInv, WorkersType, WorkerRows
      <3>3. Turn("next", todo, worker[w].previous)
        BY <3>2
      <3> HIDE DEF Turn
      <3> QED
        BY <3>3
    <2>3. CASE LoadRecovery(w)
      <3> DEFINE pc == IF Recovery(w).phase = "COMMITTED" /\ ~Recovery(w).lost THEN "redo" ELSE "start"
      <3>1. worker' = [worker EXCEPT ![w].previous = Recovery(w), ![w].pc = pc]
        BY <2>3 DEF LoadRecovery
      <3>2. pc \in {"next", "redo", "start"}
        OBVIOUS
      <3> HIDE DEF pc
      <3>3. worker' = [worker EXCEPT ![w] = [worker[w] EXCEPT !.pc = pc, !.todo = worker[w].todo,
                                                     !.previous = Recovery(w)]]
        BY <2>1, <3>1 DEF TypeInv, WorkersType, WorkerRows
      <3>4. Turn(pc, worker[w].todo, Recovery(w))
        BY <3>2, <3>3
      <3> HIDE DEF Turn
      <3> QED
        BY <3>4
    <2> QED
      BY <2>2, <2>3
  <1> DEFINE r == [worker[w] EXCEPT !.pc = pc, !.todo = todo, !.previous = previous]
  <1>2. r.pc = pc /\ r.job = worker[w].job
    BY TaskFacts DEF WorkerRows
  <1>3. worker' = [worker EXCEPT ![w] = r]
    BY <1>1
  <1> HIDE DEF r
  <1>4. \A v \in Workers : Onward(v)
    BY <1>1, <1>2, <1>3, TaskFacts, ChangeOnward DEF Fresh
  <1> QED
    BY <1>4, PrivateOnce DEF SelectRows, LoadRecovery, TaskFrame, RequestsFrame, requestVars

LEMMA BeginRowOnce ==
  ASSUME TypeInv, OnceInv, NEW w \in Workers, BeginRow(w)
  PROVE  OnceInv'
  <1> DEFINE j == worker[w].job
             rest(t) == worker[w].todo \ {t}
             r(t) == [Idle EXCEPT !.pc = "load", !.job = j, !.todo = rest(t), !.source = t[1],
                                  !.retry = t[2]]
             y(t) == [row[j][t[1]] EXCEPT !.status = "EXTRACTING"]
  <1>1. worker[w] \in WorkerRows /\ j \in Jobs /\ job[j] # "none"
    BY TaskFacts DEF BeginRow, AtJob
  <1>2. PICK t \in worker[w].todo : /\ row' = [row EXCEPT ![j][t[1]].status = "EXTRACTING"]
                                    /\ worker' = [worker EXCEPT ![w] = r(t)]
    BY DEF BeginRow
  <1>3. t[1] \in Sources /\ row[j][t[1]] \in RowRows
    BY <1>1, <1>2 DEF WorkerRows, TypeInv, RowsType
  <1>4. row' = [row EXCEPT ![j][t[1]] = y(t)]
    BY <1>2
  <1>5. y(t) \in RowRows /\ y(t).recovery = row[j][t[1]].recovery
    BY <1>3 DEF RowRows, JobStates, Active
  <1>6. r(t).pc = "load" /\ r(t).job = j
    BY DEF Idle
  <1> HIDE DEF r, y
  <1>7. \A v \in Workers : Onward(v)
    BY <1>1, <1>2, <1>6, ChangeOnward DEF Fresh
  <1> QED
    BY <1>1, <1>3, <1>4, <1>5, <1>7, RowOnce DEF BeginRow, TaskFrame, RequestsFrame, requestVars

LEMMA RecordOnce ==
  ASSUME TypeInv, OnceInv, NEW w \in Workers, RecordRow(w)
  PROVE  OnceInv'
  <1> DEFINE j == worker[w].job
             s == worker[w].source
             r == [Idle EXCEPT !.pc = "refresh", !.job = j, !.todo = worker[w].todo]
  <1>1. worker[w] \in WorkerRows /\ j \in Jobs /\ s \in Sources /\ job[j] # "none"
    BY TaskFacts DEF RecordRow, AtJob, AtSource
  <1>2. r.pc = "refresh" /\ r.job = j
    BY DEF Idle
  <1>3. worker' = [worker EXCEPT ![w] = r] /\ row' = [row EXCEPT ![j][s] = RowResult(w)]
    BY DEF RecordRow
  <1>4. RowResult(w) \in RowRows /\ RowResult(w).recovery = row[j][s].recovery
    <2>1. row[j][s] \in RowRows /\ source[s].cards \in BOOLEAN
      BY <1>1 DEF TypeInv, RowsType, SourcesType, SourceRows
    <2>2. \A status \in Finished, none \in BOOLEAN :
             LET z == [row[j][s] EXCEPT !.status = status, !.intake_none = none,
                                        !.cards = source[s].cards]
             IN z \in RowRows /\ z.recovery = row[j][s].recovery
      BY <2>1 DEF RowRows, JobStates
    <2> QED
      BY <2>2 DEF RowResult, Finished
  <1> HIDE DEF r
  <1>5. \A v \in Workers : Onward(v)
    BY <1>1, <1>2, <1>3, ChangeOnward DEF Fresh
  <1> QED
    BY <1>1, <1>3, <1>4, <1>5, RowOnce DEF RecordRow, TaskFrame, RequestsFrame, requestVars

LEMMA JobEndOnce ==
  ASSUME TypeInv, OnceInv, NEW w \in Workers, Refresh(w) \/ FinishJob(w) \/ TaskFails(w)
  PROVE  OnceInv'
  <1>1. worker[w].job \in Jobs /\ job[worker[w].job] # "none"
    BY TaskFacts DEF Refresh, FinishJob, TaskFails, AtJob
  <1>2. \A v \in Workers : Onward(v)
    BY StepOnward, ReturnOnward DEF Refresh, FinishJob, TaskFails, FailJob
  <1>3. final_job_status(row[worker[w].job]) # "none"
    BY <1>1, JobStatusType DEF TypeInv, Finished
  <1>4. CASE Refresh(w)
    BY <1>1, <1>2, <1>4, JobOnce DEF Refresh, TaskFrame, RequestsFrame, requestVars
  <1>5. CASE FinishJob(w)
    BY <1>1, <1>2, <1>3, <1>5, JobOnce DEF FinishJob, TaskFrame, RequestsFrame, requestVars
  <1>6. CASE TaskFails(w)
    BY <1>1, <1>2, <1>6, JobOnce DEF TaskFails, FailJob, TaskFrame, RequestsFrame, requestVars
  <1> QED
    BY <1>4, <1>5, <1>6

LEMMA SourceOnlyOnce ==
  ASSUME TypeInv, OnceInv, NEW w \in Workers,
         RedoDone(w) \/ StartSource(w) \/ CheckLayout(w) \/ RaiseInSource(w) \/ MarkFailed(w)
  PROVE  OnceInv'
  <1>1. \A v \in Workers : Onward(v)
    <2>1. CASE RedoDone(w) \/ MarkFailed(w)
      BY <2>1, EndSourceOnward DEF RedoDone, MarkFailed
    <2>2. CASE RaiseInSource(w) \/ StartSource(w)
      BY <2>2, StepOnward DEF RaiseInSource, StartSource
    <2>3. CASE CheckLayout(w)
      <3> DEFINE lost == worker[w].previous.lost
                 r == [worker[w] EXCEPT !.pc = "commit", !.lost = lost]
      <3>1. \/ EndSource(w, "PARTIAL_RETRY_UNAVAILABLE")
            \/ Step(w, "extract") /\ worker[w].previous.phase # "EXTRACTED"
            \/ worker' = [worker EXCEPT ![w] = r]
        BY <2>3 DEF CheckLayout, TypeInv, WorkersType
      <3>2. r.pc = "commit" /\ r.job = worker[w].job
        BY TaskFacts DEF WorkerRows
      <3> HIDE DEF r
      <3>3. CASE worker' = [worker EXCEPT ![w] = r]
        BY <3>2, <3>3, TaskFacts, ChangeOnward DEF Fresh
      <3> QED
        BY <3>1, <3>3, EndSourceOnward, StepOnward
    <2> QED
      BY <2>1, <2>2, <2>3
  <1> QED
    BY <1>1, PrivateOnce DEF RedoDone, StartSource, CheckLayout, RaiseInSource, MarkFailed,
       TaskFrame, RequestsFrame, requestVars

LEMMA BeginDirectOnce ==
  ASSUME TypeInv, OnceInv, NEW w \in Workers, NEW s \in Sources, BeginDirect(w, s)
  PROVE  OnceInv'
  <1> DEFINE r == [Idle EXCEPT !.pc = "start", !.source = s]
  <1>1. worker' = [worker EXCEPT ![w] = r]
    BY DEF BeginDirect
  <1>2. r.pc = "start" /\ r.job = NoJob /\ NoJob \notin Jobs
    BY IngestAssumption DEF Idle
  <1> HIDE DEF r
  <1>3. \A v \in Workers : Onward(v)
    BY <1>1, <1>2, ChangeOnward DEF Fresh
  <1> QED
    BY <1>3, PrivateOnce DEF BeginDirect

LEMMA ClassifyingOnce ==
  ASSUME TypeInv, OnceInv, NEW w \in Workers, ShowClassifying(w)
  PROVE  OnceInv'
  <1> DEFINE j == worker[w].job
             s == worker[w].source
             y == [row[j][s] EXCEPT !.status = "CLASSIFYING"]
  <1>1. j \in Jobs /\ s \in Sources /\ job[j] # "none"
    BY TaskFacts DEF ShowClassifying, AtJob, AtSource
  <1>2. row' = [row EXCEPT ![j][s] = y]
    BY DEF ShowClassifying
  <1>3. y \in RowRows /\ y.recovery = row[j][s].recovery
    <2>1. row[j][s] \in RowRows
      BY <1>1 DEF TypeInv, RowsType
    <2> QED
      BY <2>1 DEF RowRows, JobStates, Active
  <1>4. \A k \in Jobs : job'[k] = "none" <=> job[k] = "none"
    BY <1>1 DEF ShowClassifying, TypeInv, JobsType
  <1>5. \A v \in Workers : Onward(v)
    BY StepOnward DEF ShowClassifying
  <1> HIDE DEF y
  <1> QED
    BY <1>1, <1>2, <1>3, <1>4, <1>5, RowOnce DEF ShowClassifying, TaskFrame, RequestsFrame, requestVars

LEMMA IntakeOnce ==
  ASSUME TypeInv, OnceInv, NEW w \in Workers, Intake(w)
  PROVE  OnceInv'
  <1> DEFINE j == worker[w].job
             s == worker[w].source
             y == [row[j][s] EXCEPT !.lost = FALSE]
  <1>1. s \in Sources /\ (OfJob(w) => j \in Jobs /\ job[j] # "none")
    BY TaskFacts DEF Intake, AtSource
  <1>2. \A v \in Workers : Onward(v)
    BY EndSourceOnward, StepOnward DEF Intake
  <1>3. UNCHANGED row \/ (OfJob(w) /\ row' = [row EXCEPT ![j][s] = y])
    BY DEF Intake
  <1>4. CASE UNCHANGED row
    BY <1>2, <1>4, PrivateOnce DEF Intake, TaskFrame, RequestsFrame, requestVars
  <1>5. CASE OfJob(w) /\ row' = [row EXCEPT ![j][s] = y]
    <2>1. row[j][s] \in RowRows
      BY <1>1, <1>5 DEF TypeInv, RowsType
    <2>2. y \in RowRows /\ y.recovery = row[j][s].recovery
      BY <2>1 DEF RowRows
    <2> HIDE DEF y
    <2> QED
      BY <1>1, <1>2, <1>5, <2>2, RowOnce DEF Intake, TaskFrame, RequestsFrame, requestVars
  <1> QED
    BY <1>3, <1>4, <1>5

(* Replacing the recovery state of one row, and what is committed for it.   *)
LEMMA RecoveryOnce ==
  ASSUME TypeInv, OnceInv, NEW j \in Jobs, NEW s \in Sources, NEW y \in RowRows,
         row' = [row EXCEPT ![j][s] = y], NEW n \in Nat,
         committed' = [committed EXCEPT ![j][s] = n], n <= 1,
         y.recovery.phase = "none" \/ y.recovery.whole => n = 0,
         job[j] # "none", UNCHANGED <<job, creating, retrying>>, \A w \in Workers : Onward(w)
  PROVE  OnceInv'
  <1>1. \A k \in Jobs, t \in Sources :
           committed'[k][t] = IF k = j /\ t = s THEN n ELSE committed[k][t]
    BY DEF TypeInv, HistoryType
  <1>2. \A k \in Jobs, t \in Sources : Kept(k, t)'
    <2> TAKE k \in Jobs, t \in Sources
    <2>1. CASE k = j /\ t = s
      <3>1. row'[k][t] = y
        BY <2>1 DEF TypeInv, RowsType
      <3> QED
        BY <1>1, <2>1, <3>1 DEF Kept
    <2>2. CASE ~(k = j /\ t = s)
      <3>1. row'[k][t] = row[k][t]
        BY <2>2 DEF TypeInv, RowsType
      <3> QED
        BY <1>1, <2>2, <3>1 DEF OnceInv, Kept
    <2> QED
      BY <2>1, <2>2
  <1>3. JobsMade
    BY DEF TypeInv, RowsType, HistoryType, JobsMade, OnceInv, Created
  <1> QED
    BY <1>2, <1>3, StepOnce

LEMMA GivesUpOnce ==
  ASSUME TypeInv, OnceInv, NEW w \in Workers, GivesUp(w), UNCHANGED <<committed, creating, retrying>>
  PROVE  OnceInv'
  BY TaskFacts, ReturnOnward, JobOnce DEF GivesUp

LEMMA SaveOnce ==
  ASSUME TypeInv, OnceInv, NEW w \in Workers, SaveExtraction(w)
  PROVE  OnceInv'
  <1> DEFINE j == worker[w].job
             s == worker[w].source
  <1>1. UNCHANGED <<committed, creating, retrying>> /\ worker[w].pc = "extract"
    BY DEF SaveExtraction, TaskFrame, RequestsFrame, requestVars, RecoveryConflict
  <1>2. CASE GivesUp(w)
    BY <1>1, <1>2, GivesUpOnce
  <1>3. CASE \E lost \in BOOLEAN : GoesOn(w, lost)
    <2> PICK lost \in BOOLEAN : GoesOn(w, lost)
      BY <1>3
    <2> DEFINE r == [worker[w] EXCEPT !.pc = "commit", !.lost = lost]
    <2>1. worker' = [worker EXCEPT ![w] = r]
      BY DEF GoesOn
    <2>2. r.pc = "commit" /\ r.job = worker[w].job
      BY TaskFacts DEF WorkerRows
    <2> HIDE DEF r
    <2>3. \A v \in Workers : Onward(v)
      BY <2>1, <2>2, TaskFacts, ChangeOnward DEF Fresh
    <2> QED
      BY <1>1, <2>3, PrivateOnce DEF GoesOn
  <1>4. CASE \E lost \in BOOLEAN, n \in Nat : Keeps(w, lost, n)
    <2>1. PICK lost \in BOOLEAN, n \in Nat : Keeps(w, lost, n)
      BY <1>4
    <2> DEFINE e == Extracted(w, lost)
               r == [worker[w] EXCEPT !.pc = "commit", !.lost = lost, !.previous = e]
               y == [row[j][s] EXCEPT !.recovery = e, !.extractions = n]
    <2>2. /\ worker[w] \in WorkerRows /\ s \in Sources /\ j \in Jobs /\ job[j] # "none"
          /\ e \in Recoveries /\ UNCHANGED job
      BY <2>1, SaveEffect, TaskFacts DEF Keeps
    <2>3. worker' = [worker EXCEPT ![w] = r] /\ row' = [row EXCEPT ![j][s] = y]
      BY <2>1 DEF Keeps
    <2>4. e.whole => committed[j][s] = 0
      <3>1. e.whole => worker[w].previous.phase # "COMMITTED"
        BY DEF Extracted, OnlyLost
      <3>2. worker[w].previous.phase # "EXTRACTED"
        BY <1>1 DEF OnceInv, Fresh
      <3>3. worker[w].previous.phase \in {"none", "EXTRACTED", "COMMITTED"}
        BY <2>2 DEF WorkerRows, Recoveries
      <3>4. row[j][s].recovery = worker[w].previous
        BY <2>1 DEF Keeps, Same, Recovery
      <3> QED
        BY <2>2, <3>1, <3>2, <3>3, <3>4 DEF OnceInv, Kept
    <2>5. e.phase = "EXTRACTED"
      BY DEF Extracted
    <2> HIDE DEF e
    <2>6. r.pc = "commit" /\ r.job = j
      BY <2>2 DEF WorkerRows
    <2>7. y \in RowRows /\ y.recovery = e
      <3>1. row[j][s] \in RowRows
        BY <2>2 DEF TypeInv, RowsType
      <3> QED
        BY <2>1, <2>2, <3>1 DEF RowRows
    <2>8. committed' = [committed EXCEPT ![j][s] = committed[j][s]]
            /\ committed[j][s] \in Nat /\ committed[j][s] <= 1
      BY <1>1, <2>2 DEF TypeInv, HistoryType, OnceInv, Kept
    <2> HIDE DEF r, y
    <2>9. \A v \in Workers : Onward(v)
      BY <2>2, <2>3, <2>6, ChangeOnward DEF Fresh
    <2>10. y.recovery.phase = "none" \/ y.recovery.whole => committed[j][s] = 0
      BY <2>4, <2>5, <2>7
    <2>11. UNCHANGED <<job, creating, retrying>>
      BY <1>1, <2>2
    <2> HIDE DEF j, s
    <2> QED
      BY <2>2, <2>3, <2>7, <2>8, <2>9, <2>10, <2>11, RecoveryOnce
  <1> QED
    BY <1>2, <1>3, <1>4, SaveEffect

LEMMA CommitOnce ==
  ASSUME TypeInv, OnceInv, NEW w \in Workers, Commit(w)
  PROVE  OnceInv'
  <1> DEFINE j == worker[w].job
             s == worker[w].source
             lost == worker[w].lost
             y == [row[j][s] EXCEPT !.lost = lost, !.recovery = Done(lost)]
             n == committed[j][s] + IF worker[w].previous.whole THEN 1 ELSE 0
  <1>1. UNCHANGED <<creating, retrying>>
    BY CommitEffect DEF TaskFrame, RequestsFrame, requestVars
  <1>2. CASE GivesUp(w) /\ UNCHANGED committed
    BY <1>1, <1>2, GivesUpOnce
  <1>3. CASE Step(w, "fail") /\ UNCHANGED <<job, row, committed>>
    BY <1>1, <1>3, StepOnward, PrivateOnce
  <1>4. CASE Commits(w)
    <2>1. UNCHANGED job /\ \A v \in Workers : Onward(v)
      BY <1>4, EndSourceOnward DEF Commits
    <2>2. CASE ~OfJob(w)
      BY <1>1, <1>4, <2>1, <2>2, PrivateOnce DEF Commits, CommittedRow
    <2>3. CASE OfJob(w)
      <3>1. worker[w] \in WorkerRows /\ j \in Jobs /\ s \in Sources /\ job[j] # "none"
        BY <2>3, CommitEffect, TaskFacts
      <3>2. row[j][s].recovery = worker[w].previous
        BY <1>4, <2>3 DEF Commits, CommittedRow, Same, Recovery
      <3>3. n \in Nat /\ n <= 1
        BY <3>1, <3>2 DEF TypeInv, HistoryType, OnceInv, Kept
      <3>4. row' = [row EXCEPT ![j][s] = y] /\ committed' = [committed EXCEPT ![j][s] = n]
        BY <1>4, <2>3 DEF Commits, CommittedRow
      <3>5. Done(lost).phase = "COMMITTED" /\ ~Done(lost).whole /\ Done(lost) \in Recoveries
        BY <3>1 DEF Done, NoRecovery, Recoveries, WorkerRows
      <3>6. y \in RowRows /\ y.recovery = Done(lost)
        <4>1. row[j][s] \in RowRows /\ lost \in BOOLEAN
          BY <3>1 DEF TypeInv, RowsType, WorkerRows
        <4> QED
          BY <3>5, <4>1 DEF RowRows
      <3>7. UNCHANGED <<job, creating, retrying>>
        BY <1>1, <2>1
      <3>8. ~(y.recovery.phase = "none" \/ y.recovery.whole)
        BY <3>5, <3>6
      <3> HIDE DEF y, n, j, s
      <3> QED
        BY <2>1, <3>1, <3>3, <3>4, <3>6, <3>7, <3>8, RecoveryOnce
    <2> QED
      BY <2>2, <2>3
  <1> QED
    BY <1>2, <1>3, <1>4, CommitEffect

LEMMA CrashOnce ==
  ASSUME TypeInv, OnceInv, Crash
  PROVE  OnceInv'
  <1>1. \A w \in Workers : Onward(w)
    <2> HIDE DEF Idle
    <2> QED
      BY IdleOnward DEF Crash, Onward
  <1>2. RowsKept /\ JobsMade
    BY DEF Crash, RowsKept, JobsMade
  <1> QED
    BY <1>1, <1>2, StepOnce

LEMMA OnceStep == TypeInv /\ OnceInv /\ [Next]_vars => OnceInv'
  <1> SUFFICES ASSUME TypeInv, OnceInv, [Next]_vars PROVE OnceInv'
    OBVIOUS
  <1>1. CASE Request
    BY <1>1, RequestOnce
  <1>2. CASE \E w \in Workers : JobStep(w)
    BY <1>2, ClaimOnce, SelectOnce, BeginRowOnce, RecordOnce, JobEndOnce DEF JobStep
  <1>3. CASE \E w \in Workers : SourceStep(w)
    BY <1>3, BeginDirectOnce, SelectOnce, SourceOnlyOnce, ClassifyingOnce, IntakeOnce, SaveOnce,
       CommitOnce DEF SourceStep
  <1>4. CASE \E w \in Workers : RaiseInSource(w) \/ TaskFails(w)
    BY <1>4, SourceOnlyOnce, JobEndOnce
  <1>5. CASE Crash
    BY <1>5, CrashOnce
  <1>6. CASE UNCHANGED vars
    BY <1>6, PrivateOnce, StayOnward DEF vars, requestVars
  <1> QED
    BY <1>1, <1>2, <1>3, <1>4, <1>5, <1>6 DEF Next

(* The facts of one extraction of a whole source become cards at most once: *)
(* whoever retries, forces or restarts, a commit replaces exactly the       *)
(* recovery state that its task saved or loaded.                            *)
THEOREM ExtractionsCommittedOnce == Spec => []CommittedOnce
  <1>1. OnceInv => CommittedOnce
    BY DEF OnceInv, Kept, CommittedOnce
  <1> QED
    BY <1>1, InitOnce, OnceStep, TypeInvariant, PTL DEF Spec

----------------------------------------------------------------------------
(* Jobs nobody disturbed *)

(* Where a task compares the recovery state of its row, and what a job and  *)
(* its rows say while a task works on them.                                 *)
Comparing == {"start", "classify", "intake", "layout", "extract", "commit"}
Running == {"EXTRACTING", "CLASSIFYING"}

(* A task that is not at a source has none.                                 *)
Sited == \A w \in Workers : worker[w].pc \notin AtSource => worker[w].source = 0

(* A queued job has a task waiting for it, and a running one a task in it.  *)
Manned(j) ==
    /\ job[j] = "QUEUED" => task[j] > 0
    /\ job[j] \in Running <=> InJob(j) # {}
    /\ job[j] = "SUCCEEDED" =>
          \A s \in Sources : row[j][s].status \in {"none", "SUCCEEDED", "NO_RESULT"}

(* A deleted source whose row is unfinished, or waits for the commit of a   *)
(* creation or of a retry, crossed the deletion.                            *)
openings == <<creating, retrying, deleting, crossed>>
Noted(j) == \A s \in Sources :
    /\ source[s].deleted /\ s \in creating[j] \cup retrying[j] => <<j, s>> \in crossed
    /\ (source[s].deleted \/ s \in deleting) /\ row[j][s].status \in Active
          => <<j, s>> \in crossed

(* A commit leaves none of the facts it committed in the recovery state.    *)
Emptied(recovery) == recovery.phase = "COMMITTED" => ~recovery.whole /\ recovery.facts = 0

(* An unfinished row is somebody's to do, a running one is the row of the   *)
(* task in the job, and a row that succeeded has committed everything.      *)
RowDue(j, s) ==
    /\ row[j][s].status \in Active => Pending(j, s)
    /\ row[j][s].status \in Running => \E w \in InJob(j) : worker[w].source = s
    /\ Emptied(row[j][s].recovery)
    /\ row[j][s].status = "SUCCEEDED" =>
          /\ row[j][s].recovery.phase = "COMMITTED" /\ ~row[j][s].recovery.lost
          /\ ~row[j][s].lost

(* The task at a row finds there the recovery state it loaded or saved;     *)
(* when it reports no special outcome, the source failed or is committed.   *)
AtRow(j, w) == LET r == row[j][worker[w].source] IN
    /\ r.status \in Running /\ Emptied(r.recovery)
    /\ worker[w].pc \in Comparing => r.recovery = worker[w].previous
    /\ worker[w].pc = "redo" => r.recovery.phase = "COMMITTED" /\ ~r.recovery.lost
    /\ worker[w].pc = "record" /\ worker[w].outcome = "none" =>
          \/ source[worker[w].source].status = "FAILED"
          \/ r.recovery.phase = "COMMITTED" /\ (r.recovery.lost => r.lost)

(* The task in a job is alone in it and alone at its source, and has each   *)
(* of the rows left to do once.                                             *)
Engaged(j, w) ==
    /\ \A v \in InJob(j) : v = w
    /\ \A t \in worker[w].todo : row[j][t[1]].status = "QUEUED" /\ t[1] # worker[w].source
    /\ \A t, u \in worker[w].todo : t[1] = u[1] => t = u
    /\ worker[w].pc \in AtSource => AtRow(j, w)
    /\ \A v \in Workers : worker[v].source = worker[w].source /\ worker[v].source # 0 => v = w

JobInv(j) == /\ Manned(j) /\ Noted(j)
             /\ \A s \in Sources : RowDue(j, s)
             /\ \A w \in InJob(j) : Engaged(j, w)

Settled == Sited /\ \A j \in Jobs \ disturbed : JobInv(j)

LEMMA ZeroIsNoSource == 0 \notin Sources /\ NoJob \notin Jobs
  BY IngestAssumption

LEMMA InitSettled == Init => Settled
  <1> SUFFICES ASSUME Init PROVE Settled
    OBVIOUS
  <1>1. /\ \A w \in Workers : worker[w].pc = "idle" /\ worker[w].source = 0
        /\ \A j \in Jobs : job[j] = "none" /\ creating[j] = {} /\ retrying[j] = {}
        /\ \A j \in Jobs, s \in Sources : row[j][s].status = "none"
    BY DEF Init, Idle, NoRow
  <1>2. \A j \in Jobs : InJob(j) = {}
    BY <1>1 DEF InJob, Busy
  <1>3. \A j \in Jobs, s \in Sources : Emptied(row[j][s].recovery)
    BY DEF Init, NoRow, NoRecovery, Emptied
  <1> QED
    BY <1>1, <1>2, <1>3 DEF Settled, Sited, JobInv, Manned, Noted, RowDue, Active, Running

(* What a task does to the others: nothing but to its own source, its own   *)
(* job and the rows of that job.                                            *)
Alone(w) == \A v \in Workers : v # w => worker'[v] = worker[v]
Local(w) ==
    /\ Alone(w)
    /\ \A k \in Jobs : k # worker[w].job => row'[k] = row[k] /\ job'[k] = job[k]
    /\ worker'[w].job = worker[w].job \/ ~Busy(w)'
    /\ worker'[w].source \in {0, worker[w].source}
    /\ UNCHANGED <<openings, task>>
    /\ \A s \in Sources : /\ source'[s].deleted = source[s].deleted
                          /\ s # worker[w].source => source'[s] = source[s]
    /\ disturbed \subseteq disturbed'

(* The invariant of a job is kept by a task that is not in it, and by one   *)
(* that arrives at a source where nobody of the job is.                     *)
Untouched(j) ==
    /\ row'[j] = row[j] /\ job'[j] = job[j]
    /\ job[j] = "QUEUED" => task'[j] > 0
    /\ InJob(j)' = InJob(j)
    /\ \A w \in InJob(j) : worker'[w] = worker[w]
    /\ \A w \in InJob(j), v \in Workers :
          worker'[v].source = worker[w].source /\ worker'[v].source # 0 => v = w
    /\ Noted(j)'
    /\ \A w \in InJob(j) : worker[w].source # 0 =>
          source'[worker[w].source].status = source[worker[w].source].status

LEMMA NotedKept ==
  ASSUME NEW j \in Jobs, Noted(j), UNCHANGED openings,
         \A s \in Sources : /\ source'[s].deleted = source[s].deleted
                            /\ row'[j][s].status \in Active => row[j][s].status \in Active
  PROVE  Noted(j)'
  BY DEF Noted, openings

LEMMA UntouchedKeeps ==
  ASSUME TypeInv, NEW j \in Jobs, JobInv(j), Untouched(j)
  PROVE  JobInv(j)'
  <1>1. Manned(j)'
    BY DEF JobInv, Manned, Untouched, TypeInv, RequestsType
  <1>2. ASSUME NEW s \in Sources PROVE RowDue(j, s)'
    <2>1. RowDue(j, s)
      BY DEF JobInv
    <2>2. Pending(j, s) => Pending(j, s)'
      BY DEF Pending, Untouched
    <2> QED
      BY <2>1, <2>2 DEF RowDue, Untouched
  <1>3. ASSUME NEW w \in InJob(j)' PROVE Engaged(j, w)'
    <2>1. w \in InJob(j) /\ Engaged(j, w) /\ w \in Workers /\ worker'[w] = worker[w]
      BY <1>3 DEF JobInv, Untouched, InJob
    <2>2. worker[w].pc \in AtSource => worker[w].source \in Sources
      BY <2>1 DEF TypeInv, WorkersType, Placed
    <2>3. worker[w].pc \in AtSource => AtRow(j, w)'
      BY <2>1, <2>2, ZeroIsNoSource DEF Engaged, AtRow, Untouched
    <2> QED
      BY <2>1, <2>3 DEF Engaged, Untouched
  <1> QED
    BY <1>1, <1>2, <1>3 DEF JobInv, Untouched

LEMMA ElsewhereUntouched ==
  ASSUME TypeInv, NEW j \in Jobs, JobInv(j), NEW w \in Workers, Local(w), Busy(w),
         worker[w].job # j
  PROVE  Untouched(j)
  <1>1. InJob(j)' = InJob(j) /\ w \notin InJob(j)
    BY DEF Local, Alone, InJob, Busy
  <1>2. \A v \in InJob(j) : v \in Workers /\ v # w /\ worker'[v] = worker[v] /\ Engaged(j, v)
    BY <1>1 DEF Local, Alone, InJob, JobInv
  <1>3. ASSUME NEW v \in InJob(j), NEW u \in Workers, worker'[u].source = worker[v].source,
               worker'[u].source # 0
        PROVE  u = v
    <2>1. worker[u].source = worker[v].source /\ worker[u].source # 0
      BY <1>3 DEF Local, Alone
    <2> QED
      BY <1>2, <2>1 DEF Engaged
  <1>4. ASSUME NEW v \in InJob(j), worker[v].source # 0
        PROVE  source'[worker[v].source].status = source[worker[v].source].status
    <2>1. worker[w].source # worker[v].source
      BY <1>2, <1>4 DEF Engaged
    <2>2. worker[v].source \in Sources
      BY <1>2, <1>4 DEF TypeInv, WorkersType, WorkerRows
    <2> QED
      BY <2>1, <2>2 DEF Local
  <1>5. /\ job[j] = "QUEUED" => task'[j] > 0
        /\ Noted(j)'
    BY NotedKept DEF JobInv, Manned, Local, TypeInv, RequestsType
  <1> QED
    BY <1>1, <1>2, <1>3, <1>4, <1>5 DEF Untouched, Local

(* A local step keeps everything when it keeps the job it is in.            *)
LEMMA LocalSettled ==
  ASSUME TypeInv, Settled, NEW w \in Workers, Busy(w), Local(w),
         worker'[w].pc \notin AtSource => worker'[w].source = 0,
         \A j \in Jobs \ disturbed' : worker[w].job = j => JobInv(j)'
  PROVE  Settled'
  <1>1. Sited'
    BY DEF Settled, Sited, Local, Alone
  <1>2. ASSUME NEW j \in Jobs \ disturbed' PROVE JobInv(j)'
    <2>1. j \in Jobs \ disturbed /\ JobInv(j)
      BY DEF Local, Settled
    <2>2. CASE worker[w].job = j
      BY <2>2
    <2>3. CASE worker[w].job # j
      BY <2>1, <2>3, ElsewhereUntouched, UntouchedKeeps
    <2> QED
      BY <2>2, <2>3
  <1> QED
    BY <1>1, <1>2 DEF Settled

(* The task in an undisturbed job is the only one.                          *)
LEMMA OnlyTask ==
  ASSUME TypeInv, Settled, NEW w \in Workers, Busy(w), NEW j \in Jobs \ disturbed,
         worker[w].job = j
  PROVE  /\ InJob(j) = {w} /\ Engaged(j, w) /\ JobInv(j) /\ job[j] \in Running
         /\ worker[w].pc \in AtSource => AtRow(j, w)
  <1>1. w \in InJob(j) /\ JobInv(j)
    BY DEF InJob, Settled
  <1>2. Engaged(j, w)
    BY <1>1 DEF JobInv
  <1> QED
    BY <1>1, <1>2 DEF Engaged, JobInv, Manned

(* A step of a task within its source.                                      *)
Stays(w) == /\ worker'[w].job = worker[w].job /\ worker'[w].todo = worker[w].todo
            /\ worker'[w].source = worker[w].source
            /\ worker[w].pc \in AtSource /\ worker'[w].pc \in AtSource
OnlyRow(w) == \A k \in Jobs, t \in Sources :
    (k = worker[w].job /\ t = worker[w].source) \/ row'[k][t] = row[k][t]

LEMMA StaysKeeps ==
  ASSUME TypeInv, Settled, NEW w \in Workers, NEW j \in Jobs \ disturbed, worker[w].job = j,
         Local(w), Stays(w), OnlyRow(w), AtRow(j, w)', job'[j] \in Running
  PROVE  JobInv(j)'
  <1>0. Busy(w)
    BY DEF Stays, Busy, AtSource
  <1>1. InJob(j) = {w} /\ Engaged(j, w) /\ JobInv(j) /\ worker[w].source \in Sources
    BY <1>0, OnlyTask DEF Stays, TypeInv, WorkersType, Placed
  <1>2. InJob(j)' = {w}
    BY <1>1 DEF InJob, Busy, Local, Alone, Stays, AtSource
  <1>3. worker'[w].pc # "select" /\ worker[w].pc # "select"
    BY DEF Stays, AtSource
  <1>4. /\ row'[j][worker[w].source].status \in Running
        /\ Emptied(row'[j][worker[w].source].recovery)
    BY DEF AtRow, Stays
  <1>5. Manned(j)'
    BY <1>1, <1>2 DEF Manned, Local, Running, JobInv, TypeInv, RequestsType
  <1>6. ASSUME NEW s \in Sources PROVE RowDue(j, s)'
    <2>1. RowDue(j, s)
      BY <1>1 DEF JobInv
    <2>2. CASE s = worker[w].source
      <3>1. Pending(j, s)' /\ \E v \in InJob(j)' : worker'[v].source = s
        BY <1>2, <2>2 DEF Pending, Stays
      <3> QED
        BY <1>4, <2>2, <3>1 DEF RowDue, Local, Running, Active
    <2>3. CASE s # worker[w].source
      <3>1. row'[j][s] = row[j][s]
        BY <2>3 DEF OnlyRow
      <3>2. Pending(j, s) => Pending(j, s)'
        BY <1>1, <1>2, <1>3, <2>3 DEF Pending, Stays, JobInv, Manned, Running
      <3>3. row[j][s].status \notin Running
        BY <1>1, <2>1, <2>3 DEF RowDue
      <3> QED
        BY <2>1, <3>1, <3>2, <3>3 DEF RowDue, Local
    <2> QED
      BY <2>2, <2>3
  <1>7. Engaged(j, w)'
    <2>1. \A t \in worker[w].todo : t[1] \in Sources
      BY DEF TypeInv, WorkersType, WorkerRows
    <2>2. \A t \in worker[w].todo : row'[j][t[1]] = row[j][t[1]]
      BY <1>1, <2>1 DEF Engaged, OnlyRow
    <2>3. \A t \in worker'[w].todo : row'[j][t[1]].status = "QUEUED" /\ t[1] # worker'[w].source
      BY <1>1, <2>2 DEF Engaged, Stays
    <2>4. \A v \in Workers : worker'[v].source = worker'[w].source /\ worker'[v].source # 0 => v = w
      BY <1>1 DEF Engaged, Stays, Local, Alone
    <2> QED
      BY <1>1, <1>2, <2>3, <2>4 DEF Engaged, Stays
  <1>8. Noted(j)'
    <2>1. row[j][worker[w].source].status \in Active
      BY <1>0, OnlyTask DEF AtRow, Running, Active, Stays
    <2>2. \A s \in Sources : row'[j][s].status \in Active => row[j][s].status \in Active
      BY <2>1 DEF OnlyRow
    <2> QED
      BY <1>1, <2>2, NotedKept DEF JobInv, Local
  <1> QED
    BY <1>2, <1>5, <1>6, <1>7, <1>8 DEF JobInv

----------------------------------------------------------------------------
(* The owner's requests, and the process dying *)

(* A request that changes no task.                                          *)
LEMMA RequestUntouched ==
  ASSUME TypeInv, NEW j \in Jobs, JobInv(j), UNCHANGED worker, row'[j] = row[j], job'[j] = job[j],
         job[j] = "QUEUED" => task'[j] > 0,
         Noted(j)',
         \A w \in InJob(j) : worker[w].source # 0 =>
             source'[worker[w].source].status = source[worker[w].source].status
  PROVE  JobInv(j)'
  <1>1. InJob(j)' = InJob(j)
    BY DEF InJob, Busy
  <1>2. Untouched(j)
    BY <1>1 DEF Untouched, JobInv, Engaged
  <1> QED
    BY <1>2, UntouchedKeeps

(* What JobInv says of the job that a request leaves alone.                 *)
LEMMA RequestFacts ==
  ASSUME TypeInv, NEW j \in Jobs, JobInv(j)
  PROVE  /\ job[j] = "QUEUED" => task[j] > 0
         /\ \A w \in InJob(j) : worker[w].source # 0 => worker[w].source \in Sources
  BY DEF JobInv, Manned, TypeInv, WorkersType, WorkerRows, InJob

(* What a request does to the deleted sources of a job.                     *)
LEMMA RequestNoted ==
  ASSUME TypeInv, NEW j \in Jobs, Noted(j), Request
  PROVE  Noted(j)'
  <1>1. CASE \E i \in Jobs, batch \in Batches : BeginCreate(i, batch)
    BY <1>1 DEF BeginCreate, Noted, TypeInv, RequestsType
  <1>2. CASE \E i \in Jobs : CommitCreate(i)
    <2> PICK i \in Jobs : CommitCreate(i)
      BY <1>2
    <2>1. CASE i # j
      BY <2>1 DEF CommitCreate, Noted, TypeInv, RequestsType, RowsType
    <2>2. CASE i = j
      <3>1. \A s \in Sources : row'[j][s].status \in Active => s \in creating[j]
        <4>1. row'[j] = [s \in Sources |-> IF s \in creating[j] THEN [NoRow EXCEPT !.status = "QUEUED"]
                                                                 ELSE NoRow]
          BY <2>2 DEF CommitCreate, TypeInv, RowsType
        <4> QED
          BY <4>1 DEF NoRow, Active
      <3>2. /\ creating[j] \cap deleting = {} /\ creating'[j] = {}
            /\ UNCHANGED <<source, retrying, deleting, crossed>>
        BY <2>2 DEF CommitCreate, TypeInv, RequestsType
      <3> QED
        BY <3>1, <3>2 DEF Noted
    <2> QED
      BY <2>1, <2>2
  <1>3. CASE \E i \in Jobs : ReplayCreate(i)
    BY <1>3 DEF ReplayCreate, Noted
  <1>4. CASE \E i \in Jobs : CommitRetry(i)
    <2> PICK i \in Jobs : CommitRetry(i)
      BY <1>4
    <2>1. /\ UNCHANGED <<source, creating, deleting>> /\ crossed \subseteq crossed'
          /\ retrying'[j] \subseteq retrying[j]
      BY DEF CommitRetry, TypeInv, RequestsType
    <2>2. ASSUME NEW s \in Sources, row'[j][s].status \in Active, row[j][s].status \notin Active
          PROVE  i = j /\ s \in retrying[i]
      BY <2>2 DEF CommitRetry, Requeue, TypeInv, RowsType
    <2>3. \A s \in retrying[i] : s \in deleting => <<i, s>> \in crossed'
      BY DEF CommitRetry
    <2> QED
      BY <2>1, <2>2, <2>3 DEF Noted
  <1>5. CASE \E i \in Jobs : AbortRetry(i)
    BY <1>5 DEF AbortRetry, Noted, TypeInv, RequestsType
  <1>6. CASE \E i \in Jobs, b \in BOOLEAN : BeginRetry(i, b)
    <2> PICK i \in Jobs, b \in BOOLEAN : BeginRetry(i, b)
      BY <1>6
    <2>1. /\ UNCHANGED <<source, row, creating, deleting, crossed>>
          /\ \A s \in retrying'[j] : s \in retrying[j] \/ ~source[s].deleted
      BY DEF BeginRetry, Retryable, TypeInv, RequestsType
    <2> QED
      BY <2>1 DEF Noted
  <1>7. CASE \E i \in Jobs, s \in Sources : extract_source_anyway(i, s)
    <2> PICK i \in Jobs, s \in Sources : extract_source_anyway(i, s)
      BY <1>7
    <2>1. /\ UNCHANGED openings /\ ~source[s].deleted /\ s \notin deleting
          /\ \A u \in Sources : source'[u].deleted = source[u].deleted
      BY DEF extract_source_anyway, openings, TypeInv, SourcesType, SourceRows
    <2>2. \A u \in Sources : u = s \/ row'[j][u] = row[j][u]
      BY DEF extract_source_anyway, Requeue, TypeInv, RowsType
    <2> QED
      BY <2>1, <2>2 DEF Noted, openings
  <1>8. CASE \E s \in Sources : BeginDelete(s)
    <2> PICK s \in Sources : BeginDelete(s)
      BY <1>8
    <2>1. row[j][s].status \notin Active /\ UNCHANGED <<source, row, creating, retrying, crossed>>
          /\ deleting' = deleting \cup {s}
      BY DEF BeginDelete, source_in_progress
    <2> QED
      BY <2>1 DEF Noted
  <1>9. CASE \E s \in Sources : CommitDelete(s)
    <2> PICK s \in Sources : CommitDelete(s)
      BY <1>9
    <2>1. /\ UNCHANGED <<row, creating, retrying>> /\ s \in deleting /\ deleting' = deleting \ {s}
          /\ crossed \subseteq crossed' /\ (s \in creating[j] \cup retrying[j] => <<j, s>> \in crossed')
          /\ \A u \in Sources : u # s => source'[u] = source[u]
      BY DEF CommitDelete, TypeInv, SourcesType
    <2> QED
      BY <2>1 DEF Noted
  <1>10. CASE \E s \in Sources : BeginProcess(s) \/ CommitProcess(s)
    <2> PICK s \in Sources : BeginProcess(s) \/ CommitProcess(s)
      BY <1>10
    <2>1. UNCHANGED <<row, openings>>
      BY DEF BeginProcess, CommitProcess, openings
    <2>2. \A u \in Sources : source'[u].deleted = source[u].deleted
      BY DEF BeginProcess, CommitProcess, SetStatus, TypeInv, SourcesType, SourceRows
    <2> QED
      BY <2>1, <2>2, NotedKept
  <1> QED
    BY <1>1, <1>2, <1>3, <1>4, <1>5, <1>6, <1>7, <1>8, <1>9, <1>10 DEF Request

LEMMA CreateSettled ==
  ASSUME TypeInv, OnceInv, Settled, Request, NEW i \in Jobs, NEW batch,
         BeginCreate(i, batch) \/ CommitCreate(i) \/ ReplayCreate(i)
  PROVE  Settled'
  <1>1. UNCHANGED <<worker, source, disturbed>>
    BY DEF BeginCreate, CommitCreate, ReplayCreate
  <1>2. Sited'
    BY <1>1 DEF Settled, Sited
  <1>3. ASSUME NEW j \in Jobs \ disturbed PROVE JobInv(j)'
    <2>1. JobInv(j) /\ j \in Jobs /\ Noted(j)'
      BY RequestNoted DEF Settled, JobInv
    <2>2. CASE BeginCreate(i, batch)
      BY <1>1, <2>1, <2>2, RequestFacts, RequestUntouched DEF BeginCreate
    <2>3. CASE ReplayCreate(i)
      <3>1. job[j] = "QUEUED" => task'[j] > 0
        BY <2>1, <2>3, RequestFacts DEF ReplayCreate, TypeInv, RequestsType
      <3> QED
        BY <1>1, <2>1, <2>3, <3>1, RequestFacts, RequestUntouched DEF ReplayCreate
    <2>4. CASE CommitCreate(i) /\ i # j
      <3>1. row'[j] = row[j] /\ job'[j] = job[j] /\ task'[j] = task[j]
        BY <2>4 DEF CommitCreate, TypeInv, RowsType, JobsType, RequestsType
      <3> QED
        BY <1>1, <2>1, <3>1, RequestFacts, RequestUntouched
    <2>5. CASE CommitCreate(i) /\ i = j
      <3>1. job[j] = "none"
        BY <2>5 DEF CommitCreate, OnceInv, Created
      <3>2. InJob(j) = {} /\ InJob(j)' = {}
        BY <1>1, <2>1, <3>1 DEF JobInv, Manned, Running, InJob, Busy
      <3>3. job'[j] = "QUEUED" /\ task'[j] > 0 /\ creating'[j] = {}
        BY <2>5 DEF CommitCreate, TypeInv, JobsType, RequestsType
      <3>4. ASSUME NEW s \in Sources
            PROVE  /\ \/ row'[j][s].status = "QUEUED" /\ s \in creating[j]
                      \/ row'[j][s].status = "none"
                   /\ Emptied(row'[j][s].recovery)
        <4>1. row'[j] = [r \in Sources |-> IF r \in creating[j] THEN [NoRow EXCEPT !.status = "QUEUED"]
                                                                ELSE NoRow]
          BY <2>5 DEF CommitCreate, TypeInv, RowsType
        <4> QED
          BY <4>1 DEF NoRow, NoRecovery, Emptied
      <3>5. Manned(j)'
        BY <3>2, <3>3 DEF Manned, Running
      <3>6. \A s \in Sources : RowDue(j, s)'
        BY <1>1, <2>1, <3>3, <3>4, RequestFacts DEF RowDue, Pending, Active, Running
      <3> QED
        BY <2>1, <3>2, <3>5, <3>6 DEF JobInv
    <2> QED
      BY <2>2, <2>3, <2>4, <2>5
  <1> QED
    BY <1>1, <1>2, <1>3 DEF Settled

(* Requeueing a job that is disturbed when a task is in it.                 *)
LEMMA RequeueSettled ==
  ASSUME TypeInv, Settled, Request, NEW i \in Jobs, NEW rows \in SUBSET Sources,
         Requeue(i, rows), UNCHANGED worker,
         \A s \in Sources : source'[s].status = source[s].status
  PROVE  Settled'
  <1>1. Sited'
    BY DEF Settled, Sited
  <1>2. ASSUME NEW j \in Jobs \ disturbed' PROVE JobInv(j)'
    <2>1. JobInv(j) /\ j \in Jobs \ disturbed /\ Noted(j)'
      BY RequestNoted DEF Settled, JobInv, Requeue, Disturb
    <2>2. CASE i # j
      <3>1. row'[j] = row[j] /\ job'[j] = job[j] /\ task'[j] = task[j]
        BY <2>2 DEF Requeue, TypeInv, RowsType, JobsType, RequestsType
      <3> QED
        BY <2>1, <3>1, RequestFacts, RequestUntouched
    <2>3. CASE i = j
      <3>1. InJob(j) = {}
        <4>1. {worker[w].job : w \in InJob(j)} \ {NoJob} \subseteq disturbed'
          BY <2>3 DEF Requeue, Disturb
        <4>2. \A w \in InJob(j) : worker[w].job = j /\ j # NoJob
          BY ZeroIsNoSource DEF InJob
        <4> QED
          BY <4>1, <4>2
      <3>2. InJob(j)' = {}
        BY <3>1 DEF InJob, Busy
      <3>3. job'[j] = "QUEUED" /\ task'[j] > 0
        BY <2>3 DEF Requeue, TypeInv, JobsType, RequestsType
      <3>4. ASSUME NEW s \in Sources
            PROVE  \/ /\ s \in rows /\ row'[j][s].status = "QUEUED"
                      /\ Emptied(row[j][s].recovery) => Emptied(row'[j][s].recovery)
                   \/ row'[j][s] = row[j][s]
        <4>1. row'[j] = [r \in Sources |-> IF r \in rows THEN ResetRow(row[j][r]) ELSE row[j][r]]
          BY <2>3 DEF Requeue, TypeInv, RowsType
        <4>2. s \in rows => /\ ResetRow(row[j][s]).status = "QUEUED"
                            /\ \/ ResetRow(row[j][s]).recovery = row[j][s].recovery
                               \/ ResetRow(row[j][s]).recovery = NoRecovery
          BY <2>3, IdleType DEF ResetRow, TypeInv, RowsType, RowRows, NoRow
        <4>3. Emptied(NoRecovery)
          BY DEF Emptied, NoRecovery
        <4> QED
          BY <4>1, <4>2, <4>3
      <3>5. Manned(j)'
        BY <2>1, <3>2, <3>3, RequestFacts DEF Manned, Running
      <3>6. ASSUME NEW s \in Sources PROVE RowDue(j, s)'
        <4>1. RowDue(j, s)
          BY <2>1 DEF JobInv
        <4> QED
          BY <2>3, <3>1, <3>3, <3>4, <4>1 DEF RowDue, Pending, Active, Running
      <3> QED
        BY <2>1, <3>2, <3>5, <3>6 DEF JobInv
    <2> QED
      BY <2>2, <2>3
  <1> QED
    BY <1>1, <1>2 DEF Settled

LEMMA OwnerSettled ==
  ASSUME TypeInv, Settled, Request, NEW s \in Sources,
         BeginDelete(s) \/ CommitDelete(s) \/ BeginProcess(s) \/ CommitProcess(s)
  PROVE  Settled'
  <1>1. UNCHANGED <<worker, row, job, task>>
    BY DEF BeginDelete, CommitDelete, BeginProcess, CommitProcess
  <1>2. Sited'
    BY <1>1 DEF Settled, Sited
  <1>3. ASSUME NEW j \in Jobs \ disturbed' PROVE JobInv(j)'
    <2>1. JobInv(j) /\ j \in Jobs \ disturbed /\ Noted(j)'
      BY RequestNoted
      DEF Settled, JobInv, BeginDelete, CommitDelete, BeginProcess, CommitProcess, Disturb
    <2>2. CASE BeginDelete(s) \/ CommitDelete(s) \/ BeginProcess(s)
      <3>1. \A t \in Sources : source'[t].status = source[t].status
        BY <2>2 DEF BeginDelete, CommitDelete, BeginProcess, TypeInv, SourcesType, SourceRows
      <3> QED
        BY <1>1, <2>1, <3>1, RequestFacts, RequestUntouched
    <2>3. CASE CommitProcess(s)
      <3>1. \A t \in Sources : t # s => source'[t] = source[t]
        BY <2>3 DEF CommitProcess, SetStatus, TypeInv, SourcesType
      <3>2. \A w \in InJob(j) : worker[w].source # s
        <4>1. {worker[w].job : w \in OnSource(s)} \ {NoJob} \subseteq disturbed'
          BY <2>3 DEF CommitProcess, Disturb
        <4> QED
          BY <4>1, ZeroIsNoSource DEF InJob, OnSource
      <3> QED
        BY <1>1, <2>1, <3>1, <3>2, RequestFacts, RequestUntouched
    <2> QED
      BY <2>2, <2>3
  <1> QED
    BY <1>2, <1>3 DEF Settled

(* A retry that is open, or ends without effect, changes no job.            *)
LEMMA RetrySettled ==
  ASSUME TypeInv, Settled, Request, NEW i \in Jobs, NEW include_no_result,
         BeginRetry(i, include_no_result) \/ AbortRetry(i)
  PROVE  Settled'
  <1>1. UNCHANGED <<worker, source, row, job, task, disturbed>>
    BY DEF BeginRetry, AbortRetry
  <1>2. ASSUME NEW j \in Jobs \ disturbed PROVE JobInv(j)'
    <2>1. JobInv(j) /\ Noted(j)'
      BY RequestNoted DEF Settled, JobInv
    <2> QED
      BY <1>1, <2>1, RequestFacts, RequestUntouched
  <1> QED
    BY <1>1, <1>2 DEF Settled, Sited

LEMMA RequestSettled ==
  ASSUME TypeInv, OnceInv, Settled, Request
  PROVE  Settled'
  <1>1. CASE \E j \in Jobs, batch \in Batches : BeginCreate(j, batch)
    BY <1>1, CreateSettled
  <1>2. CASE \E j \in Jobs : CommitCreate(j) \/ ReplayCreate(j)
    BY <1>2, CreateSettled
  <1>3. CASE \/ \E j \in Jobs, b \in BOOLEAN : BeginRetry(j, b)
             \/ \E j \in Jobs : AbortRetry(j)
    BY <1>3, RetrySettled
  <1>4. CASE \E j \in Jobs : CommitRetry(j)
    <2> PICK j \in Jobs : CommitRetry(j)
      BY <1>4
    <2>1. Requeue(j, retrying[j]) /\ UNCHANGED <<source, worker>> /\ retrying[j] \in SUBSET Sources
      BY DEF CommitRetry, TypeInv, RequestsType
    <2> QED
      BY <2>1, RequeueSettled
  <1>5. CASE \E j \in Jobs, s \in Sources : extract_source_anyway(j, s)
    <2> PICK j \in Jobs, s \in Sources : extract_source_anyway(j, s)
      BY <1>5
    <2>1. \A t \in Sources : source'[t].status = source[t].status
      BY DEF extract_source_anyway, TypeInv, SourcesType, SourceRows
    <2>2. {s} \in SUBSET Sources /\ Requeue(j, {s}) /\ UNCHANGED worker
      BY DEF extract_source_anyway
    <2> QED
      BY <2>1, <2>2, RequeueSettled
  <1>6. CASE \E s \in Sources :
               BeginDelete(s) \/ CommitDelete(s) \/ BeginProcess(s) \/ CommitProcess(s)
    BY <1>6, OwnerSettled
  <1> QED
    BY <1>1, <1>2, <1>3, <1>4, <1>5, <1>6 DEF Request

LEMMA CrashSettled ==
  ASSUME TypeInv, Settled, Crash
  PROVE  Settled'
  <1>1. \A w \in Workers : worker'[w].pc = "idle" /\ worker'[w].source = 0
    BY DEF Crash, Idle
  <1>2. \A j \in Jobs : InJob(j)' = {} /\ creating'[j] = {}
    BY <1>1 DEF InJob, Busy, Crash
  <1>3. ASSUME NEW j \in Jobs \ disturbed' PROVE JobInv(j)'
    <2>1. JobInv(j) /\ j \in Jobs \ disturbed /\ ~(task[j] > 0) /\ InJob(j) = {}
      BY ZeroIsNoSource DEF Settled, Crash, Disturb
    <2>2. UNCHANGED <<row, job, source>>
      BY DEF Crash
    <2>3. Manned(j)'
      BY <1>2, <2>1, <2>2 DEF JobInv, Manned
    <2>4. \A s \in Sources : RowDue(j, s)'
      BY <2>1, <2>2 DEF JobInv, Manned, RowDue, Pending, Active, Running
    <2>5. Noted(j)'
      BY <2>1 DEF JobInv, Noted, Crash
    <2> QED
      BY <1>2, <2>3, <2>4, <2>5 DEF JobInv
  <1> QED
    BY <1>1, <1>3 DEF Settled, Sited

----------------------------------------------------------------------------
(* The tasks *)

(* What one statement of a task does to the task.                           *)
Moved(w, pc) == /\ Alone(w) /\ worker'[w].pc = pc /\ worker'[w].job = worker[w].job
                /\ worker'[w].todo = worker[w].todo /\ worker'[w].source = worker[w].source
                /\ worker'[w].previous = worker[w].previous
                /\ worker'[w].outcome = worker[w].outcome
Gone(w) == Alone(w) /\ worker'[w].pc = "idle" /\ worker'[w].source = 0
Ended(w, outcome) ==
    IF OfJob(w) THEN /\ Alone(w) /\ worker'[w].pc = "record" /\ worker'[w].job = worker[w].job
                     /\ worker'[w].todo = worker[w].todo /\ worker'[w].source = worker[w].source
                     /\ worker'[w].outcome = outcome
                ELSE Gone(w)
OnlySource(w) == \A s \in Sources : /\ source'[s].deleted = source[s].deleted
                                    /\ s # worker[w].source => source'[s] = source[s]

LEMMA StepMoved ==
  ASSUME TypeInv, NEW w \in Workers, NEW pc, Step(w, pc)
  PROVE  Moved(w, pc)
  BY DEF Step, Moved, Alone, TypeInv, WorkersType, WorkerRows

LEMMA ReturnGone ==
  ASSUME TypeInv, NEW w \in Workers, Return(w)
  PROVE  Gone(w)
  BY DEF Return, Gone, Alone, Idle, TypeInv, WorkersType

LEMMA EndSourceEnded ==
  ASSUME TypeInv, NEW w \in Workers, NEW outcome, EndSource(w, outcome)
  PROVE  Ended(w, outcome)
  <1>1. worker[w] \in WorkerRows
    BY DEF TypeInv, WorkersType
  <1>2. CASE OfJob(w)
    BY <1>1, <1>2 DEF EndSource, Ended, Alone, TypeInv, WorkersType, WorkerRows
  <1>3. CASE ~OfJob(w)
    BY <1>3, ReturnGone DEF EndSource, Ended, Return
  <1> QED
    BY <1>2, <1>3

LEMMA SetStatusOnly ==
  ASSUME TypeInv, NEW w \in Workers, NEW status, worker[w].source \in Sources,
         SetStatus(worker[w].source, status)
  PROVE  OnlySource(w) /\ source'[worker[w].source].status = status
  BY DEF SetStatus, OnlySource, TypeInv, SourcesType, SourceRows

LEMMA SameSource ==
  ASSUME UNCHANGED source, NEW w \in Workers
  PROVE  OnlySource(w)
  BY DEF OnlySource

(* Where a task is: at a source, in a job.                                  *)
LEMMA Places ==
  ASSUME TypeInv, NEW w \in Workers
  PROVE  /\ worker[w] \in WorkerRows
         /\ worker[w].pc \in AtSource => worker[w].source \in Sources
         /\ worker[w].pc \in AtJob => worker[w].job \in Jobs
         /\ OfJob(w) <=> worker[w].job \in Jobs
         /\ \A t \in worker[w].todo : t[1] \in Sources
  BY ZeroIsNoSource DEF TypeInv, WorkersType, Placed, WorkerRows, OfJob

(* A statement within a source, of a task with or without a job.            *)
LEMMA WithinSource ==
  ASSUME TypeInv, Settled, NEW w \in Workers, worker[w].pc \in AtSource,
         Local(w), OnlyRow(w),
         IF OfJob(w) THEN Stays(w) ELSE Stays(w) \/ Gone(w),
         \A j \in Jobs \ disturbed' : worker[w].job = j /\ AtRow(j, w)
                                     => job'[j] \in Running /\ AtRow(j, w)'
  PROVE  Settled'
  <1>1. Busy(w)
    BY DEF Busy, AtSource
  <1>2. worker'[w].pc \notin AtSource => worker'[w].source = 0
    BY DEF Stays, Gone
  <1>3. ASSUME NEW j \in Jobs \ disturbed', worker[w].job = j PROVE JobInv(j)'
    <2>1. j \in Jobs \ disturbed /\ Stays(w)
      BY <1>3, Places DEF Local
    <2>2. AtRow(j, w)
      BY <1>1, <1>3, <2>1, OnlyTask
    <2> QED
      BY <1>3, <2>1, <2>2, StaysKeeps
  <1> QED
    BY <1>1, <1>2, <1>3, LocalSettled

LEMMA LoadSettled ==
  ASSUME TypeInv, Settled, NEW w \in Workers, LoadRecovery(w)
  PROVE  Settled'
  <1> DEFINE pc == IF Recovery(w).phase = "COMMITTED" /\ ~Recovery(w).lost THEN "redo" ELSE "start"
             r == [worker[w] EXCEPT !.previous = Recovery(w), !.pc = pc]
  <1>1. worker[w] \in WorkerRows /\ worker[w].pc = "load" /\ worker[w].job \in Jobs
    BY Places DEF LoadRecovery, AtJob
  <1>2. worker' = [worker EXCEPT ![w] = r]
    BY DEF LoadRecovery, TypeInv, WorkersType
  <1>3. /\ r.pc = pc /\ r.previous = Recovery(w) /\ r.job = worker[w].job
        /\ r.todo = worker[w].todo /\ r.source = worker[w].source
    BY <1>1 DEF WorkerRows
  <1> HIDE DEF r
  <1>4. worker'[w] = r /\ Alone(w)
    BY <1>2 DEF Alone, TypeInv, WorkersType
  <1>5. Local(w) /\ OnlyRow(w) /\ Stays(w)
    BY <1>1, <1>3, <1>4 DEF LoadRecovery, TaskFrame, RequestsFrame, requestVars, openings, Local, OnlyRow, Stays, AtSource
  <1>6. ASSUME NEW j \in Jobs, worker[w].job = j, AtRow(j, w) PROVE AtRow(j, w)'
    <2>1. UNCHANGED <<row, source>> /\ Recovery(w) = row[j][worker[w].source].recovery
      BY <1>6 DEF LoadRecovery, Recovery
    <2>2. pc \in {"redo", "start"}
          /\ (pc = "redo" => Recovery(w).phase = "COMMITTED" /\ ~Recovery(w).lost)
      OBVIOUS
    <2> HIDE DEF pc
    <2> QED
      BY <1>3, <1>4, <1>6, <2>1, <2>2 DEF AtRow, Comparing
  <1>7. \A j \in Jobs \ disturbed : worker[w].job = j => job[j] \in Running
    BY <1>1, OnlyTask DEF Busy
  <1> QED
    BY <1>1, <1>5, <1>6, <1>7, WithinSource DEF AtSource, LoadRecovery

(* The job of a task that is not disturbed is running.                      *)
LEMMA JobRuns ==
  ASSUME TypeInv, Settled, NEW w \in Workers, Busy(w), NEW j \in Jobs \ disturbed,
         worker[w].job = j
  PROVE  job[j] \in Running
  BY OnlyTask

LEMMA StatusSettled ==
  ASSUME TypeInv, Settled, NEW w \in Workers,
         RedoDone(w) \/ StartSource(w) \/ CheckLayout(w) \/ RaiseInSource(w) \/ MarkFailed(w)
  PROVE  Settled'
  <1>1. /\ worker[w].pc \in {"load", "redo", "start", "classify", "intake", "layout", "extract",
                             "commit", "fail"}
        /\ worker[w].pc \in AtSource /\ Busy(w)
    BY DEF RedoDone, StartSource, CheckLayout, RaiseInSource, MarkFailed, AtSource, Busy
  <1>2. worker[w].source \in Sources /\ worker[w] \in WorkerRows
    BY <1>1, Places
  <1>3. UNCHANGED <<job, row, openings, task>> /\ disturbed \subseteq disturbed' /\ OnlyRow(w)
    BY DEF RedoDone, StartSource, CheckLayout, RaiseInSource, MarkFailed, TaskFrame, RequestsFrame, requestVars, openings,
           Disturb, OnlyRow
  <1>4. OnlySource(w)
    BY <1>2, SetStatusOnly, SameSource DEF RedoDone, StartSource, CheckLayout, RaiseInSource, MarkFailed
  <1>5. \A j \in Jobs \ disturbed' : worker[w].job = j => job'[j] \in Running
    BY <1>1, <1>3, JobRuns
  <1>6. CASE RedoDone(w)
    <2>1. Ended(w, "none") /\ worker[w].pc = "redo"
      BY <1>6, EndSourceEnded DEF RedoDone
    <2>2. ASSUME NEW j \in Jobs, worker[w].job = j, AtRow(j, w) PROVE AtRow(j, w)'
      BY <1>3, <2>1, <2>2, Places DEF Ended, AtRow, Comparing
    <2>3. Local(w) /\ (IF OfJob(w) THEN Stays(w) ELSE Stays(w) \/ Gone(w))
      BY <1>1, <1>3, <1>4, <2>1 DEF Local, Ended, Gone, Stays, OnlySource, AtSource, Busy
    <2> QED
      BY <1>1, <1>3, <1>5, <2>2, <2>3, WithinSource
  <1>7. CASE StartSource(w)
    <2> DEFINE pc == IF OfJob(w) THEN "classify" ELSE "intake"
    <2>1. Moved(w, pc) /\ worker[w].pc = "start"
      BY <1>7, StepMoved DEF StartSource
    <2>2. ASSUME NEW j \in Jobs, worker[w].job = j, AtRow(j, w) PROVE AtRow(j, w)'
      BY <1>3, <2>1, <2>2, Places DEF Moved, AtRow, Comparing
    <2>3. Local(w) /\ Stays(w)
      BY <1>1, <1>3, <1>4, <2>1 DEF Local, Moved, Stays, OnlySource, AtSource
    <2> QED
      BY <1>1, <1>3, <1>5, <2>2, <2>3, WithinSource
  <1>8. CASE RaiseInSource(w)
    <2>1. Moved(w, "fail")
      BY <1>8, StepMoved DEF RaiseInSource
    <2>2. ASSUME NEW j \in Jobs, worker[w].job = j, AtRow(j, w) PROVE AtRow(j, w)'
      BY <1>3, <2>1, <2>2 DEF Moved, AtRow, Comparing
    <2>3. Local(w) /\ Stays(w)
      BY <1>1, <1>3, <1>4, <2>1 DEF Local, Moved, Stays, OnlySource, AtSource
    <2> QED
      BY <1>1, <1>3, <1>5, <2>2, <2>3, WithinSource
  <1>9. CASE MarkFailed(w)
    <2>1. Ended(w, "none")
      BY <1>9, EndSourceEnded DEF MarkFailed
    <2>2. \/ source'[worker[w].source].status = "FAILED"
          \/ worker[w].job \in Jobs => worker[w].job \in disturbed'
      <3>1. CASE SetStatus(worker[w].source, "FAILED")
        BY <1>2, <3>1, SetStatusOnly
      <3>2. CASE Disturb({worker[w].job})
        BY <3>2, ZeroIsNoSource DEF Disturb
      <3> QED
        BY <1>9, <3>1, <3>2 DEF MarkFailed
    <2>3. ASSUME NEW j \in Jobs \ disturbed', worker[w].job = j, AtRow(j, w) PROVE AtRow(j, w)'
      BY <1>3, <2>1, <2>2, <2>3, Places DEF Ended, AtRow, Comparing
    <2>4. Local(w) /\ (IF OfJob(w) THEN Stays(w) ELSE Stays(w) \/ Gone(w))
      BY <1>1, <1>3, <1>4, <2>1 DEF Local, Ended, Gone, Stays, OnlySource, AtSource, Busy
    <2> QED
      BY <1>1, <1>3, <1>5, <2>3, <2>4, WithinSource
  <1>10. CASE CheckLayout(w)
    <2> DEFINE lost == worker[w].previous.lost
               r == [worker[w] EXCEPT !.pc = "commit", !.lost = lost]
    <2>1. worker[w].pc = "layout"
      BY <1>10 DEF CheckLayout
    <2>2. \/ EndSource(w, "PARTIAL_RETRY_UNAVAILABLE")
          \/ Step(w, "extract")
          \/ worker' = [worker EXCEPT ![w] = r]
      BY <1>10 DEF CheckLayout, TypeInv, WorkersType
    <2>3. worker' = [worker EXCEPT ![w] = r] => Moved(w, "commit")
      <3>1. /\ r.pc = "commit" /\ r.previous = worker[w].previous /\ r.job = worker[w].job
            /\ r.todo = worker[w].todo /\ r.source = worker[w].source
            /\ r.outcome = worker[w].outcome
        BY <1>2 DEF WorkerRows
      <3> HIDE DEF r
      <3> QED
        BY <3>1 DEF Moved, Alone, TypeInv, WorkersType
    <2>4. \/ Ended(w, "PARTIAL_RETRY_UNAVAILABLE")
          \/ \E pc \in {"extract", "commit"} : Moved(w, pc)
      BY <2>2, <2>3, EndSourceEnded, StepMoved
    <2> HIDE DEF r
    <2>5. ASSUME NEW j \in Jobs, worker[w].job = j, AtRow(j, w) PROVE AtRow(j, w)'
      BY <1>3, <2>1, <2>4, <2>5, Places DEF Ended, Moved, AtRow, Comparing
    <2>6. Local(w) /\ (IF OfJob(w) THEN Stays(w) ELSE Stays(w) \/ Gone(w))
      BY <1>1, <1>3, <1>4, <2>4 DEF Local, Ended, Moved, Gone, Stays, OnlySource, AtSource, Busy
    <2> QED
      BY <1>1, <1>3, <1>5, <2>5, <2>6, WithinSource
  <1> QED
    BY <1>6, <1>7, <1>8, <1>9, <1>10

LEMMA ClassifyingSettled ==
  ASSUME TypeInv, Settled, NEW w \in Workers, ShowClassifying(w)
  PROVE  Settled'
  <1> DEFINE i == worker[w].job
             s == worker[w].source
             y == [row[i][s] EXCEPT !.status = "CLASSIFYING"]
  <1>1. /\ i \in Jobs /\ s \in Sources /\ worker[w].pc = "classify" /\ Moved(w, "intake")
        /\ worker[w].pc \in AtSource
    BY Places, StepMoved DEF ShowClassifying, AtSource, AtJob
  <1>2. y.status = "CLASSIFYING" /\ y.recovery = row[i][s].recovery /\ y.lost = row[i][s].lost
    <2>1. row[i][s] \in RowRows
      BY <1>1 DEF TypeInv, RowsType
    <2> QED
      BY <2>1 DEF RowRows
  <1>3. row' = [row EXCEPT ![i][s] = y]
    BY DEF ShowClassifying
  <1> HIDE DEF y
  <1>4. row'[i][s] = y /\ OnlyRow(w)
    BY <1>1, <1>3 DEF OnlyRow, TypeInv, RowsType
  <1>5. /\ UNCHANGED <<source, openings, task, disturbed>> /\ job'[i] \in Running
        /\ \A k \in Jobs : k # i => row'[k] = row[k] /\ job'[k] = job[k]
    BY <1>1, <1>3 DEF ShowClassifying, TaskFrame, RequestsFrame, requestVars, openings, TypeInv, JobsType, RowsType, Running
  <1>6. Local(w) /\ Stays(w)
    BY <1>1, <1>5 DEF Local, Moved, Stays, AtSource
  <1>7. ASSUME NEW j \in Jobs, worker[w].job = j, AtRow(j, w) PROVE AtRow(j, w)'
    BY <1>1, <1>2, <1>4, <1>7 DEF AtRow, Moved, Comparing, Running
  <1> QED
    BY <1>1, <1>4, <1>5, <1>6, <1>7, WithinSource

LEMMA IntakeSettled ==
  ASSUME TypeInv, Settled, NEW w \in Workers, Intake(w)
  PROVE  Settled'
  <1> DEFINE i == worker[w].job
             s == worker[w].source
             y == [row[i][s] EXCEPT !.lost = FALSE]
  <1>1. /\ s \in Sources /\ worker[w].pc = "intake" /\ worker[w].pc \in AtSource /\ Busy(w)
        /\ UNCHANGED <<job, openings, task, disturbed>> /\ (OfJob(w) <=> i \in Jobs)
    BY Places DEF Intake, AtSource, TaskFrame, RequestsFrame, requestVars, openings, Busy
  <1>2. OnlySource(w)
    BY <1>1 DEF Intake, OnlySource, TypeInv, SourcesType, SourceRows
  <1>3. \/ Ended(w, "INTAKE_NONE")
        \/ Moved(w, "layout")
    BY EndSourceEnded, StepMoved DEF Intake
  <1>4. UNCHANGED row \/ (OfJob(w) /\ row' = [row EXCEPT ![i][s] = y])
    BY DEF Intake
  <1>5. OfJob(w) => y.status = row[i][s].status /\ y.recovery = row[i][s].recovery
    <2>1. OfJob(w) => row[i][s] \in RowRows
      BY <1>1 DEF TypeInv, RowsType
    <2> QED
      BY <2>1 DEF RowRows
  <1> HIDE DEF y
  <1>6. /\ OnlyRow(w) /\ (\A k \in Jobs : k # i => row'[k] = row[k])
        /\ OfJob(w) => /\ row'[i][s].status = row[i][s].status
                       /\ row'[i][s].recovery = row[i][s].recovery
    BY <1>1, <1>4, <1>5 DEF OnlyRow, TypeInv, RowsType
  <1>7. Local(w) /\ (IF OfJob(w) THEN Stays(w) ELSE Stays(w) \/ Gone(w))
    BY <1>1, <1>2, <1>3, <1>6 DEF Local, Ended, Moved, Gone, Stays, OnlySource, AtSource, Busy
  <1>8. ASSUME NEW j \in Jobs, worker[w].job = j, AtRow(j, w) PROVE AtRow(j, w)'
    BY <1>1, <1>3, <1>6, <1>8 DEF AtRow, Moved, Ended, Comparing
  <1>9. \A j \in Jobs \ disturbed' : worker[w].job = j => job'[j] \in Running
    BY <1>1, JobRuns
  <1> QED
    BY <1>1, <1>6, <1>7, <1>8, <1>9, WithinSource

(* A task that finds another recovery state leaves its job: the job was     *)
(* disturbed.                                                               *)
LEMMA ConflictSettled ==
  ASSUME TypeInv, Settled, NEW w \in Workers, GivesUp(w), Busy(w), worker[w].pc \in Comparing,
         UNCHANGED <<source, openings, task, disturbed>>,
         OfJob(w) /\ Same(w) => UNCHANGED job
  PROVE  Settled'
  <1>1. Gone(w) /\ worker[w].job \in Jobs /\ worker[w].pc \in AtSource
    BY ReturnGone, Places DEF GivesUp, Comparing, AtSource
  <1>2. Local(w)
    BY <1>1 DEF GivesUp, Gone, Local, Busy
  <1>3. ASSUME NEW j \in Jobs \ disturbed', worker[w].job = j PROVE FALSE
    <2>1. AtRow(j, w) /\ job[j] \in Running
      BY <1>1, <1>3, OnlyTask
    <2>2. Same(w)
      BY <1>3, <2>1 DEF AtRow, Same, Recovery
    <2>3. job'[j] = "FAILED"
      BY <1>1, <1>3 DEF GivesUp, TypeInv, JobsType
    <2> QED
      BY <2>1, <2>2, <2>3 DEF GivesUp, Running
  <1> QED
    BY <1>1, <1>2, <1>3, LocalSettled DEF Gone

LEMMA SaveSettled ==
  ASSUME TypeInv, Settled, NEW w \in Workers, SaveExtraction(w)
  PROVE  Settled'
  <1> DEFINE i == worker[w].job
             s == worker[w].source
  <1>1. /\ s \in Sources /\ worker[w].pc = "extract" /\ worker[w].pc \in AtSource /\ Busy(w)
        /\ UNCHANGED <<source, openings, task, disturbed>> /\ worker[w] \in WorkerRows
        /\ (OfJob(w) <=> i \in Jobs)
    BY Places DEF SaveExtraction, AtSource, TaskFrame, RequestsFrame, requestVars, openings, Busy, RecoveryConflict
  <1>2. OnlySource(w)
    BY <1>1, SameSource
  <1>3. CASE GivesUp(w)
    <2>1. OfJob(w) /\ Same(w) => UNCHANGED job
      BY DEF SaveExtraction
    <2> QED
      BY <1>1, <1>3, <2>1, ConflictSettled DEF Comparing
  <1>4. CASE \E lost \in BOOLEAN : GoesOn(w, lost)
    <2> PICK lost \in BOOLEAN : GoesOn(w, lost)
      BY <1>4
    <2> DEFINE r == [worker[w] EXCEPT !.pc = "commit", !.lost = lost]
    <2>1. /\ r.pc = "commit" /\ r.job = worker[w].job /\ r.todo = worker[w].todo
          /\ r.source = worker[w].source
      BY <1>1 DEF WorkerRows
    <2>2. worker' = [worker EXCEPT ![w] = r] /\ ~OfJob(w) /\ UNCHANGED <<job, row>>
      BY DEF GoesOn
    <2> HIDE DEF r
    <2>3. worker'[w] = r /\ Alone(w)
      BY <2>2 DEF Alone, TypeInv, WorkersType
    <2>4. Local(w) /\ Stays(w) /\ OnlyRow(w)
      BY <1>1, <1>2, <2>1, <2>2, <2>3 DEF Local, Stays, OnlyRow, AtSource
    <2> QED
      BY <1>1, <2>2, <2>4, WithinSource
  <1>5. CASE \E lost \in BOOLEAN, n \in Nat : Keeps(w, lost, n)
    <2>1. PICK lost \in BOOLEAN, n \in Nat : Keeps(w, lost, n)
      BY <1>5
    <2> DEFINE e == Extracted(w, lost)
               r == [worker[w] EXCEPT !.pc = "commit", !.lost = lost, !.previous = e]
               y == [row[i][s] EXCEPT !.recovery = e, !.extractions = n]
    <2>2. worker' = [worker EXCEPT ![w] = r] /\ row' = [row EXCEPT ![i][s] = y]
          /\ OfJob(w) /\ UNCHANGED job
      BY <2>1 DEF Keeps
    <2>e. Emptied(e)
      BY DEF Emptied, Extracted
    <2> HIDE DEF e
    <2>3. /\ r.pc = "commit" /\ r.job = worker[w].job /\ r.todo = worker[w].todo
          /\ r.source = worker[w].source /\ r.previous = e
      BY <1>1 DEF WorkerRows
    <2>4. y.status = row[i][s].status /\ y.recovery = e
      <3>1. row[i][s] \in RowRows
        BY <1>1, <2>2 DEF TypeInv, RowsType
      <3> QED
        BY <3>1 DEF RowRows
    <2> HIDE DEF r, y
    <2>5. worker'[w] = r /\ Alone(w)
      BY <2>2 DEF Alone, TypeInv, WorkersType
    <2>6. OnlyRow(w) /\ row'[i][s] = y /\ \A k \in Jobs : k # i => row'[k] = row[k]
      BY <1>1, <2>2 DEF OnlyRow, TypeInv, RowsType
    <2>7. Local(w) /\ Stays(w)
      BY <1>1, <1>2, <2>2, <2>3, <2>5, <2>6 DEF Local, Stays, AtSource
    <2>8. ASSUME NEW j \in Jobs, worker[w].job = j, AtRow(j, w) PROVE AtRow(j, w)'
      BY <2>e, <2>3, <2>4, <2>5, <2>6, <2>8 DEF AtRow
    <2>9. \A j \in Jobs \ disturbed' : worker[w].job = j => job'[j] \in Running
      BY <1>1, <2>2, JobRuns
    <2> QED
      BY <1>1, <2>2, <2>6, <2>7, <2>8, <2>9, WithinSource
  <1> QED
    BY <1>3, <1>4, <1>5, SaveEffect

LEMMA CommitSettled ==
  ASSUME TypeInv, Settled, NEW w \in Workers, Commit(w)
  PROVE  Settled'
  <1> DEFINE i == worker[w].job
             s == worker[w].source
             lost == worker[w].lost
             y == [row[i][s] EXCEPT !.lost = lost, !.recovery = Done(lost)]
  <1>1. /\ s \in Sources /\ worker[w].pc = "commit" /\ worker[w].pc \in AtSource /\ Busy(w)
        /\ UNCHANGED <<openings, task, disturbed>> /\ worker[w] \in WorkerRows
        /\ (OfJob(w) <=> i \in Jobs)
    BY Places, CommitEffect DEF AtSource, TaskFrame, RequestsFrame, requestVars, openings, Busy
  <1>2. OnlySource(w)
    <2>1. CASE UNCHANGED source
      BY <2>1, SameSource
    <2>2. ASSUME NEW cards \in BOOLEAN, source' = [source EXCEPT ![s].status = "DONE",
                                                                 ![s].cards = @ \/ cards]
          PROVE  OnlySource(w)
      <3> DEFINE has == source[s].cards \/ cards
                 r == [source[s] EXCEPT !.status = "DONE", !.cards = has]
      <3>1. source' = [source EXCEPT ![s] = r]
        BY <1>1, <2>2 DEF TypeInv, SourcesType
      <3>2. source[s] \in SourceRows
        BY <1>1 DEF TypeInv, SourcesType
      <3> HIDE DEF has
      <3>3. r.deleted = source[s].deleted
        BY <3>2 DEF SourceRows
      <3> HIDE DEF r
      <3> QED
        BY <1>1, <3>1, <3>3 DEF OnlySource, TypeInv, SourcesType
    <2> QED
      BY <2>1, <2>2 DEF Commit, RecoveryConflict
  <1>3. CASE GivesUp(w) /\ UNCHANGED <<source, committed>>
    <2>1. OfJob(w) /\ Same(w) => UNCHANGED job
      BY DEF Commit
    <2> QED
      BY <1>1, <1>3, <2>1, ConflictSettled DEF Comparing
  <1>4. CASE Step(w, "fail") /\ UNCHANGED <<source, job, row, committed>>
    <2>1. Moved(w, "fail")
      BY <1>4, StepMoved
    <2>2. Local(w) /\ Stays(w) /\ OnlyRow(w)
      BY <1>1, <1>2, <1>4, <2>1 DEF Local, Moved, Stays, OnlyRow, OnlySource, AtSource
    <2>3. ASSUME NEW j \in Jobs, worker[w].job = j, AtRow(j, w) PROVE AtRow(j, w)'
      BY <1>4, <2>1, <2>3 DEF AtRow, Moved, Comparing
    <2>4. \A j \in Jobs \ disturbed' : worker[w].job = j => job'[j] \in Running
      BY <1>1, <1>4, JobRuns
    <2> QED
      BY <1>1, <2>2, <2>3, <2>4, WithinSource
  <1>5. CASE Commits(w)
    <2>1. UNCHANGED job /\ Ended(w, "none") /\ CommittedRow(w)
      BY <1>5, EndSourceEnded DEF Commits
    <2>2. CASE ~OfJob(w)
      <3>1. UNCHANGED row
        BY <2>1, <2>2 DEF CommittedRow
      <3>2. Local(w) /\ OnlyRow(w) /\ Gone(w)
        BY <1>1, <1>2, <2>1, <2>2, <3>1 DEF Local, Ended, Gone, OnlyRow, OnlySource, Busy
      <3> QED
        BY <1>1, <2>2, <3>2, WithinSource
    <2>3. CASE OfJob(w)
      <3>1. row' = [row EXCEPT ![i][s] = y]
        BY <2>1, <2>3 DEF CommittedRow
      <3>2. Done(lost).phase = "COMMITTED" /\ Done(lost).lost = lost /\ Emptied(Done(lost))
        BY DEF Done, NoRecovery, Emptied
      <3>3. y.status = row[i][s].status /\ y.recovery = Done(lost) /\ y.lost = lost
        <4>1. row[i][s] \in RowRows
          BY <1>1, <2>3 DEF TypeInv, RowsType
        <4> QED
          BY <4>1 DEF RowRows
      <3> HIDE DEF y
      <3>4. OnlyRow(w) /\ row'[i][s] = y /\ \A k \in Jobs : k # i => row'[k] = row[k]
        BY <1>1, <2>3, <3>1 DEF OnlyRow, TypeInv, RowsType
      <3>5. Local(w) /\ Stays(w)
        BY <1>1, <1>2, <2>1, <2>3, <3>4 DEF Local, Ended, Stays, OnlySource, AtSource
      <3>6. ASSUME NEW j \in Jobs, worker[w].job = j, AtRow(j, w) PROVE AtRow(j, w)'
        BY <2>1, <2>3, <3>2, <3>3, <3>4, <3>6 DEF AtRow, Ended, Comparing
      <3>7. \A j \in Jobs \ disturbed' : worker[w].job = j => job'[j] \in Running
        BY <1>1, <2>1, JobRuns
      <3> QED
        BY <1>1, <2>3, <3>4, <3>5, <3>6, <3>7, WithinSource
    <2> QED
      BY <2>2, <2>3
  <1> QED
    BY <1>3, <1>4, <1>5, CommitEffect

(* A task that goes on within an undisturbed job, leaving the rows alone    *)
(* but its own, which it has finished.                                      *)
Working(w) == /\ Alone(w) /\ worker'[w].job = worker[w].job /\ worker'[w].source = 0
              /\ worker'[w].pc \in {"next", "refresh"}

LEMMA WorkingKeeps ==
  ASSUME TypeInv, Settled, NEW w \in Workers, Busy(w), NEW j \in Jobs \ disturbed,
         worker[w].job = j, Local(w), Working(w), OnlyRow(w), job'[j] \in Running,
         \A s \in Sources : row[j][s].status \in Active =>
             s = worker[w].source \/ \E t \in worker'[w].todo : t[1] = s,
         \A s \in Sources : s = worker[w].source => RowDue(j, s)',
         \A t \in worker'[w].todo : /\ t[1] \in Sources /\ t[1] # worker[w].source
                                   /\ row[j][t[1]].status = "QUEUED",
         \A t, u \in worker'[w].todo : t[1] = u[1] => t = u,
         worker[w].source # 0 => worker[w].pc \in AtSource
  PROVE  JobInv(j)'
  <1>1. InJob(j) = {w} /\ Engaged(j, w) /\ JobInv(j)
    BY OnlyTask
  <1>2. InJob(j)' = {w}
    BY <1>1 DEF InJob, Busy, Working, Alone
  <1>3. Manned(j)'
    BY <1>1, <1>2 DEF Manned, Local, Running, JobInv, TypeInv, RequestsType
  <1>4. ASSUME NEW s \in Sources PROVE RowDue(j, s)'
    <2>1. RowDue(j, s)
      BY <1>1 DEF JobInv
    <2>2. CASE s = worker[w].source
      BY <2>2
    <2>3. CASE s # worker[w].source
      <3>1. row'[j][s] = row[j][s]
        BY <2>3 DEF OnlyRow
      <3>2. row[j][s].status \notin Running
        BY <1>1, <2>1, <2>3 DEF RowDue
      <3>3. row[j][s].status \in Active => Pending(j, s)'
        BY <1>2, <2>3 DEF Pending
      <3> QED
        BY <2>1, <3>1, <3>2, <3>3 DEF RowDue, Local
    <2> QED
      BY <2>2, <2>3
  <1>5. Engaged(j, w)'
    <2>1. worker'[w].pc \notin AtSource
      BY DEF Working, AtSource
    <2>2. \A t \in worker'[w].todo : row'[j][t[1]].status = "QUEUED" /\ t[1] # worker'[w].source
      BY ZeroIsNoSource DEF OnlyRow, Working
    <2> QED
      BY <1>2, <2>1, <2>2 DEF Engaged, Working
  <1>6. Noted(j)'
    <2>1. worker[w].source # 0 => row[j][worker[w].source].status \in Active
      BY OnlyTask DEF AtRow, Running, Active
    <2>2. \A s \in Sources : row'[j][s].status \in Active => row[j][s].status \in Active
      BY <2>1, ZeroIsNoSource DEF OnlyRow
    <2> QED
      BY <1>1, <2>2, NotedKept DEF JobInv, Local
  <1> QED
    BY <1>2, <1>3, <1>4, <1>5, <1>6 DEF JobInv

(* In a job whose task is between two rows, nothing else is unfinished.     *)
LEMMA BetweenRows ==
  ASSUME TypeInv, Settled, NEW w \in Workers, Busy(w), NEW j \in Jobs \ disturbed,
         worker[w].job = j, worker[w].pc # "select", NEW s \in Sources,
         row[j][s].status \in Active
  PROVE  s = worker[w].source \/ \E t \in worker[w].todo : t[1] = s
  <1>1. InJob(j) = {w} /\ JobInv(j) /\ job[j] \in Running
    BY OnlyTask
  <1> QED
    BY <1>1 DEF JobInv, RowDue, Pending, Running

LEMMA ClaimSettled ==
  ASSUME TypeInv, Settled, NEW w \in Workers, NEW i \in Jobs, ClaimJob(w, i)
  PROVE  Settled'
  <1> DEFINE r == [Idle EXCEPT !.pc = "select", !.job = i]
  <1>1. UNCHANGED <<source, row, openings, disturbed>> /\ ~Busy(w)
    BY DEF ClaimJob, RequestsFrame, requestVars, openings
  <1>2. worker[w].source = 0
    BY <1>1 DEF Settled, Sited, Busy, AtSource
  <1>3. \A j \in Jobs : j # i => task'[j] = task[j]
    BY DEF ClaimJob, TypeInv, RequestsType
  <1>4. CASE ~Claimable(i)
    <2>1. UNCHANGED <<job, worker>> /\ job[i] # "QUEUED"
      BY <1>4 DEF ClaimJob, Claimable
    <2>2. ASSUME NEW j \in Jobs \ disturbed PROVE JobInv(j)'
      <3>1. JobInv(j)
        BY DEF Settled
      <3>2. job[j] = "QUEUED" => task'[j] > 0
        BY <1>3, <2>1, <3>1, RequestFacts
      <3> QED
        BY <1>1, <2>1, <3>1, <3>2, RequestFacts, RequestUntouched, NotedKept DEF JobInv
    <2> QED
      BY <1>1, <2>1, <2>2 DEF Settled, Sited
  <1>5. CASE Claimable(i)
    <2>1. worker' = [worker EXCEPT ![w] = r] /\ job' = [job EXCEPT ![i] = "EXTRACTING"]
          /\ job[i] = "QUEUED"
      BY <1>5 DEF ClaimJob, Claimable
    <2>2. r.pc = "select" /\ r.job = i /\ r.source = 0 /\ r.todo = {}
      BY DEF Idle
    <2> HIDE DEF r
    <2>3. worker'[w] = r /\ Alone(w)
      BY <2>1 DEF Alone, TypeInv, WorkersType
    <2>4. Sited'
      BY <2>2, <2>3 DEF Alone, Settled, Sited
    <2>5. ASSUME NEW j \in Jobs \ disturbed PROVE JobInv(j)'
      <3>1. JobInv(j)
        BY DEF Settled
      <3>2. CASE j # i
        <4>1. InJob(j)' = InJob(j) /\ w \notin InJob(j)
          BY <1>1, <2>2, <2>3, <3>2 DEF Alone, InJob, Busy
        <4>2. \A v \in InJob(j) : worker'[v] = worker[v] /\ Engaged(j, v)
          <5>1. \A v \in InJob(j) : v \in Workers /\ v # w
            BY <4>1 DEF InJob
          <5> QED
            BY <2>3, <3>1, <5>1 DEF JobInv, Alone
        <4>3. ASSUME NEW v \in InJob(j), NEW u \in Workers, worker'[u].source = worker[v].source,
                     worker'[u].source # 0
              PROVE  u = v
          <5>1. u # w /\ worker'[u] = worker[u]
            BY <2>2, <2>3, <4>3 DEF Alone
          <5> QED
            BY <4>2, <4>3, <5>1 DEF Engaged
        <4>4. job'[j] = job[j] /\ row'[j] = row[j]
          BY <1>1, <2>1, <3>2 DEF TypeInv, JobsType
        <4>5. /\ job[j] = "QUEUED" => task'[j] > 0
              /\ Noted(j)'
          BY <1>1, <1>3, <3>1, <3>2, RequestFacts, NotedKept DEF JobInv
        <4>6. Untouched(j)
          BY <1>1, <4>1, <4>2, <4>3, <4>4, <4>5 DEF Untouched
        <4> QED
          BY <3>1, <4>6, UntouchedKeeps
      <3>3. CASE j = i
        <4>1. InJob(j) = {}
          BY <2>1, <3>1, <3>3 DEF JobInv, Manned, Running
        <4>2. InJob(j)' = {w}
          BY <2>2, <2>3, <3>3, <4>1 DEF InJob, Busy, Alone
        <4>3. job'[j] = "EXTRACTING"
          BY <2>1, <3>3 DEF TypeInv, JobsType
        <4>4. Manned(j)'
          BY <1>1, <3>1, <4>2, <4>3 DEF JobInv, Manned, Running
        <4>5. \A s \in Sources : RowDue(j, s)'
          BY <1>1, <2>2, <2>3, <3>1, <4>1, <4>2 DEF JobInv, RowDue, Pending
        <4>6. Engaged(j, w)'
          BY <2>2, <2>3, <4>2 DEF Engaged, AtSource
        <4>7. Noted(j)'
          BY <1>1, <3>1, NotedKept DEF JobInv
        <4> QED
          BY <4>2, <4>4, <4>5, <4>6, <4>7 DEF JobInv
      <3> QED
        BY <3>2, <3>3
    <2> QED
      BY <1>1, <2>4, <2>5 DEF Settled
  <1> QED
    BY <1>4, <1>5

LEMMA SelectSettled ==
  ASSUME TypeInv, Settled, NEW w \in Workers, SelectRows(w)
  PROVE  Settled'
  <1> DEFINE i == worker[w].job
             todo == {<<s, row[i][s].lost>> : s \in {r \in Sources : row[i][r].status = "QUEUED"}}
             r == [worker[w] EXCEPT !.pc = "next", !.todo = todo]
  <1>1. /\ worker[w].pc = "select" /\ Busy(w) /\ worker[w].source = 0 /\ worker[w] \in WorkerRows
        /\ i \in Jobs
    BY Places DEF SelectRows, Busy, Settled, Sited, AtSource, AtJob
  <1>2. worker' = [worker EXCEPT ![w] = r]
    BY DEF SelectRows, TypeInv, WorkersType
  <1>3. /\ \A t \in todo : t[1] \in Sources /\ row[i][t[1]].status = "QUEUED"
        /\ \A t, u \in todo : t[1] = u[1] => t = u
        /\ \A s \in Sources : row[i][s].status = "QUEUED" => \E t \in todo : t[1] = s
    <2>1. \A t \in todo : \E s \in Sources : row[i][s].status = "QUEUED" /\ t = <<s, row[i][s].lost>>
      OBVIOUS
    <2>2. \A s \in Sources : row[i][s].status = "QUEUED" => <<s, row[i][s].lost>> \in todo
      OBVIOUS
    <2> HIDE DEF todo
    <2>3. \A s : <<s, row[i][s].lost>>[1] = s
      OBVIOUS
    <2>4. ASSUME NEW t \in todo
          PROVE  t[1] \in Sources /\ row[i][t[1]].status = "QUEUED" /\ t = <<t[1], row[i][t[1]].lost>>
      <3> PICK s \in Sources : row[i][s].status = "QUEUED" /\ t = <<s, row[i][s].lost>>
        BY <2>1
      <3>1. t[1] = s
        BY <2>3
      <3> QED
        BY <3>1
    <2>5. \A t, u \in todo : t[1] = u[1] => t = u
      BY <2>4, Zenon
    <2>6. ASSUME NEW s \in Sources, row[i][s].status = "QUEUED" PROVE \E t \in todo : t[1] = s
      <3>1. <<s, row[i][s].lost>> \in todo /\ <<s, row[i][s].lost>>[1] = s
        BY <2>2, <2>3, <2>6
      <3> QED
        BY <3>1
    <2> QED
      BY <2>4, <2>5, <2>6
  <1> HIDE DEF todo
  <1>4. r.pc = "next" /\ r.job = i /\ r.source = 0 /\ r.todo = todo
    BY <1>1 DEF WorkerRows
  <1> HIDE DEF r
  <1>5. worker'[w] = r /\ Alone(w)
    BY <1>2 DEF Alone, TypeInv, WorkersType
  <1>6. UNCHANGED <<source, job, row, openings, task, disturbed>>
    BY DEF SelectRows, TaskFrame, RequestsFrame, requestVars, openings
  <1>7. Local(w) /\ Working(w) /\ OnlyRow(w)
    BY <1>1, <1>4, <1>5, <1>6 DEF Local, Working, OnlyRow
  <1>8. ASSUME NEW j \in Jobs \ disturbed', worker[w].job = j PROVE JobInv(j)'
    <2>1. /\ j \in Jobs \ disturbed /\ job'[j] \in Running /\ InJob(j) = {w} /\ JobInv(j)
      BY <1>1, <1>6, <1>8, OnlyTask
    <2>2. \A s \in Sources : row[j][s].status \in Active => \E t \in todo : t[1] = s
      BY <1>1, <1>3, <1>8, <2>1, ZeroIsNoSource DEF JobInv, RowDue, Active, Running
    <2> QED
      BY <1>1, <1>3, <1>4, <1>5, <1>7, <1>8, <2>1, <2>2, ZeroIsNoSource, WorkingKeeps
  <1> QED
    BY <1>1, <1>4, <1>5, <1>7, <1>8, LocalSettled

LEMMA BeginRowSettled ==
  ASSUME TypeInv, Settled, NEW w \in Workers, BeginRow(w)
  PROVE  Settled'
  <1> DEFINE i == worker[w].job
  <1>1. PICK t \in worker[w].todo :
          /\ row' = [row EXCEPT ![i][t[1]].status = "EXTRACTING"]
          /\ worker' = [worker EXCEPT ![w] =
                [Idle EXCEPT !.pc = "load", !.job = i, !.todo = worker[w].todo \ {t},
                             !.source = t[1], !.retry = t[2]]]
          /\ MeetsOthers(i, t[1])
    BY DEF BeginRow
  <1> DEFINE s == t[1]
             rest == worker[w].todo \ {t}
             r == [Idle EXCEPT !.pc = "load", !.job = i, !.todo = rest, !.source = s, !.retry = t[2]]
             y == [row[i][s] EXCEPT !.status = "EXTRACTING"]
  <1>2. /\ worker[w].pc = "next" /\ Busy(w) /\ worker[w].source = 0 /\ i \in Jobs /\ s \in Sources
        /\ s # 0 /\ \A u \in worker[w].todo : u[1] \in Sources
    BY Places, ZeroIsNoSource DEF BeginRow, Busy, Settled, Sited, AtSource, AtJob
  <1>3. worker' = [worker EXCEPT ![w] = r] /\ row' = [row EXCEPT ![i][s] = y]
    BY <1>1, <1>2
  <1>4. r.pc = "load" /\ r.job = i /\ r.source = s /\ r.todo = rest
    BY DEF Idle
  <1>5. y.status = "EXTRACTING" /\ y.recovery = row[i][s].recovery
    <2>1. row[i][s] \in RowRows
      BY <1>2 DEF TypeInv, RowsType
    <2> QED
      BY <2>1 DEF RowRows
  <1> HIDE DEF r, y
  <1>6. worker'[w] = r /\ Alone(w)
    BY <1>3 DEF Alone, TypeInv, WorkersType
  <1>7. /\ row'[i][s] = y /\ \A k \in Jobs, u \in Sources : k # i \/ u # s => row'[k][u] = row[k][u]
        /\ \A k \in Jobs : k # i => row'[k] = row[k]
    BY <1>2, <1>3 DEF TypeInv, RowsType
  <1>8. UNCHANGED <<source, job, openings, task>> /\ disturbed \subseteq disturbed'
    BY <1>1 DEF BeginRow, TaskFrame, RequestsFrame, requestVars, openings, MeetsOthers, Disturb
  <1>9. Sited'
    BY <1>4, <1>6 DEF Settled, Sited, Alone, AtSource
  (* Whoever was at this source, and this job, is disturbed.                *)
  <1>10. ASSUME NEW j \in Jobs \ disturbed' PROVE \A v \in InJob(j) : worker[v].source # s
    <2>1. ASSUME NEW v \in InJob(j), worker[v].source = s PROVE FALSE
      <3>1. v \in OnSource(s) /\ worker[v].job = j /\ j # NoJob
        BY <2>1, ZeroIsNoSource DEF OnSource, InJob
      <3>2. ({i} \cup {worker[u].job : u \in OnSource(s)}) \ {NoJob} \subseteq disturbed'
        BY <1>1, <3>1 DEF MeetsOthers, Disturb
      <3> QED
        BY <3>1, <3>2
    <2> QED
      BY <2>1
  <1>11. ASSUME i \notin disturbed' PROVE OnSource(s) = {}
    <2>1. ASSUME OnSource(s) # {} PROVE FALSE
      <3>1. ({i} \cup {worker[u].job : u \in OnSource(s)}) \ {NoJob} \subseteq disturbed'
        BY <1>1, <2>1 DEF MeetsOthers, Disturb
      <3> QED
        BY <1>2, <1>11, <3>1, ZeroIsNoSource
    <2> QED
      BY <2>1
  <1> HIDE DEF s, rest
  <1>12. ASSUME NEW j \in Jobs \ disturbed' PROVE JobInv(j)'
    <2>1. JobInv(j) /\ j \in Jobs \ disturbed
      BY <1>8 DEF Settled
    <2>2. CASE j # i
      <3>1. InJob(j)' = InJob(j) /\ w \notin InJob(j)
        BY <1>4, <1>6, <2>2 DEF Alone, InJob, Busy
      <3>2. \A v \in InJob(j) : v \in Workers /\ v # w
        BY <3>1 DEF InJob
      <3>3. \A v \in InJob(j) : worker'[v] = worker[v] /\ Engaged(j, v)
        BY <1>6, <2>1, <3>2 DEF JobInv, Alone
      <3>4. ASSUME NEW v \in InJob(j), NEW u \in Workers, worker'[u].source = worker[v].source,
                   worker'[u].source # 0
            PROVE  u = v
        <4>1. u # w /\ worker'[u] = worker[u]
          BY <1>4, <1>6, <1>10, <3>4 DEF Alone
        <4> QED
          BY <3>3, <3>4, <4>1 DEF Engaged
      <3>5. Noted(j)'
        BY <1>7, <1>8, <2>1, <2>2, NotedKept DEF JobInv
      <3>6. Untouched(j)
        BY <1>7, <1>8, <2>1, <2>2, <3>1, <3>3, <3>4, <3>5, RequestFacts DEF Untouched
      <3> QED
        BY <2>1, <3>6, UntouchedKeeps
    <2>3. CASE j = i
      <3>1. /\ InJob(j) = {w} /\ Engaged(j, w) /\ job[j] \in Running
        BY <1>2, <2>1, <2>3, OnlyTask
      <3>2. InJob(j)' = {w}
        BY <1>4, <1>6, <2>3, <3>1 DEF InJob, Busy, Alone
      <3>3. t \in worker[w].todo /\ t[1] = s /\ rest = worker[w].todo \ {t}
        BY DEF s, rest
      <3>4. Manned(j)'
        BY <1>8, <2>1, <3>1, <3>2 DEF JobInv, Manned, Running
      <3>5. ASSUME NEW u \in Sources PROVE RowDue(j, u)'
        <4>1. RowDue(j, u)
          BY <2>1 DEF JobInv
        <4>2. CASE u = s
          <5>1. row[j][s].status = "QUEUED"
            BY <3>1, <3>3 DEF Engaged
          <5>2. row'[j][u].status = "EXTRACTING" /\ Emptied(row'[j][u].recovery)
            BY <1>5, <1>7, <2>3, <4>1, <4>2 DEF RowDue
          <5>3. Pending(j, u)' /\ \E v \in InJob(j)' : worker'[v].source = u
            BY <1>4, <1>6, <3>2, <4>2 DEF Pending
          <5> QED
            BY <1>8, <4>1, <4>2, <5>1, <5>2, <5>3 DEF RowDue, Active
        <4>3. CASE u # s
          <5>1. row'[j][u] = row[j][u]
            BY <1>7, <4>3
          <5>2. row[j][u].status \notin Running
            BY <1>2, <3>1, <4>1, ZeroIsNoSource DEF RowDue
          <5>3. row[j][u].status \in Active => \E v \in worker[w].todo : v[1] = u
            BY <1>2, <2>1, <2>3, BetweenRows, ZeroIsNoSource
          <5>4. row[j][u].status \in Active => Pending(j, u)'
            BY <1>4, <1>6, <3>2, <3>3, <4>3, <5>3 DEF Pending
          <5> QED
            BY <1>8, <4>1, <5>1, <5>2, <5>4 DEF RowDue
        <4> QED
          BY <4>2, <4>3
      <3>7. Noted(j)'
        <4>1. row[j][s].status \in Active
          BY <3>1, <3>3 DEF Engaged, Active
        <4> QED
          BY <1>7, <1>8, <2>1, <4>1, NotedKept DEF JobInv
      <3>6. Engaged(j, w)'
        <4>1. \A v \in rest : v[1] # s /\ row'[j][v[1]].status = "QUEUED"
          BY <1>2, <1>7, <3>1, <3>3 DEF Engaged
        <4>2. \A u, v \in rest : u[1] = v[1] => u = v
          BY <3>1, <3>3 DEF Engaged
        <4>3. AtRow(j, w)'
          <5>1. Emptied(row[j][s].recovery)
            BY <1>2, <2>1 DEF JobInv, RowDue
          <5> QED
            BY <1>4, <1>5, <1>6, <1>7, <2>3, <5>1 DEF AtRow, Comparing, Running
        <4>4. ASSUME NEW v \in Workers, worker'[v].source = s, v # w PROVE FALSE
          <5>1. worker[v].source = s /\ s # 0
            BY <1>2, <1>6, <4>4 DEF Alone
          <5>2. Busy(v)
            BY <5>1 DEF Settled, Sited, Busy, AtSource
          <5> QED
            BY <1>11, <2>3, <5>1, <5>2 DEF OnSource
        <4> QED
          BY <1>4, <1>6, <3>2, <4>1, <4>2, <4>3, <4>4 DEF Engaged
      <3> QED
        BY <3>2, <3>4, <3>5, <3>6, <3>7 DEF JobInv
    <2> QED
      BY <2>2, <2>3
  <1> QED
    BY <1>9, <1>12 DEF Settled

LEMMA RowResultStatus ==
  ASSUME NEW w \in Workers, row[worker[w].job][worker[w].source] \in RowRows
  PROVE  /\ RowResult(w).status \notin Active
         /\ RowResult(w).recovery = row[worker[w].job][worker[w].source].recovery
         /\ RowResult(w).lost = row[worker[w].job][worker[w].source].lost
         /\ RowResult(w).status = "SUCCEEDED" =>
               /\ worker[w].outcome \notin {"PARTIAL_RETRY_UNAVAILABLE", "INTAKE_NONE"}
               /\ source[worker[w].source].status # "FAILED"
               /\ ~row[worker[w].job][worker[w].source].lost
  <1> DEFINE r == row[worker[w].job][worker[w].source]
             c == source[worker[w].source].cards
  <1>1. PICK status \in {"PARTIAL", "FAILED", "NO_RESULT", "SUCCEEDED"}, none \in BOOLEAN :
          /\ RowResult(w) = [r EXCEPT !.status = status, !.intake_none = none, !.cards = c]
          /\ status = "SUCCEEDED" =>
                /\ worker[w].outcome \notin {"PARTIAL_RETRY_UNAVAILABLE", "INTAKE_NONE"}
                /\ source[worker[w].source].status # "FAILED" /\ ~r.lost
    BY DEF RowResult
  <1> HIDE DEF c
  <1>2. /\ RowResult(w).status = status /\ RowResult(w).recovery = r.recovery
        /\ RowResult(w).lost = r.lost
    BY <1>1 DEF RowRows
  <1> QED
    BY <1>1, <1>2 DEF Active

LEMMA RecordSettled ==
  ASSUME TypeInv, Settled, NEW w \in Workers, RecordRow(w)
  PROVE  Settled'
  <1> DEFINE i == worker[w].job
             s == worker[w].source
             y == RowResult(w)
             r == [Idle EXCEPT !.pc = "refresh", !.job = i, !.todo = worker[w].todo]
  <1>1. /\ worker[w].pc = "record" /\ worker[w].pc \in AtSource /\ Busy(w) /\ i \in Jobs /\ s \in Sources
        /\ worker[w] \in WorkerRows /\ row[i][s] \in RowRows
        /\ \A t \in worker[w].todo : t[1] \in Sources
    BY Places DEF RecordRow, AtSource, AtJob, Busy, TypeInv, RowsType
  <1>2. worker' = [worker EXCEPT ![w] = r] /\ row' = [row EXCEPT ![i][s] = y]
    BY DEF RecordRow
  <1>3. r.pc = "refresh" /\ r.job = i /\ r.source = 0 /\ r.todo = worker[w].todo
    BY DEF Idle
  <1>4. /\ y.status \notin Active /\ y.recovery = row[i][s].recovery /\ y.lost = row[i][s].lost
        /\ y.status = "SUCCEEDED" =>
              /\ worker[w].outcome \notin {"PARTIAL_RETRY_UNAVAILABLE", "INTAKE_NONE"}
              /\ source[s].status # "FAILED" /\ ~row[i][s].lost
    BY <1>1, RowResultStatus
  <1> HIDE DEF r, y
  <1>5. worker'[w] = r /\ Alone(w)
    BY <1>2 DEF Alone, TypeInv, WorkersType
  <1>6. /\ row'[i][s] = y /\ OnlyRow(w) /\ \A k \in Jobs : k # i => row'[k] = row[k]
    BY <1>1, <1>2 DEF OnlyRow, TypeInv, RowsType
  <1>7. UNCHANGED <<source, job, openings, task, disturbed>>
    BY DEF RecordRow, TaskFrame, RequestsFrame, requestVars, openings
  <1>8. Local(w) /\ Working(w)
    BY <1>3, <1>5, <1>6, <1>7 DEF Local, Working
  <1>9. ASSUME NEW j \in Jobs \ disturbed', worker[w].job = j PROVE JobInv(j)'
    <2>1. /\ j \in Jobs \ disturbed /\ job'[j] \in Running
          /\ InJob(j) = {w} /\ Engaged(j, w) /\ AtRow(j, w) /\ JobInv(j)
      BY <1>1, <1>7, <1>9, OnlyTask
    <2>2. ASSUME NEW u \in Sources, u = s PROVE RowDue(j, u)'
      <3>1. worker[w].outcome \in {"none", "INTAKE_NONE", "PARTIAL_RETRY_UNAVAILABLE"}
        BY <1>1 DEF WorkerRows
      <3>2. row'[j][u].status \notin Active /\ Emptied(row'[j][u].recovery)
        BY <1>4, <1>6, <1>9, <2>1, <2>2 DEF AtRow
      <3>3. row'[j][u].status = "SUCCEEDED" => /\ row'[j][u].recovery.phase = "COMMITTED"
                                               /\ ~row'[j][u].recovery.lost /\ ~row'[j][u].lost
        BY <1>1, <1>4, <1>6, <1>9, <2>1, <2>2, <3>1 DEF AtRow
      <3> QED
        BY <3>2, <3>3 DEF RowDue, Active, Running
    <2>3. \A t \in worker[w].todo : t[1] # s /\ row[j][t[1]].status = "QUEUED"
      BY <2>1 DEF Engaged
    <2>4. \A t, u \in worker[w].todo : t[1] = u[1] => t = u
      BY <2>1 DEF Engaged
    <2>5. \A u \in Sources : row[j][u].status \in Active =>
             u = s \/ \E t \in worker[w].todo : t[1] = u
      BY <1>1, <1>9, <2>1, BetweenRows
    <2>6. \A u \in Sources : u = s => RowDue(j, u)'
      BY <2>2
    <2> HIDE DEF s
    <2> QED
      BY <1>1, <1>3, <1>5, <1>6, <1>8, <1>9, <2>1, <2>3, <2>4, <2>5, <2>6, WorkingKeeps DEF s
  <1> QED
    BY <1>1, <1>3, <1>5, <1>8, <1>9, LocalSettled

LEMMA RefreshSettled ==
  ASSUME TypeInv, Settled, NEW w \in Workers, Refresh(w)
  PROVE  Settled'
  <1>1. /\ worker[w].pc = "refresh" /\ Busy(w) /\ worker[w].source = 0 /\ worker[w].job \in Jobs
        /\ \A t \in worker[w].todo : t[1] \in Sources
    BY Places DEF Refresh, AtSource, AtJob, Busy, Settled, Sited
  <1>2. Moved(w, "next")
    BY StepMoved DEF Refresh
  <1>3. /\ UNCHANGED <<source, row, openings, task, disturbed>> /\ job'[worker[w].job] = "EXTRACTING"
        /\ \A k \in Jobs : k # worker[w].job => job'[k] = job[k]
    BY <1>1 DEF Refresh, TaskFrame, RequestsFrame, requestVars, openings, TypeInv, JobsType
  <1>4. Local(w) /\ Working(w) /\ OnlyRow(w)
    BY <1>1, <1>2, <1>3 DEF Local, Working, OnlyRow, Moved
  <1>5. ASSUME NEW j \in Jobs \ disturbed', worker[w].job = j PROVE JobInv(j)'
    <2>1. /\ j \in Jobs \ disturbed /\ job'[j] \in Running
          /\ InJob(j) = {w} /\ Engaged(j, w) /\ JobInv(j)
      BY <1>1, <1>3, <1>5, OnlyTask DEF Running
    <2>2. \A u \in Sources : row[j][u].status \in Active =>
             u = worker[w].source \/ \E t \in worker'[w].todo : t[1] = u
      BY <1>1, <1>2, <1>5, <2>1, BetweenRows DEF Moved
    <2>3. /\ \A t \in worker'[w].todo : /\ t[1] \in Sources /\ t[1] # worker[w].source
                                        /\ row[j][t[1]].status = "QUEUED"
          /\ \A t, u \in worker'[w].todo : t[1] = u[1] => t = u
      BY <1>1, <1>2, <2>1 DEF Moved, Engaged
    <2>4. \A u \in Sources : u = worker[w].source => RowDue(j, u)'
      BY <1>1, ZeroIsNoSource
    <2> QED
      BY <1>1, <1>4, <1>5, <2>1, <2>2, <2>3, <2>4, WorkingKeeps
  <1> QED
    BY <1>1, <1>2, <1>4, <1>5, LocalSettled DEF Moved, Working

(* A job that ends in SUCCEEDED counts no row that failed or lost segments. *)
LEMMA FinalStatus ==
  ASSUME TypeInv, NEW j \in Jobs
  PROVE  /\ final_job_status(row[j]) \in Finished
         /\ final_job_status(row[j]) = "SUCCEEDED" =>
               \A s \in Sources : row[j][s].status \notin {"FAILED", "PARTIAL"}
  <1>1. DOMAIN row[j] = Sources
    BY DEF TypeInv, RowsType
  <1> QED
    BY <1>1 DEF final_job_status, Finished

LEMMA FinishSettled ==
  ASSUME TypeInv, Settled, NEW w \in Workers, FinishJob(w)
  PROVE  Settled'
  <1> DEFINE i == worker[w].job
             status == final_job_status(row[i])
  <1>1. /\ worker[w].pc = "next" /\ worker[w].todo = {} /\ Busy(w) /\ worker[w].source = 0
        /\ i \in Jobs /\ Gone(w)
    BY Places, ReturnGone DEF FinishJob, AtSource, AtJob, Busy, Settled, Sited
  <1>2. /\ UNCHANGED <<source, row, openings, task, disturbed>> /\ job'[i] = status
        /\ \A k \in Jobs : k # i => job'[k] = job[k]
    BY <1>1 DEF FinishJob, TaskFrame, RequestsFrame, requestVars, openings, TypeInv, JobsType
  <1>3. Local(w)
    BY <1>1, <1>2 DEF Local, Gone, Busy
  <1>4. ASSUME NEW j \in Jobs \ disturbed', worker[w].job = j PROVE JobInv(j)'
    <2>1. j \in Jobs \ disturbed /\ InJob(j) = {w} /\ JobInv(j)
      BY <1>1, <1>2, <1>4, OnlyTask
    <2>2. InJob(j)' = {}
      BY <1>1, <2>1 DEF InJob, Busy, Gone, Alone
    <2>3. /\ job'[j] \in Finished
          /\ job'[j] = "SUCCEEDED" =>
                \A s \in Sources : row[j][s].status \notin {"FAILED", "PARTIAL"}
      BY <1>2, <1>4, FinalStatus
    <2>4. \A s \in Sources : row[j][s].status \notin Active
      BY <1>1, <1>4, <2>1, BetweenRows, ZeroIsNoSource
    <2>5. \A s \in Sources : row[j][s].status \in JobStates
      BY DEF TypeInv, RowsType, RowRows
    <2>6. Manned(j)'
      BY <1>2, <2>1, <2>2, <2>3, <2>4, <2>5 DEF JobInv, Manned, Running, Finished, Active, JobStates
    <2>7. \A s \in Sources : RowDue(j, s)'
      BY <1>2, <2>1, <2>4 DEF JobInv, RowDue, Active, Running
    <2>8. Noted(j)'
      BY <1>2, <2>1, NotedKept DEF JobInv
    <2> QED
      BY <2>2, <2>6, <2>7, <2>8 DEF JobInv
  <1> QED
    BY <1>1, <1>3, <1>4, LocalSettled DEF Gone

LEMMA TaskFailsSettled ==
  ASSUME TypeInv, Settled, NEW w \in Workers, TaskFails(w)
  PROVE  Settled'
  <1>1. Busy(w) /\ worker[w].job \in Jobs /\ Gone(w)
    BY Places, ReturnGone DEF TaskFails, FailJob, Busy, AtJob
  <1>2. /\ UNCHANGED <<source, row, openings, task>> /\ disturbed \subseteq disturbed'
        /\ worker[w].job \in disturbed'
        /\ \A k \in Jobs : k # worker[w].job => job'[k] = job[k]
    BY <1>1, ZeroIsNoSource
    DEF TaskFails, FailJob, TaskFrame, RequestsFrame, requestVars, openings, Disturb, TypeInv, JobsType
  <1>3. Local(w)
    BY <1>1, <1>2 DEF Local, Gone, Busy
  <1> QED
    BY <1>1, <1>2, <1>3, LocalSettled DEF Gone

LEMMA BeginDirectSettled ==
  ASSUME TypeInv, Settled, NEW w \in Workers, NEW s \in Sources, BeginDirect(w, s)
  PROVE  Settled'
  <1> DEFINE r == [Idle EXCEPT !.pc = "start", !.source = s]
  <1>1. /\ worker' = [worker EXCEPT ![w] = r] /\ ~Busy(w) /\ disturbed \subseteq disturbed'
        /\ UNCHANGED <<source, job, row, openings, task>>
    BY DEF BeginDirect, MeetsOthers, Disturb, openings
  <1>2. r.pc = "start" /\ r.job = NoJob /\ r.source = s
    BY DEF Idle
  <1> HIDE DEF r
  <1>3. worker'[w] = r /\ Alone(w)
    BY <1>1 DEF Alone, TypeInv, WorkersType
  <1>4. Sited'
    BY <1>2, <1>3 DEF Settled, Sited, Alone, AtSource
  <1>5. ASSUME NEW j \in Jobs \ disturbed' PROVE JobInv(j)'
    <2>1. JobInv(j) /\ j \in Jobs \ disturbed
      BY <1>1 DEF Settled
    <2>2. InJob(j)' = InJob(j) /\ w \notin InJob(j)
      BY <1>1, <1>2, <1>3, ZeroIsNoSource DEF Alone, InJob, Busy
    <2>3. \A v \in InJob(j) : v \in Workers /\ v # w
      BY <2>2 DEF InJob
    <2>4. \A v \in InJob(j) : worker'[v] = worker[v] /\ Engaged(j, v)
      BY <1>3, <2>1, <2>3 DEF JobInv, Alone
    <2>5. ASSUME NEW v \in InJob(j), worker[v].source = s PROVE FALSE
      <3>1. v \in OnSource(s) /\ worker[v].job = j /\ j # NoJob
        BY <2>5, ZeroIsNoSource DEF OnSource, InJob
      <3>2. ({NoJob} \cup {worker[u].job : u \in OnSource(s)}) \ {NoJob} \subseteq disturbed'
        BY <3>1 DEF BeginDirect, MeetsOthers, Disturb
      <3> QED
        BY <3>1, <3>2
    <2>6. ASSUME NEW v \in InJob(j), NEW u \in Workers, worker'[u].source = worker[v].source,
                 worker'[u].source # 0
          PROVE  u = v
      <3>1. u # w /\ worker'[u] = worker[u]
        BY <1>2, <1>3, <2>5, <2>6 DEF Alone
      <3> QED
        BY <2>4, <2>6, <3>1 DEF Engaged
    <2>7. Noted(j)'
      BY <1>1, <2>1, NotedKept DEF JobInv
    <2>8. Untouched(j)
      BY <1>1, <2>1, <2>2, <2>4, <2>6, <2>7, RequestFacts DEF Untouched
    <2> QED
      BY <2>1, <2>8, UntouchedKeeps
  <1> QED
    BY <1>4, <1>5 DEF Settled

LEMMA SettledStep == TypeInv /\ OnceInv /\ Settled /\ [Next]_vars => Settled'
  <1> SUFFICES ASSUME TypeInv, OnceInv, Settled, [Next]_vars PROVE Settled'
    OBVIOUS
  <1>1. CASE Request
    BY <1>1, RequestSettled
  <1>2. CASE \E w \in Workers : JobStep(w)
    BY <1>2, ClaimSettled, SelectSettled, BeginRowSettled, RecordSettled, RefreshSettled,
       FinishSettled DEF JobStep
  <1>3. CASE \E w \in Workers : SourceStep(w)
    BY <1>3, BeginDirectSettled, LoadSettled, StatusSettled, ClassifyingSettled, IntakeSettled,
       SaveSettled, CommitSettled DEF SourceStep
  <1>4. CASE \E w \in Workers : RaiseInSource(w) \/ TaskFails(w)
    BY <1>4, StatusSettled, TaskFailsSettled
  <1>5. CASE Crash
    BY <1>5, CrashSettled
  <1>6. CASE UNCHANGED vars
    <2>1. \A j \in Jobs \ disturbed : JobInv(j)'
      BY <1>6, RequestFacts, RequestUntouched, NotedKept DEF vars, requestVars, openings, Settled, JobInv
    <2> QED
      BY <1>6, <2>1 DEF vars, Settled, Sited
  <1> QED
    BY <1>1, <1>2, <1>3, <1>4, <1>5, <1>6 DEF Next

LEMMA SettledAlways == Spec => []Settled
  <1>1. Init => OnceInv /\ Settled
    BY InitOnce, InitSettled
  <1>2. TypeInv /\ (OnceInv /\ Settled) /\ [Next]_vars => (OnceInv /\ Settled)'
    BY OnceStep, SettledStep
  <1> QED
    BY <1>1, <1>2, TypeInvariant, PTL DEF Spec

(* Unless a retry, another extraction, a failed statement or a dying        *)
(* process disturbed it, an unfinished job always has a task, and every     *)
(* unfinished row is that task's to do.                                     *)
THEOREM NothingLeftBehindAlways == Spec => []NothingLeftBehind
  <1>1. Settled => NothingLeftBehind
    BY DEF Settled, JobInv, Manned, RowDue, NothingLeftBehind, Active, Running
  <1> QED
    BY <1>1, SettledAlways, PTL

(* A row of an undisturbed job that is reported as SUCCEEDED has committed  *)
(* an extraction that lost nothing and keeps no facts to commit again, and  *)
(* a job that SUCCEEDED has no row that failed, lost segments or waits.     *)
THEOREM SucceededIsCompleteAlways == Spec => []SucceededIsComplete
  <1>1. TypeInv /\ Settled => SucceededIsComplete
    <2> SUFFICES ASSUME TypeInv, Settled, NEW j \in Jobs \ disturbed
                 PROVE  /\ \A s \in Sources : row[j][s].status = "SUCCEEDED" =>
                              /\ row[j][s].recovery = [NoRecovery EXCEPT !.phase = "COMMITTED"]
                              /\ ~row[j][s].lost
                        /\ job[j] = "SUCCEEDED" => \A s \in Rows(j) :
                              row[j][s].status \in {"SUCCEEDED", "NO_RESULT"}
      BY DEF SucceededIsComplete
    <2>1. JobInv(j)
      BY DEF Settled
    <2>2. ASSUME NEW s \in Sources, row[j][s].status = "SUCCEEDED"
          PROVE  /\ row[j][s].recovery = [NoRecovery EXCEPT !.phase = "COMMITTED"]
                 /\ ~row[j][s].lost
      <3>1. row[j][s].recovery \in Recoveries
        BY DEF TypeInv, RowsType, RowRows
      <3>2. RowDue(j, s)
        BY <2>1 DEF JobInv
      <3> DEFINE r == row[j][s].recovery
                 e == [NoRecovery EXCEPT !.phase = "COMMITTED"]
      <3>3. r.phase = "COMMITTED" /\ ~r.lost /\ ~r.whole /\ r.facts = 0 /\ ~row[j][s].lost
        BY <2>2, <3>2 DEF RowDue, Emptied
      <3>4. e.phase = "COMMITTED" /\ ~e.lost /\ ~e.whole /\ e.facts = 0
        BY DEF NoRecovery
      <3>5. e \in Recoveries
        BY DEF NoRecovery, Recoveries
      <3> HIDE DEF r, e
      <3>6. r \in Recoveries
        BY <3>1 DEF r
      <3>7. r = e
        BY <3>3, <3>4, <3>5, <3>6 DEF Recoveries
      <3> QED
        BY <3>3, <3>7 DEF r, e
    <2>3. job[j] = "SUCCEEDED" => \A s \in Rows(j) : row[j][s].status \in {"SUCCEEDED", "NO_RESULT"}
      BY <2>1 DEF JobInv, Manned, Rows
    <2> QED
      BY <2>2, <2>3
  <1> QED
    BY <1>1, SettledAlways, TypeInvariant, PTL

(* The task of an undisturbed job does not work on a deleted source, unless *)
(* a creation or a retry crossed the deletion: every other way into a row   *)
(* sees the deletion, waits for it or makes it wait.                        *)
THEOREM DeletedIsNotReadAlways == Spec => []DeletedIsNotRead
  <1>1. TypeInv /\ Settled => DeletedIsNotRead
    <2> SUFFICES ASSUME TypeInv, Settled, NEW j \in Jobs \ disturbed, NEW w \in InJob(j),
                        worker[w].source # 0, source[worker[w].source].deleted
                 PROVE  <<j, worker[w].source>> \in crossed
      BY DEF DeletedIsNotRead
    <2>1. w \in Workers /\ Busy(w) /\ worker[w].job = j
      BY DEF InJob
    <2>2. worker[w].pc \in AtSource /\ worker[w].source \in Sources
      BY <2>1, Places DEF Settled, Sited
    <2>3. AtRow(j, w) /\ Noted(j)
      BY <2>1, <2>2, OnlyTask DEF JobInv
    <2> QED
      BY <2>2, <2>3 DEF AtRow, Noted, Running, Active
  <1> QED
    BY <1>1, SettledAlways, TypeInvariant, PTL
=============================================================================
