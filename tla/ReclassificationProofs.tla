------------------------ MODULE ReclassificationProofs ------------------------
(***************************************************************************)
(* What is proved of categories and reclassification, for every set of       *)
(* cards, categories and tasks: the properties of the run reclassification.  *)
(***************************************************************************)
EXTENDS Reclassification, SequenceTheorems, TLAPS

CardRow == [category : Categories, version : Nat, manual : BOOLEAN, reason : BOOLEAN,
            excluded : BOOLEAN, stamp : Nat]
EditRow == [kind : {"none", "add", "delete", "moved"}, category : Categories,
            seen : SUBSET Cards, locked : SUBSET Cards]
WriteRow == [kind : {"none", "move", "insert"}, category : Categories, seen : Nat, version : Nat]
JobRow == [status : {"QUEUED", "RUNNING", "SUCCEEDED", "FAILED", "STALE"}, target : Nat,
           result : [Cards -> Results], snapshot : [Cards -> Nat]]
WorkerRow == [pc : {"idle", "check", "read", "next", "apply", "update", "record"}, job : Nat,
              todo : SUBSET Cards, manual : SUBSET Cards, categories : SUBSET Categories,
              cards : SUBSET Cards, category : Categories, version : Nat]

(* Types of the rows.                                                       *)
Typed ==
    /\ version \in Nat /\ active \subseteq Categories /\ writes \in Nat
    /\ edit \in EditRow
    /\ card \in [Cards -> CardRow]
    /\ writing \in [Cards -> WriteRow]
    /\ jobs \in Seq(JobRow) /\ task \subseteq 1..Len(jobs)
    /\ worker \in [Workers -> WorkerRow]
    /\ chosen \in [Cards -> Categories]

(* A task that runs has a job, and one card at a time.                      *)
Assigned(w) ==
    /\ worker[w].pc = "idle" => worker[w].job = 0
    /\ worker[w].pc # "idle" => worker[w].job \in 1..Len(jobs)
    /\ worker[w].pc \in {"check", "read", "next"} => worker[w].cards = {}
    /\ \A b, d \in worker[w].cards : b = d

(* A version is written over one that is not newer.                         *)
Dated(c) ==
    /\ card[c].version <= version
    /\ writing[c].kind # "none" =>
          /\ writing[c].seen <= version /\ writing[c].version <= version
          /\ writing[c].version > 0 => card[c].version <= writing[c].version

(* A card that has not changed since a job was made is not newer than it.   *)
Since(j) ==
    /\ jobs[j].target <= version
    /\ \A c \in Cards :
          /\ jobs[j].snapshot[c] <= card[c].stamp
          /\ jobs[j].snapshot[c] = card[c].stamp => card[c].version <= jobs[j].target
          /\ jobs[j].result[c] # "none" => jobs[j].snapshot[c] > 0

(* A task works on cards that existed when its job was made.                *)
Covers(w) ==
    worker[w].pc # "idle" =>
        \A c \in worker[w].todo \cup worker[w].cards : jobs[worker[w].job].snapshot[c] > 0

Ordered ==
    /\ \A c \in Cards : Dated(c)
    /\ \A j \in 1..Len(jobs) : Since(j)
    /\ \A w \in Workers : Covers(w)

(* What a lock on a card keeps as it is until the commit.                   *)
Guarded(c) ==
    /\ writing[c].kind = "insert" => card[c].stamp = 0
    /\ writing[c].kind = "move" => card[c].stamp > 0
    /\ c \in edit.locked =>
          /\ edit.kind = "moved" /\ card[c].stamp > 0 /\ card[c].manual
          /\ card[c].category = edit.category /\ writing[c].kind = "none"

Held(w) ==
    worker[w].pc = "update" => \A c \in worker[w].cards :
        /\ ~card[c].manual /\ writing[c].kind = "none"
        /\ card[c].stamp = jobs[worker[w].job].snapshot[c]
        /\ \A v \in Workers : worker[v].pc = "update" /\ c \in worker[v].cards => v = w

Protected == (\A c \in Cards : Guarded(c)) /\ \A w \in Workers : Held(w)

(* A task settles every card of its job before it ends.                     *)
Awaited(w) ==
    worker[w].pc \in {"next", "apply", "update", "record"} =>
        \A c \in Cards : jobs[worker[w].job].result[c] = "PENDING" =>
                            c \in worker[w].todo \cup worker[w].cards

(* A card whose category is known to be listed, or was written around an    *)
(* edit.                                                                    *)
Settled(c) == c \in overlapped \/ card[c].category \in active

(* Whoever saw a category listed at the current version sees it still.  An  *)
(* edit that has looked for the owner's cards misses only those written     *)
(* since.                                                                   *)
EditListed ==
    /\ Other \in active
    /\ edit.kind \in {"delete", "moved"} => edit.category # Other
    /\ edit.kind = "delete" => ManualIn(edit.category) \subseteq edit.seen \cup overlapped
    /\ edit.kind = "moved" => ManualIn(edit.category) \subseteq edit.locked \cup overlapped

WriteListed(c) ==
    writing[c].kind # "none" /\ writing[c].seen = version => writing[c].category \in active

ManualListed(c) == card[c].manual => Exists(c) /\ Settled(c)

WorkerListed(w) ==
    /\ worker[w].manual \subseteq {c \in Cards : card[c].manual}
    /\ worker[w].pc \in {"next", "apply", "update", "record"} /\ Job(w).target = version =>
          worker[w].categories \subseteq active
    /\ worker[w].pc = "update" =>
          worker[w].version = Job(w).target /\ worker[w].category \in worker[w].categories
    /\ worker[w].pc = "record" /\ Job(w).target = version =>
          \A c \in worker[w].cards : Settled(c)

Listed ==
    /\ EditListed
    /\ \A c \in Cards : WriteListed(c) /\ ManualListed(c)
    /\ \A w \in Workers : WorkerListed(w)

(* A card changed since the newest job was made was changed by the owner,   *)
(* or has been classified.                                                  *)
Accounted ==
    jobs # <<>> /\ jobs[Len(jobs)].target = version =>
        \A c \in Cards : card[c].stamp # jobs[Len(jobs)].snapshot[c] => c \in edited \/ Settled(c)

Safe ==
    /\ Typed /\ (\A w \in Workers : Assigned(w)) /\ Ordered /\ Protected
    /\ (\A w \in Workers : Awaited(w)) /\ Listed /\ Accounted
    /\ ManualIsKept /\ JobsAccounted /\ ClassifiedIsListed

----------------------------------------------------------------------------
(* What the steps do, row by row.  A card is rewritten, with a new stamp.   *)
CardBecomes(c, category, new, manual, reason) ==
    /\ card' \in [Cards -> CardRow]
    /\ \A d \in Cards : d # c => card'[d] = card[d]
    /\ card'[c].category = category /\ card'[c].version = new
    /\ card'[c].manual <=> manual
    /\ card'[c].reason <=> reason
    /\ card'[c].stamp = card[c].stamp + 1

(* Status and results of a job change, its target and snapshot never.       *)
JobBecomes(j, status, result) ==
    /\ jobs' \in Seq(JobRow) /\ Len(jobs') = Len(jobs)
    /\ \A i \in 1..Len(jobs) :
          /\ jobs'[i].target = jobs[i].target /\ jobs'[i].snapshot = jobs[i].snapshot
          /\ i # j => jobs'[i] = jobs[i]
    /\ jobs'[j].status = status /\ jobs'[j].result = result

(* A job that covers the cards as they are.                                 *)
JobAdded(target, cards) ==
    /\ jobs' \in Seq(JobRow) /\ Len(jobs') = Len(jobs) + 1
    /\ \A j \in 1..Len(jobs) : jobs'[j] = jobs[j]
    /\ jobs'[Len(jobs) + 1].status = "QUEUED" /\ jobs'[Len(jobs) + 1].target = target
    /\ \A c \in Cards :
          /\ jobs'[Len(jobs) + 1].snapshot[c] = cards[c].stamp
          /\ jobs'[Len(jobs) + 1].result[c] \in {"none", "PENDING"}
          /\ jobs'[Len(jobs) + 1].result[c] # "none" => cards[c].stamp > 0
    /\ task' = task \cup {Len(jobs) + 1} /\ edited' = {}

Opens(kind, k) ==
    /\ edit.kind = "none" /\ (kind = "delete" => k # Other)
    /\ edit' = [kind |-> kind, category |-> k, locked |-> {},
                seen |-> IF kind = "delete" THEN ManualIn(k) ELSE {}]
    /\ UNCHANGED <<version, active, card, writing, jobs, task, worker, writes, chosen, edited,
                   overlapped, died>>

Retries ==
    /\ JobAdded(version, card)
    /\ UNCHANGED <<version, active, edit, card, writing, worker, writes, chosen, overlapped, died>>

Begins(c, kind, k) ==
    /\ k \in active /\ writes' \in Nat
    /\ kind = "move" => card[c].stamp > 0 /\ ~Locked(c)
    /\ kind = "insert" => card[c].stamp = 0
    /\ writing' = [writing EXCEPT ![c] =
          [kind |-> kind, category |-> k, seen |-> version, version |-> 0]]
    /\ UNCHANGED <<version, active, edit, card, jobs, task, worker, chosen, edited, overlapped, died>>

Touches(c) ==
    /\ card[c].stamp > 0 /\ ~Locked(c) /\ writes' \in Nat
    /\ CardBecomes(c, card[c].category, card[c].version, card[c].manual, card[c].reason)
    /\ edited' = edited \cup {c}
    /\ UNCHANGED <<version, active, edit, writing, jobs, task, worker, chosen, overlapped, died>>

LocksManual ==
    /\ edit.kind = "delete"
    /\ \A c \in edit.seen : ~Locked(c)
    /\ edit' = [kind |-> "moved", category |-> edit.category, seen |-> {},
                locked |-> edit.seen \cap ManualIn(edit.category)]
    /\ UNCHANGED <<version, active, card, writing, jobs, task, worker, writes, chosen, edited,
                   overlapped, died>>

Edits ==
    /\ edit.kind \in {"add", "moved"} /\ edit' = NoEdit /\ version' = version + 1
    /\ edit.kind = "add" => active' = active \cup {edit.category}
    /\ edit.kind = "moved" => active' = active \ {edit.category}
    /\ card' \in [Cards -> CardRow]
    /\ \A c \in Cards :
          /\ c \notin edit.locked => card'[c] = card[c]
          /\ c \in edit.locked =>
                /\ card'[c].category = Other /\ card'[c].version = version + 1
                /\ card'[c].manual <=> card[c].manual
                /\ card'[c].reason /\ card'[c].stamp = card[c].stamp + 1
    /\ JobAdded(version + 1, card') \/ UNCHANGED <<jobs, task, edited>>
    /\ UNCHANGED <<writing, worker, writes, chosen, overlapped, died>>

Writes(c) ==
    /\ writing[c].kind # "none" /\ writing[c].version > 0
    /\ CardBecomes(c, writing[c].category, writing[c].version, writing[c].kind = "move", FALSE)
    /\ writing' = [writing EXCEPT ![c] = NoWrite]
    /\ chosen' \in [Cards -> Categories]
    /\ \A d \in Cards : d # c => chosen'[d] = chosen[d]
    /\ writing[c].kind = "move" => chosen'[c] = writing[c].category
    /\ edited' = edited \cup {c}
    /\ Overlap(c, writing[c].seen)
    /\ UNCHANGED <<version, active, edit, jobs, task, worker, writes, died>>

Claims(w, j) ==
    /\ worker[w].pc = "idle" /\ j \in task /\ task' = task \ {j}
    /\ JobBecomes(j, "RUNNING", jobs[j].result)
    /\ worker' = [worker EXCEPT ![w] = [Idle EXCEPT !.pc = "check", !.job = j]]
    /\ CategoriesFrame /\ UNCHANGED <<card, overlapped>>

(* The other steps of a task that runs.                                     *)
Ends(w, status) ==
    /\ worker[w].pc \in {"check", "next"} /\ status \in {"SUCCEEDED", "FAILED", "STALE"}
    /\ status = "SUCCEEDED" =>
          /\ worker[w].pc = "next" /\ worker[w].todo = {}
          /\ \A c \in Cards : Job(w).result[c] # "FAILED"
    /\ JobBecomes(worker[w].job, status, Job(w).result)
    /\ worker' = [worker EXCEPT ![w] = Idle] /\ TaskFrame

Reads(w) ==
    /\ worker[w].pc = "check" /\ worker' = [worker EXCEPT ![w].pc = "read"]
    /\ TaskFrame /\ UNCHANGED jobs

Skips(w, c) ==
    /\ worker[w].pc = "next" /\ c \in worker[w].manual /\ c \in worker[w].todo
    /\ JobBecomes(worker[w].job, Job(w).status, [Job(w).result EXCEPT ![c] = "SKIPPED_MANUAL"])
    /\ worker' = [worker EXCEPT ![w].todo = @ \ {c}]
    /\ TaskFrame

Takes(w, c) ==
    /\ worker[w].pc = "next" /\ c \in worker[w].todo
    /\ worker' = [worker EXCEPT ![w] = [worker[w] EXCEPT !.pc = "apply", !.cards = {c},
                                                         !.todo = worker[w].todo \ {c}]]
    /\ TaskFrame /\ UNCHANGED jobs

Updates(w, c, k) ==
    /\ worker[w].pc = "apply" /\ c \in worker[w].cards /\ ~Locked(c) /\ UnchangedCard(w, c)
    /\ k \in worker[w].categories
    /\ worker' = [worker EXCEPT ![w] = [@ EXCEPT !.pc = "update", !.category = k,
                                                 !.version = version]]
    /\ TaskFrame /\ UNCHANGED jobs

Rejects(w, c) ==
    /\ worker[w].pc = "apply" /\ c \in worker[w].cards /\ ~UnchangedCard(w, c)
    /\ JobBecomes(worker[w].job, Job(w).status,
                  [Job(w).result EXCEPT ![c] = "SKIPPED_NEWER_EDIT"])
    /\ worker' = [worker EXCEPT ![w] = [@ EXCEPT !.pc = "next", !.cards = {}]]
    /\ TaskFrame

Classifies(w, c) ==
    /\ worker[w].pc = "update" /\ c \in worker[w].cards
    /\ CardBecomes(c, worker[w].category, Job(w).target, card[c].manual, card[c].reason)
    /\ Overlap(c, worker[w].version)
    /\ worker' = [worker EXCEPT ![w] = [@ EXCEPT !.pc = "record", !.category = Other,
                                                 !.version = 0]]
    /\ CategoriesFrame /\ UNCHANGED <<jobs, task>>

Records(w, c) ==
    /\ worker[w].pc = "record" /\ c \in worker[w].cards
    /\ JobBecomes(worker[w].job, Job(w).status, [Job(w).result EXCEPT ![c] = "APPLIED"])
    /\ worker' = [worker EXCEPT ![w] = [@ EXCEPT !.pc = "next", !.cards = {}]]
    /\ TaskFrame

Fails(w) ==
    /\ worker[w].pc \in {"read", "next", "apply", "update", "record"}
    /\ JobBecomes(worker[w].job, "FAILED",
                  [c \in Cards |-> IF Job(w).result[c] = "PENDING" THEN "FAILED"
                                   ELSE Job(w).result[c]])
    /\ worker' = [worker EXCEPT ![w] = Idle] /\ TaskFrame

----------------------------------------------------------------------------
(* A card is rewritten.                                                     *)
LEMMA CardRewritten ==
    ASSUME Typed, NEW c \in Cards, NEW row \in CardRow, card' = [card EXCEPT ![c] = row]
    PROVE  /\ card' \in [Cards -> CardRow] /\ card'[c] = row
           /\ \A d \in Cards : d # c => card'[d] = card[d]
  BY DEF Typed

(* A job is rewritten in place.                                             *)
LEMMA JobRewritten ==
    ASSUME Typed, NEW j \in 1..Len(jobs), NEW status, NEW result,
           [jobs[j] EXCEPT !.status = status, !.result = result] \in JobRow,
           jobs' = [jobs EXCEPT ![j] = [jobs[j] EXCEPT !.status = status, !.result = result]]
    PROVE  JobBecomes(j, status, result)
<1> DEFINE row == [jobs[j] EXCEPT !.status = status, !.result = result]
<1>1. jobs \in Seq(JobRow) /\ Len(jobs) \in Nat /\ DOMAIN jobs = 1..Len(jobs)
  BY LenProperties DEF Typed
<1>2. \A i \in 1..Len(jobs) : jobs[i] \in JobRow
  BY <1>1, ElementOfSeq
<1>3. jobs' \in Seq(JobRow) /\ Len(jobs') = Len(jobs)
  BY <1>1, ExceptSeq
<1>4. /\ row.target = jobs[j].target /\ row.snapshot = jobs[j].snapshot
      /\ row.status = status /\ row.result = result
  BY <1>2 DEF JobRow
<1>5. \A i \in 1..Len(jobs) : jobs'[i] = IF i = j THEN row ELSE jobs[i]
  BY <1>1
<1> QED BY <1>3, <1>4, <1>5 DEF JobBecomes

(* The sequence of jobs and its rows.                                       *)
LEMMA JobsTyped ==
    ASSUME Typed
    PROVE  /\ jobs \in Seq(JobRow) /\ Len(jobs) \in Nat /\ DOMAIN jobs = 1..Len(jobs)
           /\ \A j \in 1..Len(jobs) : jobs[j] \in JobRow
<1>1. jobs \in Seq(JobRow)
  BY DEF Typed
<1> QED BY <1>1, LenProperties, ElementOfSeq

(* The status changes (ClaimJob, EndJob).                                   *)
LEMMA StatusChanged ==
    ASSUME Typed, NEW j \in 1..Len(jobs),
           NEW status \in {"QUEUED", "RUNNING", "SUCCEEDED", "FAILED", "STALE"},
           jobs' = [jobs EXCEPT ![j].status = status]
    PROVE  JobBecomes(j, status, jobs[j].result)
<1>1. jobs[j] \in JobRow /\ DOMAIN jobs = 1..Len(jobs)
  BY JobsTyped
<1>2. /\ [jobs[j] EXCEPT !.status = status] \in JobRow
      /\ [jobs[j] EXCEPT !.status = status] =
            [jobs[j] EXCEPT !.status = status, !.result = jobs[j].result]
  BY <1>1 DEF JobRow
<1> QED BY <1>1, <1>2, JobRewritten

(* One result changes (SetResult).                                          *)
LEMMA ResultSet ==
    ASSUME Typed, NEW j \in 1..Len(jobs), NEW c \in Cards, NEW new \in Results,
           jobs' = [jobs EXCEPT ![j].result[c] = new]
    PROVE  JobBecomes(j, jobs[j].status, [jobs[j].result EXCEPT ![c] = new])
<1> DEFINE result == [jobs[j].result EXCEPT ![c] = new]
<1>1. jobs[j] \in JobRow /\ DOMAIN jobs = 1..Len(jobs)
  BY JobsTyped
<1>2. result \in [Cards -> Results]
  BY <1>1 DEF JobRow
<1>3. jobs' = [jobs EXCEPT ![j] = [jobs[j] EXCEPT !.result = result]]
  OBVIOUS
<1> HIDE DEF result
<1>4. /\ [jobs[j] EXCEPT !.result = result] \in JobRow
      /\ [jobs[j] EXCEPT !.result = result] =
            [jobs[j] EXCEPT !.status = jobs[j].status, !.result = result]
  BY <1>1, <1>2 DEF JobRow
<1>5. JobBecomes(j, jobs[j].status, result)
  BY <1>3, <1>4, JobRewritten
<1> QED BY <1>5 DEF result

(* The new job waits for its task.                                          *)
LEMMA TaskAdded ==
    ASSUME Typed, NEW target, NEW cards, JobAdded(target, cards)
    PROVE  jobs' \in Seq(JobRow) /\ task' \subseteq 1..Len(jobs')
<1>1. /\ jobs' \in Seq(JobRow) /\ Len(jobs') = Len(jobs) + 1
      /\ task' = task \cup {Len(jobs) + 1}
  BY DEF JobAdded
<1>2. Len(jobs) \in Nat /\ task \subseteq 1..Len(jobs)
  BY JobsTyped DEF Typed
<1>3. Len(jobs) + 1 \in 1..Len(jobs') /\ 1..Len(jobs) \subseteq 1..Len(jobs')
  BY <1>1, <1>2
<1> QED BY <1>1, <1>2, <1>3

(* repository.create_job adds a job that covers the cards, or nothing.      *)
LEMMA JobCreated ==
    ASSUME Typed, NEW target \in Nat, NEW cards \in [Cards -> CardRow], create_job(target, cards)
    PROVE  JobAdded(target, cards) \/ UNCHANGED <<jobs, task, edited>>
<1> DEFINE covered == {c \in Cards : cards[c].stamp > 0 /\ ~cards[c].excluded}
           row == [status |-> "QUEUED", target |-> target,
                   result |-> [c \in Cards |-> IF c \in covered THEN "PENDING" ELSE "none"],
                   snapshot |-> [c \in Cards |-> cards[c].stamp]]
<1>1. CASE covered = {}
  BY <1>1 DEF create_job
<1>2. CASE covered # {}
  <2>1. jobs' = Append(jobs, row) /\ task' = task \cup {Len(jobs) + 1} /\ edited' = {}
    BY <1>2 DEF create_job
  <2>2. row \in JobRow
    <3>1. row.snapshot \in [Cards -> Nat]
      BY DEF CardRow
    <3>2. row.result \in [Cards -> Results]
      BY DEF Results
    <3> QED BY <3>1, <3>2 DEF JobRow
  <2>3. \A c \in Cards :
           /\ row.snapshot[c] = cards[c].stamp /\ row.result[c] \in {"none", "PENDING"}
           /\ row.result[c] # "none" => cards[c].stamp > 0
    OBVIOUS
  <2>4. row.status = "QUEUED" /\ row.target = target
    OBVIOUS
  <2> HIDE DEF row
  <2>5. /\ jobs' \in Seq(JobRow) /\ Len(jobs') = Len(jobs) + 1
        /\ \A j \in 1..Len(jobs) : jobs'[j] = jobs[j]
        /\ jobs'[Len(jobs) + 1] = row
    BY <2>1, <2>2, JobsTyped, AppendProperties
  <2> QED BY <2>1, <2>3, <2>4, <2>5 DEF JobAdded
<1> QED BY <1>1, <1>2

----------------------------------------------------------------------------
(* The initial tables of rows.                                              *)
LEMMA RowsTyped ==
    ASSUME ReclassificationAssumption
    PROVE  /\ Other \in Categories /\ Absent \in CardRow /\ NoEdit \in EditRow
           /\ NoWrite \in WriteRow /\ Idle \in WorkerRow
  BY DEF ReclassificationAssumption, Absent, NoEdit, NoWrite, Idle, CardRow, EditRow, WriteRow,
         WorkerRow

OwnerEffect ==
    \/ \E k \in Categories, kind \in {"add", "delete"} : Opens(kind, k)
    \/ Retries
    \/ \E c \in Cards, k \in Categories, kind \in {"move", "insert"} : Begins(c, kind, k)
    \/ \E c \in Cards : Touches(c)

CommitEffect == LocksManual \/ Edits \/ \E c \in Cards : Writes(c) \/ ReadVersion(c)

TaskEffect(w) ==
    \/ \E j \in 1..Len(jobs) : Claims(w, j)
    \/ \E status \in {"SUCCEEDED", "FAILED", "STALE"} : Ends(w, status)
    \/ Reads(w) \/ ReadCards(w) \/ Fails(w)
    \/ \E c \in Cards :
          \/ Skips(w, c) \/ Takes(w, c) \/ Rejects(w, c) \/ Classifies(w, c) \/ Records(w, c)
          \/ \E k \in Categories : Updates(w, c, k)

(* The owner's requests.                                                    *)
LEMMA OwnerSteps ==
    ASSUME ReclassificationAssumption, Typed, OwnerStep
    PROVE  OwnerEffect
<1>1. ASSUME NEW k \in Categories, add_category(k)
      PROVE  OwnerEffect
  <2>1. Opens("add", k)
    BY <1>1 DEF add_category, Opens, NoEdit
  <2> QED BY <2>1 DEF OwnerEffect
<1>2. ASSUME NEW k \in Categories, delete_category(k)
      PROVE  OwnerEffect
  <2>1. Opens("delete", k)
    BY <1>2 DEF delete_category, Opens, NoEdit
  <2> QED BY <2>1 DEF OwnerEffect
<1>3. ASSUME NEW j \in DOMAIN jobs, retry_reclassification_job(j)
      PROVE  OwnerEffect
  <2>1. create_job(version, card) /\ version \in Nat /\ card \in [Cards -> CardRow]
    BY <1>3 DEF retry_reclassification_job, Typed
  <2>2. ~UNCHANGED <<jobs, task, edited>>
    <3>1. jobs' # jobs
      <4>1. \E c \in Cards : card[c].stamp > 0 /\ ~card[c].excluded
        BY <1>3 DEF retry_reclassification_job, Exists
      <4>2. PICK row : jobs' = Append(jobs, row)
        BY <2>1, <4>1 DEF create_job
      <4>3. Len(Append(jobs, row)) = Len(jobs) + 1 /\ Len(jobs) \in Nat
        BY JobsTyped
      <4> QED BY <4>2, <4>3
    <3> QED BY <3>1
  <2>3. JobAdded(version, card)
    BY <2>1, <2>2, JobCreated
  <2> QED BY <1>3, <2>3 DEF retry_reclassification_job, Retries, OwnerEffect
<1>4. ASSUME NEW c \in Cards, NEW k \in Categories, update_category(c, k)
      PROVE  OwnerEffect
  <2>1. Begins(c, "move", k)
    BY <1>4 DEF update_category, Begins, Count, Exists, Typed
  <2> QED BY <2>1 DEF OwnerEffect
<1>5. ASSUME NEW c \in Cards, NEW k \in Categories, persist_fact_cards(c, k)
      PROVE  OwnerEffect
  <2>1. card[c].stamp \in Nat
    BY DEF Typed, CardRow
  <2>2. Begins(c, "insert", k)
    BY <1>5, <2>1 DEF persist_fact_cards, Begins, Count, Exists, Typed
  <2> QED BY <2>2 DEF OwnerEffect
<1>6. ASSUME NEW c \in Cards, NEW excluded \in BOOLEAN, ChangeCard(c, excluded)
      PROVE  OwnerEffect
  <2> DEFINE row == [card[c] EXCEPT !.excluded = excluded, !.stamp = card[c].stamp + 1]
  <2>1. card[c] \in CardRow
    BY DEF Typed
  <2>2. /\ row \in CardRow /\ row.stamp = card[c].stamp + 1
        /\ row.category = card[c].category /\ row.version = card[c].version
        /\ row.manual = card[c].manual /\ row.reason = card[c].reason
    <3>1. card[c].stamp + 1 \in Nat
      BY <2>1 DEF CardRow
    <3> QED BY <2>1, <3>1 DEF CardRow
  <2>3. card' = [card EXCEPT ![c] = row]
    BY <1>6 DEF ChangeCard, Typed
  <2> HIDE DEF row
  <2>4. CardBecomes(c, card[c].category, card[c].version, card[c].manual, card[c].reason)
    BY <2>2, <2>3, CardRewritten DEF CardBecomes
  <2>5. Touches(c)
    BY <1>6, <2>4 DEF ChangeCard, Touches, Exists, Count, Typed
  <2> QED BY <2>5 DEF OwnerEffect
<1> QED BY <1>1, <1>2, <1>3, <1>4, <1>5, <1>6 DEF OwnerStep

(* The commits of edits and writes.                                         *)
LEMMA CommitSteps ==
    ASSUME ReclassificationAssumption, Typed, Finishing
    PROVE  CommitEffect
<1>1. ASSUME move_deleted_manual_cards_to_other
      PROVE  CommitEffect
  <2>1. edit \in EditRow
    BY DEF Typed
  <2>2. edit' = [kind |-> "moved", category |-> edit.category, seen |-> {},
                 locked |-> edit.seen \cap ManualIn(edit.category)]
    BY <1>1, <2>1 DEF move_deleted_manual_cards_to_other, EditRow
  <2>3. LocksManual
    BY <1>1, <2>2 DEF move_deleted_manual_cards_to_other, LocksManual
  <2> QED BY <2>3 DEF CommitEffect
<1>2. ASSUME CommitEdit
      PROVE  CommitEffect
  <2>1. /\ card' \in [Cards -> CardRow]
        /\ \A c \in Cards :
              /\ c \notin edit.locked => card'[c] = card[c]
              /\ c \in edit.locked =>
                    /\ card'[c].category = Other /\ card'[c].version = version + 1
                    /\ card'[c].manual <=> card[c].manual
                    /\ card'[c].reason /\ card'[c].stamp = card[c].stamp + 1
    <3> DEFINE row(c) == [card[c] EXCEPT !.category = Other, !.version = version + 1,
                                         !.reason = TRUE, !.stamp = card[c].stamp + 1]
    <3>1. ASSUME NEW c \in Cards
          PROVE  /\ card[c] \in CardRow /\ row(c) \in CardRow
                 /\ row(c).category = Other /\ row(c).version = version + 1
                 /\ row(c).manual = card[c].manual /\ row(c).reason
                 /\ row(c).stamp = card[c].stamp + 1
      <4>1. card[c] \in CardRow /\ version + 1 \in Nat /\ Other \in Categories
        BY RowsTyped DEF Typed
      <4>2. card[c].stamp + 1 \in Nat
        BY <4>1 DEF CardRow
      <4> QED BY <4>1, <4>2 DEF CardRow
    <3>2. card' = [c \in Cards |-> IF c \in edit.locked THEN row(c) ELSE card[c]]
      BY <1>2 DEF CommitEdit, MovedCards
    <3> HIDE DEF row
    <3> QED BY <3>1, <3>2
  <2>2. create_job(version + 1, card') /\ version + 1 \in Nat
    BY <1>2 DEF CommitEdit, Typed
  <2>3. JobAdded(version + 1, card') \/ UNCHANGED <<jobs, task, edited>>
    BY <2>1, <2>2, JobCreated
  <2>4. Edits
    BY <1>2, <2>1, <2>3 DEF CommitEdit, Edits
  <2> QED BY <2>4 DEF CommitEffect
<1>3. ASSUME NEW c \in Cards, CommitWrite(c)
      PROVE  CommitEffect
  <2> DEFINE row == [card[c] EXCEPT !.category = writing[c].category,
                        !.version = writing[c].version, !.reason = FALSE,
                        !.manual = (writing[c].kind = "move"), !.stamp = card[c].stamp + 1]
  <2>1. card[c] \in CardRow /\ writing[c] \in WriteRow
    BY DEF Typed
  <2>2. /\ row \in CardRow /\ row.stamp = card[c].stamp + 1
        /\ row.category = writing[c].category /\ row.version = writing[c].version
        /\ row.manual = (writing[c].kind = "move") /\ row.reason = FALSE
    <3>1. /\ card[c].stamp + 1 \in Nat /\ (writing[c].kind = "move") \in BOOLEAN
          /\ writing[c].category \in Categories /\ writing[c].version \in Nat
      BY <2>1 DEF CardRow, WriteRow
    <3> QED BY <2>1, <3>1 DEF CardRow
  <2>3. card' = [card EXCEPT ![c] = row]
    BY <1>3 DEF CommitWrite, Typed
  <2> HIDE DEF row
  <2>4. CardBecomes(c, writing[c].category, writing[c].version, writing[c].kind = "move", FALSE)
    BY <2>2, <2>3, CardRewritten DEF CardBecomes
  <2>5. /\ chosen' \in [Cards -> Categories]
        /\ \A d \in Cards : d # c => chosen'[d] = chosen[d]
        /\ writing[c].kind = "move" => chosen'[c] = writing[c].category
    BY <1>3, <2>1 DEF CommitWrite, WriteRow, Typed
  <2>6. Writes(c)
    BY <1>3, <2>4, <2>5 DEF CommitWrite, Writes
  <2> QED BY <2>6 DEF CommitEffect
<1>4. ASSUME NEW c \in Cards, ReadVersion(c)
      PROVE  CommitEffect
  BY <1>4 DEF CommitEffect
<1> QED BY <1>1, <1>2, <1>3, <1>4 DEF Finishing

(* The tasks.                                                               *)
LEMMA TaskSteps ==
    ASSUME Typed, NEW w \in Workers, Assigned(w), TaskStep(w) \/ FailJob(w)
    PROVE  TaskEffect(w)
<1>0. /\ worker[w].pc # "idle" => worker[w].job \in 1..Len(jobs)
      /\ worker[w] \in WorkerRow /\ DOMAIN jobs = 1..Len(jobs)
  BY JobsTyped DEF Assigned, Typed
<1>a. ASSUME worker[w].pc \in {"check", "next"}, NEW status \in {"SUCCEEDED", "FAILED", "STALE"},
             EndJob(w, status), TaskFrame,
             status = "SUCCEEDED" =>
                /\ worker[w].pc = "next" /\ worker[w].todo = {}
                /\ \A c \in Cards : Job(w).result[c] # "FAILED"
      PROVE  TaskEffect(w)
  <2>1. JobBecomes(worker[w].job, status, Job(w).result)
    BY <1>0, <1>a, StatusChanged DEF EndJob, Job
  <2>2. Ends(w, status)
    BY <1>a, <2>1 DEF Ends, EndJob, Return
  <2> QED BY <2>2 DEF TaskEffect
<1>b. ASSUME worker[w].pc \in {"next", "apply", "record"}, NEW c \in Cards, NEW new \in Results,
             SetResult(w, c, new)
      PROVE  JobBecomes(worker[w].job, Job(w).status, [Job(w).result EXCEPT ![c] = new])
  BY <1>0, <1>b, ResultSet DEF SetResult, Job
<1>1. ASSUME NEW j \in DOMAIN jobs, ClaimJob(w, j)
      PROVE  TaskEffect(w)
  <2>1. JobBecomes(j, "RUNNING", jobs[j].result)
    BY <1>0, <1>1, StatusChanged DEF ClaimJob
  <2>2. Claims(w, j)
    BY <1>1, <2>1 DEF ClaimJob, Claims
  <2> QED BY <1>0, <2>2 DEF TaskEffect
<1>2. CASE CheckVersion(w)
  <2>1. CASE Stale(w)
    BY <1>2, <1>a, <2>1 DEF CheckVersion
  <2>2. CASE ~Stale(w)
    <3>1. Reads(w)
      BY <1>2, <2>2 DEF CheckVersion, Step, Reads
    <3> QED BY <3>1 DEF TaskEffect
  <2> QED BY <2>1, <2>2
<1>3. CASE ReadCards(w)
  BY <1>3 DEF TaskEffect
<1>4. CASE NextCard(w)
  <2>1. CASE Stale(w)
    BY <1>4, <1>a, <2>1 DEF NextCard
  <2>2. CASE ~Stale(w)
    <3>1. PICK c \in worker[w].todo :
             IF c \in worker[w].manual
             THEN /\ SetResult(w, c, "SKIPPED_MANUAL")
                  /\ worker' = [worker EXCEPT ![w].todo = @ \ {c}]
             ELSE /\ worker' = [worker EXCEPT ![w] = [@ EXCEPT !.pc = "apply", !.cards = {c},
                                                               !.todo = worker[w].todo \ {c}]]
                  /\ UNCHANGED jobs
      BY <1>4, <2>2 DEF NextCard
    <3>2. c \in Cards /\ worker[w].pc = "next" /\ TaskFrame
      BY <1>0, <1>4 DEF NextCard, WorkerRow
    <3>3. CASE c \in worker[w].manual
      <4>1. JobBecomes(worker[w].job, Job(w).status, [Job(w).result EXCEPT ![c] = "SKIPPED_MANUAL"])
        BY <1>b, <3>1, <3>2, <3>3 DEF Results
      <4>2. Skips(w, c)
        BY <3>1, <3>2, <3>3, <4>1 DEF Skips
      <4> QED BY <3>2, <4>2 DEF TaskEffect
    <3>4. CASE c \notin worker[w].manual
      <4>1. Takes(w, c)
        BY <3>1, <3>2, <3>4 DEF Takes
      <4> QED BY <3>2, <4>1 DEF TaskEffect
    <3> QED BY <3>3, <3>4
  <2> QED BY <2>1, <2>2
<1>5. CASE ApplyCard(w)
  <2>1. PICK c \in worker[w].cards :
           /\ worker[w].pc = "apply" /\ ~Locked(c)
           /\ IF UnchangedCard(w, c)
              THEN \E k \in worker[w].categories :
                      /\ worker' = [worker EXCEPT ![w] = [@ EXCEPT !.pc = "update",
                                                      !.category = k, !.version = version]]
                      /\ UNCHANGED jobs
              ELSE /\ SetResult(w, c, "SKIPPED_NEWER_EDIT")
                   /\ worker' = [worker EXCEPT ![w] = [@ EXCEPT !.pc = "next", !.cards = {}]]
           /\ TaskFrame
    BY <1>5 DEF ApplyCard
  <2>2. c \in Cards /\ worker[w].categories \subseteq Categories
    BY <1>0 DEF WorkerRow
  <2>3. CASE UnchangedCard(w, c)
    <3>1. PICK k \in worker[w].categories : Updates(w, c, k)
      BY <2>1, <2>3 DEF Updates
    <3> QED BY <2>2, <3>1 DEF TaskEffect
  <2>4. CASE ~UnchangedCard(w, c)
    <3>1. JobBecomes(worker[w].job, Job(w).status,
                     [Job(w).result EXCEPT ![c] = "SKIPPED_NEWER_EDIT"])
      BY <1>b, <2>1, <2>2, <2>4 DEF Results
    <3>2. Rejects(w, c)
      BY <2>1, <2>4, <3>1 DEF Rejects
    <3> QED BY <2>2, <3>2 DEF TaskEffect
  <2> QED BY <2>3, <2>4
<1>6. CASE CommitCard(w)
  <2>1. PICK c \in worker[w].cards :
           /\ worker[w].pc = "update"
           /\ card' = [card EXCEPT ![c] = [@ EXCEPT !.category = worker[w].category,
                           !.version = Job(w).target, !.stamp = card[c].stamp + 1]]
           /\ Overlap(c, worker[w].version)
           /\ worker' = [worker EXCEPT ![w] = [@ EXCEPT !.pc = "record", !.category = Other,
                                                        !.version = 0]]
           /\ CategoriesFrame /\ UNCHANGED <<jobs, task>>
    BY <1>6 DEF CommitCard
  <2> DEFINE row == [card[c] EXCEPT !.category = worker[w].category, !.version = Job(w).target,
                                    !.stamp = card[c].stamp + 1]
  <2>2. c \in Cards /\ card[c] \in CardRow
    BY <1>0 DEF WorkerRow, Typed
  <2>3. worker[w].category \in Categories /\ Job(w).target \in Nat
    BY <1>0, <2>1, JobsTyped DEF WorkerRow, Job, JobRow
  <2>4. /\ row \in CardRow /\ row.stamp = card[c].stamp + 1
        /\ row.category = worker[w].category /\ row.version = Job(w).target
        /\ row.manual = card[c].manual /\ row.reason = card[c].reason
    <3>1. card[c].stamp + 1 \in Nat
      BY <2>2 DEF CardRow
    <3> QED BY <2>2, <2>3, <3>1 DEF CardRow
  <2>5. card' = [card EXCEPT ![c] = row]
    BY <2>1, <2>2 DEF Typed
  <2> HIDE DEF row
  <2>6. CardBecomes(c, worker[w].category, Job(w).target, card[c].manual, card[c].reason)
    BY <2>2, <2>4, <2>5, CardRewritten DEF CardBecomes
  <2>7. Classifies(w, c)
    BY <2>1, <2>6 DEF Classifies
  <2> QED BY <2>2, <2>7 DEF TaskEffect
<1>7. CASE RecordCard(w)
  <2>1. PICK c \in worker[w].cards :
           /\ worker[w].pc = "record" /\ SetResult(w, c, "APPLIED")
           /\ worker' = [worker EXCEPT ![w] = [@ EXCEPT !.pc = "next", !.cards = {}]]
           /\ TaskFrame
    BY <1>7 DEF RecordCard
  <2>2. c \in Cards
    BY <1>0 DEF WorkerRow
  <2>3. JobBecomes(worker[w].job, Job(w).status, [Job(w).result EXCEPT ![c] = "APPLIED"])
    BY <1>b, <2>1, <2>2 DEF Results
  <2>4. Records(w, c)
    BY <2>1, <2>3 DEF Records
  <2> QED BY <2>2, <2>4 DEF TaskEffect
<1>8. CASE FinishJob(w)
  <2>1. CASE \E c \in Cards : Job(w).result[c] = "FAILED"
    BY <1>8, <1>a, <2>1 DEF FinishJob
  <2>2. CASE ~\E c \in Cards : Job(w).result[c] = "FAILED"
    BY <1>8, <1>a, <2>2 DEF FinishJob
  <2> QED BY <2>1, <2>2
<1>9. CASE FailJob(w)
  <2> DEFINE result == [c \in Cards |-> IF Job(w).result[c] = "PENDING" THEN "FAILED"
                                        ELSE Job(w).result[c]]
             j == worker[w].job
  <2>1. j \in 1..Len(jobs) /\ jobs[j] \in JobRow
    BY <1>0, <1>9, JobsTyped DEF FailJob
  <2>2. result \in [Cards -> Results]
    BY <2>1 DEF Job, JobRow, Results
  <2>3. jobs' = [jobs EXCEPT ![j] = [jobs[j] EXCEPT !.status = "FAILED", !.result = result]]
    BY <1>0, <1>9, <2>1 DEF FailJob, Job
  <2> HIDE DEF result
  <2>4. [jobs[j] EXCEPT !.status = "FAILED", !.result = result] \in JobRow
    BY <2>1, <2>2 DEF JobRow
  <2>5. JobBecomes(j, "FAILED", result)
    BY <2>1, <2>3, <2>4, JobRewritten
  <2>6. Fails(w)
    BY <1>9, <2>5 DEF FailJob, Fails, Return, result
  <2> QED BY <2>6 DEF TaskEffect
<1> QED BY <1>1, <1>2, <1>3, <1>4, <1>5, <1>6, <1>7, <1>8, <1>9 DEF TaskStep

(* A step of the system.                                                    *)
Stepped == OwnerEffect \/ CommitEffect \/ (\E w \in Workers : TaskEffect(w)) \/ Crash

(* Every step has one of the effects.                                       *)
LEMMA StepsTaken ==
    ASSUME ReclassificationAssumption, Typed, \A w \in Workers : Assigned(w), Next
    PROVE  Stepped
  BY OwnerSteps, CommitSteps, TaskSteps DEF Next, Stepped

(* A job keeps its target and the stamps it was made from, and a result     *)
(* never becomes PENDING again.                                             *)
JobsGrown ==
    /\ jobs' \in Seq(JobRow) /\ Len(jobs') >= Len(jobs)
    /\ \A j \in 1..Len(jobs) :
          /\ jobs'[j].target = jobs[j].target /\ jobs'[j].snapshot = jobs[j].snapshot
          /\ \A c \in Cards : jobs'[j].result[c] = "PENDING" => jobs[j].result[c] = "PENDING"

(* Ending, skipping and recording settle results.                           *)
LEMMA JobSettled ==
    ASSUME Typed, NEW j \in 1..Len(jobs), NEW status, NEW result, JobBecomes(j, status, result),
           \A c \in Cards : result[c] = "PENDING" => jobs[j].result[c] = "PENDING"
    PROVE  JobsGrown
<1>1. Len(jobs) \in Nat
  BY JobsTyped
<1> QED BY <1>1 DEF JobBecomes, JobsGrown

(* One result is set and the others stay.                                   *)
Settles(j, c, new) ==
    /\ JobsGrown
    /\ jobs'[j].result[c] = new
    /\ \A d \in Cards : d # c => jobs'[j].result[d] = jobs[j].result[d]

(* SetResult.                                                               *)
LEMMA ResultSettled ==
    ASSUME Typed, NEW j \in 1..Len(jobs), NEW status, NEW c \in Cards, NEW new, new # "PENDING",
           JobBecomes(j, status, [jobs[j].result EXCEPT ![c] = new])
    PROVE  Settles(j, c, new)
<1>1. jobs[j].result \in [Cards -> Results]
  BY JobsTyped DEF JobRow
<1>2. /\ [jobs[j].result EXCEPT ![c] = new][c] = new
      /\ \A d \in Cards : d # c =>
            [jobs[j].result EXCEPT ![c] = new][d] = jobs[j].result[d]
  BY <1>1
<1>3. jobs'[j].result = [jobs[j].result EXCEPT ![c] = new]
  BY DEF JobBecomes
<1>4. \A d \in Cards : [jobs[j].result EXCEPT ![c] = new][d] = "PENDING" =>
                           jobs[j].result[d] = "PENDING"
  BY <1>2
<1>5. JobsGrown
  BY <1>4, JobSettled
<1> QED BY <1>2, <1>3, <1>5 DEF Settles

(* The two parts of JobsAccounted.                                          *)
Tended(j) ==
    jobs[j].status \in {"QUEUED", "RUNNING"} =>
        j \in task \cup died \/ \E w \in Workers : worker[w].job = j

Complete(j) ==
    jobs[j].status = "SUCCEEDED" =>
        \A c \in Cards : jobs[j].result[c] \notin {"PENDING", "FAILED"}

(* Every step keeps the types of the rows.                                  *)
LEMMA RowsStayTyped ==
    ASSUME ReclassificationAssumption, Typed, \A w \in Workers : Assigned(w), Stepped
    PROVE  Typed'
<1>0. /\ Len(jobs) \in Nat /\ Len(jobs) >= 0 /\ DOMAIN jobs = 1..Len(jobs)
      /\ \A j \in 1..Len(jobs) : jobs[j] \in JobRow
      /\ jobs' \in Seq(JobRow) => Len(jobs') \in Nat /\ DOMAIN jobs' = 1..Len(jobs')
  BY JobsTyped, LenProperties
<1>a. /\ Other \in Categories /\ Idle \in WorkerRow /\ NoEdit \in EditRow /\ NoWrite \in WriteRow
  BY RowsTyped
<1>1. ASSUME NEW k \in Categories, NEW kind \in {"add", "delete"}, Opens(kind, k)
      PROVE  Typed'
  <2>1. [kind |-> kind, category |-> k, locked |-> {},
         seen |-> IF kind = "delete" THEN ManualIn(k) ELSE {}] \in EditRow
    BY DEF EditRow, ManualIn
  <2> QED BY <1>1, <2>1 DEF Opens, Typed
<1>2. ASSUME Retries
      PROVE  Typed'
  <2>1. jobs' \in Seq(JobRow) /\ task' \subseteq 1..Len(jobs')
    BY <1>2, TaskAdded DEF Retries
  <2> QED BY <1>2, <2>1 DEF Retries, Typed
<1>3. ASSUME NEW c \in Cards, NEW k \in Categories, NEW kind \in {"move", "insert"},
             Begins(c, kind, k)
      PROVE  Typed'
  <2>1. [kind |-> kind, category |-> k, seen |-> version, version |-> 0] \in WriteRow
    BY DEF WriteRow, Typed
  <2> QED BY <1>3, <2>1 DEF Begins, Typed
<1>4. ASSUME NEW c \in Cards, Touches(c)
      PROVE  Typed'
  BY <1>4, <1>0, <1>a DEF Touches, CardBecomes, Typed
<1>5. ASSUME LocksManual
      PROVE  Typed'
  <2>1. [kind |-> "moved", category |-> edit.category, seen |-> {},
        locked |-> edit.seen \cap ManualIn(edit.category)] \in EditRow
    BY DEF EditRow, ManualIn, Typed
  <2> QED BY <1>5, <2>1 DEF LocksManual, Typed
<1>6. ASSUME Edits
      PROVE  Typed'
  <2>1. active' \subseteq Categories /\ version' \in Nat
    BY <1>6 DEF Edits, EditRow, Typed
  <2>2. jobs' \in Seq(JobRow) /\ task' \subseteq 1..Len(jobs')
    <3>1. CASE JobAdded(version + 1, card')
      BY <3>1, TaskAdded
    <3>2. CASE UNCHANGED <<jobs, task, edited>>
      BY <3>2 DEF Typed
    <3> QED BY <1>6, <3>1, <3>2 DEF Edits
  <2> QED BY <1>6, <1>a, <2>1, <2>2 DEF Edits, Typed
<1>7. ASSUME NEW c \in Cards, Writes(c)
      PROVE  Typed'
  BY <1>7, <1>0, <1>a DEF Writes, CardBecomes, NoWrite, Typed
<1>8. ASSUME NEW w \in Workers, NEW j \in 1..Len(jobs), Claims(w, j)
      PROVE  Typed'
  <2>1. [Idle EXCEPT !.pc = "check", !.job = j] \in WorkerRow
    <3>1. j \in Nat
      BY <1>0
    <3> QED BY <1>a, <3>1 DEF WorkerRow
  <2>2. worker' \in [Workers -> WorkerRow]
    BY <1>8, <2>1 DEF Claims, Typed
  <2> QED BY <1>8, <2>2 DEF Claims, CategoriesFrame, JobBecomes, Typed
<1>9. ASSUME NEW w \in Workers, NEW status \in {"SUCCEEDED", "FAILED", "STALE"}, Ends(w,
             status)
      PROVE  Typed'
  BY <1>9, <1>0, <1>a DEF Ends, JobBecomes, TaskFrame, CategoriesFrame, Idle, Typed
<1>10. ASSUME NEW w \in Workers, Reads(w)
       PROVE  Typed'
  <2>1. [worker[w] EXCEPT !.pc = "read"] \in WorkerRow
    BY <1>10 DEF Reads, Typed, WorkerRow
  <2>2. worker' \in [Workers -> WorkerRow]
    BY <1>10, <2>1 DEF Reads, Typed
  <2> QED BY <1>10, <2>2 DEF Reads, TaskFrame, CategoriesFrame, JobBecomes, Typed
<1>11. ASSUME NEW w \in Workers, ReadCards(w)
       PROVE  Typed'
  <2>0. Rows(w) \subseteq Cards /\ {c \in Rows(w) : card[c].manual} \subseteq Cards
    BY DEF Rows
  <2>1. [worker[w] EXCEPT !.pc = "next", !.todo = Rows(w),
                        !.manual = {c \in Rows(w) : card[c].manual}, !.categories = active] \in WorkerRow
    BY <1>11, <2>0 DEF ReadCards, Typed, WorkerRow
  <2>2. worker' \in [Workers -> WorkerRow]
    BY <1>11, <2>1 DEF ReadCards, Typed
  <2> QED BY <1>11, <2>2 DEF ReadCards, TaskFrame, CategoriesFrame, JobBecomes, Typed
<1>12. ASSUME NEW w \in Workers, Fails(w)
       PROVE  Typed'
  BY <1>12, <1>0, <1>a DEF Fails, JobBecomes, TaskFrame, CategoriesFrame, Idle, Job, Typed
<1>13. ASSUME NEW w \in Workers, NEW c \in Cards, Skips(w, c)
       PROVE  Typed'
  <2>1. [worker[w] EXCEPT !.todo = worker[w].todo \ {c}] \in WorkerRow
    BY <1>13 DEF Skips, Typed, WorkerRow
  <2>2. worker' \in [Workers -> WorkerRow]
    BY <1>13, <2>1 DEF Skips, Typed
  <2> QED BY <1>13, <2>2 DEF Skips, TaskFrame, CategoriesFrame, JobBecomes, Typed
<1>14. ASSUME NEW w \in Workers, NEW c \in Cards, Takes(w, c)
       PROVE  Typed'
  <2>1. [worker[w] EXCEPT !.pc = "apply", !.cards = {c}, !.todo = worker[w].todo \ {c}] \in WorkerRow
    BY <1>14 DEF Takes, Typed, WorkerRow
  <2>2. worker' \in [Workers -> WorkerRow]
    BY <1>14, <2>1 DEF Takes, Typed
  <2> QED BY <1>14, <2>2 DEF Takes, TaskFrame, CategoriesFrame, JobBecomes, Typed
<1>15. ASSUME NEW w \in Workers, NEW c \in Cards, Rejects(w, c)
       PROVE  Typed'
  <2>1. [worker[w] EXCEPT !.pc = "next", !.cards = {}] \in WorkerRow
    BY <1>15 DEF Rejects, Typed, WorkerRow
  <2>2. worker' \in [Workers -> WorkerRow]
    BY <1>15, <2>1 DEF Rejects, Typed
  <2> QED BY <1>15, <2>2 DEF Rejects, TaskFrame, CategoriesFrame, JobBecomes, Typed
<1>16. ASSUME NEW w \in Workers, NEW c \in Cards, Classifies(w, c)
       PROVE  Typed'
  <2>1. [worker[w] EXCEPT !.pc = "record", !.category = Other, !.version = 0] \in WorkerRow
    BY <1>16, <1>a DEF Classifies, Typed, WorkerRow
  <2>2. worker' \in [Workers -> WorkerRow]
    BY <1>16, <2>1 DEF Classifies, Typed
  <2> QED BY <1>16, <2>2 DEF Classifies, TaskFrame, CategoriesFrame, CardBecomes, Typed
<1>17. ASSUME NEW w \in Workers, NEW c \in Cards, Records(w, c)
       PROVE  Typed'
  <2>1. [worker[w] EXCEPT !.pc = "next", !.cards = {}] \in WorkerRow
    BY <1>17 DEF Records, Typed, WorkerRow
  <2>2. worker' \in [Workers -> WorkerRow]
    BY <1>17, <2>1 DEF Records, Typed
  <2> QED BY <1>17, <2>2 DEF Records, TaskFrame, CategoriesFrame, JobBecomes, Typed
<1>18. ASSUME NEW w \in Workers, NEW c \in Cards, NEW k \in Categories, Updates(w, c, k)
       PROVE  Typed'
  <2>1. [worker[w] EXCEPT !.pc = "update", !.category = k, !.version = version] \in WorkerRow
    BY <1>18 DEF Updates, Typed, WorkerRow
  <2>2. worker' \in [Workers -> WorkerRow]
    BY <1>18, <2>1 DEF Updates, Typed
  <2> QED BY <1>18, <2>2 DEF Updates, TaskFrame, CategoriesFrame, JobBecomes, Typed
<1>19. ASSUME Crash
       PROVE  Typed'
  BY <1>19, <1>0, <1>a DEF Crash, Idle, NoEdit, NoWrite, Typed
<1>20. ASSUME NEW c \in Cards, ReadVersion(c)
       PROVE  Typed'
  <2>1. [writing[c] EXCEPT !.version = version] \in WriteRow
    BY DEF WriteRow, Typed
  <2>2. writing' \in [Cards -> WriteRow]
    BY <1>20, <2>1 DEF ReadVersion, Typed
  <2> QED BY <1>20, <2>2 DEF ReadVersion, Typed
<1> QED BY <1>1, <1>2, <1>3, <1>4, <1>5, <1>6, <1>7, <1>8, <1>9, <1>10, <1>11, <1>12, <1>13,
           <1>14, <1>15, <1>16, <1>17, <1>18, <1>19, <1>20 DEF Stepped, OwnerEffect, CommitEffect,
           TaskEffect

(* No step changes what a job is for, or makes a result pending again.      *)
LEMMA JobsGrow ==
    ASSUME Typed, \A w \in Workers : Assigned(w), Stepped
    PROVE  JobsGrown
<1>0. /\ Len(jobs) \in Nat /\ Len(jobs) >= 0 /\ DOMAIN jobs = 1..Len(jobs)
      /\ \A j \in 1..Len(jobs) : jobs[j] \in JobRow
      /\ jobs' \in Seq(JobRow) => Len(jobs') \in Nat /\ DOMAIN jobs' = 1..Len(jobs')
  BY JobsTyped, LenProperties
<1>1. ASSUME NEW k \in Categories, NEW kind \in {"add", "delete"}, Opens(kind, k)
      PROVE  JobsGrown
  BY <1>1, <1>0 DEF Opens, JobsGrown, Typed
<1>2. ASSUME Retries
      PROVE  JobsGrown
  BY <1>0, <1>2 DEF Retries, JobAdded, JobsGrown
<1>3. ASSUME NEW c \in Cards, NEW k \in Categories, NEW kind \in {"move", "insert"},
             Begins(c, kind, k)
      PROVE  JobsGrown
  BY <1>3, <1>0 DEF Begins, JobsGrown, Typed
<1>4. ASSUME NEW c \in Cards, Touches(c)
      PROVE  JobsGrown
  BY <1>4, <1>0 DEF Touches, CardBecomes, JobsGrown, Typed
<1>5. ASSUME LocksManual
      PROVE  JobsGrown
  BY <1>5, <1>0 DEF LocksManual, JobsGrown, Typed
<1>6. ASSUME Edits
      PROVE  JobsGrown
  <2>1. CASE UNCHANGED <<jobs, task, edited>>
    BY <1>0, <2>1 DEF JobsGrown, Typed
  <2>2. CASE JobAdded(version + 1, card')
    BY <1>0, <2>2 DEF JobAdded, JobsGrown
  <2> QED BY <1>6, <2>1, <2>2 DEF Edits
<1>7. ASSUME NEW c \in Cards, Writes(c)
      PROVE  JobsGrown
  BY <1>7, <1>0 DEF Writes, CardBecomes, NoWrite, JobsGrown, Typed
<1>8. ASSUME NEW w \in Workers, NEW j \in 1..Len(jobs), Claims(w, j)
      PROVE  JobsGrown
  BY <1>8, JobSettled DEF Claims
<1>9. ASSUME NEW w \in Workers, NEW status \in {"SUCCEEDED", "FAILED", "STALE"}, Ends(w,
             status)
      PROVE  JobsGrown
  <2>1. worker[w].job \in 1..Len(jobs)
    BY <1>9 DEF Ends, Assigned
  <2> QED BY <1>9, <2>1, JobSettled DEF Ends, Job
<1>10. ASSUME NEW w \in Workers, Reads(w)
       PROVE  JobsGrown
  BY <1>10, <1>0 DEF Reads, TaskFrame, CategoriesFrame, JobsGrown, Typed
<1>11. ASSUME NEW w \in Workers, ReadCards(w)
       PROVE  JobsGrown
  BY <1>11, <1>0 DEF ReadCards, TaskFrame, CategoriesFrame, Rows, Job, JobsGrown, Typed
<1>12. ASSUME NEW w \in Workers, Fails(w)
       PROVE  JobsGrown
  <2>1. worker[w].job \in 1..Len(jobs)
    BY <1>12 DEF Fails, Assigned
  <2> DEFINE result == [c \in Cards |-> IF Job(w).result[c] = "PENDING" THEN "FAILED"
                                        ELSE Job(w).result[c]]
  <2>2. \A c \in Cards : result[c] = "PENDING" => Job(w).result[c] = "PENDING"
    OBVIOUS
  <2>3. JobBecomes(worker[w].job, "FAILED", result)
    BY <1>12 DEF Fails
  <2> HIDE DEF result
  <2> QED BY <2>1, <2>2, <2>3, JobSettled DEF Job
<1>13. ASSUME NEW w \in Workers, NEW c \in Cards, Skips(w, c)
       PROVE  JobsGrown
  <2>1. worker[w].job \in 1..Len(jobs)
    BY <1>13 DEF Skips, Assigned
  <2>2. Settles(worker[w].job, c, "SKIPPED_MANUAL")
    BY <1>13, <2>1, ResultSettled DEF Skips, Job
  <2> QED BY <2>2 DEF Settles
<1>14. ASSUME NEW w \in Workers, NEW c \in Cards, Takes(w, c)
       PROVE  JobsGrown
  BY <1>14, <1>0 DEF Takes, TaskFrame, CategoriesFrame, JobsGrown, Typed
<1>15. ASSUME NEW w \in Workers, NEW c \in Cards, Rejects(w, c)
       PROVE  JobsGrown
  <2>1. worker[w].job \in 1..Len(jobs)
    BY <1>15 DEF Rejects, Assigned
  <2>2. Settles(worker[w].job, c, "SKIPPED_NEWER_EDIT")
    BY <1>15, <2>1, ResultSettled DEF Rejects, Job
  <2> QED BY <2>2 DEF Settles
<1>16. ASSUME NEW w \in Workers, NEW c \in Cards, Classifies(w, c)
       PROVE  JobsGrown
  BY <1>16, <1>0 DEF Classifies, CardBecomes, CategoriesFrame, Job, JobsGrown, Typed
<1>17. ASSUME NEW w \in Workers, NEW c \in Cards, Records(w, c)
       PROVE  JobsGrown
  <2>1. worker[w].job \in 1..Len(jobs)
    BY <1>17 DEF Records, Assigned
  <2>2. Settles(worker[w].job, c, "APPLIED")
    BY <1>17, <2>1, ResultSettled DEF Records, Job
  <2> QED BY <2>2 DEF Settles
<1>18. ASSUME NEW w \in Workers, NEW c \in Cards, NEW k \in Categories, Updates(w, c, k)
       PROVE  JobsGrown
  BY <1>18, <1>0 DEF Updates, TaskFrame, CategoriesFrame, Job, UnchangedCard, JobsGrown,
     Typed
<1>19. ASSUME Crash
       PROVE  JobsGrown
  BY <1>19, <1>0 DEF Crash, Idle, NoEdit, NoWrite, JobsGrown, Typed
<1>20. ASSUME NEW c \in Cards, ReadVersion(c)
       PROVE  JobsGrown
  BY <1>20, <1>0 DEF ReadVersion, JobsGrown, Typed
<1> QED BY <1>1, <1>2, <1>3, <1>4, <1>5, <1>6, <1>7, <1>8, <1>9, <1>10, <1>11, <1>12, <1>13,
           <1>14, <1>15, <1>16, <1>17, <1>18, <1>19, <1>20 DEF Stepped, OwnerEffect, CommitEffect,
           TaskEffect

(* A task keeps its job until it ends.                                      *)
LEMMA AssignedStays ==
    ASSUME Typed, NEW v \in Workers, Assigned(v), Stepped
    PROVE  Assigned(v)'
<1>0. /\ Len(jobs) \in Nat /\ Len(jobs) >= 0 /\ DOMAIN jobs = 1..Len(jobs)
      /\ \A j \in 1..Len(jobs) : jobs[j] \in JobRow
      /\ jobs' \in Seq(JobRow) => Len(jobs') \in Nat /\ DOMAIN jobs' = 1..Len(jobs')
  BY JobsTyped, LenProperties
<1> USE DEF Typed, WorkerRow, Assigned
<1>1. ASSUME NEW k \in Categories, NEW kind \in {"add", "delete"}, Opens(kind, k)
      PROVE  Assigned(v)'
  BY <1>1, <1>0 DEF Opens
<1>2. ASSUME Retries
      PROVE  Assigned(v)'
  BY <1>2, <1>0 DEF Retries, JobAdded
<1>3. ASSUME NEW c \in Cards, NEW k \in Categories, NEW kind \in {"move", "insert"},
             Begins(c, kind, k)
      PROVE  Assigned(v)'
  BY <1>3, <1>0 DEF Begins
<1>4. ASSUME NEW c \in Cards, Touches(c)
      PROVE  Assigned(v)'
  BY <1>4, <1>0 DEF Touches, CardBecomes
<1>5. ASSUME LocksManual
      PROVE  Assigned(v)'
  BY <1>5, <1>0 DEF LocksManual
<1>6. ASSUME Edits
      PROVE  Assigned(v)'
  BY <1>6, <1>0 DEF Edits, JobAdded
<1>7. ASSUME NEW c \in Cards, Writes(c)
      PROVE  Assigned(v)'
  BY <1>7, <1>0 DEF Writes, CardBecomes, NoWrite
<1>8. ASSUME NEW w \in Workers, NEW j \in 1..Len(jobs), Claims(w, j)
      PROVE  Assigned(v)'
  BY <1>8, <1>0 DEF Claims, JobBecomes, CategoriesFrame, Idle
<1>9. ASSUME NEW w \in Workers, NEW status \in {"SUCCEEDED", "FAILED", "STALE"}, Ends(w,
             status)
      PROVE  Assigned(v)'
  BY <1>9, <1>0 DEF Ends, JobBecomes, TaskFrame, CategoriesFrame, Idle
<1>10. ASSUME NEW w \in Workers, Reads(w)
       PROVE  Assigned(v)'
  BY <1>10, <1>0 DEF Reads, TaskFrame, CategoriesFrame
<1>11. ASSUME NEW w \in Workers, ReadCards(w)
       PROVE  Assigned(v)'
  BY <1>11, <1>0 DEF ReadCards, TaskFrame, CategoriesFrame, Rows, Job
<1>12. ASSUME NEW w \in Workers, Fails(w)
       PROVE  Assigned(v)'
  BY <1>12, <1>0 DEF Fails, JobBecomes, TaskFrame, CategoriesFrame, Idle, Job
<1>13. ASSUME NEW w \in Workers, NEW c \in Cards, Skips(w, c)
       PROVE  Assigned(v)'
  BY <1>13, <1>0 DEF Skips, JobBecomes, TaskFrame, CategoriesFrame, Job
<1>14. ASSUME NEW w \in Workers, NEW c \in Cards, Takes(w, c)
       PROVE  Assigned(v)'
  BY <1>14, <1>0 DEF Takes, TaskFrame, CategoriesFrame
<1>15. ASSUME NEW w \in Workers, NEW c \in Cards, Rejects(w, c)
       PROVE  Assigned(v)'
  BY <1>15, <1>0 DEF Rejects, JobBecomes, TaskFrame, CategoriesFrame, Job
<1>16. ASSUME NEW w \in Workers, NEW c \in Cards, Classifies(w, c)
       PROVE  Assigned(v)'
  BY <1>16, <1>0 DEF Classifies, CardBecomes, CategoriesFrame, Job
<1>17. ASSUME NEW w \in Workers, NEW c \in Cards, Records(w, c)
       PROVE  Assigned(v)'
  BY <1>17, <1>0 DEF Records, JobBecomes, TaskFrame, CategoriesFrame, Job
<1>18. ASSUME NEW w \in Workers, NEW c \in Cards, NEW k \in Categories, Updates(w, c, k)
       PROVE  Assigned(v)'
  BY <1>18, <1>0 DEF Updates, TaskFrame, CategoriesFrame, Job, UnchangedCard
<1>19. ASSUME Crash
       PROVE  Assigned(v)'
  BY <1>19, <1>0 DEF Crash, Idle, NoEdit, NoWrite
<1>20. ASSUME NEW c \in Cards, ReadVersion(c)
       PROVE  Assigned(v)'
  BY <1>20, <1>0 DEF ReadVersion
<1> QED BY <1>1, <1>2, <1>3, <1>4, <1>5, <1>6, <1>7, <1>8, <1>9, <1>10, <1>11, <1>12, <1>13,
           <1>14, <1>15, <1>16, <1>17, <1>18, <1>19, <1>20 DEF Stepped, OwnerEffect, CommitEffect,
           TaskEffect

(* A pending result stays ahead of the task that runs its job.              *)
LEMMA AwaitedStays ==
    ASSUME Typed, \A w \in Workers : Assigned(w), JobsGrown, NEW v \in Workers, Awaited(v),
           Stepped
    PROVE  Awaited(v)'
<1>0. /\ Len(jobs) \in Nat /\ Len(jobs) >= 0 /\ DOMAIN jobs = 1..Len(jobs)
      /\ \A j \in 1..Len(jobs) : jobs[j] \in JobRow
      /\ jobs' \in Seq(JobRow) => Len(jobs') \in Nat /\ DOMAIN jobs' = 1..Len(jobs')
  BY JobsTyped, LenProperties
<1>b. ASSUME worker'[v] = worker[v]
      PROVE  Awaited(v)'
  <2>1. worker[v].pc # "idle" => worker[v].job \in 1..Len(jobs)
    BY DEF Assigned
  <2> QED BY <1>b, <2>1 DEF Awaited, JobsGrown
<1>1. ASSUME NEW k \in Categories, NEW kind \in {"add", "delete"}, Opens(kind, k)
      PROVE  Awaited(v)'
  BY <1>1, <1>0 DEF Opens, Typed, WorkerRow, Assigned, Awaited, JobRow
<1>2. ASSUME Retries
      PROVE  Awaited(v)'
  BY <1>2, <1>0 DEF Retries, JobAdded, Typed, WorkerRow, Assigned, Awaited, JobRow
<1>3. ASSUME NEW c \in Cards, NEW k \in Categories, NEW kind \in {"move", "insert"},
             Begins(c, kind, k)
      PROVE  Awaited(v)'
  BY <1>3, <1>0 DEF Begins, Typed, WorkerRow, Assigned, Awaited, JobRow
<1>4. ASSUME NEW c \in Cards, Touches(c)
      PROVE  Awaited(v)'
  BY <1>4, <1>0 DEF Touches, CardBecomes, Typed, WorkerRow, Assigned, Awaited, JobRow
<1>5. ASSUME LocksManual
      PROVE  Awaited(v)'
  BY <1>5, <1>0 DEF LocksManual, Typed, WorkerRow, Assigned, Awaited, JobRow
<1>6. ASSUME Edits
      PROVE  Awaited(v)'
  BY <1>b, <1>6 DEF Edits
<1>7. ASSUME NEW c \in Cards, Writes(c)
      PROVE  Awaited(v)'
  BY <1>7, <1>0 DEF Writes, CardBecomes, NoWrite, Typed, WorkerRow, Assigned, Awaited,
     JobRow
<1>8. ASSUME NEW w \in Workers, NEW j \in 1..Len(jobs), Claims(w, j)
      PROVE  Awaited(v)'
  <2>1. CASE v # w
    <3>1. worker'[v] = worker[v]
      BY <1>8, <2>1 DEF Claims, TaskFrame, CategoriesFrame, Typed
    <3> QED BY <1>b, <3>1
  <2>2. CASE v = w
    <3>1. worker'[w].pc \in {"idle", "check"}
      BY <1>8 DEF Claims, Typed, Idle
    <3> QED BY <2>2, <3>1 DEF Awaited
  <2> QED BY <2>1, <2>2
<1>9. ASSUME NEW w \in Workers, NEW status \in {"SUCCEEDED", "FAILED", "STALE"}, Ends(w,
             status)
      PROVE  Awaited(v)'
  <2>1. CASE v # w
    <3>1. worker'[v] = worker[v]
      BY <1>9, <2>1 DEF Ends, TaskFrame, CategoriesFrame, Typed
    <3> QED BY <1>b, <3>1
  <2>2. CASE v = w
    <3>1. worker'[w].pc \in {"idle", "check"}
      BY <1>9 DEF Ends, Typed, Idle
    <3> QED BY <2>2, <3>1 DEF Awaited
  <2> QED BY <2>1, <2>2
<1>10. ASSUME NEW w \in Workers, Reads(w)
       PROVE  Awaited(v)'
  BY <1>10, <1>0 DEF Reads, TaskFrame, CategoriesFrame, Typed, WorkerRow, Assigned, Awaited,
     JobRow
<1>11. ASSUME NEW w \in Workers, ReadCards(w)
       PROVE  Awaited(v)'
  BY <1>11, <1>0 DEF ReadCards, TaskFrame, CategoriesFrame, Rows, Job, Typed, WorkerRow,
     Assigned, Awaited, JobRow
<1>12. ASSUME NEW w \in Workers, Fails(w)
       PROVE  Awaited(v)'
  <2>1. CASE v # w
    <3>1. worker'[v] = worker[v]
      BY <1>12, <2>1 DEF Fails, TaskFrame, CategoriesFrame, Typed
    <3> QED BY <1>b, <3>1
  <2>2. CASE v = w
    <3>1. worker'[w].pc \in {"idle", "check"}
      BY <1>12 DEF Fails, Typed, Idle
    <3> QED BY <2>2, <3>1 DEF Awaited
  <2> QED BY <2>1, <2>2
<1>13. ASSUME NEW w \in Workers, NEW c \in Cards, Skips(w, c)
       PROVE  Awaited(v)'
  <2>1. CASE v # w
    <3>1. worker'[v] = worker[v]
      BY <1>13, <2>1 DEF Skips, TaskFrame, CategoriesFrame, Typed
    <3> QED BY <1>b, <3>1
  <2>2. CASE v = w
    <3>1. worker[w].job \in 1..Len(jobs)
      BY <1>13 DEF Skips, Assigned
    <3>2. Settles(worker[w].job, c, "SKIPPED_MANUAL")
      BY <1>13, <3>1, ResultSettled DEF Skips, Job
    <3>3. /\ worker'[w].job = worker[w].job
          /\ worker[w].todo \cup worker[w].cards \subseteq
                worker'[w].todo \cup worker'[w].cards \cup {c}
      BY <1>13 DEF Skips, Typed, WorkerRow, Assigned
    <3> QED BY <1>13, <2>2, <3>2, <3>3 DEF Skips, Awaited, Settles
  <2> QED BY <2>1, <2>2
<1>14. ASSUME NEW w \in Workers, NEW c \in Cards, Takes(w, c)
       PROVE  Awaited(v)'
  BY <1>14, <1>0 DEF Takes, TaskFrame, CategoriesFrame, Typed, WorkerRow, Assigned, Awaited,
     JobRow
<1>15. ASSUME NEW w \in Workers, NEW c \in Cards, Rejects(w, c)
       PROVE  Awaited(v)'
  <2>1. CASE v # w
    <3>1. worker'[v] = worker[v]
      BY <1>15, <2>1 DEF Rejects, TaskFrame, CategoriesFrame, Typed
    <3> QED BY <1>b, <3>1
  <2>2. CASE v = w
    <3>1. worker[w].job \in 1..Len(jobs)
      BY <1>15 DEF Rejects, Assigned
    <3>2. Settles(worker[w].job, c, "SKIPPED_NEWER_EDIT")
      BY <1>15, <3>1, ResultSettled DEF Rejects, Job
    <3>3. /\ worker'[w].job = worker[w].job
          /\ worker[w].todo \cup worker[w].cards \subseteq
                worker'[w].todo \cup worker'[w].cards \cup {c}
      BY <1>15 DEF Rejects, Typed, WorkerRow, Assigned
    <3> QED BY <1>15, <2>2, <3>2, <3>3 DEF Rejects, Awaited, Settles
  <2> QED BY <2>1, <2>2
<1>16. ASSUME NEW w \in Workers, NEW c \in Cards, Classifies(w, c)
       PROVE  Awaited(v)'
  BY <1>16, <1>0 DEF Classifies, CardBecomes, CategoriesFrame, Job, Typed, WorkerRow,
     Assigned, Awaited, JobRow
<1>17. ASSUME NEW w \in Workers, NEW c \in Cards, Records(w, c)
       PROVE  Awaited(v)'
  <2>1. CASE v # w
    <3>1. worker'[v] = worker[v]
      BY <1>17, <2>1 DEF Records, TaskFrame, CategoriesFrame, Typed
    <3> QED BY <1>b, <3>1
  <2>2. CASE v = w
    <3>1. worker[w].job \in 1..Len(jobs)
      BY <1>17 DEF Records, Assigned
    <3>2. Settles(worker[w].job, c, "APPLIED")
      BY <1>17, <3>1, ResultSettled DEF Records, Job
    <3>3. /\ worker'[w].job = worker[w].job
          /\ worker[w].todo \cup worker[w].cards \subseteq
                worker'[w].todo \cup worker'[w].cards \cup {c}
      BY <1>17 DEF Records, Typed, WorkerRow, Assigned
    <3> QED BY <1>17, <2>2, <3>2, <3>3 DEF Records, Awaited, Settles
  <2> QED BY <2>1, <2>2
<1>18. ASSUME NEW w \in Workers, NEW c \in Cards, NEW k \in Categories, Updates(w, c, k)
       PROVE  Awaited(v)'
  BY <1>18, <1>0 DEF Updates, TaskFrame, CategoriesFrame, Job, UnchangedCard, Typed,
     WorkerRow, Assigned, Awaited, JobRow
<1>19. ASSUME Crash
       PROVE  Awaited(v)'
  BY <1>19, <1>0 DEF Crash, Idle, NoEdit, NoWrite, Typed, WorkerRow, Assigned, Awaited,
     JobRow
<1>20. ASSUME NEW c \in Cards, ReadVersion(c)
       PROVE  Awaited(v)'
  BY <1>20, <1>0 DEF ReadVersion, Typed, WorkerRow, Assigned, Awaited, JobRow
<1> QED BY <1>1, <1>2, <1>3, <1>4, <1>5, <1>6, <1>7, <1>8, <1>9, <1>10, <1>11, <1>12, <1>13,
           <1>14, <1>15, <1>16, <1>17, <1>18, <1>19, <1>20 DEF Stepped, OwnerEffect, CommitEffect,
           TaskEffect

(* A manual card stays where the owner put it: an update needs an automatic *)
(* card that it has locked (router.delete_category moves the others to      *)
(* Other).                                                                  *)
LEMMA ManualStays ==
    ASSUME Typed, Protected, ManualIsKept, Stepped
    PROVE  ManualIsKept'
<1>0. /\ Len(jobs) \in Nat /\ Len(jobs) >= 0 /\ DOMAIN jobs = 1..Len(jobs)
      /\ \A j \in 1..Len(jobs) : jobs[j] \in JobRow
      /\ jobs' \in Seq(JobRow) => Len(jobs') \in Nat /\ DOMAIN jobs' = 1..Len(jobs')
  BY JobsTyped, LenProperties
<1> USE DEF Typed, Protected, ManualIsKept
<1>1. ASSUME NEW k \in Categories, NEW kind \in {"add", "delete"}, Opens(kind, k)
      PROVE  ManualIsKept'
  BY <1>1, <1>0 DEF Opens
<1>2. ASSUME Retries
      PROVE  ManualIsKept'
  BY <1>2, <1>0 DEF Retries, JobAdded
<1>3. ASSUME NEW c \in Cards, NEW k \in Categories, NEW kind \in {"move", "insert"},
             Begins(c, kind, k)
      PROVE  ManualIsKept'
  BY <1>3, <1>0 DEF Begins
<1>4. ASSUME NEW c \in Cards, Touches(c)
      PROVE  ManualIsKept'
  BY <1>4, <1>0 DEF Touches, CardBecomes
<1>5. ASSUME LocksManual
      PROVE  ManualIsKept'
  BY <1>5, <1>0 DEF LocksManual
<1>6. ASSUME Edits
      PROVE  ManualIsKept'
  BY <1>6, <1>0 DEF Edits, JobAdded
<1>7. ASSUME NEW c \in Cards, Writes(c)
      PROVE  ManualIsKept'
  BY <1>7, <1>0 DEF Writes, CardBecomes, NoWrite, WriteRow
<1>8. ASSUME NEW w \in Workers, NEW j \in 1..Len(jobs), Claims(w, j)
      PROVE  ManualIsKept'
  BY <1>8, <1>0 DEF Claims, JobBecomes, CategoriesFrame, Idle
<1>9. ASSUME NEW w \in Workers, NEW status \in {"SUCCEEDED", "FAILED", "STALE"}, Ends(w,
             status)
      PROVE  ManualIsKept'
  BY <1>9, <1>0 DEF Ends, JobBecomes, TaskFrame, CategoriesFrame, Idle
<1>10. ASSUME NEW w \in Workers, Reads(w)
       PROVE  ManualIsKept'
  BY <1>10, <1>0 DEF Reads, TaskFrame, CategoriesFrame
<1>11. ASSUME NEW w \in Workers, ReadCards(w)
       PROVE  ManualIsKept'
  BY <1>11, <1>0 DEF ReadCards, TaskFrame, CategoriesFrame, Rows, Job
<1>12. ASSUME NEW w \in Workers, Fails(w)
       PROVE  ManualIsKept'
  BY <1>12, <1>0 DEF Fails, JobBecomes, TaskFrame, CategoriesFrame, Idle, Job
<1>13. ASSUME NEW w \in Workers, NEW c \in Cards, Skips(w, c)
       PROVE  ManualIsKept'
  BY <1>13, <1>0 DEF Skips, JobBecomes, TaskFrame, CategoriesFrame, Job
<1>14. ASSUME NEW w \in Workers, NEW c \in Cards, Takes(w, c)
       PROVE  ManualIsKept'
  BY <1>14, <1>0 DEF Takes, TaskFrame, CategoriesFrame
<1>15. ASSUME NEW w \in Workers, NEW c \in Cards, Rejects(w, c)
       PROVE  ManualIsKept'
  BY <1>15, <1>0 DEF Rejects, JobBecomes, TaskFrame, CategoriesFrame, Job
<1>16. ASSUME NEW w \in Workers, NEW c \in Cards, Classifies(w, c)
       PROVE  ManualIsKept'
  <2>1. ~card[c].manual
    BY <1>16 DEF Classifies, Held
  <2>2. chosen' = chosen /\ ~card'[c].manual /\ \A d \in Cards : d # c => card'[d] = card[d]
    BY <1>16, <2>1 DEF Classifies, CardBecomes, CategoriesFrame
  <2> QED BY <2>2
<1>17. ASSUME NEW w \in Workers, NEW c \in Cards, Records(w, c)
       PROVE  ManualIsKept'
  BY <1>17, <1>0 DEF Records, JobBecomes, TaskFrame, CategoriesFrame, Job
<1>18. ASSUME NEW w \in Workers, NEW c \in Cards, NEW k \in Categories, Updates(w, c, k)
       PROVE  ManualIsKept'
  BY <1>18, <1>0 DEF Updates, TaskFrame, CategoriesFrame, Job, UnchangedCard
<1>19. ASSUME Crash
       PROVE  ManualIsKept'
  BY <1>19, <1>0 DEF Crash, Idle, NoEdit, NoWrite
<1>20. ASSUME NEW c \in Cards, ReadVersion(c)
       PROVE  ManualIsKept'
  BY <1>20, <1>0 DEF ReadVersion
<1> QED BY <1>1, <1>2, <1>3, <1>4, <1>5, <1>6, <1>7, <1>8, <1>9, <1>10, <1>11, <1>12, <1>13,
           <1>14, <1>15, <1>16, <1>17, <1>18, <1>19, <1>20 DEF Stepped, OwnerEffect, CommitEffect,
           TaskEffect

(* An unfinished job keeps a task, or its task has died.                    *)
LEMMA TendedStays ==
    ASSUME Typed, \A w \in Workers : Assigned(w), \A j \in 1..Len(jobs) : Tended(j),
           Stepped, NEW i \in 1..Len(jobs')
    PROVE  Tended(i)'
<1>0. /\ Len(jobs) \in Nat /\ Len(jobs) >= 0 /\ DOMAIN jobs = 1..Len(jobs)
      /\ \A j \in 1..Len(jobs) : jobs[j] \in JobRow
      /\ jobs' \in Seq(JobRow) => Len(jobs') \in Nat /\ DOMAIN jobs' = 1..Len(jobs')
  BY JobsTyped, LenProperties
<1> USE DEF Typed, Assigned, Tended, WorkerRow
<1>1. ASSUME NEW k \in Categories, NEW kind \in {"add", "delete"}, Opens(kind, k)
      PROVE  Tended(i)'
  BY <1>1, <1>0 DEF Opens
<1>2. ASSUME Retries
      PROVE  Tended(i)'
  <2>1. /\ worker' = worker /\ died' = died /\ task' = task \cup {Len(jobs) + 1}
        /\ Len(jobs') = Len(jobs) + 1 /\ \A j \in 1..Len(jobs) : jobs'[j] = jobs[j]
    BY <1>2 DEF Retries, JobAdded
  <2>2. CASE i = Len(jobs) + 1
    BY <2>1, <2>2
  <2>3. CASE i \in 1..Len(jobs)
    BY <2>1, <2>3
  <2> QED BY <1>0, <2>1, <2>2, <2>3
<1>3. ASSUME NEW c \in Cards, NEW k \in Categories, NEW kind \in {"move", "insert"},
             Begins(c, kind, k)
      PROVE  Tended(i)'
  <2>1. jobs' = jobs /\ task' = task /\ worker' = worker /\ died' = died
    BY <1>3 DEF Begins
  <2> QED BY <2>1
<1>4. ASSUME NEW c \in Cards, Touches(c)
      PROVE  Tended(i)'
  BY <1>4, <1>0 DEF Touches, CardBecomes
<1>5. ASSUME LocksManual
      PROVE  Tended(i)'
  BY <1>5, <1>0 DEF LocksManual
<1>6. ASSUME Edits
      PROVE  Tended(i)'
  <2>1. CASE UNCHANGED <<jobs, task, edited>>
    BY <1>0, <1>6, <2>1 DEF Edits
  <2>2. CASE JobAdded(version + 1, card')
    <3>1. worker' = worker /\ died' = died
      BY <1>6 DEF Edits
    <3> QED BY <1>0, <2>2, <3>1 DEF JobAdded
  <2> QED BY <1>6, <2>1, <2>2 DEF Edits
<1>7. ASSUME NEW c \in Cards, Writes(c)
      PROVE  Tended(i)'
  BY <1>7, <1>0 DEF Writes, CardBecomes, NoWrite
<1>8. ASSUME NEW w \in Workers, NEW j \in 1..Len(jobs), Claims(w, j)
      PROVE  Tended(i)'
  BY <1>8, <1>0 DEF Claims, JobBecomes, CategoriesFrame, Idle
<1>9. ASSUME NEW w \in Workers, NEW status \in {"SUCCEEDED", "FAILED", "STALE"}, Ends(w,
             status)
      PROVE  Tended(i)'
  BY <1>9, <1>0 DEF Ends, JobBecomes, TaskFrame, CategoriesFrame, Idle
<1>10. ASSUME NEW w \in Workers, Reads(w)
       PROVE  Tended(i)'
  BY <1>10, <1>0 DEF Reads, TaskFrame, CategoriesFrame
<1>11. ASSUME NEW w \in Workers, ReadCards(w)
       PROVE  Tended(i)'
  BY <1>11, <1>0 DEF ReadCards, TaskFrame, CategoriesFrame, Rows, Job
<1>12. ASSUME NEW w \in Workers, Fails(w)
       PROVE  Tended(i)'
  BY <1>12, <1>0 DEF Fails, JobBecomes, TaskFrame, CategoriesFrame, Idle, Job
<1>13. ASSUME NEW w \in Workers, NEW c \in Cards, Skips(w, c)
       PROVE  Tended(i)'
  BY <1>13, <1>0 DEF Skips, JobBecomes, TaskFrame, CategoriesFrame, Job
<1>14. ASSUME NEW w \in Workers, NEW c \in Cards, Takes(w, c)
       PROVE  Tended(i)'
  BY <1>14, <1>0 DEF Takes, TaskFrame, CategoriesFrame
<1>15. ASSUME NEW w \in Workers, NEW c \in Cards, Rejects(w, c)
       PROVE  Tended(i)'
  BY <1>15, <1>0 DEF Rejects, JobBecomes, TaskFrame, CategoriesFrame, Job
<1>16. ASSUME NEW w \in Workers, NEW c \in Cards, Classifies(w, c)
       PROVE  Tended(i)'
  BY <1>16, <1>0 DEF Classifies, CardBecomes, CategoriesFrame, Job
<1>17. ASSUME NEW w \in Workers, NEW c \in Cards, Records(w, c)
       PROVE  Tended(i)'
  BY <1>17, <1>0 DEF Records, JobBecomes, TaskFrame, CategoriesFrame, Job
<1>18. ASSUME NEW w \in Workers, NEW c \in Cards, NEW k \in Categories, Updates(w, c, k)
       PROVE  Tended(i)'
  BY <1>18, <1>0 DEF Updates, TaskFrame, CategoriesFrame, Job, UnchangedCard
<1>19. ASSUME Crash
       PROVE  Tended(i)'
  BY <1>19, <1>0 DEF Crash, Idle, NoEdit, NoWrite
<1>20. ASSUME NEW c \in Cards, ReadVersion(c)
       PROVE  Tended(i)'
  BY <1>20, <1>0 DEF ReadVersion
<1> QED BY <1>1, <1>2, <1>3, <1>4, <1>5, <1>6, <1>7, <1>8, <1>9, <1>10, <1>11, <1>12, <1>13,
           <1>14, <1>15, <1>16, <1>17, <1>18, <1>19, <1>20 DEF Stepped, OwnerEffect, CommitEffect,
           TaskEffect

(* A job ends SUCCEEDED only when each of its cards is settled.             *)
LEMMA CompleteStays ==
    ASSUME Typed, JobsGrown, \A w \in Workers : Assigned(w) /\ Awaited(w), \A j \in
           1..Len(jobs) : Complete(j), Stepped, NEW i \in 1..Len(jobs')
    PROVE  Complete(i)'
<1>0. /\ Len(jobs) \in Nat /\ Len(jobs) >= 0 /\ DOMAIN jobs = 1..Len(jobs)
      /\ \A j \in 1..Len(jobs) : jobs[j] \in JobRow
      /\ jobs' \in Seq(JobRow) => Len(jobs') \in Nat /\ DOMAIN jobs' = 1..Len(jobs')
  BY JobsTyped, LenProperties
<1> USE DEF Typed, Assigned, Awaited, Complete, WorkerRow
<1>1. ASSUME NEW k \in Categories, NEW kind \in {"add", "delete"}, Opens(kind, k)
      PROVE  Complete(i)'
  BY <1>1, <1>0 DEF Opens
<1>2. ASSUME Retries
      PROVE  Complete(i)'
  BY <1>2, <1>0 DEF Retries, JobAdded
<1>3. ASSUME NEW c \in Cards, NEW k \in Categories, NEW kind \in {"move", "insert"},
             Begins(c, kind, k)
      PROVE  Complete(i)'
  BY <1>3, <1>0 DEF Begins
<1>4. ASSUME NEW c \in Cards, Touches(c)
      PROVE  Complete(i)'
  BY <1>4, <1>0 DEF Touches, CardBecomes
<1>5. ASSUME LocksManual
      PROVE  Complete(i)'
  BY <1>5, <1>0 DEF LocksManual
<1>6. ASSUME Edits
      PROVE  Complete(i)'
  BY <1>6, <1>0 DEF Edits, JobAdded
<1>7. ASSUME NEW c \in Cards, Writes(c)
      PROVE  Complete(i)'
  BY <1>7, <1>0 DEF Writes, CardBecomes, NoWrite
<1>8. ASSUME NEW w \in Workers, NEW j \in 1..Len(jobs), Claims(w, j)
      PROVE  Complete(i)'
  BY <1>8, <1>0 DEF Claims, JobBecomes, CategoriesFrame, Idle
<1>9. ASSUME NEW w \in Workers, NEW status \in {"SUCCEEDED", "FAILED", "STALE"}, Ends(w,
             status)
      PROVE  Complete(i)'
  <2>1. worker[w].job \in 1..Len(jobs)
    BY <1>9 DEF Ends
  <2>2. CASE i # worker[w].job
    BY <1>0, <1>9, <2>2 DEF Ends, JobBecomes
  <2>3. CASE i = worker[w].job
    <3>1. jobs'[i].status = status /\ jobs'[i].result = jobs[i].result
      BY <1>9, <2>3 DEF Ends, JobBecomes, Job
    <3>2. status = "SUCCEEDED" => \A c \in Cards : jobs[i].result[c] \notin {"PENDING", "FAILED"}
      BY <1>9, <2>3 DEF Ends, Job
    <3> QED BY <3>1, <3>2
  <2> QED BY <2>2, <2>3
<1>10. ASSUME NEW w \in Workers, Reads(w)
       PROVE  Complete(i)'
  BY <1>10, <1>0 DEF Reads, TaskFrame, CategoriesFrame
<1>11. ASSUME NEW w \in Workers, ReadCards(w)
       PROVE  Complete(i)'
  BY <1>11, <1>0 DEF ReadCards, TaskFrame, CategoriesFrame, Rows, Job
<1>12. ASSUME NEW w \in Workers, Fails(w)
       PROVE  Complete(i)'
  BY <1>12, <1>0 DEF Fails, JobBecomes, TaskFrame, CategoriesFrame, Idle, Job
<1>13. ASSUME NEW w \in Workers, NEW c \in Cards, Skips(w, c)
       PROVE  Complete(i)'
  <2>1. worker[w].job \in 1..Len(jobs)
    BY <1>13 DEF Skips
  <2>2. CASE i # worker[w].job
    BY <1>0, <1>13, <2>2 DEF Skips, JobBecomes
  <2>3. CASE i = worker[w].job
    <3>1. Settles(worker[w].job, c, "SKIPPED_MANUAL")
      BY <1>13, <2>1, ResultSettled DEF Skips, Job
    <3>2. jobs'[i].status = jobs[i].status
      BY <1>13, <2>3 DEF Skips, JobBecomes, Job
    <3> QED BY <2>1, <2>3, <3>1, <3>2 DEF Settles
  <2> QED BY <2>2, <2>3
<1>14. ASSUME NEW w \in Workers, NEW c \in Cards, Takes(w, c)
       PROVE  Complete(i)'
  BY <1>14, <1>0 DEF Takes, TaskFrame, CategoriesFrame
<1>15. ASSUME NEW w \in Workers, NEW c \in Cards, Rejects(w, c)
       PROVE  Complete(i)'
  <2>1. worker[w].job \in 1..Len(jobs)
    BY <1>15 DEF Rejects
  <2>2. CASE i # worker[w].job
    BY <1>0, <1>15, <2>2 DEF Rejects, JobBecomes
  <2>3. CASE i = worker[w].job
    <3>1. Settles(worker[w].job, c, "SKIPPED_NEWER_EDIT")
      BY <1>15, <2>1, ResultSettled DEF Rejects, Job
    <3>2. jobs'[i].status = jobs[i].status
      BY <1>15, <2>3 DEF Rejects, JobBecomes, Job
    <3> QED BY <2>1, <2>3, <3>1, <3>2 DEF Settles
  <2> QED BY <2>2, <2>3
<1>16. ASSUME NEW w \in Workers, NEW c \in Cards, Classifies(w, c)
       PROVE  Complete(i)'
  BY <1>16, <1>0 DEF Classifies, CardBecomes, CategoriesFrame, Job
<1>17. ASSUME NEW w \in Workers, NEW c \in Cards, Records(w, c)
       PROVE  Complete(i)'
  <2>1. worker[w].job \in 1..Len(jobs)
    BY <1>17 DEF Records
  <2>2. CASE i # worker[w].job
    BY <1>0, <1>17, <2>2 DEF Records, JobBecomes
  <2>3. CASE i = worker[w].job
    <3>1. Settles(worker[w].job, c, "APPLIED")
      BY <1>17, <2>1, ResultSettled DEF Records, Job
    <3>2. jobs'[i].status = jobs[i].status
      BY <1>17, <2>3 DEF Records, JobBecomes, Job
    <3> QED BY <2>1, <2>3, <3>1, <3>2 DEF Settles
  <2> QED BY <2>2, <2>3
<1>18. ASSUME NEW w \in Workers, NEW c \in Cards, NEW k \in Categories, Updates(w, c, k)
       PROVE  Complete(i)'
  BY <1>18, <1>0 DEF Updates, TaskFrame, CategoriesFrame, Job, UnchangedCard
<1>19. ASSUME Crash
       PROVE  Complete(i)'
  BY <1>19, <1>0 DEF Crash, Idle, NoEdit, NoWrite
<1>20. ASSUME NEW c \in Cards, ReadVersion(c)
       PROVE  Complete(i)'
  BY <1>20, <1>0 DEF ReadVersion
<1> QED BY <1>1, <1>2, <1>3, <1>4, <1>5, <1>6, <1>7, <1>8, <1>9, <1>10, <1>11, <1>12, <1>13,
           <1>14, <1>15, <1>16, <1>17, <1>18, <1>19, <1>20 DEF Stepped, OwnerEffect, CommitEffect,
           TaskEffect

----------------------------------------------------------------------------
(* A card changes together with its stamp, and its version never decreases. *)
Advances(c) ==
    /\ version' >= version
    /\ card'[c].version >= card[c].version /\ card'[c].version <= version'
    /\ card'[c] = card[c] \/ card'[c].stamp > card[c].stamp

(* The version of the store never decreases.                                *)
LEMMA VersionGrows ==
    ASSUME version \in Nat, Stepped
    PROVE  version' >= version
<1> USE DEF CategoriesFrame
<1>1. ASSUME NEW k \in Categories, NEW kind \in {"add", "delete"}, Opens(kind, k)
      PROVE  version' >= version
  BY <1>1 DEF Opens
<1>2. ASSUME Retries
      PROVE  version' >= version
  BY <1>2 DEF Retries, JobAdded
<1>3. ASSUME NEW c \in Cards, NEW k \in Categories, NEW kind \in {"move", "insert"},
             Begins(c, kind, k)
      PROVE  version' >= version
  BY <1>3 DEF Begins
<1>4. ASSUME NEW c \in Cards, Touches(c)
      PROVE  version' >= version
  BY <1>4 DEF Touches, CardBecomes
<1>5. ASSUME LocksManual
      PROVE  version' >= version
  BY <1>5 DEF LocksManual
<1>6. ASSUME Edits
      PROVE  version' >= version
  BY <1>6 DEF Edits, JobAdded
<1>7. ASSUME NEW c \in Cards, Writes(c)
      PROVE  version' >= version
  BY <1>7 DEF Writes, CardBecomes, NoWrite
<1>8. ASSUME NEW w \in Workers, NEW j \in 1..Len(jobs), Claims(w, j)
      PROVE  version' >= version
  BY <1>8 DEF Claims, JobBecomes, CategoriesFrame, Idle
<1>9. ASSUME NEW w \in Workers, NEW status \in {"SUCCEEDED", "FAILED", "STALE"}, Ends(w,
             status)
      PROVE  version' >= version
  BY <1>9 DEF Ends, JobBecomes, TaskFrame, CategoriesFrame, Idle
<1>10. ASSUME NEW w \in Workers, Reads(w)
       PROVE  version' >= version
  BY <1>10 DEF Reads, TaskFrame, CategoriesFrame
<1>11. ASSUME NEW w \in Workers, ReadCards(w)
       PROVE  version' >= version
  BY <1>11 DEF ReadCards, TaskFrame, CategoriesFrame, Rows, Job
<1>12. ASSUME NEW w \in Workers, Fails(w)
       PROVE  version' >= version
  BY <1>12 DEF Fails, JobBecomes, TaskFrame, CategoriesFrame, Idle, Job
<1>13. ASSUME NEW w \in Workers, NEW c \in Cards, Skips(w, c)
       PROVE  version' >= version
  BY <1>13 DEF Skips, JobBecomes, TaskFrame, CategoriesFrame, Job
<1>14. ASSUME NEW w \in Workers, NEW c \in Cards, Takes(w, c)
       PROVE  version' >= version
  BY <1>14 DEF Takes, TaskFrame, CategoriesFrame
<1>15. ASSUME NEW w \in Workers, NEW c \in Cards, Rejects(w, c)
       PROVE  version' >= version
  BY <1>15 DEF Rejects, JobBecomes, TaskFrame, CategoriesFrame, Job
<1>16. ASSUME NEW w \in Workers, NEW c \in Cards, Classifies(w, c)
       PROVE  version' >= version
  BY <1>16 DEF Classifies, CardBecomes, CategoriesFrame, Job
<1>17. ASSUME NEW w \in Workers, NEW c \in Cards, Records(w, c)
       PROVE  version' >= version
  BY <1>17 DEF Records, JobBecomes, TaskFrame, CategoriesFrame, Job
<1>18. ASSUME NEW w \in Workers, NEW c \in Cards, NEW k \in Categories, Updates(w, c, k)
       PROVE  version' >= version
  BY <1>18 DEF Updates, TaskFrame, CategoriesFrame, Job, UnchangedCard
<1>19. ASSUME Crash
       PROVE  version' >= version
  BY <1>19 DEF Crash, Idle, NoEdit, NoWrite
<1>20. ASSUME NEW c \in Cards, ReadVersion(c)
       PROVE  version' >= version
  BY <1>20 DEF ReadVersion
<1> QED BY <1>1, <1>2, <1>3, <1>4, <1>5, <1>6, <1>7, <1>8, <1>9, <1>10, <1>11, <1>12, <1>13,
           <1>14, <1>15, <1>16, <1>17, <1>18, <1>19, <1>20 DEF Stepped, OwnerEffect, CommitEffect,
           TaskEffect

(* A version is written over one that is not newer.                         *)
LEMMA CardsAdvance ==
    ASSUME Typed, Ordered, Protected, \A w \in Workers : Assigned(w), Stepped, NEW d \in
           Cards
    PROVE  Advances(d)
<1>0. /\ Len(jobs) \in Nat /\ Len(jobs) >= 0 /\ DOMAIN jobs = 1..Len(jobs)
      /\ \A j \in 1..Len(jobs) : jobs[j] \in JobRow
      /\ jobs' \in Seq(JobRow) => Len(jobs') \in Nat /\ DOMAIN jobs' = 1..Len(jobs')
  BY JobsTyped, LenProperties
<1>a. /\ card[d].version \in Nat /\ card[d].stamp \in Nat /\ version \in Nat
      /\ card[d].version <= version
  BY DEF Typed, CardRow, Ordered, Dated
<1>b. ASSUME card'[d] = card[d], version' = version
      PROVE  Advances(d)
  BY <1>a, <1>b DEF Advances
<1>1. ASSUME NEW k \in Categories, NEW kind \in {"add", "delete"}, Opens(kind, k)
      PROVE  Advances(d)
  BY <1>b, <1>1 DEF Opens
<1>2. ASSUME Retries
      PROVE  Advances(d)
  BY <1>b, <1>2 DEF Retries
<1>3. ASSUME NEW c \in Cards, NEW k \in Categories, NEW kind \in {"move", "insert"},
             Begins(c, kind, k)
      PROVE  Advances(d)
  BY <1>b, <1>3 DEF Begins
<1>4. ASSUME NEW c \in Cards, Touches(c)
      PROVE  Advances(d)
  <2>1. CASE d # c
    BY <1>b, <1>4, <2>1 DEF Touches, CardBecomes, CategoriesFrame
  <2>2. CASE d = c
    <3>1. /\ card'[d].version = card[d].version /\ card'[d].stamp = card[d].stamp + 1
          /\ version' = version
      BY <1>4, <2>2 DEF Touches, CardBecomes
    <3> QED BY <1>a, <3>1 DEF Advances
  <2> QED BY <2>1, <2>2
<1>5. ASSUME LocksManual
      PROVE  Advances(d)
  BY <1>b, <1>5 DEF LocksManual
<1>6. ASSUME Edits
      PROVE  Advances(d)
  <2>1. version' = version + 1
    BY <1>6 DEF Edits
  <2>2. CASE d \notin edit.locked
    <3>1. card'[d] = card[d]
      BY <1>6, <2>2 DEF Edits
    <3> QED BY <1>a, <2>1, <3>1 DEF Advances
  <2>3. CASE d \in edit.locked
    <3>1. card'[d].version = version + 1 /\ card'[d].stamp = card[d].stamp + 1
      BY <1>6, <2>3 DEF Edits
    <3> QED BY <1>a, <2>1, <3>1 DEF Advances
  <2> QED BY <2>2, <2>3
<1>7. ASSUME NEW c \in Cards, Writes(c)
      PROVE  Advances(d)
  <2>1. CASE d # c
    BY <1>b, <1>7, <2>1 DEF Writes, CardBecomes, CategoriesFrame
  <2>2. CASE d = c
    <3>1. /\ card'[d].version = writing[d].version /\ card'[d].stamp = card[d].stamp + 1
          /\ version' = version /\ writing[d].kind # "none" /\ writing[d].version > 0
      BY <1>7, <2>2 DEF Writes, CardBecomes
    <3>2. writing[d].version \in Nat
      BY DEF Typed, WriteRow
    <3>3. card[d].version <= writing[d].version /\ writing[d].version <= version
      BY <3>1 DEF Ordered, Dated
    <3> QED BY <1>a, <3>1, <3>2, <3>3 DEF Advances
  <2> QED BY <2>1, <2>2
<1>8. ASSUME NEW w \in Workers, NEW j \in 1..Len(jobs), Claims(w, j)
      PROVE  Advances(d)
  BY <1>b, <1>8 DEF Claims, CategoriesFrame
<1>9. ASSUME NEW w \in Workers, NEW status \in {"SUCCEEDED", "FAILED", "STALE"}, Ends(w,
             status)
      PROVE  Advances(d)
  BY <1>b, <1>9 DEF Ends, TaskFrame, CategoriesFrame
<1>10. ASSUME NEW w \in Workers, Reads(w)
       PROVE  Advances(d)
  BY <1>b, <1>10 DEF Reads, TaskFrame, CategoriesFrame
<1>11. ASSUME NEW w \in Workers, ReadCards(w)
       PROVE  Advances(d)
  BY <1>b, <1>11 DEF ReadCards, TaskFrame, CategoriesFrame
<1>12. ASSUME NEW w \in Workers, Fails(w)
       PROVE  Advances(d)
  BY <1>b, <1>12 DEF Fails, TaskFrame, CategoriesFrame
<1>13. ASSUME NEW w \in Workers, NEW c \in Cards, Skips(w, c)
       PROVE  Advances(d)
  BY <1>b, <1>13 DEF Skips, TaskFrame, CategoriesFrame
<1>14. ASSUME NEW w \in Workers, NEW c \in Cards, Takes(w, c)
       PROVE  Advances(d)
  BY <1>b, <1>14 DEF Takes, TaskFrame, CategoriesFrame
<1>15. ASSUME NEW w \in Workers, NEW c \in Cards, Rejects(w, c)
       PROVE  Advances(d)
  BY <1>b, <1>15 DEF Rejects, TaskFrame, CategoriesFrame
<1>16. ASSUME NEW w \in Workers, NEW c \in Cards, Classifies(w, c)
       PROVE  Advances(d)
  <2>1. CASE d # c
    BY <1>b, <1>16, <2>1 DEF Classifies, CardBecomes, CategoriesFrame
  <2>2. CASE d = c
    <3>1. /\ card'[d].version = Job(w).target /\ card'[d].stamp = card[d].stamp + 1
          /\ version' = version /\ worker[w].job \in 1..Len(jobs)
      BY <1>16, <2>2 DEF Classifies, CategoriesFrame, CardBecomes, Assigned
    <3>2. card[d].stamp = Job(w).snapshot[d]
      BY <1>16, <2>2 DEF Classifies, CategoriesFrame, Protected, Held, Job
    <3>3. Since(worker[w].job)
      BY <3>1 DEF Ordered
    <3>4. Job(w).target \in Nat
      BY <1>0, <3>1 DEF Job, JobRow
    <3>5. Job(w).target <= version /\ card[d].version <= Job(w).target
      BY <3>2, <3>3 DEF Since, Job
    <3> QED BY <1>a, <3>1, <3>4, <3>5 DEF Advances
  <2> QED BY <2>1, <2>2
<1>17. ASSUME NEW w \in Workers, NEW c \in Cards, Records(w, c)
       PROVE  Advances(d)
  BY <1>b, <1>17 DEF Records, TaskFrame, CategoriesFrame
<1>18. ASSUME NEW w \in Workers, NEW c \in Cards, NEW k \in Categories, Updates(w, c, k)
       PROVE  Advances(d)
  BY <1>b, <1>18 DEF Updates, TaskFrame, CategoriesFrame
<1>19. ASSUME Crash
       PROVE  Advances(d)
  BY <1>b, <1>19 DEF Crash
<1>20. ASSUME NEW c \in Cards, ReadVersion(c)
       PROVE  Advances(d)
  BY <1>b, <1>20 DEF ReadVersion
<1> QED BY <1>1, <1>2, <1>3, <1>4, <1>5, <1>6, <1>7, <1>8, <1>9, <1>10, <1>11, <1>12, <1>13,
           <1>14, <1>15, <1>16, <1>17, <1>18, <1>19, <1>20 DEF Stepped, OwnerEffect, CommitEffect,
           TaskEffect

(* No card, and no write that waits, is ahead of the store.                 *)
LEMMA DatedStays ==
    ASSUME Typed, NEW d \in Cards, Dated(d), Guarded(d), \A w \in Workers : Held(w),
           Advances(d), Stepped
    PROVE  Dated(d)'
<1>0. /\ Len(jobs) \in Nat /\ Len(jobs) >= 0 /\ DOMAIN jobs = 1..Len(jobs)
      /\ \A j \in 1..Len(jobs) : jobs[j] \in JobRow
      /\ jobs' \in Seq(JobRow) => Len(jobs') \in Nat /\ DOMAIN jobs' = 1..Len(jobs')
  BY JobsTyped, LenProperties
<1>a. /\ card[d].version \in Nat /\ card[d].stamp \in Nat /\ version \in Nat
      /\ writing[d].version \in Nat /\ writing[d].seen \in Nat
  BY DEF Typed, CardRow, WriteRow
<1>b. ASSUME card'[d] = card[d], version' = version, writing'[d] = writing[d]
      PROVE  Dated(d)'
  BY <1>b DEF Dated
<1> USE DEF Typed, CardRow, WriteRow, Advances, Dated
<1>1. ASSUME NEW k \in Categories, NEW kind \in {"add", "delete"}, Opens(kind, k)
      PROVE  Dated(d)'
  BY <1>b, <1>1 DEF Opens
<1>2. ASSUME Retries
      PROVE  Dated(d)'
  BY <1>b, <1>2 DEF Retries
<1>3. ASSUME NEW c \in Cards, NEW k \in Categories, NEW kind \in {"move", "insert"},
             Begins(c, kind, k)
      PROVE  Dated(d)'
  BY <1>3, <1>0, <1>a DEF Begins
<1>4. ASSUME NEW c \in Cards, Touches(c)
      PROVE  Dated(d)'
  BY <1>4, <1>0, <1>a DEF Touches, CardBecomes
<1>5. ASSUME LocksManual
      PROVE  Dated(d)'
  BY <1>b, <1>5 DEF LocksManual
<1>6. ASSUME Edits
      PROVE  Dated(d)'
  <2>1. /\ version' = version + 1 /\ writing'[d] = writing[d]
        /\ d \notin edit.locked => card'[d] = card[d]
    BY <1>6 DEF Edits
  <2>2. d \in edit.locked => writing[d].kind = "none"
    BY DEF Guarded
  <2>3. card'[d].version <= version'
    BY DEF Advances
  <2> QED BY <1>a, <2>1, <2>2, <2>3 DEF Dated
<1>7. ASSUME NEW c \in Cards, Writes(c)
      PROVE  Dated(d)'
  BY <1>7, <1>0, <1>a DEF Writes, CardBecomes, NoWrite
<1>8. ASSUME NEW w \in Workers, NEW j \in 1..Len(jobs), Claims(w, j)
      PROVE  Dated(d)'
  BY <1>b, <1>8 DEF Claims, CategoriesFrame
<1>9. ASSUME NEW w \in Workers, NEW status \in {"SUCCEEDED", "FAILED", "STALE"}, Ends(w,
             status)
      PROVE  Dated(d)'
  BY <1>b, <1>9 DEF Ends, TaskFrame, CategoriesFrame
<1>10. ASSUME NEW w \in Workers, Reads(w)
       PROVE  Dated(d)'
  BY <1>b, <1>10 DEF Reads, TaskFrame, CategoriesFrame
<1>11. ASSUME NEW w \in Workers, ReadCards(w)
       PROVE  Dated(d)'
  BY <1>b, <1>11 DEF ReadCards, TaskFrame, CategoriesFrame
<1>12. ASSUME NEW w \in Workers, Fails(w)
       PROVE  Dated(d)'
  BY <1>b, <1>12 DEF Fails, TaskFrame, CategoriesFrame
<1>13. ASSUME NEW w \in Workers, NEW c \in Cards, Skips(w, c)
       PROVE  Dated(d)'
  BY <1>b, <1>13 DEF Skips, TaskFrame, CategoriesFrame
<1>14. ASSUME NEW w \in Workers, NEW c \in Cards, Takes(w, c)
       PROVE  Dated(d)'
  BY <1>b, <1>14 DEF Takes, TaskFrame, CategoriesFrame
<1>15. ASSUME NEW w \in Workers, NEW c \in Cards, Rejects(w, c)
       PROVE  Dated(d)'
  BY <1>b, <1>15 DEF Rejects, TaskFrame, CategoriesFrame
<1>16. ASSUME NEW w \in Workers, NEW c \in Cards, Classifies(w, c)
       PROVE  Dated(d)'
  <2>1. version' = version /\ writing'[d] = writing[d]
    BY <1>16 DEF Classifies, CategoriesFrame
  <2>2. CASE d # c
    BY <1>b, <1>16, <2>1, <2>2 DEF Classifies, CardBecomes
  <2>3. CASE d = c
    <3>1. writing[d].kind = "none"
      BY <1>16, <2>3 DEF Classifies, Held
    <3> QED BY <2>1, <3>1 DEF Dated, Advances
  <2> QED BY <2>2, <2>3
<1>17. ASSUME NEW w \in Workers, NEW c \in Cards, Records(w, c)
       PROVE  Dated(d)'
  BY <1>b, <1>17 DEF Records, TaskFrame, CategoriesFrame
<1>18. ASSUME NEW w \in Workers, NEW c \in Cards, NEW k \in Categories, Updates(w, c, k)
       PROVE  Dated(d)'
  BY <1>b, <1>18 DEF Updates, TaskFrame, CategoriesFrame
<1>19. ASSUME Crash
       PROVE  Dated(d)'
  BY <1>19, <1>0, <1>a DEF Crash, Idle, NoEdit, NoWrite
<1>20. ASSUME NEW c \in Cards, ReadVersion(c)
       PROVE  Dated(d)'
  <2>1. CASE d # c
    BY <1>b, <1>20, <2>1 DEF ReadVersion
  <2>2. CASE d = c
    <3>1. /\ card' = card /\ version' = version
          /\ writing'[d].seen = writing[d].seen /\ writing'[d].kind = writing[d].kind
          /\ writing'[d].version = version
      BY <1>20, <2>2 DEF ReadVersion
    <3> QED BY <1>a, <3>1
  <2> QED BY <2>1, <2>2
<1> QED BY <1>1, <1>2, <1>3, <1>4, <1>5, <1>6, <1>7, <1>8, <1>9, <1>10, <1>11, <1>12, <1>13,
           <1>14, <1>15, <1>16, <1>17, <1>18, <1>19, <1>20 DEF Stepped, OwnerEffect, CommitEffect,
           TaskEffect

(* A card with the stamp a job saw is not newer than the job.               *)
LEMMA SinceStays ==
    ASSUME Typed, JobsGrown, \A j \in 1..Len(jobs) : Since(j), \A w \in Workers :
           Assigned(w) /\ Covers(w), \A d \in Cards : Advances(d), version' \in Nat,
           version' >= version, card' \in [Cards -> CardRow], Stepped, NEW i \in
           1..Len(jobs')
    PROVE  Since(i)'
<1>0. /\ Len(jobs) \in Nat /\ Len(jobs) >= 0 /\ DOMAIN jobs = 1..Len(jobs)
      /\ \A j \in 1..Len(jobs) : jobs[j] \in JobRow
      /\ jobs' \in Seq(JobRow) => Len(jobs') \in Nat /\ DOMAIN jobs' = 1..Len(jobs')
  BY JobsTyped, LenProperties
<1>b. ASSUME i \in 1..Len(jobs),
             \A c \in Cards : jobs'[i].result[c] # "none" =>
                                 jobs[i].result[c] # "none" \/ jobs[i].snapshot[c] > 0
      PROVE  Since(i)'
  <2>1. /\ jobs'[i].target = jobs[i].target /\ jobs'[i].snapshot = jobs[i].snapshot
        /\ jobs[i].target \in Nat /\ version \in Nat /\ Since(i)
    BY <1>0, <1>b DEF JobsGrown, JobRow, Typed
  <2>2. jobs'[i].target <= version'
    BY <2>1 DEF Since
  <2>3. ASSUME NEW c \in Cards
        PROVE  /\ jobs'[i].snapshot[c] <= card'[c].stamp
               /\ jobs'[i].snapshot[c] = card'[c].stamp => card'[c].version <= jobs'[i].target
    <3>1. /\ card[c].stamp \in Nat /\ card'[c].stamp \in Nat /\ jobs[i].snapshot[c] \in Nat
      BY <1>0, <1>b DEF Typed, CardRow, JobRow
    <3>2. card'[c] = card[c] \/ card'[c].stamp > card[c].stamp
      BY DEF Advances
    <3> QED BY <2>1, <3>1, <3>2 DEF Since
  <2>4. ASSUME NEW c \in Cards, jobs'[i].result[c] # "none"
        PROVE  jobs'[i].snapshot[c] > 0
    BY <1>b, <2>1, <2>4 DEF Since
  <2> QED BY <2>2, <2>3, <2>4 DEF Since
<1>c. ASSUME JobAdded(version', card')
      PROVE  Since(i)'
  <2>1. CASE i \in 1..Len(jobs)
    <3>1. jobs'[i] = jobs[i]
      BY <1>c, <2>1 DEF JobAdded
    <3> QED BY <1>b, <2>1, <3>1
  <2>2. CASE i = Len(jobs) + 1
    <3>1. jobs'[i].target = version' /\ \A c \in Cards : card'[c].version <= version'
      BY <1>c, <2>2 DEF JobAdded, Advances
    <3>2. \A c \in Cards : jobs'[i].snapshot[c] = card'[c].stamp /\ card'[c].stamp \in Nat
      BY <1>c, <2>2 DEF JobAdded, CardRow
    <3>3. \A c \in Cards : jobs'[i].result[c] # "none" => card'[c].stamp > 0
      BY <1>c, <2>2 DEF JobAdded
    <3> QED BY <3>1, <3>2, <3>3 DEF Since
  <2>3. Len(jobs') = Len(jobs) + 1
    BY <1>c DEF JobAdded
  <2> QED BY <1>0, <2>1, <2>2, <2>3
<1>1. ASSUME NEW k \in Categories, NEW kind \in {"add", "delete"}, Opens(kind, k)
      PROVE  Since(i)'
  BY <1>b, <1>1 DEF Opens
<1>2. ASSUME Retries
      PROVE  Since(i)'
  <2>1. version' = version /\ card' = card /\ JobAdded(version, card)
    BY <1>2 DEF Retries
  <2> QED BY <1>c, <2>1
<1>3. ASSUME NEW c \in Cards, NEW k \in Categories, NEW kind \in {"move", "insert"},
             Begins(c, kind, k)
      PROVE  Since(i)'
  BY <1>b, <1>3 DEF Begins
<1>4. ASSUME NEW c \in Cards, Touches(c)
      PROVE  Since(i)'
  BY <1>b, <1>4 DEF Touches
<1>5. ASSUME LocksManual
      PROVE  Since(i)'
  BY <1>b, <1>5 DEF LocksManual
<1>6. ASSUME Edits
      PROVE  Since(i)'
  <2>1. version' = version + 1
    BY <1>6 DEF Edits
  <2>2. CASE UNCHANGED <<jobs, task, edited>>
    BY <1>b, <2>2
  <2>3. CASE JobAdded(version + 1, card')
    BY <1>c, <2>1, <2>3
  <2> QED BY <1>6, <2>2, <2>3 DEF Edits
<1>7. ASSUME NEW c \in Cards, Writes(c)
      PROVE  Since(i)'
  BY <1>b, <1>7 DEF Writes
<1>8. ASSUME NEW w \in Workers, NEW j \in 1..Len(jobs), Claims(w, j)
      PROVE  Since(i)'
  <2>1. Len(jobs') = Len(jobs)
    BY <1>8 DEF Claims, JobBecomes
  <2>2. i \in 1..Len(jobs) /\ jobs'[i].result = jobs[i].result
    BY <1>0, <1>8, <2>1 DEF Claims, JobBecomes
  <2> QED BY <1>b, <2>2
<1>9. ASSUME NEW w \in Workers, NEW status \in {"SUCCEEDED", "FAILED", "STALE"}, Ends(w,
             status)
      PROVE  Since(i)'
  <2>1. i \in 1..Len(jobs)
    BY <1>9 DEF Ends, JobBecomes
  <2>2. jobs'[i].result = jobs[i].result
    BY <1>9, <2>1 DEF Ends, JobBecomes, Job
  <2> QED BY <1>b, <2>1, <2>2
<1>10. ASSUME NEW w \in Workers, Reads(w)
       PROVE  Since(i)'
  BY <1>b, <1>10 DEF Reads, TaskFrame, CategoriesFrame
<1>11. ASSUME NEW w \in Workers, ReadCards(w)
       PROVE  Since(i)'
  BY <1>b, <1>11 DEF ReadCards, TaskFrame, CategoriesFrame
<1>12. ASSUME NEW w \in Workers, Fails(w)
       PROVE  Since(i)'
  <2>1. i \in 1..Len(jobs)
    BY <1>12 DEF Fails, JobBecomes
  <2>2. CASE i # worker[w].job
    BY <1>b, <1>12, <2>1, <2>2 DEF Fails, JobBecomes
  <2>3. CASE i = worker[w].job
    <3>1. jobs'[i].result = [c \in Cards |-> IF Job(w).result[c] = "PENDING" THEN "FAILED"
                                           ELSE Job(w).result[c]]
      BY <1>12, <2>3 DEF Fails, JobBecomes
    <3>2. \A c \in Cards : jobs'[i].result[c] # "none" => jobs[i].result[c] # "none"
      BY <2>3, <3>1 DEF Job
    <3> QED BY <1>b, <2>1, <3>2
  <2> QED BY <2>2, <2>3
<1>13. ASSUME NEW w \in Workers, NEW c \in Cards, Skips(w, c)
       PROVE  Since(i)'
  <2>1. i \in 1..Len(jobs) /\ worker[w].job \in 1..Len(jobs)
    BY <1>13 DEF Skips, JobBecomes, Assigned
  <2>2. CASE i # worker[w].job
    BY <1>b, <1>13, <2>1, <2>2 DEF Skips, JobBecomes
  <2>3. CASE i = worker[w].job
    <3>1. Settles(worker[w].job, c, "SKIPPED_MANUAL")
      BY <1>13, <2>1, ResultSettled DEF Skips, Job
    <3>2. jobs[i].snapshot[c] > 0
      BY <1>13, <2>3 DEF Skips, Covers
    <3>3. \A d \in Cards : d # c => jobs'[i].result[d] = jobs[i].result[d]
      BY <2>3, <3>1 DEF Settles
    <3> QED BY <1>b, <2>1, <3>2, <3>3
  <2> QED BY <2>2, <2>3
<1>14. ASSUME NEW w \in Workers, NEW c \in Cards, Takes(w, c)
       PROVE  Since(i)'
  BY <1>b, <1>14 DEF Takes, TaskFrame, CategoriesFrame
<1>15. ASSUME NEW w \in Workers, NEW c \in Cards, Rejects(w, c)
       PROVE  Since(i)'
  <2>1. i \in 1..Len(jobs) /\ worker[w].job \in 1..Len(jobs)
    BY <1>15 DEF Rejects, JobBecomes, Assigned
  <2>2. CASE i # worker[w].job
    BY <1>b, <1>15, <2>1, <2>2 DEF Rejects, JobBecomes
  <2>3. CASE i = worker[w].job
    <3>1. Settles(worker[w].job, c, "SKIPPED_NEWER_EDIT")
      BY <1>15, <2>1, ResultSettled DEF Rejects, Job
    <3>2. jobs[i].snapshot[c] > 0
      BY <1>15, <2>3 DEF Rejects, Covers
    <3>3. \A d \in Cards : d # c => jobs'[i].result[d] = jobs[i].result[d]
      BY <2>3, <3>1 DEF Settles
    <3> QED BY <1>b, <2>1, <3>2, <3>3
  <2> QED BY <2>2, <2>3
<1>16. ASSUME NEW w \in Workers, NEW c \in Cards, Classifies(w, c)
       PROVE  Since(i)'
  BY <1>b, <1>16 DEF Classifies, CategoriesFrame
<1>17. ASSUME NEW w \in Workers, NEW c \in Cards, Records(w, c)
       PROVE  Since(i)'
  <2>1. i \in 1..Len(jobs) /\ worker[w].job \in 1..Len(jobs)
    BY <1>17 DEF Records, JobBecomes, Assigned
  <2>2. CASE i # worker[w].job
    BY <1>b, <1>17, <2>1, <2>2 DEF Records, JobBecomes
  <2>3. CASE i = worker[w].job
    <3>1. Settles(worker[w].job, c, "APPLIED")
      BY <1>17, <2>1, ResultSettled DEF Records, Job
    <3>2. jobs[i].snapshot[c] > 0
      BY <1>17, <2>3 DEF Records, Covers
    <3>3. \A d \in Cards : d # c => jobs'[i].result[d] = jobs[i].result[d]
      BY <2>3, <3>1 DEF Settles
    <3> QED BY <1>b, <2>1, <3>2, <3>3
  <2> QED BY <2>2, <2>3
<1>18. ASSUME NEW w \in Workers, NEW c \in Cards, NEW k \in Categories, Updates(w, c, k)
       PROVE  Since(i)'
  BY <1>b, <1>18 DEF Updates, TaskFrame, CategoriesFrame
<1>19. ASSUME Crash
       PROVE  Since(i)'
  BY <1>b, <1>19 DEF Crash
<1>20. ASSUME NEW c \in Cards, ReadVersion(c)
       PROVE  Since(i)'
  BY <1>b, <1>20 DEF ReadVersion
<1> QED BY <1>1, <1>2, <1>3, <1>4, <1>5, <1>6, <1>7, <1>8, <1>9, <1>10, <1>11, <1>12, <1>13,
           <1>14, <1>15, <1>16, <1>17, <1>18, <1>19, <1>20 DEF Stepped, OwnerEffect, CommitEffect,
           TaskEffect

(* A task works on cards its job has seen.                                  *)
LEMMA CoversStays ==
    ASSUME Typed, JobsGrown, \A w \in Workers : Assigned(w), \A j \in 1..Len(jobs) :
           Since(j), NEW v \in Workers, Covers(v), Stepped
    PROVE  Covers(v)'
<1>0. /\ Len(jobs) \in Nat /\ Len(jobs) >= 0 /\ DOMAIN jobs = 1..Len(jobs)
      /\ \A j \in 1..Len(jobs) : jobs[j] \in JobRow
      /\ jobs' \in Seq(JobRow) => Len(jobs') \in Nat /\ DOMAIN jobs' = 1..Len(jobs')
  BY JobsTyped, LenProperties
<1>b. ASSUME worker'[v].job = worker[v].job, worker'[v].pc # "idle" => worker[v].pc # "idle",
             worker'[v].todo \cup worker'[v].cards \subseteq worker[v].todo \cup worker[v].cards
      PROVE  Covers(v)'
  BY <1>b DEF Assigned, Covers, JobsGrown
<1>1. ASSUME NEW k \in Categories, NEW kind \in {"add", "delete"}, Opens(kind, k)
      PROVE  Covers(v)'
  BY <1>b, <1>1 DEF Opens
<1>2. ASSUME Retries
      PROVE  Covers(v)'
  BY <1>b, <1>2 DEF Retries
<1>3. ASSUME NEW c \in Cards, NEW k \in Categories, NEW kind \in {"move", "insert"},
             Begins(c, kind, k)
      PROVE  Covers(v)'
  BY <1>b, <1>3 DEF Begins
<1>4. ASSUME NEW c \in Cards, Touches(c)
      PROVE  Covers(v)'
  BY <1>b, <1>4 DEF Touches
<1>5. ASSUME LocksManual
      PROVE  Covers(v)'
  BY <1>b, <1>5 DEF LocksManual
<1>6. ASSUME Edits
      PROVE  Covers(v)'
  BY <1>b, <1>6 DEF Edits
<1>7. ASSUME NEW c \in Cards, Writes(c)
      PROVE  Covers(v)'
  BY <1>b, <1>7 DEF Writes
<1>8. ASSUME NEW w \in Workers, NEW j \in 1..Len(jobs), Claims(w, j)
      PROVE  Covers(v)'
  <2>1. \/ worker'[v].todo = {} /\ worker'[v].cards = {}
        \/ worker'[v] = worker[v]
    BY <1>8 DEF Claims, CategoriesFrame, Typed, Idle
  <2> QED BY <1>b, <2>1 DEF Covers
<1>9. ASSUME NEW w \in Workers, NEW status \in {"SUCCEEDED", "FAILED", "STALE"}, Ends(w,
             status)
      PROVE  Covers(v)'
  <2>1. \/ worker'[v].todo = {} /\ worker'[v].cards = {}
        \/ worker'[v] = worker[v]
    BY <1>9 DEF Ends, TaskFrame, CategoriesFrame, Typed, Idle
  <2> QED BY <1>b, <2>1 DEF Covers
<1>10. ASSUME NEW w \in Workers, Reads(w)
       PROVE  Covers(v)'
  <2>1. /\ worker'[v].job = worker[v].job
        /\ worker'[v].pc # "idle" => worker[v].pc # "idle"
        /\ worker'[v].todo \cup worker'[v].cards \subseteq worker[v].todo \cup worker[v].cards
    BY <1>10 DEF Reads, TaskFrame, CategoriesFrame, Typed, WorkerRow
  <2> QED BY <1>b, <2>1
<1>11. ASSUME NEW w \in Workers, ReadCards(w)
       PROVE  Covers(v)'
  <2>1. CASE v # w
    BY <1>b, <1>11, <2>1 DEF ReadCards, Typed
  <2>2. CASE v = w
    <3>1. /\ worker'[v].job = worker[v].job /\ worker'[v].todo = Rows(w)
          /\ worker'[v].cards = worker[v].cards /\ jobs' = jobs
      BY <1>11, <2>2 DEF ReadCards, Typed, WorkerRow
    <3>2. worker[v].job \in 1..Len(jobs) /\ worker[v].cards = {}
      BY <1>11, <2>2 DEF ReadCards, Assigned
    <3>3. Since(worker[v].job)
      BY <3>2
    <3>4. \A c \in Rows(w) : c \in Cards /\ jobs[worker[v].job].result[c] = "PENDING"
      BY <2>2 DEF Rows, Job
    <3> QED BY <3>1, <3>2, <3>3, <3>4 DEF Covers, Since
  <2> QED BY <2>1, <2>2
<1>12. ASSUME NEW w \in Workers, Fails(w)
       PROVE  Covers(v)'
  <2>1. \/ worker'[v].todo = {} /\ worker'[v].cards = {}
        \/ worker'[v] = worker[v]
    BY <1>12 DEF Fails, TaskFrame, CategoriesFrame, Typed, Idle
  <2> QED BY <1>b, <2>1 DEF Covers
<1>13. ASSUME NEW w \in Workers, NEW c \in Cards, Skips(w, c)
       PROVE  Covers(v)'
  <2>1. /\ worker'[v].job = worker[v].job
        /\ worker'[v].pc # "idle" => worker[v].pc # "idle"
        /\ worker'[v].todo \cup worker'[v].cards \subseteq worker[v].todo \cup worker[v].cards
    BY <1>13 DEF Skips, TaskFrame, CategoriesFrame, Typed, WorkerRow
  <2> QED BY <1>b, <2>1
<1>14. ASSUME NEW w \in Workers, NEW c \in Cards, Takes(w, c)
       PROVE  Covers(v)'
  <2>1. /\ worker'[v].job = worker[v].job
        /\ worker'[v].pc # "idle" => worker[v].pc # "idle"
        /\ worker'[v].todo \cup worker'[v].cards \subseteq worker[v].todo \cup worker[v].cards
    BY <1>14 DEF Takes, TaskFrame, CategoriesFrame, Typed, WorkerRow
  <2> QED BY <1>b, <2>1
<1>15. ASSUME NEW w \in Workers, NEW c \in Cards, Rejects(w, c)
       PROVE  Covers(v)'
  <2>1. /\ worker'[v].job = worker[v].job
        /\ worker'[v].pc # "idle" => worker[v].pc # "idle"
        /\ worker'[v].todo \cup worker'[v].cards \subseteq worker[v].todo \cup worker[v].cards
    BY <1>15 DEF Rejects, TaskFrame, CategoriesFrame, Typed, WorkerRow
  <2> QED BY <1>b, <2>1
<1>16. ASSUME NEW w \in Workers, NEW c \in Cards, Classifies(w, c)
       PROVE  Covers(v)'
  <2>1. /\ worker'[v].job = worker[v].job
        /\ worker'[v].pc # "idle" => worker[v].pc # "idle"
        /\ worker'[v].todo \cup worker'[v].cards \subseteq worker[v].todo \cup worker[v].cards
    BY <1>16 DEF Classifies, CategoriesFrame, Typed, WorkerRow
  <2> QED BY <1>b, <2>1
<1>17. ASSUME NEW w \in Workers, NEW c \in Cards, Records(w, c)
       PROVE  Covers(v)'
  <2>1. /\ worker'[v].job = worker[v].job
        /\ worker'[v].pc # "idle" => worker[v].pc # "idle"
        /\ worker'[v].todo \cup worker'[v].cards \subseteq worker[v].todo \cup worker[v].cards
    BY <1>17 DEF Records, TaskFrame, CategoriesFrame, Typed, WorkerRow
  <2> QED BY <1>b, <2>1
<1>18. ASSUME NEW w \in Workers, NEW c \in Cards, NEW k \in Categories, Updates(w, c, k)
       PROVE  Covers(v)'
  <2>1. /\ worker'[v].job = worker[v].job
        /\ worker'[v].pc # "idle" => worker[v].pc # "idle"
        /\ worker'[v].todo \cup worker'[v].cards \subseteq worker[v].todo \cup worker[v].cards
    BY <1>18 DEF Updates, TaskFrame, CategoriesFrame, Typed, WorkerRow
  <2> QED BY <1>b, <2>1
<1>19. ASSUME Crash
       PROVE  Covers(v)'
  <2>1. \/ worker'[v].todo = {} /\ worker'[v].cards = {}
        \/ worker'[v] = worker[v]
    BY <1>19 DEF Crash, Typed, Idle
  <2> QED BY <1>b, <2>1 DEF Covers
<1>20. ASSUME NEW c \in Cards, ReadVersion(c)
       PROVE  Covers(v)'
  BY <1>b, <1>20 DEF ReadVersion
<1> QED BY <1>1, <1>2, <1>3, <1>4, <1>5, <1>6, <1>7, <1>8, <1>9, <1>10, <1>11, <1>12, <1>13,
           <1>14, <1>15, <1>16, <1>17, <1>18, <1>19, <1>20 DEF Stepped, OwnerEffect, CommitEffect,
           TaskEffect

(* What holds a card in a transaction of the owner stays true until the     *)
(* commit.                                                                  *)
LEMMA GuardedStays ==
    ASSUME Typed, NEW d \in Cards, Guarded(d), \A w \in Workers : Held(w), Stepped
    PROVE  Guarded(d)'
<1>0. /\ Len(jobs) \in Nat /\ Len(jobs) >= 0 /\ DOMAIN jobs = 1..Len(jobs)
      /\ \A j \in 1..Len(jobs) : jobs[j] \in JobRow
      /\ jobs' \in Seq(JobRow) => Len(jobs') \in Nat /\ DOMAIN jobs' = 1..Len(jobs')
  BY JobsTyped, LenProperties
<1>a. /\ card[d] \in CardRow /\ card[d].stamp \in Nat
      /\ writing[d].kind \in {"none", "move", "insert"}
  BY DEF Typed, CardRow, WriteRow
<1>b. ASSUME card'[d] = card[d], writing'[d] = writing[d], edit' = edit
      PROVE  Guarded(d)'
  BY <1>b DEF Guarded
<1>1. ASSUME NEW k \in Categories, NEW kind \in {"add", "delete"}, Opens(kind, k)
      PROVE  Guarded(d)'
  <2>1. d \notin edit'.locked /\ card' = card /\ writing' = writing
    BY <1>1 DEF Opens
  <2> QED BY <2>1 DEF Guarded
<1>2. ASSUME Retries
      PROVE  Guarded(d)'
  BY <1>b, <1>2 DEF Retries
<1>3. ASSUME NEW c \in Cards, NEW k \in Categories, NEW kind \in {"move", "insert"},
             Begins(c, kind, k)
      PROVE  Guarded(d)'
  <2>1. CASE d # c
    BY <1>b, <1>3, <2>1 DEF Begins, Typed
  <2>2. CASE d = c
    <3>1. writing'[d].kind = kind /\ card' = card /\ edit' = edit
      BY <1>3, <2>2 DEF Begins, Typed
    <3>2. kind = "move" => card[d].stamp > 0 /\ d \notin edit.locked
      BY <1>3, <2>2 DEF Begins, Locked
    <3>3. kind = "insert" => card[d].stamp = 0
      BY <1>3, <2>2 DEF Begins
    <3> QED BY <1>a, <1>3, <3>1, <3>2, <3>3 DEF Guarded
  <2> QED BY <2>1, <2>2
<1>4. ASSUME NEW c \in Cards, Touches(c)
      PROVE  Guarded(d)'
  <2>1. CASE d # c
    BY <1>b, <1>4, <2>1 DEF Touches, CardBecomes
  <2>2. CASE d = c
    <3>1. /\ card[d].stamp > 0 /\ d \notin edit.locked /\ writing[d].kind # "move"
          /\ writing' = writing /\ edit' = edit
      BY <1>4, <2>2 DEF Touches, Locked
    <3> QED BY <1>a, <3>1 DEF Guarded
  <2> QED BY <2>1, <2>2
<1>5. ASSUME LocksManual
      PROVE  Guarded(d)'
  <2>1. /\ edit'.kind = "moved" /\ edit'.category = edit.category
        /\ edit'.locked = edit.seen \cap ManualIn(edit.category)
        /\ card' = card /\ writing' = writing
    BY <1>5 DEF LocksManual
  <2>2. d \in edit.seen \cap ManualIn(edit.category) =>
           /\ card[d].stamp > 0 /\ card[d].manual /\ card[d].category = edit.category
           /\ writing[d].kind # "move"
    BY <1>5 DEF LocksManual, ManualIn, Exists, Locked
  <2> QED BY <1>a, <2>1, <2>2 DEF Guarded
<1>6. ASSUME Edits
      PROVE  Guarded(d)'
  <2>1. edit'.locked = {} /\ writing' = writing
    BY <1>6 DEF Edits, NoEdit
  <2>2. d \notin edit.locked => card'[d] = card[d]
    BY <1>6 DEF Edits
  <2> QED BY <2>1, <2>2 DEF Guarded
<1>7. ASSUME NEW c \in Cards, Writes(c)
      PROVE  Guarded(d)'
  <2>1. CASE d # c
    BY <1>b, <1>7, <2>1 DEF Writes, CardBecomes, Typed
  <2>2. CASE d = c
    <3>1. writing'[d].kind = "none" /\ writing[d].kind # "none" /\ edit' = edit
      BY <1>7, <2>2 DEF Writes, NoWrite, Typed
    <3> QED BY <3>1 DEF Guarded
  <2> QED BY <2>1, <2>2
<1>8. ASSUME NEW w \in Workers, NEW j \in 1..Len(jobs), Claims(w, j)
      PROVE  Guarded(d)'
  BY <1>b, <1>8 DEF Claims, CategoriesFrame
<1>9. ASSUME NEW w \in Workers, NEW status \in {"SUCCEEDED", "FAILED", "STALE"}, Ends(w,
             status)
      PROVE  Guarded(d)'
  BY <1>b, <1>9 DEF Ends, TaskFrame, CategoriesFrame
<1>10. ASSUME NEW w \in Workers, Reads(w)
       PROVE  Guarded(d)'
  BY <1>b, <1>10 DEF Reads, TaskFrame, CategoriesFrame
<1>11. ASSUME NEW w \in Workers, ReadCards(w)
       PROVE  Guarded(d)'
  BY <1>b, <1>11 DEF ReadCards, TaskFrame, CategoriesFrame
<1>12. ASSUME NEW w \in Workers, Fails(w)
       PROVE  Guarded(d)'
  BY <1>b, <1>12 DEF Fails, TaskFrame, CategoriesFrame
<1>13. ASSUME NEW w \in Workers, NEW c \in Cards, Skips(w, c)
       PROVE  Guarded(d)'
  BY <1>b, <1>13 DEF Skips, TaskFrame, CategoriesFrame
<1>14. ASSUME NEW w \in Workers, NEW c \in Cards, Takes(w, c)
       PROVE  Guarded(d)'
  BY <1>b, <1>14 DEF Takes, TaskFrame, CategoriesFrame
<1>15. ASSUME NEW w \in Workers, NEW c \in Cards, Rejects(w, c)
       PROVE  Guarded(d)'
  BY <1>b, <1>15 DEF Rejects, TaskFrame, CategoriesFrame
<1>16. ASSUME NEW w \in Workers, NEW c \in Cards, Classifies(w, c)
       PROVE  Guarded(d)'
  <2>1. CASE d # c
    BY <1>b, <1>16, <2>1 DEF Classifies, CardBecomes, CategoriesFrame
  <2>2. CASE d = c
    <3>1. writing'[d].kind = "none" /\ ~card[d].manual /\ edit' = edit
      BY <1>16, <2>2 DEF Classifies, CategoriesFrame, Held
    <3> QED BY <3>1 DEF Guarded
  <2> QED BY <2>1, <2>2
<1>17. ASSUME NEW w \in Workers, NEW c \in Cards, Records(w, c)
       PROVE  Guarded(d)'
  BY <1>b, <1>17 DEF Records, TaskFrame, CategoriesFrame
<1>18. ASSUME NEW w \in Workers, NEW c \in Cards, NEW k \in Categories, Updates(w, c, k)
       PROVE  Guarded(d)'
  BY <1>b, <1>18 DEF Updates, TaskFrame, CategoriesFrame
<1>19. ASSUME Crash
       PROVE  Guarded(d)'
  <2>1. edit'.locked = {} /\ writing'[d].kind = "none"
    BY <1>19 DEF Crash, NoEdit, NoWrite
  <2> QED BY <2>1 DEF Guarded
<1>20. ASSUME NEW c \in Cards, ReadVersion(c)
       PROVE  Guarded(d)'
  <2>1. card' = card /\ edit' = edit /\ writing'[d].kind = writing[d].kind
    BY <1>20 DEF ReadVersion, Typed, WriteRow
  <2> QED BY <2>1 DEF Guarded
<1> QED BY <1>1, <1>2, <1>3, <1>4, <1>5, <1>6, <1>7, <1>8, <1>9, <1>10, <1>11, <1>12, <1>13,
           <1>14, <1>15, <1>16, <1>17, <1>18, <1>19, <1>20 DEF Stepped, OwnerEffect, CommitEffect,
           TaskEffect

(* What the where clause of a job's update has seen stays true until the    *)
(* commit: the row is locked.                                               *)
LEMMA HeldStays ==
    ASSUME Typed, Protected, JobsGrown, \A w \in Workers : Assigned(w) /\ Covers(w), NEW v
           \in Workers, Stepped
    PROVE  Held(v)'
<1>0. /\ Len(jobs) \in Nat /\ Len(jobs) >= 0 /\ DOMAIN jobs = 1..Len(jobs)
      /\ \A j \in 1..Len(jobs) : jobs[j] \in JobRow
      /\ jobs' \in Seq(JobRow) => Len(jobs') \in Nat /\ DOMAIN jobs' = 1..Len(jobs')
  BY JobsTyped, LenProperties
<1>a. /\ \A w \in Workers : Held(w) /\ worker[w].cards \subseteq Cards
      /\ \A d \in Cards : Guarded(d) /\ card[d].stamp \in Nat
  BY DEF Protected, Typed, CardRow, WorkerRow
<1>b. ASSUME worker'[v].pc = "update" =>
                /\ worker'[v] = worker[v]
                /\ \A d \in worker[v].cards : card'[d] = card[d] /\ writing'[d] = writing[d],
             \A u \in Workers : worker'[u].pc = "update" => worker'[u] = worker[u]
      PROVE  Held(v)'
  <2>1. SUFFICES ASSUME worker'[v].pc = "update"
                 PROVE  Held(v)'
    BY DEF Held
  <2>2. worker[v].job \in 1..Len(jobs) /\ Held(v)
    BY <1>a, <1>b, <2>1 DEF Assigned
  <2>3. jobs'[worker[v].job].snapshot = jobs[worker[v].job].snapshot
    BY <2>2 DEF JobsGrown
  <2> QED BY <1>b, <2>1, <2>2, <2>3 DEF Held
<1>1. ASSUME NEW k \in Categories, NEW kind \in {"add", "delete"}, Opens(kind, k)
      PROVE  Held(v)'
  BY <1>b, <1>1 DEF Opens
<1>2. ASSUME Retries
      PROVE  Held(v)'
  BY <1>b, <1>2 DEF Retries
<1>3. ASSUME NEW c \in Cards, NEW k \in Categories, NEW kind \in {"move", "insert"},
             Begins(c, kind, k)
      PROVE  Held(v)'
  <2>1. worker[v].pc = "update" => c \notin worker[v].cards
    <3>1. CASE kind = "move"
      BY <1>3, <3>1 DEF Begins, Locked
    <3>2. CASE kind = "insert"
      <4>1. card[c].stamp = 0
        BY <1>3, <3>2 DEF Begins
      <4> QED BY <1>a, <4>1 DEF Held, Covers
    <3> QED BY <1>3, <3>1, <3>2
  <2>2. worker' = worker /\ \A d \in Cards : d # c => card'[d] = card[d] /\ writing'[d] = writing[d]
    BY <1>3 DEF Begins, Typed
  <2> QED BY <1>a, <1>b, <2>1, <2>2
<1>4. ASSUME NEW c \in Cards, Touches(c)
      PROVE  Held(v)'
  <2>1. worker[v].pc = "update" => c \notin worker[v].cards
    BY <1>4 DEF Touches, Locked
  <2>2. worker' = worker /\ \A d \in Cards : d # c => card'[d] = card[d] /\ writing'[d] = writing[d]
    BY <1>4 DEF Touches, CardBecomes
  <2> QED BY <1>a, <1>b, <2>1, <2>2
<1>5. ASSUME LocksManual
      PROVE  Held(v)'
  BY <1>b, <1>5 DEF LocksManual
<1>6. ASSUME Edits
      PROVE  Held(v)'
  <2>1. worker[v].pc = "update" => \A d \in worker[v].cards : d \notin edit.locked
    <3>1. worker[v].cards \subseteq Cards
      BY <1>a
    <3> QED BY <1>a, <3>1 DEF Held, Guarded
  <2>2. /\ worker' = worker /\ writing' = writing
        /\ \A d \in Cards : d \notin edit.locked => card'[d] = card[d]
    BY <1>6 DEF Edits
  <2> QED BY <1>a, <1>b, <2>1, <2>2
<1>7. ASSUME NEW c \in Cards, Writes(c)
      PROVE  Held(v)'
  <2>1. worker[v].pc = "update" => c \notin worker[v].cards
    BY <1>a, <1>7 DEF Writes, Held
  <2>2. worker' = worker /\ \A d \in Cards : d # c => card'[d] = card[d] /\ writing'[d] = writing[d]
    BY <1>7 DEF Writes, CardBecomes, Typed
  <2> QED BY <1>a, <1>b, <2>1, <2>2
<1>8. ASSUME NEW w \in Workers, NEW j \in 1..Len(jobs), Claims(w, j)
      PROVE  Held(v)'
  <2>1. \A u \in Workers : worker'[u].pc = "update" => worker'[u] = worker[u]
    BY <1>8 DEF Claims, Typed, WorkerRow, Idle
  <2>2. card' = card /\ writing' = writing
    BY <1>8 DEF Claims, CategoriesFrame
  <2> QED BY <1>a, <1>b, <2>1, <2>2
<1>9. ASSUME NEW w \in Workers, NEW status \in {"SUCCEEDED", "FAILED", "STALE"}, Ends(w,
             status)
      PROVE  Held(v)'
  <2>1. \A u \in Workers : worker'[u].pc = "update" => worker'[u] = worker[u]
    BY <1>9 DEF Ends, Typed, WorkerRow, Idle
  <2>2. card' = card /\ writing' = writing
    BY <1>9 DEF Ends, TaskFrame, CategoriesFrame
  <2> QED BY <1>a, <1>b, <2>1, <2>2
<1>10. ASSUME NEW w \in Workers, Reads(w)
       PROVE  Held(v)'
  <2>1. \A u \in Workers : worker'[u].pc = "update" => worker'[u] = worker[u]
    BY <1>10 DEF Reads, Typed, WorkerRow, Idle
  <2>2. card' = card /\ writing' = writing
    BY <1>10 DEF Reads, TaskFrame, CategoriesFrame
  <2> QED BY <1>a, <1>b, <2>1, <2>2
<1>11. ASSUME NEW w \in Workers, ReadCards(w)
       PROVE  Held(v)'
  <2>1. \A u \in Workers : worker'[u].pc = "update" => worker'[u] = worker[u]
    BY <1>11 DEF ReadCards, Typed, WorkerRow, Idle
  <2>2. card' = card /\ writing' = writing
    BY <1>11 DEF ReadCards, TaskFrame, CategoriesFrame
  <2> QED BY <1>a, <1>b, <2>1, <2>2
<1>12. ASSUME NEW w \in Workers, Fails(w)
       PROVE  Held(v)'
  <2>1. \A u \in Workers : worker'[u].pc = "update" => worker'[u] = worker[u]
    BY <1>12 DEF Fails, Typed, WorkerRow, Idle
  <2>2. card' = card /\ writing' = writing
    BY <1>12 DEF Fails, TaskFrame, CategoriesFrame
  <2> QED BY <1>a, <1>b, <2>1, <2>2
<1>13. ASSUME NEW w \in Workers, NEW c \in Cards, Skips(w, c)
       PROVE  Held(v)'
  <2>1. \A u \in Workers : worker'[u].pc = "update" => worker'[u] = worker[u]
    BY <1>13 DEF Skips, Typed, WorkerRow, Idle
  <2>2. card' = card /\ writing' = writing
    BY <1>13 DEF Skips, TaskFrame, CategoriesFrame
  <2> QED BY <1>a, <1>b, <2>1, <2>2
<1>14. ASSUME NEW w \in Workers, NEW c \in Cards, Takes(w, c)
       PROVE  Held(v)'
  <2>1. \A u \in Workers : worker'[u].pc = "update" => worker'[u] = worker[u]
    BY <1>14 DEF Takes, Typed, WorkerRow, Idle
  <2>2. card' = card /\ writing' = writing
    BY <1>14 DEF Takes, TaskFrame, CategoriesFrame
  <2> QED BY <1>a, <1>b, <2>1, <2>2
<1>15. ASSUME NEW w \in Workers, NEW c \in Cards, Rejects(w, c)
       PROVE  Held(v)'
  <2>1. \A u \in Workers : worker'[u].pc = "update" => worker'[u] = worker[u]
    BY <1>15 DEF Rejects, Typed, WorkerRow, Idle
  <2>2. card' = card /\ writing' = writing
    BY <1>15 DEF Rejects, TaskFrame, CategoriesFrame
  <2> QED BY <1>a, <1>b, <2>1, <2>2
<1>16. ASSUME NEW w \in Workers, NEW c \in Cards, Classifies(w, c)
       PROVE  Held(v)'
  <2>1. CASE v = w
    <3>1. worker'[v].pc = "record"
      BY <1>16, <2>1 DEF Classifies, Typed, WorkerRow
    <3> QED BY <3>1 DEF Held
  <2>2. CASE v # w
    <3>1. worker[v].pc = "update" => c \notin worker[v].cards
      BY <1>a, <1>16, <2>2 DEF Classifies, Held
    <3>2. \A u \in Workers : worker'[u].pc = "update" => worker'[u] = worker[u]
      BY <1>16 DEF Classifies, Typed, WorkerRow
    <3>3. writing' = writing /\ \A d \in Cards : d # c => card'[d] = card[d]
      BY <1>16 DEF Classifies, CardBecomes, CategoriesFrame
    <3> QED BY <1>a, <1>b, <3>1, <3>2, <3>3
  <2> QED BY <2>1, <2>2
<1>17. ASSUME NEW w \in Workers, NEW c \in Cards, Records(w, c)
       PROVE  Held(v)'
  <2>1. \A u \in Workers : worker'[u].pc = "update" => worker'[u] = worker[u]
    BY <1>17 DEF Records, Typed, WorkerRow, Idle
  <2>2. card' = card /\ writing' = writing
    BY <1>17 DEF Records, TaskFrame, CategoriesFrame
  <2> QED BY <1>a, <1>b, <2>1, <2>2
<1>18. ASSUME NEW w \in Workers, NEW c \in Cards, NEW k \in Categories, Updates(w, c, k)
       PROVE  Held(v)'
  <2>1. /\ worker[w].cards = {c} /\ ~Locked(c) /\ worker'[w].cards = worker[w].cards
        /\ worker'[w].job = worker[w].job
        /\ \A u \in Workers : u # w => worker'[u] = worker[u]
        /\ card' = card /\ writing' = writing /\ jobs' = jobs
    BY <1>18 DEF Updates, TaskFrame, CategoriesFrame, Typed, WorkerRow, Assigned
  <2>2. \A u \in Workers : worker[u].pc = "update" => c \notin worker[u].cards
    BY <2>1 DEF Locked
  <2>3. CASE v # w
    <3>1. worker'[v] = worker[v]
      BY <2>1, <2>3
    <3>2. ASSUME worker[v].pc = "update", NEW d \in worker[v].cards, NEW u \in Workers,
                 worker'[u].pc = "update", d \in worker'[u].cards
          PROVE  u = v
      <4>1. u # w
        BY <2>1, <2>2, <3>2
      <4> QED BY <1>a, <2>1, <3>2, <4>1 DEF Held
    <3> QED BY <1>a, <2>1, <2>3, <3>1, <3>2 DEF Held
  <2>4. CASE v = w
    <3>1. /\ ~card[c].manual /\ card[c].stamp = jobs[worker[w].job].snapshot[c]
          /\ worker[w].pc = "apply"
      BY <1>18 DEF Updates, UnchangedCard, Job
    <3>2. card[c].stamp > 0
      BY <2>1, <3>1 DEF Covers
    <3>3. writing[c].kind = "none"
      <4>1. writing[c].kind # "move"
        BY <2>1 DEF Locked
      <4>2. writing[c].kind # "insert"
        BY <1>a, <3>2 DEF Guarded
      <4> QED BY <4>1, <4>2 DEF Typed, WriteRow
    <3>4. \A u \in Workers : worker'[u].pc = "update" /\ c \in worker'[u].cards => u = v
      BY <2>1, <2>2, <2>4
    <3> QED BY <2>1, <2>4, <3>1, <3>3, <3>4 DEF Held
  <2> QED BY <2>3, <2>4
<1>19. ASSUME Crash
       PROVE  Held(v)'
  <2>1. worker'[v].pc = "idle"
    BY <1>19 DEF Crash, Idle
  <2> QED BY <2>1 DEF Held
<1>20. ASSUME NEW c \in Cards, ReadVersion(c)
       PROVE  Held(v)'
  <2>1. worker' = worker /\ card' = card /\ jobs' = jobs
    BY <1>20 DEF ReadVersion
  <2>2. \A d \in Cards : writing'[d].kind = writing[d].kind
    BY <1>20 DEF ReadVersion, Typed, WriteRow
  <2> QED BY <1>a, <2>1, <2>2 DEF Held
<1> QED BY <1>1, <1>2, <1>3, <1>4, <1>5, <1>6, <1>7, <1>8, <1>9, <1>10, <1>11, <1>12, <1>13,
           <1>14, <1>15, <1>16, <1>17, <1>18, <1>19, <1>20 DEF Stepped, OwnerEffect, CommitEffect,
           TaskEffect

----------------------------------------------------------------------------
(* A card the owner chose a category for stays one; until the next edit a   *)
(* card that is settled stays so, and one that changes was changed by the   *)
(* owner or is settled.                                                     *)
Keeps(c) ==
    /\ card[c].manual => card'[c].manual
    /\ version' = version =>
          /\ active' = active
          /\ Settled(c) => Settled(c)'
          /\ \/ card'[c] = card[c]
             \/ c \in edited' /\ card'[c].category = card[c].category
                              /\ (card'[c].manual <=> card[c].manual)
             \/ Settled(c)'

(* A settled card stays settled until the next edit of the categories.      *)
LEMMA CardsKept ==
    ASSUME Typed, Protected, Listed, Stepped, NEW d \in Cards
    PROVE  Keeps(d)
<1>0. /\ Len(jobs) \in Nat /\ Len(jobs) >= 0 /\ DOMAIN jobs = 1..Len(jobs)
      /\ \A j \in 1..Len(jobs) : jobs[j] \in JobRow
      /\ jobs' \in Seq(JobRow) => Len(jobs') \in Nat /\ DOMAIN jobs' = 1..Len(jobs')
  BY JobsTyped, LenProperties
<1>a. version \in Nat /\ card[d].stamp \in Nat
  BY DEF Typed, CardRow
<1>b. ASSUME card' = card, version' = version, active' = active, overlapped' = overlapped
      PROVE  Keeps(d)
  BY <1>b DEF Keeps, Settled
<1>1. ASSUME NEW k \in Categories, NEW kind \in {"add", "delete"}, Opens(kind, k)
      PROVE  Keeps(d)
  BY <1>b, <1>1 DEF Opens
<1>2. ASSUME Retries
      PROVE  Keeps(d)
  BY <1>b, <1>2 DEF Retries
<1>3. ASSUME NEW c \in Cards, NEW k \in Categories, NEW kind \in {"move", "insert"},
             Begins(c, kind, k)
      PROVE  Keeps(d)
  BY <1>b, <1>3 DEF Begins
<1>4. ASSUME NEW c \in Cards, Touches(c)
      PROVE  Keeps(d)
  <2>1. version' = version /\ active' = active /\ overlapped' = overlapped
    BY <1>4 DEF Touches
  <2>2. CASE d # c
    BY <1>4, <2>1, <2>2 DEF Touches, CardBecomes, Keeps, Settled
  <2>3. CASE d = c
    <3>1. /\ d \in edited' /\ card'[d].category = card[d].category
          /\ (card'[d].manual <=> card[d].manual)
      BY <1>4, <2>3 DEF Touches, CardBecomes
    <3> QED BY <2>1, <3>1 DEF Keeps, Settled
  <2> QED BY <2>2, <2>3
<1>5. ASSUME LocksManual
      PROVE  Keeps(d)
  BY <1>b, <1>5 DEF LocksManual
<1>6. ASSUME Edits
      PROVE  Keeps(d)
  <2>1. version' # version
    BY <1>a, <1>6 DEF Edits
  <2>2. card[d].manual => card'[d].manual
    BY <1>6 DEF Edits
  <2> QED BY <2>1, <2>2 DEF Keeps
<1>7. ASSUME NEW c \in Cards, Writes(c)
      PROVE  Keeps(d)
  <2>1. version' = version /\ active' = active
    BY <1>7 DEF Writes
  <2>2. CASE d # c
    <3>1. card'[d] = card[d] /\ (d \in overlapped <=> d \in overlapped')
      BY <1>7, <2>2 DEF Writes, CardBecomes, Overlap
    <3> QED BY <2>1, <3>1 DEF Keeps, Settled
  <2>3. CASE d = c
    <3>1. /\ writing[d].kind # "none" /\ card'[d].category = writing[d].category
          /\ (card'[d].manual <=> writing[d].kind = "move")
          /\ writing[d].seen # version => d \in overlapped'
      BY <1>7, <2>3 DEF Writes, CardBecomes, Overlap
    <3>2. card[d].manual => writing[d].kind = "move"
      <4>1. card[d].manual => card[d].stamp # 0
        BY <1>a DEF Listed, ManualListed, Exists
      <4>2. writing[d].kind \in {"none", "move", "insert"}
        BY DEF Typed, WriteRow
      <4> QED BY <3>1, <4>1, <4>2 DEF Protected, Guarded
    <3>3. writing[d].seen = version => writing[d].category \in active
      BY <3>1 DEF Listed, WriteListed
    <3>4. Settled(d)'
      BY <2>1, <3>1, <3>3 DEF Settled
    <3> QED BY <2>1, <3>1, <3>2, <3>4 DEF Keeps
  <2> QED BY <2>2, <2>3
<1>8. ASSUME NEW w \in Workers, NEW j \in 1..Len(jobs), Claims(w, j)
      PROVE  Keeps(d)
  BY <1>b, <1>8 DEF Claims, CategoriesFrame
<1>9. ASSUME NEW w \in Workers, NEW status \in {"SUCCEEDED", "FAILED", "STALE"}, Ends(w,
             status)
      PROVE  Keeps(d)
  BY <1>b, <1>9 DEF Ends, TaskFrame, CategoriesFrame
<1>10. ASSUME NEW w \in Workers, Reads(w)
       PROVE  Keeps(d)
  BY <1>b, <1>10 DEF Reads, TaskFrame, CategoriesFrame
<1>11. ASSUME NEW w \in Workers, ReadCards(w)
       PROVE  Keeps(d)
  BY <1>b, <1>11 DEF ReadCards, TaskFrame, CategoriesFrame
<1>12. ASSUME NEW w \in Workers, Fails(w)
       PROVE  Keeps(d)
  BY <1>b, <1>12 DEF Fails, TaskFrame, CategoriesFrame
<1>13. ASSUME NEW w \in Workers, NEW c \in Cards, Skips(w, c)
       PROVE  Keeps(d)
  BY <1>b, <1>13 DEF Skips, TaskFrame, CategoriesFrame
<1>14. ASSUME NEW w \in Workers, NEW c \in Cards, Takes(w, c)
       PROVE  Keeps(d)
  BY <1>b, <1>14 DEF Takes, TaskFrame, CategoriesFrame
<1>15. ASSUME NEW w \in Workers, NEW c \in Cards, Rejects(w, c)
       PROVE  Keeps(d)
  BY <1>b, <1>15 DEF Rejects, TaskFrame, CategoriesFrame
<1>16. ASSUME NEW w \in Workers, NEW c \in Cards, Classifies(w, c)
       PROVE  Keeps(d)
  <2>1. version' = version /\ active' = active
    BY <1>16 DEF Classifies, CategoriesFrame
  <2>2. CASE d # c
    <3>1. card'[d] = card[d] /\ (d \in overlapped <=> d \in overlapped')
      BY <1>16, <2>2 DEF Classifies, CardBecomes, Overlap
    <3> QED BY <2>1, <3>1 DEF Keeps, Settled
  <2>3. CASE d = c
    <3>1. /\ card'[d].category = worker[w].category
          /\ (card'[d].manual <=> card[d].manual)
          /\ worker[w].version # version => d \in overlapped'
          /\ worker[w].pc = "update"
      BY <1>16, <2>3 DEF Classifies, CardBecomes, Overlap
    <3>2. worker[w].version = version => worker[w].category \in active
      BY <3>1 DEF Listed, WorkerListed
    <3>3. Settled(d)'
      BY <2>1, <3>1, <3>2 DEF Settled
    <3> QED BY <2>1, <3>1, <3>3 DEF Keeps
  <2> QED BY <2>2, <2>3
<1>17. ASSUME NEW w \in Workers, NEW c \in Cards, Records(w, c)
       PROVE  Keeps(d)
  BY <1>b, <1>17 DEF Records, TaskFrame, CategoriesFrame
<1>18. ASSUME NEW w \in Workers, NEW c \in Cards, NEW k \in Categories, Updates(w, c, k)
       PROVE  Keeps(d)
  BY <1>b, <1>18 DEF Updates, TaskFrame, CategoriesFrame
<1>19. ASSUME Crash
       PROVE  Keeps(d)
  BY <1>b, <1>19 DEF Crash
<1>20. ASSUME NEW c \in Cards, ReadVersion(c)
       PROVE  Keeps(d)
  BY <1>b, <1>20 DEF ReadVersion
<1> QED BY <1>1, <1>2, <1>3, <1>4, <1>5, <1>6, <1>7, <1>8, <1>9, <1>10, <1>11, <1>12, <1>13,
           <1>14, <1>15, <1>16, <1>17, <1>18, <1>19, <1>20 DEF Stepped, OwnerEffect, CommitEffect,
           TaskEffect

(* A deletion sees the manual cards of its category, but for those written  *)
(* around it.                                                               *)
LEMMA EditListedStays ==
    ASSUME EditListed, Stepped
    PROVE  EditListed'
<1>b. ASSUME card' = card, edit' = edit, active' = active, overlapped' = overlapped
      PROVE  EditListed'
  BY <1>b DEF EditListed, ManualIn, Exists
<1>1. ASSUME NEW k \in Categories, NEW kind \in {"add", "delete"}, Opens(kind, k)
      PROVE  EditListed'
  <2>1. /\ edit'.kind = kind /\ edit'.category = k /\ active' = active
        /\ kind \in {"add", "delete"} /\ (kind = "delete" => k # Other)
        /\ (kind = "delete" => edit'.seen = ManualIn(k)) /\ card' = card
    BY <1>1 DEF Opens
  <2> QED BY <2>1 DEF EditListed, ManualIn, Exists
<1>2. ASSUME Retries
      PROVE  EditListed'
  BY <1>b, <1>2 DEF Retries
<1>3. ASSUME NEW c \in Cards, NEW k \in Categories, NEW kind \in {"move", "insert"},
             Begins(c, kind, k)
      PROVE  EditListed'
  BY <1>b, <1>3 DEF Begins
<1>4. ASSUME NEW c \in Cards, Touches(c)
      PROVE  EditListed'
  <2>1. \A d \in Cards : d # c => card'[d] = card[d]
    BY <1>4 DEF Touches, CardBecomes
  <2>2. /\ card'[c].category = card[c].category /\ (card'[c].manual <=> card[c].manual)
        /\ card[c].stamp > 0
    BY <1>4 DEF Touches, CardBecomes
  <2>3. edit' = edit /\ active' = active /\ overlapped' = overlapped
    BY <1>4 DEF Touches
  <2>4. ManualIn(edit.category)' \subseteq ManualIn(edit.category)
    BY <2>1, <2>2, <2>3 DEF ManualIn, Exists
  <2> QED BY <2>3, <2>4 DEF EditListed
<1>5. ASSUME LocksManual
      PROVE  EditListed'
  <2>1. /\ edit'.category = edit.category /\ edit'.kind = "moved"
        /\ edit'.locked = edit.seen \cap ManualIn(edit.category)
        /\ edit.kind = "delete" /\ card' = card /\ active' = active
        /\ overlapped' = overlapped
    BY <1>5 DEF LocksManual
  <2> QED BY <2>1 DEF EditListed, ManualIn, Exists
<1>6. ASSUME Edits
      PROVE  EditListed'
  <2>1. edit'.kind = "none"
    BY <1>6 DEF Edits, NoEdit
  <2>2. Other \in active'
    BY <1>6 DEF Edits, EditListed
  <2> QED BY <2>1, <2>2 DEF EditListed
<1>7. ASSUME NEW c \in Cards, Writes(c)
      PROVE  EditListed'
  <2>1. \A d \in Cards : d # c => card'[d] = card[d]
    BY <1>7 DEF Writes, CardBecomes
  <2>2. /\ edit.kind \in {"delete", "moved"} => c \in overlapped'
        /\ overlapped \subseteq overlapped' \cup {c}
    BY <1>7 DEF Writes, Overlap
  <2>3. edit' = edit /\ active' = active
    BY <1>7 DEF Writes
  <2>4. ManualIn(edit.category)' \subseteq ManualIn(edit.category) \cup {c}
    BY <2>1, <2>3 DEF ManualIn, Exists
  <2> QED BY <2>2, <2>3, <2>4 DEF EditListed
<1>8. ASSUME NEW w \in Workers, NEW j \in 1..Len(jobs), Claims(w, j)
      PROVE  EditListed'
  BY <1>b, <1>8 DEF Claims, CategoriesFrame
<1>9. ASSUME NEW w \in Workers, NEW status \in {"SUCCEEDED", "FAILED", "STALE"}, Ends(w,
             status)
      PROVE  EditListed'
  BY <1>b, <1>9 DEF Ends, TaskFrame, CategoriesFrame
<1>10. ASSUME NEW w \in Workers, Reads(w)
       PROVE  EditListed'
  BY <1>b, <1>10 DEF Reads, TaskFrame, CategoriesFrame
<1>11. ASSUME NEW w \in Workers, ReadCards(w)
       PROVE  EditListed'
  BY <1>b, <1>11 DEF ReadCards, TaskFrame, CategoriesFrame
<1>12. ASSUME NEW w \in Workers, Fails(w)
       PROVE  EditListed'
  BY <1>b, <1>12 DEF Fails, TaskFrame, CategoriesFrame
<1>13. ASSUME NEW w \in Workers, NEW c \in Cards, Skips(w, c)
       PROVE  EditListed'
  BY <1>b, <1>13 DEF Skips, TaskFrame, CategoriesFrame
<1>14. ASSUME NEW w \in Workers, NEW c \in Cards, Takes(w, c)
       PROVE  EditListed'
  BY <1>b, <1>14 DEF Takes, TaskFrame, CategoriesFrame
<1>15. ASSUME NEW w \in Workers, NEW c \in Cards, Rejects(w, c)
       PROVE  EditListed'
  BY <1>b, <1>15 DEF Rejects, TaskFrame, CategoriesFrame
<1>16. ASSUME NEW w \in Workers, NEW c \in Cards, Classifies(w, c)
       PROVE  EditListed'
  <2>1. \A d \in Cards : d # c => card'[d] = card[d]
    BY <1>16 DEF Classifies, CardBecomes
  <2>2. /\ edit.kind \in {"delete", "moved"} => c \in overlapped'
        /\ overlapped \subseteq overlapped' \cup {c}
    BY <1>16 DEF Classifies, Overlap
  <2>3. edit' = edit /\ active' = active
    BY <1>16 DEF Classifies, CategoriesFrame
  <2>4. ManualIn(edit.category)' \subseteq ManualIn(edit.category) \cup {c}
    BY <2>1, <2>3 DEF ManualIn, Exists
  <2> QED BY <2>2, <2>3, <2>4 DEF EditListed
<1>17. ASSUME NEW w \in Workers, NEW c \in Cards, Records(w, c)
       PROVE  EditListed'
  BY <1>b, <1>17 DEF Records, TaskFrame, CategoriesFrame
<1>18. ASSUME NEW w \in Workers, NEW c \in Cards, NEW k \in Categories, Updates(w, c, k)
       PROVE  EditListed'
  BY <1>b, <1>18 DEF Updates, TaskFrame, CategoriesFrame
<1>19. ASSUME Crash
       PROVE  EditListed'
  <2>1. edit'.kind = "none" /\ active' = active
    BY <1>19 DEF Crash, NoEdit
  <2> QED BY <2>1 DEF EditListed
<1>20. ASSUME NEW c \in Cards, ReadVersion(c)
       PROVE  EditListed'
  BY <1>b, <1>20 DEF ReadVersion
<1> QED BY <1>1, <1>2, <1>3, <1>4, <1>5, <1>6, <1>7, <1>8, <1>9, <1>10, <1>11, <1>12, <1>13,
           <1>14, <1>15, <1>16, <1>17, <1>18, <1>19, <1>20 DEF Stepped, OwnerEffect, CommitEffect,
           TaskEffect

(* A write at the current version names a listed category.                  *)
LEMMA WriteListedStays ==
    ASSUME Typed, NEW d \in Cards, Dated(d), WriteListed(d), Stepped
    PROVE  WriteListed(d)'
<1>b. ASSUME writing'[d] = writing[d], version' = version, active' = active
      PROVE  WriteListed(d)'
  BY <1>b DEF WriteListed
<1>1. ASSUME NEW k \in Categories, NEW kind \in {"add", "delete"}, Opens(kind, k)
      PROVE  WriteListed(d)'
  BY <1>b, <1>1 DEF Opens
<1>2. ASSUME Retries
      PROVE  WriteListed(d)'
  BY <1>b, <1>2 DEF Retries
<1>3. ASSUME NEW c \in Cards, NEW k \in Categories, NEW kind \in {"move", "insert"},
             Begins(c, kind, k)
      PROVE  WriteListed(d)'
  <2>1. CASE d # c
    BY <1>b, <1>3, <2>1 DEF Begins, Typed
  <2>2. CASE d = c
    <3>1. writing'[d].category = k /\ k \in active'
      BY <1>3, <2>2 DEF Begins, Typed
    <3> QED BY <3>1 DEF WriteListed
  <2> QED BY <2>1, <2>2
<1>4. ASSUME NEW c \in Cards, Touches(c)
      PROVE  WriteListed(d)'
  BY <1>b, <1>4 DEF Touches
<1>5. ASSUME LocksManual
      PROVE  WriteListed(d)'
  BY <1>b, <1>5 DEF LocksManual
<1>6. ASSUME Edits
      PROVE  WriteListed(d)'
  <2>1. version' = version + 1 /\ writing' = writing
    BY <1>6 DEF Edits
  <2>2. writing[d].kind # "none" => writing[d].seen <= version
    BY DEF Dated
  <2>3. version \in Nat /\ writing[d].seen \in Nat
    BY DEF Typed, WriteRow
  <2> QED BY <2>1, <2>2, <2>3 DEF WriteListed
<1>7. ASSUME NEW c \in Cards, Writes(c)
      PROVE  WriteListed(d)'
  <2>1. CASE d # c
    BY <1>b, <1>7, <2>1 DEF Writes, Typed
  <2>2. CASE d = c
    <3>1. writing'[d].kind = "none"
      BY <1>7, <2>2 DEF Writes, NoWrite, Typed
    <3> QED BY <3>1 DEF WriteListed
  <2> QED BY <2>1, <2>2
<1>8. ASSUME NEW w \in Workers, NEW j \in 1..Len(jobs), Claims(w, j)
      PROVE  WriteListed(d)'
  BY <1>b, <1>8 DEF Claims, CategoriesFrame
<1>9. ASSUME NEW w \in Workers, NEW status \in {"SUCCEEDED", "FAILED", "STALE"}, Ends(w,
             status)
      PROVE  WriteListed(d)'
  BY <1>b, <1>9 DEF Ends, TaskFrame, CategoriesFrame
<1>10. ASSUME NEW w \in Workers, Reads(w)
       PROVE  WriteListed(d)'
  BY <1>b, <1>10 DEF Reads, TaskFrame, CategoriesFrame
<1>11. ASSUME NEW w \in Workers, ReadCards(w)
       PROVE  WriteListed(d)'
  BY <1>b, <1>11 DEF ReadCards, TaskFrame, CategoriesFrame
<1>12. ASSUME NEW w \in Workers, Fails(w)
       PROVE  WriteListed(d)'
  BY <1>b, <1>12 DEF Fails, TaskFrame, CategoriesFrame
<1>13. ASSUME NEW w \in Workers, NEW c \in Cards, Skips(w, c)
       PROVE  WriteListed(d)'
  BY <1>b, <1>13 DEF Skips, TaskFrame, CategoriesFrame
<1>14. ASSUME NEW w \in Workers, NEW c \in Cards, Takes(w, c)
       PROVE  WriteListed(d)'
  BY <1>b, <1>14 DEF Takes, TaskFrame, CategoriesFrame
<1>15. ASSUME NEW w \in Workers, NEW c \in Cards, Rejects(w, c)
       PROVE  WriteListed(d)'
  BY <1>b, <1>15 DEF Rejects, TaskFrame, CategoriesFrame
<1>16. ASSUME NEW w \in Workers, NEW c \in Cards, Classifies(w, c)
       PROVE  WriteListed(d)'
  BY <1>b, <1>16 DEF Classifies, CategoriesFrame
<1>17. ASSUME NEW w \in Workers, NEW c \in Cards, Records(w, c)
       PROVE  WriteListed(d)'
  BY <1>b, <1>17 DEF Records, TaskFrame, CategoriesFrame
<1>18. ASSUME NEW w \in Workers, NEW c \in Cards, NEW k \in Categories, Updates(w, c, k)
       PROVE  WriteListed(d)'
  BY <1>b, <1>18 DEF Updates, TaskFrame, CategoriesFrame
<1>19. ASSUME Crash
       PROVE  WriteListed(d)'
  <2>1. writing'[d].kind = "none"
    BY <1>19 DEF Crash, NoWrite
  <2> QED BY <2>1 DEF WriteListed
<1>20. ASSUME NEW c \in Cards, ReadVersion(c)
       PROVE  WriteListed(d)'
  <2>1. /\ writing'[d].kind = writing[d].kind /\ writing'[d].category = writing[d].category
        /\ writing'[d].seen = writing[d].seen /\ version' = version /\ active' = active
    BY <1>20 DEF ReadVersion, Typed, WriteRow
  <2> QED BY <2>1 DEF WriteListed
<1> QED BY <1>1, <1>2, <1>3, <1>4, <1>5, <1>6, <1>7, <1>8, <1>9, <1>10, <1>11, <1>12, <1>13,
           <1>14, <1>15, <1>16, <1>17, <1>18, <1>19, <1>20 DEF Stepped, OwnerEffect, CommitEffect,
           TaskEffect

(* A manual card is in a listed category, or was written around an edit.    *)
LEMMA ManualListedStays ==
    ASSUME Typed, Protected, Listed, NEW d \in Cards, Keeps(d), Stepped
    PROVE  ManualListed(d)'
<1>a. card[d].stamp \in Nat /\ ManualListed(d)
  BY DEF Typed, CardRow, Listed
<1>b. ASSUME card' = card, active' = active, overlapped' = overlapped
      PROVE  ManualListed(d)'
  BY <1>a, <1>b DEF ManualListed, Settled, Exists
<1>c. ASSUME card'[d] = card[d], version' = version
      PROVE  ManualListed(d)'
  BY <1>a, <1>c DEF ManualListed, Keeps, Exists
<1>1. ASSUME NEW k \in Categories, NEW kind \in {"add", "delete"}, Opens(kind, k)
      PROVE  ManualListed(d)'
  BY <1>b, <1>1 DEF Opens
<1>2. ASSUME Retries
      PROVE  ManualListed(d)'
  BY <1>b, <1>2 DEF Retries
<1>3. ASSUME NEW c \in Cards, NEW k \in Categories, NEW kind \in {"move", "insert"},
             Begins(c, kind, k)
      PROVE  ManualListed(d)'
  BY <1>b, <1>3 DEF Begins
<1>4. ASSUME NEW c \in Cards, Touches(c)
      PROVE  ManualListed(d)'
  <2>1. CASE d # c
    BY <1>a, <1>4, <2>1 DEF Touches, CardBecomes, ManualListed, Settled, Exists
  <2>2. CASE d = c
    <3>1. /\ (card'[d].manual <=> card[d].manual) /\ card'[d].category = card[d].category
          /\ card'[d].stamp = card[d].stamp + 1 /\ active' = active /\ overlapped' = overlapped
      BY <1>4, <2>2 DEF Touches, CardBecomes
    <3> QED BY <1>a, <3>1 DEF ManualListed, Settled, Exists
  <2> QED BY <2>1, <2>2
<1>5. ASSUME LocksManual
      PROVE  ManualListed(d)'
  BY <1>b, <1>5 DEF LocksManual
<1>6. ASSUME Edits
      PROVE  ManualListed(d)'
  <2>1. /\ edit.kind = "add" => active' = active \cup {edit.category}
        /\ edit.kind = "moved" => active' = active \ {edit.category}
        /\ edit.kind \in {"add", "moved"} /\ overlapped' = overlapped
    BY <1>6 DEF Edits
  <2>2. Other \in active'
    BY <2>1 DEF Listed, EditListed
  <2>3. CASE d \in edit.locked
    <3>1. card'[d].category = Other /\ card'[d].stamp = card[d].stamp + 1
      BY <1>6, <2>3 DEF Edits
    <3> QED BY <1>a, <2>2, <3>1 DEF ManualListed, Settled, Exists
  <2>4. CASE d \notin edit.locked
    <3>1. card'[d] = card[d]
      BY <1>6, <2>4 DEF Edits
    <3>2. SUFFICES ASSUME card[d].manual
                   PROVE  Exists(d)' /\ Settled(d)'
      BY <3>1 DEF ManualListed
    <3>3. Exists(d) /\ Settled(d)
      BY <3>2 DEF Listed, ManualListed
    <3>4. edit.kind = "moved" /\ card[d].category = edit.category => d \in overlapped
      BY <2>4, <3>2, <3>3 DEF Listed, EditListed, ManualIn
    <3> QED BY <2>1, <3>1, <3>3, <3>4 DEF Settled, Exists
  <2> QED BY <2>3, <2>4
<1>7. ASSUME NEW c \in Cards, Writes(c)
      PROVE  ManualListed(d)'
  <2>1. version' = version
    BY <1>7 DEF Writes
  <2>2. CASE d # c
    BY <1>c, <1>7, <2>1, <2>2 DEF Writes, CardBecomes
  <2>3. CASE d = c
    <3>1. card'[d].stamp = card[d].stamp + 1
      BY <1>7, <2>3 DEF Writes, CardBecomes
    <3>2. Settled(d)'
      <4>1. d \in overlapped' \/ writing[d].seen = version
        BY <1>7, <2>3 DEF Writes, Overlap
      <4>2. /\ card'[d].category = writing[d].category /\ writing[d].kind # "none"
            /\ active' = active
        BY <1>7, <2>3 DEF Writes, CardBecomes
      <4> QED BY <4>1, <4>2 DEF Listed, WriteListed, Settled
    <3> QED BY <1>a, <3>1, <3>2 DEF ManualListed, Exists
  <2> QED BY <2>2, <2>3
<1>8. ASSUME NEW w \in Workers, NEW j \in 1..Len(jobs), Claims(w, j)
      PROVE  ManualListed(d)'
  BY <1>b, <1>8 DEF Claims, CategoriesFrame
<1>9. ASSUME NEW w \in Workers, NEW status \in {"SUCCEEDED", "FAILED", "STALE"}, Ends(w,
             status)
      PROVE  ManualListed(d)'
  BY <1>b, <1>9 DEF Ends, TaskFrame, CategoriesFrame
<1>10. ASSUME NEW w \in Workers, Reads(w)
       PROVE  ManualListed(d)'
  BY <1>b, <1>10 DEF Reads, TaskFrame, CategoriesFrame
<1>11. ASSUME NEW w \in Workers, ReadCards(w)
       PROVE  ManualListed(d)'
  BY <1>b, <1>11 DEF ReadCards, TaskFrame, CategoriesFrame
<1>12. ASSUME NEW w \in Workers, Fails(w)
       PROVE  ManualListed(d)'
  BY <1>b, <1>12 DEF Fails, TaskFrame, CategoriesFrame
<1>13. ASSUME NEW w \in Workers, NEW c \in Cards, Skips(w, c)
       PROVE  ManualListed(d)'
  BY <1>b, <1>13 DEF Skips, TaskFrame, CategoriesFrame
<1>14. ASSUME NEW w \in Workers, NEW c \in Cards, Takes(w, c)
       PROVE  ManualListed(d)'
  BY <1>b, <1>14 DEF Takes, TaskFrame, CategoriesFrame
<1>15. ASSUME NEW w \in Workers, NEW c \in Cards, Rejects(w, c)
       PROVE  ManualListed(d)'
  BY <1>b, <1>15 DEF Rejects, TaskFrame, CategoriesFrame
<1>16. ASSUME NEW w \in Workers, NEW c \in Cards, Classifies(w, c)
       PROVE  ManualListed(d)'
  <2>1. version' = version
    BY <1>16 DEF Classifies, CategoriesFrame
  <2>2. CASE d # c
    BY <1>c, <1>16, <2>1, <2>2 DEF Classifies, CardBecomes
  <2>3. CASE d = c
    <3>1. card'[d].stamp = card[d].stamp + 1
      BY <1>16, <2>3 DEF Classifies, CardBecomes
    <3>2. ~card'[d].manual
      BY <1>16, <2>3 DEF Classifies, CardBecomes, Protected, Held
    <3> QED BY <1>a, <3>1, <3>2 DEF ManualListed, Exists
  <2> QED BY <2>2, <2>3
<1>17. ASSUME NEW w \in Workers, NEW c \in Cards, Records(w, c)
       PROVE  ManualListed(d)'
  BY <1>b, <1>17 DEF Records, TaskFrame, CategoriesFrame
<1>18. ASSUME NEW w \in Workers, NEW c \in Cards, NEW k \in Categories, Updates(w, c, k)
       PROVE  ManualListed(d)'
  BY <1>b, <1>18 DEF Updates, TaskFrame, CategoriesFrame
<1>19. ASSUME Crash
       PROVE  ManualListed(d)'
  BY <1>b, <1>19 DEF Crash
<1>20. ASSUME NEW c \in Cards, ReadVersion(c)
       PROVE  ManualListed(d)'
  BY <1>b, <1>20 DEF ReadVersion
<1> QED BY <1>1, <1>2, <1>3, <1>4, <1>5, <1>6, <1>7, <1>8, <1>9, <1>10, <1>11, <1>12, <1>13,
           <1>14, <1>15, <1>16, <1>17, <1>18, <1>19, <1>20 DEF Stepped, OwnerEffect, CommitEffect,
           TaskEffect

(* A task at the current version has read the listed categories.            *)
LEMMA WorkerListedStays ==
    ASSUME Typed, JobsGrown, Listed, \A j \in 1..Len(jobs) : Since(j), \A d \in Cards :
           Keeps(d), \A w \in Workers : Assigned(w), NEW v \in Workers, Stepped
    PROVE  WorkerListed(v)'
<1>0. /\ Len(jobs) \in Nat /\ Len(jobs) >= 0 /\ DOMAIN jobs = 1..Len(jobs)
      /\ \A j \in 1..Len(jobs) : jobs[j] \in JobRow
      /\ jobs' \in Seq(JobRow) => Len(jobs') \in Nat /\ DOMAIN jobs' = 1..Len(jobs')
  BY JobsTyped, LenProperties
<1>a. /\ WorkerListed(v) /\ worker[v].manual \subseteq {c \in Cards : card'[c].manual}
      /\ worker[v].cards \subseteq Cards
  BY DEF Listed, WorkerListed, Keeps, Typed, WorkerRow
<1>t. worker[v].pc # "idle" /\ worker'[v].job = worker[v].job => Job(v)'.target = Job(v).target
  BY DEF Assigned, Job, JobsGrown
<1>b. ASSUME worker'[v] = worker[v], version' = version, active' = active
      PROVE  WorkerListed(v)'
  BY <1>a, <1>b, <1>t DEF WorkerListed, Keeps
<1>c. ASSUME worker'[v].pc \in {"next", "apply", "update"},
             worker[v].pc \in {"next", "apply", "record"},
             worker'[v].pc = "update" => /\ worker'[v].version = Job(v).target
                                         /\ worker'[v].category \in worker[v].categories,
             worker'[v].job = worker[v].job, worker'[v].manual = worker[v].manual,
             worker'[v].categories = worker[v].categories, version' = version, active' = active
      PROVE  WorkerListed(v)'
  BY <1>a, <1>c, <1>t DEF WorkerListed
<1>d. ASSUME NEW c, worker'[v].pc = "record", worker[v].pc = "update", worker'[v].cards = {c},
             Job(v).target = version => Settled(c)',
             worker'[v].job = worker[v].job, worker'[v].manual = worker[v].manual,
             worker'[v].categories = worker[v].categories, version' = version, active' = active
      PROVE  WorkerListed(v)'
  BY <1>a, <1>d, <1>t DEF WorkerListed
<1>1. ASSUME NEW k \in Categories, NEW kind \in {"add", "delete"}, Opens(kind, k)
      PROVE  WorkerListed(v)'
  BY <1>b, <1>1 DEF Opens
<1>2. ASSUME Retries
      PROVE  WorkerListed(v)'
  BY <1>b, <1>2 DEF Retries
<1>3. ASSUME NEW c \in Cards, NEW k \in Categories, NEW kind \in {"move", "insert"},
             Begins(c, kind, k)
      PROVE  WorkerListed(v)'
  BY <1>b, <1>3 DEF Begins
<1>4. ASSUME NEW c \in Cards, Touches(c)
      PROVE  WorkerListed(v)'
  BY <1>b, <1>4 DEF Touches
<1>5. ASSUME LocksManual
      PROVE  WorkerListed(v)'
  BY <1>b, <1>5 DEF LocksManual
<1>6. ASSUME Edits
      PROVE  WorkerListed(v)'
  <2>1. version' = version + 1 /\ worker' = worker
    BY <1>6 DEF Edits
  <2>2. ASSUME worker[v].pc # "idle"
        PROVE  Job(v)'.target = Job(v).target /\ Job(v).target # version'
    <3>1. worker[v].job \in 1..Len(jobs)
      BY <2>2 DEF Assigned
    <3>2. Job(v)'.target = Job(v).target
      BY <2>1, <3>1 DEF Job, JobsGrown
    <3>3. Job(v).target \in Nat /\ version \in Nat /\ Job(v).target <= version
      BY <1>0, <3>1 DEF Job, JobRow, Typed, Since
    <3> QED BY <2>1, <3>2, <3>3
  <2> QED BY <1>a, <2>1, <2>2 DEF WorkerListed
<1>7. ASSUME NEW c \in Cards, Writes(c)
      PROVE  WorkerListed(v)'
  BY <1>b, <1>7 DEF Writes
<1>8. ASSUME NEW w \in Workers, NEW j \in 1..Len(jobs), Claims(w, j)
      PROVE  WorkerListed(v)'
  <2>1. version' = version /\ active' = active
    BY <1>8 DEF Claims, CategoriesFrame
  <2>2. CASE v # w
    <3>1. worker'[v] = worker[v]
      BY <1>8, <2>2 DEF Claims, Typed
    <3> QED BY <1>b, <2>1, <3>1
  <2>3. CASE v = w
    <3>1. worker'[v].pc \in {"idle", "check"} /\ worker'[v].manual = {}
      BY <1>8, <2>3 DEF Claims, Typed, Idle
    <3> QED BY <3>1 DEF WorkerListed
  <2> QED BY <2>2, <2>3
<1>9. ASSUME NEW w \in Workers, NEW status \in {"SUCCEEDED", "FAILED", "STALE"}, Ends(w,
             status)
      PROVE  WorkerListed(v)'
  <2>1. version' = version /\ active' = active
    BY <1>9 DEF Ends, TaskFrame, CategoriesFrame
  <2>2. CASE v # w
    <3>1. worker'[v] = worker[v]
      BY <1>9, <2>2 DEF Ends, Typed
    <3> QED BY <1>b, <2>1, <3>1
  <2>3. CASE v = w
    <3>1. worker'[v].pc \in {"idle", "check"} /\ worker'[v].manual = {}
      BY <1>9, <2>3 DEF Ends, Typed, Idle
    <3> QED BY <3>1 DEF WorkerListed
  <2> QED BY <2>2, <2>3
<1>10. ASSUME NEW w \in Workers, Reads(w)
       PROVE  WorkerListed(v)'
  <2>1. version' = version /\ active' = active
    BY <1>10 DEF Reads, TaskFrame, CategoriesFrame
  <2>2. CASE v # w
    <3>1. worker'[v] = worker[v]
      BY <1>10, <2>2 DEF Reads, Typed
    <3> QED BY <1>b, <2>1, <3>1
  <2>3. CASE v = w
    <3>1. worker'[v].pc = "read" /\ worker'[v].manual = worker[v].manual
      BY <1>10, <2>3 DEF Reads, Typed, WorkerRow
    <3> QED BY <1>a, <3>1 DEF WorkerListed
  <2> QED BY <2>2, <2>3
<1>11. ASSUME NEW w \in Workers, ReadCards(w)
       PROVE  WorkerListed(v)'
  <2>1. version' = version /\ active' = active
    BY <1>11 DEF ReadCards, TaskFrame, CategoriesFrame
  <2>2. CASE v # w
    <3>1. worker'[v] = worker[v]
      BY <1>11, <2>2 DEF ReadCards, Typed
    <3> QED BY <1>b, <2>1, <3>1
  <2>3. CASE v = w
    <3>1. /\ worker'[v].pc = "next" /\ worker'[v].categories = active
          /\ worker'[v].manual = {c \in Rows(w) : card[c].manual} /\ card' = card /\ active' = active
      BY <1>11, <2>3 DEF ReadCards, TaskFrame, CategoriesFrame, Typed, WorkerRow
    <3> QED BY <3>1 DEF WorkerListed, Rows
  <2> QED BY <2>2, <2>3
<1>12. ASSUME NEW w \in Workers, Fails(w)
       PROVE  WorkerListed(v)'
  <2>1. version' = version /\ active' = active
    BY <1>12 DEF Fails, TaskFrame, CategoriesFrame
  <2>2. CASE v # w
    <3>1. worker'[v] = worker[v]
      BY <1>12, <2>2 DEF Fails, Typed
    <3> QED BY <1>b, <2>1, <3>1
  <2>3. CASE v = w
    <3>1. worker'[v].pc \in {"idle", "check"} /\ worker'[v].manual = {}
      BY <1>12, <2>3 DEF Fails, Typed, Idle
    <3> QED BY <3>1 DEF WorkerListed
  <2> QED BY <2>2, <2>3
<1>13. ASSUME NEW w \in Workers, NEW c \in Cards, Skips(w, c)
       PROVE  WorkerListed(v)'
  <2>1. version' = version /\ active' = active
    BY <1>13 DEF Skips, TaskFrame, CategoriesFrame
  <2>2. CASE v # w
    <3>1. worker'[v] = worker[v]
      BY <1>13, <2>2 DEF Skips, Typed
    <3> QED BY <1>b, <2>1, <3>1
  <2>3. CASE v = w
    <3>1. /\ worker'[v].pc \in {"next", "apply"} /\ worker[v].pc \in {"next", "apply", "record"}
          /\ worker'[v].job = worker[v].job /\ worker'[v].manual = worker[v].manual
          /\ worker'[v].categories = worker[v].categories
      BY <1>13, <2>3 DEF Skips, Typed, WorkerRow
    <3> QED BY <1>c, <2>1, <3>1
  <2> QED BY <2>2, <2>3
<1>14. ASSUME NEW w \in Workers, NEW c \in Cards, Takes(w, c)
       PROVE  WorkerListed(v)'
  <2>1. version' = version /\ active' = active
    BY <1>14 DEF Takes, TaskFrame, CategoriesFrame
  <2>2. CASE v # w
    <3>1. worker'[v] = worker[v]
      BY <1>14, <2>2 DEF Takes, Typed
    <3> QED BY <1>b, <2>1, <3>1
  <2>3. CASE v = w
    <3>1. /\ worker'[v].pc \in {"next", "apply"} /\ worker[v].pc \in {"next", "apply", "record"}
          /\ worker'[v].job = worker[v].job /\ worker'[v].manual = worker[v].manual
          /\ worker'[v].categories = worker[v].categories
      BY <1>14, <2>3 DEF Takes, Typed, WorkerRow
    <3> QED BY <1>c, <2>1, <3>1
  <2> QED BY <2>2, <2>3
<1>15. ASSUME NEW w \in Workers, NEW c \in Cards, Rejects(w, c)
       PROVE  WorkerListed(v)'
  <2>1. version' = version /\ active' = active
    BY <1>15 DEF Rejects, TaskFrame, CategoriesFrame
  <2>2. CASE v # w
    <3>1. worker'[v] = worker[v]
      BY <1>15, <2>2 DEF Rejects, Typed
    <3> QED BY <1>b, <2>1, <3>1
  <2>3. CASE v = w
    <3>1. /\ worker'[v].pc \in {"next", "apply"} /\ worker[v].pc \in {"next", "apply", "record"}
          /\ worker'[v].job = worker[v].job /\ worker'[v].manual = worker[v].manual
          /\ worker'[v].categories = worker[v].categories
      BY <1>15, <2>3 DEF Rejects, Typed, WorkerRow
    <3> QED BY <1>c, <2>1, <3>1
  <2> QED BY <2>2, <2>3
<1>16. ASSUME NEW w \in Workers, NEW c \in Cards, Classifies(w, c)
       PROVE  WorkerListed(v)'
  <2>1. version' = version /\ active' = active
    BY <1>16 DEF Classifies, CategoriesFrame
  <2>2. CASE v # w
    <3>1. worker'[v] = worker[v]
      BY <1>16, <2>2 DEF Classifies, Typed
    <3> QED BY <1>b, <2>1, <3>1
  <2>3. CASE v = w
    <3>1. /\ worker'[v].pc = "record" /\ worker[v].pc = "update"
          /\ worker'[v].job = worker[v].job /\ worker'[v].manual = worker[v].manual
          /\ worker'[v].categories = worker[v].categories /\ worker'[v].cards = worker[v].cards
      BY <1>16, <2>3 DEF Classifies, Typed, WorkerRow
    <3>2. worker[v].cards = {c}
      BY <1>16, <2>3 DEF Classifies, Assigned
    <3>3. /\ worker[v].version = Job(v).target /\ worker[v].category \in worker[v].categories
          /\ Job(v).target = version => worker[v].categories \subseteq active
      BY <3>1 DEF Listed, WorkerListed
    <3>4. Job(v).target = version => Settled(c)'
      <4>1. card'[c].category = worker[v].category /\ active' = active
        BY <1>16, <2>3 DEF Classifies, CardBecomes, CategoriesFrame
      <4> QED BY <3>3, <4>1 DEF Settled
    <3> QED BY <1>d, <2>1, <3>1, <3>2, <3>4
  <2> QED BY <2>2, <2>3
<1>17. ASSUME NEW w \in Workers, NEW c \in Cards, Records(w, c)
       PROVE  WorkerListed(v)'
  <2>1. version' = version /\ active' = active
    BY <1>17 DEF Records, TaskFrame, CategoriesFrame
  <2>2. CASE v # w
    <3>1. worker'[v] = worker[v]
      BY <1>17, <2>2 DEF Records, Typed
    <3> QED BY <1>b, <2>1, <3>1
  <2>3. CASE v = w
    <3>1. /\ worker'[v].pc \in {"next", "apply"} /\ worker[v].pc \in {"next", "apply", "record"}
          /\ worker'[v].job = worker[v].job /\ worker'[v].manual = worker[v].manual
          /\ worker'[v].categories = worker[v].categories
      BY <1>17, <2>3 DEF Records, Typed, WorkerRow
    <3> QED BY <1>c, <2>1, <3>1
  <2> QED BY <2>2, <2>3
<1>18. ASSUME NEW w \in Workers, NEW c \in Cards, NEW k \in Categories, Updates(w, c, k)
       PROVE  WorkerListed(v)'
  <2>1. version' = version /\ active' = active
    BY <1>18 DEF Updates, TaskFrame, CategoriesFrame
  <2>2. CASE v # w
    <3>1. worker'[v] = worker[v]
      BY <1>18, <2>2 DEF Updates, Typed
    <3> QED BY <1>b, <2>1, <3>1
  <2>3. CASE v = w
    <3>1. /\ worker'[v].pc = "update" /\ worker[v].pc = "apply"
          /\ worker'[v].job = worker[v].job /\ worker'[v].manual = worker[v].manual
          /\ worker'[v].categories = worker[v].categories /\ worker'[v].category = k
          /\ worker'[v].version = version
      BY <1>18, <2>3 DEF Updates, Typed, WorkerRow
    <3>2. k \in worker[v].categories /\ version = Job(v).target
      BY <1>18, <2>3 DEF Updates, UnchangedCard
    <3> QED BY <1>c, <2>1, <3>1, <3>2
  <2> QED BY <2>2, <2>3
<1>19. ASSUME Crash
       PROVE  WorkerListed(v)'
  <2>1. worker'[v].pc = "idle" /\ worker'[v].manual = {}
    BY <1>19 DEF Crash, Idle
  <2> QED BY <2>1 DEF WorkerListed
<1>20. ASSUME NEW c \in Cards, ReadVersion(c)
       PROVE  WorkerListed(v)'
  BY <1>b, <1>20 DEF ReadVersion
<1> QED BY <1>1, <1>2, <1>3, <1>4, <1>5, <1>6, <1>7, <1>8, <1>9, <1>10, <1>11, <1>12, <1>13,
           <1>14, <1>15, <1>16, <1>17, <1>18, <1>19, <1>20 DEF Stepped, OwnerEffect, CommitEffect,
           TaskEffect

(* A card that differs from the newest job's snapshot is accounted for.     *)
LEMMA AccountedStays ==
    ASSUME Typed, JobsGrown, Accounted, \A j \in 1..Len(jobs) : Since(j), \A d \in Cards :
           Keeps(d), Stepped
    PROVE  Accounted'
<1>0. /\ Len(jobs) \in Nat /\ Len(jobs) >= 0 /\ DOMAIN jobs = 1..Len(jobs)
      /\ \A j \in 1..Len(jobs) : jobs[j] \in JobRow
      /\ jobs' \in Seq(JobRow) => Len(jobs') \in Nat /\ DOMAIN jobs' = 1..Len(jobs')
  BY JobsTyped, LenProperties
<1>j. /\ jobs # <<>> <=> Len(jobs) # 0
      /\ jobs' \in Seq(JobRow) => (jobs' # <<>> <=> Len(jobs') # 0)
  BY <1>0, EmptySeq DEF Typed
<1>b. ASSUME version' = version, edited \subseteq edited', Len(jobs') = Len(jobs)
      PROVE  Accounted'
  <2>1. SUFFICES ASSUME jobs' # <<>>, jobs'[Len(jobs')].target = version', NEW c \in Cards,
                        card'[c].stamp # jobs'[Len(jobs')].snapshot[c]
                 PROVE  c \in edited' \/ Settled(c)'
    BY DEF Accounted
  <2>2. jobs # <<>> /\ Len(jobs) \in 1..Len(jobs)
    BY <1>0, <1>b, <1>j, <2>1 DEF JobsGrown
  <2>3. /\ jobs'[Len(jobs)].target = jobs[Len(jobs)].target
        /\ jobs'[Len(jobs)].snapshot = jobs[Len(jobs)].snapshot
    BY <2>2 DEF JobsGrown
  <2>4. Keeps(c)
    OBVIOUS
  <2> QED BY <1>b, <2>1, <2>2, <2>3, <2>4 DEF Keeps, Accounted
<1>c. ASSUME JobAdded(version', card')
      PROVE  Accounted'
  BY <1>0, <1>c DEF JobAdded, Accounted
<1>1. ASSUME NEW k \in Categories, NEW kind \in {"add", "delete"}, Opens(kind, k)
      PROVE  Accounted'
  BY <1>b, <1>1 DEF Opens
<1>2. ASSUME Retries
      PROVE  Accounted'
  <2>1. version' = version /\ card' = card /\ JobAdded(version, card)
    BY <1>2 DEF Retries
  <2> QED BY <1>c, <2>1
<1>3. ASSUME NEW c \in Cards, NEW k \in Categories, NEW kind \in {"move", "insert"},
             Begins(c, kind, k)
      PROVE  Accounted'
  BY <1>b, <1>3 DEF Begins
<1>4. ASSUME NEW c \in Cards, Touches(c)
      PROVE  Accounted'
  BY <1>b, <1>4 DEF Touches
<1>5. ASSUME LocksManual
      PROVE  Accounted'
  BY <1>b, <1>5 DEF LocksManual
<1>6. ASSUME Edits
      PROVE  Accounted'
  <2>1. version' = version + 1 /\ version \in Nat
    BY <1>6 DEF Edits, Typed
  <2>2. CASE JobAdded(version + 1, card')
    BY <1>c, <2>1, <2>2
  <2>3. CASE UNCHANGED <<jobs, task, edited>>
    <3>1. ASSUME Len(jobs) # 0
          PROVE  jobs[Len(jobs)].target # version'
      <4>1. Len(jobs) \in 1..Len(jobs)
        BY <1>0, <3>1
      <4>2. jobs[Len(jobs)].target \in Nat /\ jobs[Len(jobs)].target <= version
        BY <1>0, <4>1 DEF JobRow, Since
      <4> QED BY <2>1, <4>2
    <3> QED BY <1>j, <2>3, <3>1 DEF Accounted
  <2> QED BY <1>6, <2>2, <2>3 DEF Edits
<1>7. ASSUME NEW c \in Cards, Writes(c)
      PROVE  Accounted'
  BY <1>b, <1>7 DEF Writes
<1>8. ASSUME NEW w \in Workers, NEW j \in 1..Len(jobs), Claims(w, j)
      PROVE  Accounted'
  BY <1>b, <1>8 DEF Claims, CategoriesFrame, JobBecomes
<1>9. ASSUME NEW w \in Workers, NEW status \in {"SUCCEEDED", "FAILED", "STALE"}, Ends(w,
             status)
      PROVE  Accounted'
  BY <1>b, <1>9 DEF Ends, TaskFrame, CategoriesFrame, JobBecomes
<1>10. ASSUME NEW w \in Workers, Reads(w)
       PROVE  Accounted'
  BY <1>b, <1>10 DEF Reads, TaskFrame, CategoriesFrame
<1>11. ASSUME NEW w \in Workers, ReadCards(w)
       PROVE  Accounted'
  BY <1>b, <1>11 DEF ReadCards, TaskFrame, CategoriesFrame
<1>12. ASSUME NEW w \in Workers, Fails(w)
       PROVE  Accounted'
  BY <1>b, <1>12 DEF Fails, TaskFrame, CategoriesFrame, JobBecomes
<1>13. ASSUME NEW w \in Workers, NEW c \in Cards, Skips(w, c)
       PROVE  Accounted'
  BY <1>b, <1>13 DEF Skips, TaskFrame, CategoriesFrame, JobBecomes
<1>14. ASSUME NEW w \in Workers, NEW c \in Cards, Takes(w, c)
       PROVE  Accounted'
  BY <1>b, <1>14 DEF Takes, TaskFrame, CategoriesFrame
<1>15. ASSUME NEW w \in Workers, NEW c \in Cards, Rejects(w, c)
       PROVE  Accounted'
  BY <1>b, <1>15 DEF Rejects, TaskFrame, CategoriesFrame, JobBecomes
<1>16. ASSUME NEW w \in Workers, NEW c \in Cards, Classifies(w, c)
       PROVE  Accounted'
  BY <1>b, <1>16 DEF Classifies, CategoriesFrame
<1>17. ASSUME NEW w \in Workers, NEW c \in Cards, Records(w, c)
       PROVE  Accounted'
  BY <1>b, <1>17 DEF Records, TaskFrame, CategoriesFrame, JobBecomes
<1>18. ASSUME NEW w \in Workers, NEW c \in Cards, NEW k \in Categories, Updates(w, c, k)
       PROVE  Accounted'
  BY <1>b, <1>18 DEF Updates, TaskFrame, CategoriesFrame
<1>19. ASSUME Crash
       PROVE  Accounted'
  BY <1>b, <1>19 DEF Crash
<1>20. ASSUME NEW c \in Cards, ReadVersion(c)
       PROVE  Accounted'
  BY <1>b, <1>20 DEF ReadVersion
<1> QED BY <1>1, <1>2, <1>3, <1>4, <1>5, <1>6, <1>7, <1>8, <1>9, <1>10, <1>11, <1>12, <1>13,
           <1>14, <1>15, <1>16, <1>17, <1>18, <1>19, <1>20 DEF Stepped, OwnerEffect, CommitEffect,
           TaskEffect

(* What ClassifiedIsListed says of a card.                                  *)
Classified(c) ==
    \/ Settled(c)
    \/ ~card[c].manual /\ \/ NewestResult(c) \in {"none", "PENDING", "FAILED"}
                          \/ NewestResult(c) = "SKIPPED_NEWER_EDIT" /\ c \in edited

(* A card in a deleted category is still waiting, or was changed by the     *)
(* owner.                                                                   *)
LEMMA ClassifiedStays ==
    ASSUME Typed, JobsGrown, Accounted, Listed, \A j \in 1..Len(jobs) : Since(j), \A w \in
           Workers : Assigned(w), NEW d \in Cards, Classified(d), Keeps(d),
           ManualListed(d)', Stepped
    PROVE  Classified(d)'
<1>0. /\ Len(jobs) \in Nat /\ Len(jobs) >= 0 /\ DOMAIN jobs = 1..Len(jobs)
      /\ \A j \in 1..Len(jobs) : jobs[j] \in JobRow
      /\ jobs' \in Seq(JobRow) => Len(jobs') \in Nat /\ DOMAIN jobs' = 1..Len(jobs')
  BY JobsTyped, LenProperties
<1>j. /\ jobs # <<>> <=> Len(jobs) # 0
      /\ jobs' \in Seq(JobRow) => (jobs' # <<>> <=> Len(jobs') # 0)
  BY <1>0, EmptySeq DEF Typed
<1>m. ASSUME NewestResult(d)' \in {"none", "PENDING", "FAILED"}
      PROVE  Classified(d)'
  BY <1>m DEF Classified, ManualListed
<1>b. ASSUME version' = version, edited \subseteq edited',
             Settled(d) \/ NewestResult(d)' \in {NewestResult(d), "FAILED"}
      PROVE  Classified(d)'
  <2>1. CASE Settled(d)
    BY <1>b, <2>1 DEF Keeps, Classified
  <2>2. CASE ~Settled(d)
    BY <1>b, <1>m, <2>2 DEF Keeps, Classified
  <2> QED BY <2>1, <2>2
<1>n. ASSUME version' = version, edited \subseteq edited', Len(jobs') = Len(jobs),
             Len(jobs) # 0 =>
                jobs'[Len(jobs)].result[d] \in {jobs[Len(jobs)].result[d], "FAILED"}
      PROVE  Classified(d)'
  <2>1. Len(jobs) # 0 => jobs'[Len(jobs)].target = jobs[Len(jobs)].target
    BY <1>0 DEF JobsGrown
  <2>2. jobs' # <<>> <=> jobs # <<>>
    BY <1>j, <1>n DEF JobsGrown
  <2>3. NewestResult(d)' \in {NewestResult(d), "FAILED"}
    BY <1>j, <1>n, <2>1, <2>2 DEF NewestResult
  <2> QED BY <1>b, <1>n, <2>3
<1>c. ASSUME JobAdded(version', card')
      PROVE  Classified(d)'
  <2>1. NewestResult(d)' \in {"none", "PENDING"}
    BY <1>0, <1>c DEF JobAdded, NewestResult
  <2> QED BY <1>m, <2>1
<1>1. ASSUME NEW k \in Categories, NEW kind \in {"add", "delete"}, Opens(kind, k)
      PROVE  Classified(d)'
  <2>1. jobs' = jobs /\ version' = version /\ edited \subseteq edited'
    BY <1>1 DEF Opens
  <2> QED BY <1>b, <2>1 DEF NewestResult
<1>2. ASSUME Retries
      PROVE  Classified(d)'
  <2>1. version' = version /\ card' = card /\ JobAdded(version, card)
    BY <1>2 DEF Retries
  <2> QED BY <1>c, <2>1
<1>3. ASSUME NEW c \in Cards, NEW k \in Categories, NEW kind \in {"move", "insert"},
             Begins(c, kind, k)
      PROVE  Classified(d)'
  <2>1. jobs' = jobs /\ version' = version /\ edited \subseteq edited'
    BY <1>3 DEF Begins
  <2> QED BY <1>b, <2>1 DEF NewestResult
<1>4. ASSUME NEW c \in Cards, Touches(c)
      PROVE  Classified(d)'
  <2>1. jobs' = jobs /\ version' = version /\ edited \subseteq edited'
    BY <1>4 DEF Touches
  <2> QED BY <1>b, <2>1 DEF NewestResult
<1>5. ASSUME LocksManual
      PROVE  Classified(d)'
  <2>1. jobs' = jobs /\ version' = version /\ edited \subseteq edited'
    BY <1>5 DEF LocksManual
  <2> QED BY <1>b, <2>1 DEF NewestResult
<1>6. ASSUME Edits
      PROVE  Classified(d)'
  <2>1. version' = version + 1 /\ version \in Nat
    BY <1>6 DEF Edits, Typed
  <2>2. CASE JobAdded(version + 1, card')
    BY <1>c, <2>1, <2>2
  <2>3. CASE UNCHANGED <<jobs, task, edited>>
    <3>1. ASSUME Len(jobs) # 0
          PROVE  jobs[Len(jobs)].target # version'
      <4>1. Len(jobs) \in 1..Len(jobs)
        BY <1>0, <3>1
      <4>2. jobs[Len(jobs)].target \in Nat /\ jobs[Len(jobs)].target <= version
        BY <1>0, <4>1 DEF JobRow, Since
      <4> QED BY <2>1, <4>2
    <3> QED BY <1>j, <1>m, <2>3, <3>1 DEF NewestResult
  <2> QED BY <1>6, <2>2, <2>3 DEF Edits
<1>7. ASSUME NEW c \in Cards, Writes(c)
      PROVE  Classified(d)'
  <2>1. jobs' = jobs /\ version' = version /\ edited \subseteq edited'
    BY <1>7 DEF Writes
  <2> QED BY <1>b, <2>1 DEF NewestResult
<1>8. ASSUME NEW w \in Workers, NEW j \in 1..Len(jobs), Claims(w, j)
      PROVE  Classified(d)'
  <2>1. Len(jobs') = Len(jobs) /\ version' = version /\ edited' = edited
    BY <1>8 DEF Claims, JobBecomes, CategoriesFrame
  <2>2. \A i \in 1..Len(jobs) : jobs'[i].result[d] = jobs[i].result[d]
    BY <1>0, <1>8 DEF Claims, JobBecomes, Job
  <2> QED BY <1>0, <1>n, <2>1, <2>2
<1>9. ASSUME NEW w \in Workers, NEW status \in {"SUCCEEDED", "FAILED", "STALE"}, Ends(w,
             status)
      PROVE  Classified(d)'
  <2>1. Len(jobs') = Len(jobs) /\ version' = version /\ edited' = edited
    BY <1>9 DEF Ends, JobBecomes, TaskFrame, CategoriesFrame
  <2>2. \A i \in 1..Len(jobs) : jobs'[i].result[d] = jobs[i].result[d]
    BY <1>0, <1>9 DEF Ends, JobBecomes, Job
  <2> QED BY <1>0, <1>n, <2>1, <2>2
<1>10. ASSUME NEW w \in Workers, Reads(w)
       PROVE  Classified(d)'
  <2>1. jobs' = jobs /\ version' = version /\ edited \subseteq edited'
    BY <1>10 DEF Reads, TaskFrame, CategoriesFrame
  <2> QED BY <1>b, <2>1 DEF NewestResult
<1>11. ASSUME NEW w \in Workers, ReadCards(w)
       PROVE  Classified(d)'
  <2>1. jobs' = jobs /\ version' = version /\ edited \subseteq edited'
    BY <1>11 DEF ReadCards, TaskFrame, CategoriesFrame
  <2> QED BY <1>b, <2>1 DEF NewestResult
<1>12. ASSUME NEW w \in Workers, Fails(w)
       PROVE  Classified(d)'
  <2>1. Len(jobs') = Len(jobs) /\ version' = version /\ edited' = edited
    BY <1>12 DEF Fails, JobBecomes, TaskFrame, CategoriesFrame
  <2>2. \A i \in 1..Len(jobs) : jobs'[i].result[d] \in {jobs[i].result[d], "FAILED"}
    BY <1>12 DEF Fails, JobBecomes, Job
  <2> QED BY <1>0, <1>n, <2>1, <2>2
<1>13. ASSUME NEW w \in Workers, NEW c \in Cards, Skips(w, c)
       PROVE  Classified(d)'
  <2>1. Len(jobs') = Len(jobs) /\ version' = version /\ edited' = edited
    BY <1>13 DEF Skips, JobBecomes, TaskFrame, CategoriesFrame
  <2>2. worker[w].job \in 1..Len(jobs) /\ Len(jobs) # 0
    BY <1>0, <1>13 DEF Skips, Assigned
  <2>3. CASE d = c /\ worker[w].job = Len(jobs) /\ jobs[Len(jobs)].target = version
    <3>1. Settles(worker[w].job, c, "SKIPPED_MANUAL")
      BY <1>13, <2>2, ResultSettled DEF Skips, Job
    <3>2. card[d].manual
      BY <1>13, <2>3 DEF Skips, Listed, WorkerListed
    <3>3. Settled(d)
      BY <3>2 DEF Listed, ManualListed
    <3> QED BY <1>b, <2>1, <3>3
  <2>4. CASE worker[w].job = Len(jobs) /\ jobs[Len(jobs)].target # version
    <3>1. jobs'[Len(jobs)].target # version'
      BY <2>1, <2>2, <2>4 DEF JobsGrown
    <3> QED BY <1>m, <2>1, <3>1 DEF NewestResult
  <2>5. CASE d # c \/ worker[w].job # Len(jobs)
    <3>1. Settles(worker[w].job, c, "SKIPPED_MANUAL")
      BY <1>13, <2>2, ResultSettled DEF Skips, Job
    <3>2. Len(jobs) \in 1..Len(jobs)
      BY <1>0, <2>2
    <3>3. jobs'[Len(jobs)].result[d] = jobs[Len(jobs)].result[d]
      BY <1>13, <2>5, <3>1, <3>2 DEF Skips, JobBecomes, Settles
    <3> QED BY <1>n, <2>1, <3>3
  <2> QED BY <2>3, <2>4, <2>5
<1>14. ASSUME NEW w \in Workers, NEW c \in Cards, Takes(w, c)
       PROVE  Classified(d)'
  <2>1. jobs' = jobs /\ version' = version /\ edited \subseteq edited'
    BY <1>14 DEF Takes, TaskFrame, CategoriesFrame
  <2> QED BY <1>b, <2>1 DEF NewestResult
<1>15. ASSUME NEW w \in Workers, NEW c \in Cards, Rejects(w, c)
       PROVE  Classified(d)'
  <2>1. Len(jobs') = Len(jobs) /\ version' = version /\ edited' = edited
    BY <1>15 DEF Rejects, JobBecomes, TaskFrame, CategoriesFrame
  <2>2. worker[w].job \in 1..Len(jobs) /\ Len(jobs) # 0
    BY <1>0, <1>15 DEF Rejects, Assigned
  <2>3. CASE d = c /\ worker[w].job = Len(jobs) /\ jobs[Len(jobs)].target = version
    <3>1. Settles(worker[w].job, c, "SKIPPED_NEWER_EDIT")
      BY <1>15, <2>2, ResultSettled DEF Rejects, Job
    <3>2. CASE Settled(d)
      BY <1>b, <2>1, <3>2
    <3>3. CASE ~Settled(d)
      <4>1. ~card[d].manual
        BY <3>3 DEF Listed, ManualListed
      <4>2. card[d].stamp # jobs[Len(jobs)].snapshot[d]
        BY <1>15, <2>3, <4>1 DEF Rejects, UnchangedCard, Job
      <4>3. d \in edited
        BY <1>j, <2>2, <2>3, <3>3, <4>2 DEF Accounted
      <4>4. NewestResult(d)' = "SKIPPED_NEWER_EDIT"
        BY <1>j, <2>1, <2>2, <2>3, <3>1 DEF NewestResult, Settles, JobsGrown
      <4>5. card' = card
        BY <1>15 DEF Rejects, TaskFrame
      <4> QED BY <2>1, <4>1, <4>3, <4>4, <4>5 DEF Classified
    <3> QED BY <3>2, <3>3
  <2>4. CASE worker[w].job = Len(jobs) /\ jobs[Len(jobs)].target # version
    <3>1. jobs'[Len(jobs)].target # version'
      BY <2>1, <2>2, <2>4 DEF JobsGrown
    <3> QED BY <1>m, <2>1, <3>1 DEF NewestResult
  <2>5. CASE d # c \/ worker[w].job # Len(jobs)
    <3>1. Settles(worker[w].job, c, "SKIPPED_NEWER_EDIT")
      BY <1>15, <2>2, ResultSettled DEF Rejects, Job
    <3>2. Len(jobs) \in 1..Len(jobs)
      BY <1>0, <2>2
    <3>3. jobs'[Len(jobs)].result[d] = jobs[Len(jobs)].result[d]
      BY <1>15, <2>5, <3>1, <3>2 DEF Rejects, JobBecomes, Settles
    <3> QED BY <1>n, <2>1, <3>3
  <2> QED BY <2>3, <2>4, <2>5
<1>16. ASSUME NEW w \in Workers, NEW c \in Cards, Classifies(w, c)
       PROVE  Classified(d)'
  <2>1. jobs' = jobs /\ version' = version /\ edited \subseteq edited'
    BY <1>16 DEF Classifies, CategoriesFrame
  <2> QED BY <1>b, <2>1 DEF NewestResult
<1>17. ASSUME NEW w \in Workers, NEW c \in Cards, Records(w, c)
       PROVE  Classified(d)'
  <2>1. Len(jobs') = Len(jobs) /\ version' = version /\ edited' = edited
    BY <1>17 DEF Records, JobBecomes, TaskFrame, CategoriesFrame
  <2>2. worker[w].job \in 1..Len(jobs) /\ Len(jobs) # 0
    BY <1>0, <1>17 DEF Records, Assigned
  <2>3. CASE d = c /\ worker[w].job = Len(jobs) /\ jobs[Len(jobs)].target = version
    <3>1. Settles(worker[w].job, c, "APPLIED")
      BY <1>17, <2>2, ResultSettled DEF Records, Job
    <3>2. Settled(d)
      BY <1>17, <2>3 DEF Records, Listed, WorkerListed, Job
    <3> QED BY <1>b, <2>1, <3>2
  <2>4. CASE worker[w].job = Len(jobs) /\ jobs[Len(jobs)].target # version
    <3>1. jobs'[Len(jobs)].target # version'
      BY <2>1, <2>2, <2>4 DEF JobsGrown
    <3> QED BY <1>m, <2>1, <3>1 DEF NewestResult
  <2>5. CASE d # c \/ worker[w].job # Len(jobs)
    <3>1. Settles(worker[w].job, c, "APPLIED")
      BY <1>17, <2>2, ResultSettled DEF Records, Job
    <3>2. Len(jobs) \in 1..Len(jobs)
      BY <1>0, <2>2
    <3>3. jobs'[Len(jobs)].result[d] = jobs[Len(jobs)].result[d]
      BY <1>17, <2>5, <3>1, <3>2 DEF Records, JobBecomes, Settles
    <3> QED BY <1>n, <2>1, <3>3
  <2> QED BY <2>3, <2>4, <2>5
<1>18. ASSUME NEW w \in Workers, NEW c \in Cards, NEW k \in Categories, Updates(w, c, k)
       PROVE  Classified(d)'
  <2>1. jobs' = jobs /\ version' = version /\ edited \subseteq edited'
    BY <1>18 DEF Updates, TaskFrame, CategoriesFrame
  <2> QED BY <1>b, <2>1 DEF NewestResult
<1>19. ASSUME Crash
       PROVE  Classified(d)'
  <2>1. jobs' = jobs /\ version' = version /\ edited \subseteq edited'
    BY <1>19 DEF Crash
  <2> QED BY <1>b, <2>1 DEF NewestResult
<1>20. ASSUME NEW c \in Cards, ReadVersion(c)
       PROVE  Classified(d)'
  <2>1. jobs' = jobs /\ version' = version /\ edited \subseteq edited'
    BY <1>20 DEF ReadVersion
  <2> QED BY <1>b, <2>1 DEF NewestResult
<1> QED BY <1>1, <1>2, <1>3, <1>4, <1>5, <1>6, <1>7, <1>8, <1>9, <1>10, <1>11, <1>12, <1>13,
           <1>14, <1>15, <1>16, <1>17, <1>18, <1>19, <1>20 DEF Stepped, OwnerEffect, CommitEffect,
           TaskEffect

----------------------------------------------------------------------------
(* The properties of the run, card by card and job by job.                  *)
LEMMA PropertiesByPart ==
    ASSUME Typed
    PROVE  /\ ClassifiedIsListed <=> \A c \in Cards : Classified(c)
           /\ JobsAccounted <=> \A j \in 1..Len(jobs) : Tended(j) /\ Complete(j)
<1>1. ClassifiedIsListed <=> \A c \in Cards : Classified(c)
  BY DEF ClassifiedIsListed, Classified, Settled
<1>2. DOMAIN jobs = 1..Len(jobs)
  BY JobsTyped
<1>3. JobsAccounted <=> \A j \in 1..Len(jobs) : Tended(j) /\ Complete(j)
  BY <1>2 DEF JobsAccounted, Tended, Complete
<1> QED BY <1>1, <1>3

(* Every step keeps the invariant.                                          *)
LEMMA SafeKept ==
    ASSUME ReclassificationAssumption, Safe, Next
    PROVE  Safe' /\ \A c \in Cards : Advances(c)
<1>1. /\ Typed /\ Ordered /\ Protected /\ Listed /\ Accounted
      /\ \A w \in Workers : Assigned(w) /\ Awaited(w) /\ Covers(w) /\ Held(w)
      /\ \A c \in Cards : Dated(c) /\ Guarded(c) /\ WriteListed(c)
      /\ \A j \in 1..Len(jobs) : Since(j)
      /\ EditListed /\ ManualIsKept /\ JobsAccounted /\ ClassifiedIsListed
  BY DEF Safe, Ordered, Protected, Listed
<1>2. /\ \A c \in Cards : Classified(c)
      /\ \A j \in 1..Len(jobs) : Tended(j) /\ Complete(j)
  BY <1>1, PropertiesByPart
<1>3. Stepped
  BY <1>1, StepsTaken
<1>4. Typed' /\ JobsGrown
  BY <1>1, <1>3, RowsStayTyped, JobsGrow
<1>5. \A c \in Cards : Advances(c) /\ Keeps(c)
  BY <1>1, <1>3, CardsAdvance, CardsKept
<1>6. \A w \in Workers : Assigned(w)' /\ Awaited(w)'
  BY <1>1, <1>3, <1>4, AssignedStays, AwaitedStays
<1>7. Ordered'
  <2>1. \A c \in Cards : Dated(c)'
    BY <1>1, <1>3, <1>5, DatedStays
  <2>2. \A j \in 1..Len(jobs') : Since(j)'
    <3>1. version' \in Nat /\ version \in Nat /\ card' \in [Cards -> CardRow]
      BY <1>1, <1>4 DEF Typed
    <3>2. version' >= version
      BY <1>3, <3>1, VersionGrows
    <3> QED BY <1>1, <1>3, <1>4, <1>5, <3>1, <3>2, SinceStays
  <2>3. \A w \in Workers : Covers(w)'
    BY <1>1, <1>3, <1>4, CoversStays
  <2> QED BY <2>1, <2>2, <2>3 DEF Ordered
<1>8. Protected'
  <2>1. \A c \in Cards : Guarded(c)'
    BY <1>1, <1>3, GuardedStays
  <2>2. \A w \in Workers : Held(w)'
    BY <1>1, <1>3, <1>4, HeldStays
  <2> QED BY <2>1, <2>2 DEF Protected
<1>9. \A c \in Cards : ManualListed(c)'
  BY <1>1, <1>3, <1>5, ManualListedStays
<1>10. Listed'
  <2>1. EditListed'
    BY <1>1, <1>3, EditListedStays
  <2>2. \A c \in Cards : WriteListed(c)'
    BY <1>1, <1>3, WriteListedStays
  <2>3. \A w \in Workers : WorkerListed(w)'
    BY <1>1, <1>3, <1>4, <1>5, WorkerListedStays
  <2> QED BY <1>9, <2>1, <2>2, <2>3 DEF Listed
<1>11. Accounted'
  BY <1>1, <1>3, <1>4, <1>5, AccountedStays
<1>12. ManualIsKept'
  BY <1>1, <1>3, ManualStays
<1>13. JobsAccounted' /\ ClassifiedIsListed'
  <2>1. \A j \in 1..Len(jobs') : Tended(j)' /\ Complete(j)'
    BY <1>1, <1>2, <1>3, <1>4, TendedStays, CompleteStays
  <2>2. \A c \in Cards : Classified(c)'
    BY <1>1, <1>2, <1>3, <1>4, <1>5, <1>9, ClassifiedStays
  <2>3. ClassifiedIsListed'
    BY <2>2 DEF ClassifiedIsListed, Classified, Settled
  <2>4. DOMAIN jobs' = 1..Len(jobs')
    BY <1>4, LenProperties DEF Typed
  <2>5. JobsAccounted'
    BY <2>1, <2>4 DEF JobsAccounted, Tended, Complete
  <2> QED BY <2>3, <2>5
<1> QED BY <1>4, <1>5, <1>6, <1>7, <1>8, <1>10, <1>11, <1>12, <1>13 DEF Safe

(* Nothing changes.                                                         *)
LEMMA SafeWhenIdle ==
    ASSUME Safe, UNCHANGED vars
    PROVE  Safe'
<1>1. /\ version' = version /\ active' = active /\ edit' = edit /\ card' = card
      /\ writing' = writing /\ jobs' = jobs /\ task' = task /\ worker' = worker
      /\ writes' = writes /\ chosen' = chosen /\ edited' = edited
      /\ overlapped' = overlapped /\ died' = died
  BY DEF vars
<1>2. /\ Typed' /\ \A w \in Workers : Assigned(w)' /\ Awaited(w)'
  BY <1>1 DEF Safe, Typed, Assigned, Awaited
<1>3. Ordered' /\ Protected'
  BY <1>1 DEF Safe, Ordered, Dated, Since, Covers, Protected, Guarded, Held
<1>4. Listed' /\ Accounted'
  BY <1>1 DEF Safe, Listed, EditListed, WriteListed, ManualListed, WorkerListed, Settled,
     Exists, ManualIn, Job, Accounted
<1>5. ManualIsKept' /\ JobsAccounted' /\ ClassifiedIsListed'
  BY <1>1 DEF Safe, ManualIsKept, JobsAccounted, ClassifiedIsListed, NewestResult
<1> QED BY <1>2, <1>3, <1>4, <1>5 DEF Safe

(* The invariant holds at the beginning.                                    *)
LEMMA SafeInitially ==
    ASSUME ReclassificationAssumption, Init
    PROVE  Safe
<1>1. /\ Other \in Categories /\ Absent \in CardRow /\ NoEdit \in EditRow
      /\ NoWrite \in WriteRow /\ Idle \in WorkerRow
  BY RowsTyped
<1>2. PICK category \in [Existing -> Enabled] : card = [c \in Cards |->
          IF c \in Existing THEN [Absent EXCEPT !.category = category[c], !.version = 1, !.stamp = 1]
                            ELSE Absent]
  BY DEF Init
<1>3. ASSUME NEW c \in Cards
      PROVE  /\ card[c] \in CardRow /\ card[c].category \in Enabled /\ ~card[c].manual
             /\ card[c].version <= 1
  <2>1. Enabled \subseteq Categories /\ Other \in Enabled
    BY DEF ReclassificationAssumption
  <2>2. CASE c \in Existing
    <3>1. card[c] = [Absent EXCEPT !.category = category[c], !.version = 1, !.stamp = 1]
      BY <1>2, <2>2
    <3>2. category[c] \in Enabled
      BY <2>2
    <3>3. /\ card[c].category = category[c] /\ card[c].version = 1
          /\ ~card[c].manual
      BY <3>1 DEF Absent
    <3>4. category[c] \in Categories /\ 1 \in Nat
      BY <2>1, <3>2
    <3>5. [Absent EXCEPT !.category = category[c], !.version = 1, !.stamp = 1] \in CardRow
      BY <1>1, <3>4 DEF CardRow
    <3>6. card[c] \in CardRow
      BY <3>1, <3>5
    <3> QED BY <3>2, <3>3, <3>6
  <2>3. CASE c \notin Existing
    <3>1. card[c] = Absent
      BY <1>2, <2>3
    <3>2. Absent.category = Other /\ Absent.version = 0 /\ ~Absent.manual
      BY DEF Absent
    <3> QED BY <1>1, <2>1, <3>1, <3>2
  <2> QED BY <2>2, <2>3
<1>4. /\ version = 1 /\ active = Enabled /\ edit = NoEdit /\ jobs = <<>> /\ task = {}
      /\ writes = 0 /\ edited = {} /\ overlapped = {} /\ died = {}
      /\ writing = [c \in Cards |-> NoWrite] /\ worker = [w \in Workers |-> Idle]
      /\ chosen = [c \in Cards |-> Other]
  BY DEF Init
<1>5. Len(jobs) = 0 /\ jobs \in Seq(JobRow) /\ DOMAIN jobs = {} /\ 1..Len(jobs) = {}
  BY <1>4
<1>6. Typed
  <2>1. card \in [Cards -> CardRow]
    BY <1>2, <1>3
  <2> QED BY <1>1, <1>4, <1>5, <2>1 DEF Typed, ReclassificationAssumption
<1>7. \A w \in Workers : worker[w].pc = "idle" /\ worker[w].job = 0 /\ worker[w].cards = {}
                         /\ worker[w].manual = {}
  BY <1>4 DEF Idle
<1>8. \A c \in Cards : writing[c].kind = "none"
  BY <1>4 DEF NoWrite
<1>9. edit.kind = "none" /\ edit.locked = {}
  BY <1>4 DEF NoEdit
<1>10. \A w \in Workers : Assigned(w) /\ Awaited(w)
  BY <1>7 DEF Assigned, Awaited
<1>11. Ordered /\ Protected
  BY <1>3, <1>4, <1>5, <1>7, <1>8, <1>9 DEF Ordered, Dated, Covers, Protected, Guarded, Held
<1>12. Listed
  BY <1>3, <1>4, <1>7, <1>8, <1>9 DEF Listed, EditListed, WriteListed, ManualListed,
     WorkerListed, ReclassificationAssumption
<1>13. Accounted /\ ManualIsKept /\ JobsAccounted /\ ClassifiedIsListed
  BY <1>3, <1>4, <1>5 DEF Accounted, ManualIsKept, JobsAccounted, ClassifiedIsListed
<1> QED BY <1>6, <1>10, <1>11, <1>12, <1>13 DEF Safe

----------------------------------------------------------------------------
(* The inductive invariant of categories and reclassification: rows have    *)
(* their types, versions follow the version of the store, a lock keeps a    *)
(* card as its holder saw it, and what is written at the current version    *)
(* was listed (api/app/categories).                                         *)
THEOREM SafeAlways == Spec => []Safe
<1> USE ReclassificationAssumption
<1>1. Init => Safe
  BY SafeInitially
<1>2. Safe /\ [Next]_vars => Safe'
  BY SafeKept, SafeWhenIdle
<1> QED BY <1>1, <1>2, PTL DEF Spec

(* A card the owner moved stays where the owner put it until that category  *)
(* is deleted, whatever jobs and edits run beside the move.                 *)
THEOREM ManualKeptAlways == Spec => []ManualIsKept
<1>1. Safe => ManualIsKept
  BY DEF Safe
<1> QED BY <1>1, SafeAlways, PTL

(* A job that is not finished has a task unless the process died, and a job *)
(* that SUCCEEDED has settled every card it covered.                        *)
THEOREM JobsAccountedAlways == Spec => []JobsAccounted
<1>1. Safe => JobsAccounted
  BY DEF Safe
<1> QED BY <1>1, SafeAlways, PTL

(* No card is left in a category that was deleted, but for the cases that   *)
(* ClassifiedIsListed names.                                                *)
THEOREM ClassifiedAlways == Spec => []ClassifiedIsListed
<1>1. Safe => ClassifiedIsListed
  BY DEF Safe
<1> QED BY <1>1, SafeAlways, PTL

(* The category version of a card never decreases: results of an older      *)
(* version do not replace those of a newer one.                             *)
THEOREM VersionsAlwaysAdvance == Spec => VersionsAdvance
<1> USE ReclassificationAssumption
<1>1. Safe /\ [Next]_vars => [\A c \in Cards : card'[c].version >= card[c].version]_vars
  BY SafeKept DEF Advances
<1> QED BY <1>1, SafeAlways, PTL DEF Spec, VersionsAdvance
=============================================================================
