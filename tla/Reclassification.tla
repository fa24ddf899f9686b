--------------------------- MODULE Reclassification ---------------------------
(***************************************************************************)
(* Categories and the reclassification of cards (api/app/categories), with  *)
(* the owner's moves (cards/router.update_category) and the cards that an   *)
(* extraction adds (ingest/pipeline._persist_fact_cards).                   *)
(*                                                                          *)
(* Adding or deleting a category makes a new version and a job that         *)
(* classifies the cards again with a model.  Category edits are serialised  *)
(* by the lock on the store row; nothing else takes that lock.  A move and  *)
(* a new card see that a category is active, read the version in another    *)
(* statement, and become visible with their commit: three steps here.  The  *)
(* job's update of a card has two, the statement that compares the version  *)
(* (and locks its card) and the commit.  A write of a category reference    *)
(* waits for an edit that holds that category's row.                        *)
(*                                                                          *)
(* stamp counts the values of updated_at, which a trigger changes with      *)
(* every update of a card; 0 is a card that does not exist yet.             *)
(***************************************************************************)
EXTENDS Naturals, Sequences, FiniteSets

CONSTANTS
    Cards,        \* card_id
    Existing,     \* cards of the store at the beginning
    Categories,   \* category_id of rows in task_categories
    Enabled,      \* those active at the beginning
    Other,        \* the system category, never deleted
    Workers,      \* background tasks that run at the same time
    MaxVersion,   \* bound on category edits
    MaxJobs,      \* bound on jobs, those of retries included
    MaxWrites,    \* bound on moves, edits and new cards
    Crashes       \* may the process die?

ASSUME ReclassificationAssumption ==
    /\ Existing \subseteq Cards
    /\ Enabled \subseteq Categories /\ Other \in Enabled
    /\ {MaxVersion, MaxJobs, MaxWrites} \subseteq Nat
    /\ Crashes \in BOOLEAN

VARIABLES
    version,    \* stores.category_version
    active,     \* categories enabled and not deleted
    edit,       \* the open transaction of a category edit
    card,       \* knowledge_cards
    writing,    \* open transactions that move or create a card
    jobs,       \* reclassification_jobs with their results
    task,       \* jobs whose background task has not started
    worker,     \* local state of every running task
    writes,     \* number of moves, edits and new cards so far
    chosen,     \* history: the category the owner last chose for a card
    edited,     \* history: cards changed by the owner since the newest job was made
    overlapped, \* history: cards whose last write of a category overlapped an edit
    died        \* history: jobs whose task died

vars == <<version, active, edit, card, writing, jobs, task, worker, writes, chosen, edited,
          overlapped, died>>

----------------------------------------------------------------------------
Absent == [category |-> Other, version |-> 0, manual |-> FALSE, reason |-> FALSE,
           excluded |-> FALSE, stamp |-> 0]
NoEdit == [kind |-> "none", category |-> Other, seen |-> {}, locked |-> {}]
NoWrite == [kind |-> "none", category |-> Other, seen |-> 0, version |-> 0]
Idle == [pc |-> "idle", job |-> 0, todo |-> {}, manual |-> {}, categories |-> {},
         cards |-> {}, category |-> Other, version |-> 0]

Results == {"none", "PENDING", "APPLIED", "SKIPPED_MANUAL", "SKIPPED_NEWER_EDIT", "FAILED"}

Init ==
    /\ version = 1
    /\ active = Enabled
    /\ edit = NoEdit
    /\ \E category \in [Existing -> Enabled] : card = [c \in Cards |->
          IF c \in Existing THEN [Absent EXCEPT !.category = category[c], !.version = 1, !.stamp = 1]
                            ELSE Absent]
    /\ writing = [c \in Cards |-> NoWrite]
    /\ jobs = <<>> /\ task = {}
    /\ worker = [w \in Workers |-> Idle]
    /\ writes = 0
    /\ chosen = [c \in Cards |-> Other]
    /\ edited = {} /\ overlapped = {} /\ died = {}

----------------------------------------------------------------------------
Exists(c) == card[c].stamp > 0

(* The row of a card is locked by a move, by an edit or by a job's update.  *)
Locked(c) ==
    \/ writing[c].kind = "move"
    \/ c \in edit.locked
    \/ \E w \in Workers : worker[w].pc = "update" /\ c \in worker[w].cards

(* A category row that an edit holds FOR UPDATE cannot be referenced anew.  *)
Referable(k) == edit.kind = "none" \/ edit.category # k

(* repository.create_job: a result for every card that is not excluded.     *)
create_job(target, cards) ==
    LET covered == {c \in Cards : cards[c].stamp > 0 /\ ~cards[c].excluded}
    IN IF covered = {} THEN UNCHANGED <<jobs, task, edited>>
       ELSE /\ jobs' = Append(jobs, [status |-> "QUEUED", target |-> target,
                  result |-> [c \in Cards |-> IF c \in covered THEN "PENDING" ELSE "none"],
                  snapshot |-> [c \in Cards |-> cards[c].stamp]])
            /\ task' = task \cup {Len(jobs) + 1}
            /\ edited' = {}

----------------------------------------------------------------------------
(* Category edits: router.add_category, router.delete_category              *)

add_category(k) ==
    /\ edit = NoEdit /\ version < MaxVersion /\ Len(jobs) < MaxJobs
    /\ k \notin active
    /\ edit' = [kind |-> "add", category |-> k, seen |-> {}, locked |-> {}]
    /\ UNCHANGED <<version, active, card, writing, jobs, task, worker, writes, chosen, edited,
                   overlapped, died>>

(* The owner's cards in a category.                                         *)
ManualIn(k) == {c \in Cards : Exists(c) /\ card[c].manual /\ card[c].category = k}

(* With the category's row locked, move_deleted_manual_cards_to_other       *)
(* starts: it moves no other cards than those it sees committed now.        *)
delete_category(k) ==
    /\ edit = NoEdit /\ version < MaxVersion /\ Len(jobs) < MaxJobs
    /\ k \in active \ {Other}
    /\ edit' = [kind |-> "delete", category |-> k, seen |-> ManualIn(k), locked |-> {}]
    /\ UNCHANGED <<version, active, card, writing, jobs, task, worker, writes, chosen, edited,
                   overlapped, died>>

(* Once it has their locks, it looks at each of them again.                 *)
move_deleted_manual_cards_to_other ==
    /\ edit.kind = "delete"
    /\ \A c \in edit.seen : ~Locked(c)
    /\ edit' = [edit EXCEPT !.kind = "moved", !.seen = {},
                            !.locked = edit.seen \cap ManualIn(edit.category)]
    /\ UNCHANGED <<version, active, card, writing, jobs, task, worker, writes, chosen, edited,
                   overlapped, died>>

(* What the transaction wrote to the cards it moved.                        *)
MovedCards == [c \in Cards |->
    IF c \in edit.locked
    THEN [card[c] EXCEPT !.category = Other, !.version = version + 1, !.reason = TRUE,
                         !.stamp = @ + 1]
    ELSE card[c]]

(* set_store_version, create_job and the commit.                            *)
CommitEdit ==
    /\ edit.kind \in {"add", "moved"}
    /\ active' = IF edit.kind = "add" THEN active \cup {edit.category} ELSE active \ {edit.category}
    /\ version' = version + 1
    /\ card' = MovedCards
    /\ create_job(version + 1, MovedCards)
    /\ edit' = NoEdit
    /\ UNCHANGED <<writing, worker, writes, chosen, overlapped, died>>

(* router.retry_reclassification_job: a new job at the version of today.    *)
(* The store row is locked, so no edit is open when it is made.             *)
retry_reclassification_job(j) ==
    /\ edit = NoEdit /\ Len(jobs) < MaxJobs
    /\ jobs[j].status = "FAILED"
    /\ \E c \in Cards : Exists(c) /\ ~card[c].excluded
    /\ create_job(version, card)
    /\ UNCHANGED <<version, active, edit, card, writing, worker, writes, chosen, overlapped, died>>

----------------------------------------------------------------------------
(* Cards *)

Count == writes < MaxWrites /\ writes' = writes + 1

(* cards/router.update_category: lock the card, see that the category is    *)
(* active.  seen is a history: the version when the categories were read.   *)
update_category(c, k) ==
    /\ Count
    /\ Exists(c) /\ ~Locked(c)
    /\ k \in active
    /\ writing' = [writing EXCEPT ![c] =
          [kind |-> "move", category |-> k, seen |-> version, version |-> 0]]
    /\ UNCHANGED <<version, active, edit, card, jobs, task, worker, chosen, edited, overlapped, died>>

(* The commit of an extraction reads the categories in the same way.        *)
persist_fact_cards(c, k) ==
    /\ Count
    /\ ~Exists(c) /\ writing[c] = NoWrite
    /\ k \in active
    /\ writing' = [writing EXCEPT ![c] =
          [kind |-> "insert", category |-> k, seen |-> version, version |-> 0]]
    /\ UNCHANGED <<version, active, edit, card, jobs, task, worker, chosen, edited, overlapped, died>>

(* The next statement of both reads the version.                            *)
ReadVersion(c) ==
    /\ writing[c].kind # "none" /\ writing[c].version = 0
    /\ writing' = [writing EXCEPT ![c].version = version]
    /\ UNCHANGED <<version, active, edit, card, jobs, task, worker, writes, chosen, edited,
                   overlapped, died>>

(* A write overlaps an edit that committed since the write read the         *)
(* categories, or that has already looked for the cards it has to move.     *)
Overlap(c, seen) == overlapped' =
    IF seen # version \/ edit.kind \in {"delete", "moved"} THEN overlapped \cup {c}
                                                         ELSE overlapped \ {c}

CommitWrite(c) == LET write == writing[c] IN
    /\ write.kind # "none" /\ write.version > 0
    /\ Referable(write.category) \/ (Exists(c) /\ card[c].category = write.category)
    /\ card' = [card EXCEPT ![c] =
          [@ EXCEPT !.category = write.category, !.version = write.version, !.reason = FALSE,
                    !.manual = (write.kind = "move"), !.stamp = card[c].stamp + 1]]
    /\ writing' = [writing EXCEPT ![c] = NoWrite]
    /\ chosen' = IF write.kind = "move" THEN [chosen EXCEPT ![c] = write.category] ELSE chosen
    /\ edited' = edited \cup {c}
    /\ Overlap(c, write.seen)
    /\ UNCHANGED <<version, active, edit, jobs, task, worker, writes, died>>

(* Any other change of a card: its text, its review, exclusion, restoration. *)
ChangeCard(c, excluded) ==
    /\ Count
    /\ Exists(c) /\ ~Locked(c)
    /\ card' = [card EXCEPT ![c] = [@ EXCEPT !.excluded = excluded, !.stamp = card[c].stamp + 1]]
    /\ edited' = edited \cup {c}
    /\ UNCHANGED <<version, active, edit, writing, jobs, task, worker, chosen, overlapped, died>>

----------------------------------------------------------------------------
(* worker.process_reclassification_job *)

Step(w, pc) == worker' = [worker EXCEPT ![w].pc = pc]
Return(w) == worker' = [worker EXCEPT ![w] = Idle]
Job(w) == jobs[worker[w].job]
SetResult(w, c, result) == jobs' = [jobs EXCEPT ![worker[w].job].result[c] = result]
EndJob(w, status) == jobs' = [jobs EXCEPT ![worker[w].job].status = status] /\ Return(w)
CategoriesFrame == UNCHANGED <<version, active, edit, writing, writes, chosen, edited, died>>
TaskFrame == CategoriesFrame /\ UNCHANGED <<card, task, overlapped>>

ClaimJob(w, j) ==
    /\ worker[w].pc = "idle" /\ j \in task /\ jobs[j].status = "QUEUED"
    /\ task' = task \ {j}
    /\ jobs' = [jobs EXCEPT ![j].status = "RUNNING"]
    /\ worker' = [worker EXCEPT ![w] = [Idle EXCEPT !.pc = "check", !.job = j]]
    /\ CategoriesFrame /\ UNCHANGED <<card, overlapped>>

Stale(w) == version # Job(w).target

CheckVersion(w) ==
    /\ worker[w].pc = "check"
    /\ IF Stale(w) THEN EndJob(w, "STALE") ELSE Step(w, "read") /\ UNCHANGED jobs
    /\ TaskFrame

(* Fault: only the cards to classify are read.                              *)
FaultRows(w) == {c \in Cards : Job(w).result[c] = "PENDING" /\ ~card[c].manual}

Rows(w) == {c \in Cards : Job(w).result[c] = "PENDING"}

(* Categories and cards are read, the model is called with no connection    *)
(* held.  What it chooses is chosen when it is used.                        *)
ReadCards(w) ==
    /\ worker[w].pc = "read"
    /\ worker' = [worker EXCEPT ![w] = [@ EXCEPT !.pc = "next", !.todo = Rows(w),
                      !.manual = {c \in Rows(w) : card[c].manual}, !.categories = active]]
    /\ TaskFrame /\ UNCHANGED jobs

(* The version is compared again before every card.                         *)
NextCard(w) ==
    /\ worker[w].pc = "next"
    /\ \E c \in worker[w].todo :
          IF Stale(w) THEN EndJob(w, "STALE")
          ELSE IF c \in worker[w].manual
          THEN /\ SetResult(w, c, "SKIPPED_MANUAL")
               /\ worker' = [worker EXCEPT ![w].todo = @ \ {c}]
          ELSE /\ worker' = [worker EXCEPT ![w] = [@ EXCEPT !.pc = "apply", !.cards = {c},
                                                            !.todo = worker[w].todo \ {c}]]
               /\ UNCHANGED jobs
    /\ TaskFrame

(* Fault: the update finds its row by the key.                              *)
FaultUnchangedCard(w, c) == TRUE

(* Fault: only the assignment is part of the update.                        *)
FaultStillAutomatic(w, c) == ~card[c].manual

(* Fault: the version is not part of the update.                            *)
FaultAnyVersion(w, c) == ~card[c].manual /\ card[c].stamp = Job(w).snapshot[c]

(* The where of the update: automatic, not changed since the job was made,  *)
(* and the version of the job is the current one.                           *)
UnchangedCard(w, c) ==
    /\ ~card[c].manual
    /\ card[c].stamp = Job(w).snapshot[c]
    /\ version = Job(w).target

ApplyCard(w) == \E c \in worker[w].cards :
    /\ worker[w].pc = "apply" /\ ~Locked(c)
    /\ IF UnchangedCard(w, c)
       THEN \E k \in worker[w].categories :
               /\ worker' = [worker EXCEPT ![w] = [@ EXCEPT !.pc = "update", !.category = k,
                                                            !.version = version]]
               /\ UNCHANGED jobs
       ELSE /\ SetResult(w, c, "SKIPPED_NEWER_EDIT")
            /\ worker' = [worker EXCEPT ![w] = [@ EXCEPT !.pc = "next", !.cards = {}]]
    /\ TaskFrame

CommitCard(w) == \E c \in worker[w].cards :
    /\ worker[w].pc = "update"
    /\ Referable(worker[w].category) \/ card[c].category = worker[w].category
    /\ card' = [card EXCEPT ![c] = [@ EXCEPT !.category = worker[w].category,
                     !.version = Job(w).target, !.stamp = card[c].stamp + 1]]
    /\ Overlap(c, worker[w].version)
    /\ worker' = [worker EXCEPT ![w] = [@ EXCEPT !.pc = "record", !.category = Other,
                                                 !.version = 0]]
    /\ CategoriesFrame /\ UNCHANGED <<jobs, task>>

RecordCard(w) == \E c \in worker[w].cards :
    /\ worker[w].pc = "record"
    /\ SetResult(w, c, "APPLIED")
    /\ worker' = [worker EXCEPT ![w] = [@ EXCEPT !.pc = "next", !.cards = {}]]
    /\ TaskFrame

(* _finish_from_results *)
FinishJob(w) ==
    /\ worker[w].pc = "next" /\ worker[w].todo = {}
    /\ EndJob(w, IF \E c \in Cards : Job(w).result[c] = "FAILED" THEN "FAILED" ELSE "SUCCEEDED")
    /\ TaskFrame

(* The model, or a statement, fails: what is pending has failed.            *)
FailJob(w) ==
    /\ worker[w].pc \in {"read", "next", "apply", "update", "record"}
    /\ jobs' = [jobs EXCEPT ![worker[w].job] = [@ EXCEPT !.status = "FAILED",
           !.result = [c \in Cards |-> IF Job(w).result[c] = "PENDING" THEN "FAILED"
                                                                    ELSE Job(w).result[c]]]]
    /\ Return(w)
    /\ TaskFrame

(* The process dies; open transactions roll back.                           *)
Crash ==
    /\ Crashes
    /\ worker' = [w \in Workers |-> Idle]
    /\ task' = {} /\ edit' = NoEdit /\ writing' = [c \in Cards |-> NoWrite]
    /\ died' = died \cup task \cup {worker[w].job : w \in {v \in Workers : worker[v].pc # "idle"}}
    /\ UNCHANGED <<version, active, card, jobs, writes, chosen, edited, overlapped>>

----------------------------------------------------------------------------
OwnerStep ==
    \/ \E k \in Categories : add_category(k) \/ delete_category(k)
    \/ \E j \in DOMAIN jobs : retry_reclassification_job(j)
    \/ \E c \in Cards, k \in Categories : update_category(c, k) \/ persist_fact_cards(c, k)
    \/ \E c \in Cards, excluded \in BOOLEAN : ChangeCard(c, excluded)

Finishing ==
    \/ move_deleted_manual_cards_to_other \/ CommitEdit
    \/ \E c \in Cards : ReadVersion(c) \/ CommitWrite(c)

TaskStep(w) ==
    \/ \E j \in DOMAIN jobs : ClaimJob(w, j)
    \/ CheckVersion(w) \/ ReadCards(w) \/ NextCard(w) \/ ApplyCard(w) \/ CommitCard(w)
    \/ RecordCard(w) \/ FinishJob(w)

Next == OwnerStep \/ Finishing \/ (\E w \in Workers : TaskStep(w) \/ FailJob(w)) \/ Crash

Spec == Init /\ [][Next]_vars

----------------------------------------------------------------------------
(* A card the owner moved stays where the owner put it; only the deletion   *)
(* of that category takes it to the system category, with the reason shown  *)
(* (docs/dev/ASKBUDDY_MVP_CURRENT.md:132, 424).                             *)
ManualIsKept == \A c \in Cards : card[c].manual =>
    card[c].category = chosen[c] \/ (card[c].category = Other /\ card[c].reason)

(* Results of an older version never replace those of a newer one (:422).   *)
VersionsAdvance == [][\A c \in Cards : card'[c].version >= card[c].version]_vars

(* No card is left in a deleted category, but for: a card whose last write  *)
(* overlapped an edit, one that committed between the statement that saw    *)
(* the category active and the commit (cards/router.py:491-510) or had      *)
(* begun its deletion; and an automatic card that the newest job did not    *)
(* cover, has not reached, failed on, or found changed by the owner.        *)
NewestResult(c) ==
    IF jobs = <<>> \/ jobs[Len(jobs)].target # version THEN "none" ELSE jobs[Len(jobs)].result[c]

ClassifiedIsListed == \A c \in Cards : card[c].category \notin active =>
    \/ c \in overlapped
    \/ ~card[c].manual /\ \/ NewestResult(c) \in {"none", "PENDING", "FAILED"}
                          \/ NewestResult(c) = "SKIPPED_NEWER_EDIT" /\ c \in edited

(* A job not finished has a task that will finish it, unless the process    *)
(* died; a job that SUCCEEDED has settled every card it covered.            *)
JobsAccounted == \A j \in DOMAIN jobs :
    /\ jobs[j].status \in {"QUEUED", "RUNNING"} =>
          j \in task \cup died \cup {worker[w].job : w \in Workers}
    /\ jobs[j].status = "SUCCEEDED" =>
          \A c \in Cards : jobs[j].result[c] \notin {"PENDING", "FAILED"}
=============================================================================
