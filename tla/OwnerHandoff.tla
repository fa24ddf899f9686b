---------------------------- MODULE OwnerHandoff ----------------------------
(***************************************************************************)
(* Turning owner answers into store knowledge (api/app/learn/owner_delivery, *)
(* owner_handoff, owner_publication and api/app/cards/owner_answer_worker). *)
(*                                                                          *)
(* Submitting an answer stores a revision of it, its knowledge status and   *)
(* one OWNER_ANSWER_SUBMITTED event in a single transaction.  Any number of *)
(* workers (one in every API process) claim events with a 60 second lease,  *)
(* ingest the answer with no connection held, and conclude: LINKED, REVIEW  *)
(* or PUBLISHED.  finish_owner_event fences every conclusion by the claim   *)
(* token and the latest revision, inside the transaction that makes it.     *)
(* Meanwhile the owner submits newer answers, reviews cards, approves or    *)
(* dismisses proposals and retries failures.                                *)
(*                                                                          *)
(* Data abstraction.  Answer, event and revision share one id, the position *)
(* of the answer in answers; a question's revisions are ordered by it.  The *)
(* cards an answer led to are one value per answer: what decide_outcome and *)
(* publication_evidence can tell apart.  A worker is sequential, so the     *)
(* claim token is the name of the worker that drew it.  Time is the action  *)
(* LeaseExpires.  Publishing is the one transaction that takes cards live:  *)
(* module Publication has the coordinator in full.                          *)
(***************************************************************************)
EXTENDS Naturals, Sequences, FiniteSets

CONSTANTS
    Questions,      \* pending questions of the store
    Workers,        \* worker loops, one per API process
    NoWorker,       \* no claim token, or one nobody holds
    MaxAnswers,     \* bound on submitted answers
    MAX_ATTEMPTS,   \* attempts before an event is given up (10 in the code)
    MaxRetries,     \* bound on the owner's explicit retries
    Ingested,       \* card situations the ingestion of an answer may lead to
    Moves,          \* card moves the owner and other sources may make
    Attached,       \* questions with a file attached when the answer is submitted
    Crashes,        \* may processes die?
    LateAttach,     \* questions the owner may attach a file to while the answer is processed
    Outages         \* may the public index become unusable?

ASSUME HandoffAssumption ==
    /\ MaxAnswers \in Nat /\ MaxRetries \in Nat /\ MAX_ATTEMPTS \in Nat \ {0}
    /\ NoWorker \notin Workers /\ IsFiniteSet(Workers)
    /\ Attached \subseteq Questions
    /\ {Crashes, Outages} \subseteq BOOLEAN /\ LateAttach \subseteq Questions

VARIABLES
    answers,      \* question of every answer: r_owner_answer_revisions, outbox_events
    lease,        \* outbox_leases row of every answer's event
    consumption,  \* outbox_consumptions row of every answer's event
    knowledge,    \* r_owner_knowledge_states.status
    proposal,     \* knowledge_change_proposals.status, "NONE" without a row
    operation,    \* publish operation owner-answer:<id> committed?
    source,       \* status of the answer's OWNER_TEXT source, "none" without a row
    cards,        \* the cards linked to that source
    attachment,   \* owner_answer_attachments of every question and their job
    attaching,    \* open attach_owner_answer_file transaction of every question
    retries,      \* number of R_OWNER_RETRY operations
    index_ready,  \* does _index_ready hold?
    worker,       \* local state of every worker
    overtaken     \* history: answers with a claim that used outdated rows

eventVars == <<answers, lease, consumption, knowledge, retries, overtaken>>
answerVars == <<proposal, operation, source, cards>>
attachVars == <<attachment, attaching>>
vars == <<answers, lease, consumption, knowledge, proposal, operation, source, cards,
          attachment, attaching, retries, index_ready, worker, overtaken>>

----------------------------------------------------------------------------
Answers == 1..MaxAnswers
Latest(a) == \A b \in DOMAIN answers : answers[b] = answers[a] => b <= a

(* none: no card (no facts, facts held back); new: only unpublished,        *)
(* unquestioned cards; blocked: a new card needs review; changed: a public  *)
(* card got a new draft; listed: public and in the current snapshot;        *)
(* excluded: public until the owner excluded it; restored: approved but in  *)
(* no snapshot since its restoration; unserved: approved in a store that    *)
(* has no snapshot.                                                         *)
CardStates == {"none", "new", "blocked", "changed", "listed", "excluded", "restored", "unserved"}

ASSUME IngestedAssumption == Ingested \subseteq CardStates

(* What extraction by other sources and the card screen do to those cards;  *)
(* a run takes the ones in Moves.                                           *)
CardMoves == {<<"new", "listed">>, <<"new", "blocked">>, <<"new", "none">>,
              <<"blocked", "listed">>, <<"blocked", "new">>, <<"blocked", "none">>,
              <<"changed", "listed">>, <<"listed", "changed">>, <<"listed", "excluded">>,
              <<"excluded", "restored">>, <<"restored", "excluded">>, <<"restored", "listed">>,
              <<"unserved", "listed">>}

NoLease == [status |-> "NONE", leased_by |-> NoWorker, held |-> FALSE, attempts |-> 0,
            last_error |-> "none"]
Idle == [pc |-> "idle", answer |-> 0, attempts |-> 0, proposal |-> "NONE", retryable |-> FALSE]

TypeOK ==
    /\ answers \in Seq(Questions) /\ Len(answers) <= MaxAnswers
    /\ lease \in [Answers -> [status : {"NONE", "CLAIMED", "FAILED", "DONE"},
                              leased_by : Workers \cup {NoWorker}, held : BOOLEAN,
                              attempts : Nat, last_error : {"none", "retry", "TERMINAL"}]]
    /\ consumption \in [Answers -> {"none", "STALE", "APPLIED"}]
    /\ knowledge \in [Answers -> {"PENDING", "LINKED", "REVIEW", "PUBLISHED", "FAILED"}]
    /\ proposal \in [Answers -> {"NONE", "ANALYZED", "LINKED", "PENDING_REVIEW", "PUBLISHED",
                                 "DISMISSED"}]
    /\ operation \in [Answers -> BOOLEAN]
    /\ source \in [Answers -> {"none", "PROCESSING", "DONE"}]
    /\ cards \in [Answers -> CardStates]
    /\ attachment \in [Questions -> {"none", "attached", "job"}]
    /\ attaching \in [Questions -> {"none", "processing", "done"}]
    /\ retries \in Nat /\ index_ready \in BOOLEAN /\ overtaken \in SUBSET Answers
    /\ worker \in [Workers -> [pc : {"idle", "selected", "context", "recorded", "ingest",
                                     "extract", "record", "resume", "publish", "prepare",
                                     "commit", "fail", "followup"},
                               answer : 0..MaxAnswers, attempts : Nat,
                               proposal : {"NONE", "ANALYZED", "LINKED", "PENDING_REVIEW",
                                           "PUBLISHED", "DISMISSED"},
                               retryable : BOOLEAN]]

Init ==
    /\ answers = <<>>
    /\ lease = [a \in Answers |-> NoLease]
    /\ consumption = [a \in Answers |-> "none"]
    /\ knowledge = [a \in Answers |-> "PENDING"]
    /\ proposal = [a \in Answers |-> "NONE"]
    /\ operation = [a \in Answers |-> FALSE]
    /\ source = [a \in Answers |-> "none"]
    /\ cards = [a \in Answers |-> "none"]
    /\ attachment = [q \in Questions |-> IF q \in Attached THEN "attached" ELSE "none"]
    /\ attaching = [q \in Questions |-> "none"]
    /\ retries = 0 /\ index_ready = TRUE /\ overtaken = {}
    /\ worker = [w \in Workers |-> Idle]

----------------------------------------------------------------------------
(* The owner *)

(* owner_delivery.submit_owner_answer: the owner answers, or corrects the   *)
(* latest answer of, a question.  A replayed request key and a stale        *)
(* expected_revision change nothing.                                        *)
submit_owner_answer(q) ==
    /\ Len(answers) < MaxAnswers
    /\ answers' = Append(answers, q)
    /\ UNCHANGED <<lease, consumption, knowledge, retries, overtaken, answerVars, attachVars,
                   index_ready, worker>>

(* The card screen, and extraction of other sources.                        *)
CardsChange(a) ==
    /\ \E move \in CardMoves \cap Moves : cards[a] = move[1] /\ cards' = [cards EXCEPT ![a] = move[2]]
    /\ UNCHANGED <<eventVars, proposal, operation, source, attachVars, index_ready, worker>>

(* owner_handoff.finish_owner_review in the publication of                  *)
(* approve_owner_proposal (or in _close_already_published): anything but a  *)
(* proposal in review of the latest answer rolls the publication back.      *)
approve_knowledge_proposal(a) ==
    /\ proposal[a] \in {"ANALYZED", "PENDING_REVIEW"}
    /\ cards[a] \in {"new", "blocked", "changed", "listed"}
    /\ Latest(a) /\ knowledge[a] = "REVIEW"
    /\ proposal' = [proposal EXCEPT ![a] = "PUBLISHED"]
    /\ cards' = [cards EXCEPT ![a] = "listed"]
    /\ knowledge' = [knowledge EXCEPT ![a] = "PUBLISHED"]
    /\ UNCHANGED <<answers, lease, consumption, retries, overtaken, operation, source, attachVars,
                   index_ready, worker>>

dismiss_knowledge_proposal(a) ==
    /\ proposal[a] = "PENDING_REVIEW"
    /\ proposal' = [proposal EXCEPT ![a] = "DISMISSED"]
    /\ UNCHANGED <<eventVars, operation, source, cards, attachVars, index_ready, worker>>

(* Fault: a retry resets the attempts and keeps the error.                  *)
FaultRetriedLease(a) == [lease[a] EXCEPT !.attempts = 0, !.leased_by = NoWorker, !.held = FALSE]

RetriedLease(a) == [NoLease EXCEPT !.status = "FAILED"]

(* owner_handoff.retry_owner_event: only a terminal failure of the latest   *)
(* answer.  The lease stays FAILED, so nobody can finish under it.          *)
retry_owner_event(a) ==
    /\ retries < MaxRetries
    /\ lease[a].status = "FAILED" /\ lease[a].last_error = "TERMINAL" /\ Latest(a)
    /\ retries' = retries + 1
    /\ lease' = [lease EXCEPT ![a] = RetriedLease(a)]
    /\ knowledge' = [knowledge EXCEPT ![a] = "PENDING"]
    /\ UNCHANGED <<answers, consumption, overtaken, answerVars, attachVars, index_ready, worker>>

(* ingest/router.attach_owner_answer_file: one transaction that adds the    *)
(* file, reads the status of the newest answer source of the question and,  *)
(* when that one is done, makes a job for the file itself.                  *)
AnswerSourceDone(q) ==
    \E a \in DOMAIN answers : /\ answers[a] = q /\ source[a] = "DONE"
                              /\ \A b \in DOMAIN answers : answers[b] = q /\ b > a
                                                            => source[b] = "none"

BeginAttach(q) ==
    /\ q \in LateAttach /\ attachment[q] = "none" /\ attaching[q] = "none"
    /\ attaching' = [attaching EXCEPT ![q] = IF AnswerSourceDone(q) THEN "done" ELSE "processing"]
    /\ UNCHANGED <<eventVars, answerVars, attachment, index_ready, worker>>

CommitAttach(q) ==
    /\ attaching[q] # "none"
    /\ attachment' = [attachment EXCEPT ![q] = IF attaching[q] = "done" THEN "job" ELSE "attached"]
    /\ attaching' = [attaching EXCEPT ![q] = "none"]
    /\ UNCHANGED <<eventVars, answerVars, index_ready, worker>>

----------------------------------------------------------------------------
(* owner_handoff.claim_owner_event                                          *)

Busy(w) == worker[w].pc # "idle"
Step(w, pc) == worker' = [worker EXCEPT ![w].pc = pc]
Return(w) == worker' = [worker EXCEPT ![w] = Idle]
Fail(w, retryable) == worker' = [worker EXCEPT ![w].pc = "fail", ![w].retryable = retryable,
                                               ![w].proposal = "NONE"]

Claimable(a) ==
    /\ consumption[a] = "none"
    /\ ~lease[a].held
    /\ lease[a].last_error # "TERMINAL"

(* order by event_id limit 1, passing over what another claim has locked.   *)
Locked(a) == \E w \in Workers : worker[w].pc = "selected" /\ worker[w].answer = a
Selected ==
    {a \in DOMAIN answers : Claimable(a) /\ \A b \in 1..(a - 1) : Claimable(b) => Locked(b)}

(* owner_handoff._terminal                                                  *)
TerminalLease(a) == [lease[a] EXCEPT !.status = "FAILED", !.last_error = "TERMINAL"]

(* Fault: the owner is not told.                                            *)
FaultGiveUp(a) == lease' = [lease EXCEPT ![a] = TerminalLease(a)] /\ UNCHANGED knowledge

GiveUp(a) ==
    /\ lease' = [lease EXCEPT ![a] = TerminalLease(a)]
    /\ knowledge' = [knowledge EXCEPT ![a] = "FAILED"]

TakenLease(w, a) == [status |-> "CLAIMED", leased_by |-> w, held |-> TRUE,
                     attempts |-> lease[a].attempts + 1, last_error |-> "none"]

(* Fault: one attempt too many.                                             *)
FaultExhausted(attempts) == attempts > MAX_ATTEMPTS

Exhausted(attempts) == attempts >= MAX_ATTEMPTS

(* The SELECT of the claim.  It reads lease and consumption in the snapshot *)
(* of the statement; FOR UPDATE OF e SKIP LOCKED then locks the event row,  *)
(* which no claim changes.  Whoever claimed, finished or retried the event  *)
(* between the two is therefore not seen, and nothing is evaluated again.   *)
select_owner_event(w) ==
    /\ ~Busy(w) /\ index_ready
    /\ \E a \in Selected :
          worker' = [worker EXCEPT ![w] = [Idle EXCEPT !.pc = "selected", !.answer = a,
                                                      !.attempts = lease[a].attempts]]
    /\ UNCHANGED <<eventVars, answerVars, attachVars, index_ready>>

(* The row the SELECT returned is not the one of now.                       *)
Outdated(a, attempts) == ~Claimable(a) \/ lease[a].attempts # attempts

(* The rest of the claim transaction, with the attempts the SELECT read:    *)
(* skip a superseded answer, give an exhausted one up, or take the lease,   *)
(* counting from the attempts of now.  A second consumption row violates    *)
(* the key.                                                                 *)
Claim(w, a, attempts) ==
    IF ~Latest(a)
    THEN /\ consumption' = [consumption EXCEPT ![a] = IF @ = "none" THEN "STALE" ELSE @]
         /\ Return(w) /\ UNCHANGED <<lease, knowledge>>
    ELSE IF Exhausted(attempts)
    THEN GiveUp(a) /\ Return(w) /\ UNCHANGED consumption
    ELSE /\ lease' = [lease EXCEPT ![a] = TakenLease(w, a)]
         /\ worker' = [worker EXCEPT ![w] = [Idle EXCEPT !.pc = "context", !.answer = a]]
         /\ UNCHANGED <<consumption, knowledge>>

claim_owner_event(w) == LET a == worker[w].answer IN
    /\ worker[w].pc = "selected"
    /\ Claim(w, a, worker[w].attempts)
    /\ overtaken' = IF Outdated(a, worker[w].attempts) THEN overtaken \cup {a} ELSE overtaken
    /\ UNCHANGED <<answers, retries, answerVars, attachVars, index_ready>>

----------------------------------------------------------------------------
(* owner_handoff.heartbeat_owner_event and finish_owner_event               *)

(* heartbeat: is the claim still this worker's?  A positive answer extends  *)
(* the lease; a negative one is _LeaseLost and ends the work unreported.    *)
HoldsLease(w) == LET l == lease[worker[w].answer] IN
    l.leased_by = w /\ l.status = "CLAIMED" /\ l.held

(* owner_publication.publication_evidence: the current snapshot lists the   *)
(* card; owner_answer_worker._linked_target: its public pointer is set.     *)
publication_evidence(a) == cards[a] \in {"listed", "changed"}
linked_target(a) == cards[a] \in {"listed", "changed", "restored"}

(* Fault: only the lease is checked, not that the answer is still current.  *)
FaultMayFinish(w, status) == LET a == worker[w].answer IN
    /\ HoldsLease(w)
    /\ status \in {"LINKED", "PUBLISHED"} => publication_evidence(a)
    /\ status # "FAILED" => consumption[a] = "none"

(* finish_owner_event does not raise: the lease and the revision hold, a    *)
(* conclusion that claims public knowledge has its publication_evidence,    *)
(* and the consumption row is new.                                          *)
MayFinish(w, status) == LET a == worker[w].answer IN
    /\ HoldsLease(w) /\ Latest(a)
    /\ status \in {"LINKED", "PUBLISHED"} => publication_evidence(a)
    /\ status # "FAILED" => consumption[a] = "none"

(* _error_code of the exception: STALE_KNOWLEDGE without evidence, then     *)
(* IDEMPOTENCY_CONFLICT, or STORAGE_FAILED for the consumption key.         *)
RefusalRetryable(w, status) == LET a == worker[w].answer IN
    \/ status \in {"LINKED", "PUBLISHED"} /\ ~publication_evidence(a)
    \/ HoldsLease(w) /\ Latest(a)

Finish(w, status) == LET a == worker[w].answer IN
    /\ knowledge' = [knowledge EXCEPT ![a] = status]
    /\ lease' = [lease EXCEPT ![a].status = "DONE", ![a].held = FALSE]
    /\ consumption' = [consumption EXCEPT ![a] = "APPLIED"]
    /\ Step(w, "followup")

(* A transaction that writes the proposal and reports, or rolls back.       *)
Conclude(w, status, written) ==
    IF MayFinish(w, status)
    THEN Finish(w, status) /\ proposal' = [proposal EXCEPT ![worker[w].answer] = written]
    ELSE Fail(w, RefusalRetryable(w, status)) /\ UNCHANGED <<lease, consumption, knowledge, proposal>>

WorkerFrame == UNCHANGED <<answers, retries, overtaken, index_ready>>

(* owner_answer_worker._finish_failed: FAILED in a transaction of its own,  *)
(* with another attempt later or for good; a refusal is only logged.        *)
should_retry(w) ==
    worker[w].retryable /\ lease[worker[w].answer].attempts < MAX_ATTEMPTS

finish_failed(w) == LET a == worker[w].answer IN
    /\ worker[w].pc = "fail"
    /\ IF MayFinish(w, "FAILED")
       THEN /\ knowledge' = [knowledge EXCEPT ![a] = "FAILED"]
            /\ lease' = [lease EXCEPT ![a] =
                  IF should_retry(w) THEN [@ EXCEPT !.status = "FAILED", !.last_error = "retry"]
                                     ELSE TerminalLease(a)]
       ELSE UNCHANGED <<knowledge, lease>>
    /\ Return(w)
    /\ UNCHANGED <<consumption, answerVars, attachVars>> /\ WorkerFrame

----------------------------------------------------------------------------
(* owner_answer_worker._apply                                               *)

(* One read; everything up to the report works with this proposal.          *)
load_context(w) == LET p == proposal[worker[w].answer] IN
    /\ worker[w].pc = "context"
    /\ worker' = [worker EXCEPT ![w].proposal = IF p = "ANALYZED" THEN "NONE" ELSE p,
                                ![w].pc = CASE p = "NONE"     -> "ingest"
                                            [] p = "ANALYZED" -> "resume"
                                            [] OTHER          -> "recorded"]
    /\ UNCHANGED <<lease, consumption, knowledge, answerVars, attachVars>> /\ WorkerFrame

(* _finish_recorded: report a proposal an earlier attempt left behind.      *)
FinishRecorded(w, p) == LET a == worker[w].answer IN
    IF p \in {"LINKED", "PUBLISHED"} /\ linked_target(a)
    THEN Conclude(w, p, proposal[a])
    ELSE Conclude(w, "REVIEW", IF p = "LINKED" THEN "PENDING_REVIEW" ELSE proposal[a])

finish_recorded(w) ==
    /\ worker[w].pc = "recorded"
    /\ FinishRecorded(w, worker[w].proposal)
    /\ UNCHANGED <<operation, source, cards, attachVars>> /\ WorkerFrame

(* The first heartbeat and ensure_owner_answer_source.                      *)
ensure_owner_answer_source(w) == LET a == worker[w].answer IN
    /\ worker[w].pc = "ingest"
    /\ IF HoldsLease(w)
       THEN /\ source' = [source EXCEPT ![a] = IF @ = "none" THEN "PROCESSING" ELSE @]
            /\ Step(w, IF source[a] = "DONE" THEN "record" ELSE "extract")
       ELSE Return(w) /\ UNCHANGED source
    /\ UNCHANGED <<lease, consumption, knowledge, proposal, operation, cards, attachVars>>
    /\ WorkerFrame

(* The heartbeat after the model calls of the routing failed.               *)
LoseLease(w) ==
    /\ worker[w].pc = "extract" /\ ~HoldsLease(w)
    /\ Return(w)
    /\ UNCHANGED <<lease, consumption, knowledge, answerVars, attachVars>> /\ WorkerFrame

(* The ingestion and the heartbeat after it.  Nothing stops a worker that   *)
(* lost its lease during the extraction from writing the facts and cards;   *)
(* the ledger makes the second of two ingestions change nothing.            *)
ingest_owner_text(w) == LET a == worker[w].answer IN
    /\ worker[w].pc = "extract"
    /\ \E situation \in IF source[a] = "DONE" THEN {cards[a]} ELSE Ingested :
          cards' = [cards EXCEPT ![a] = situation]
    /\ source' = [source EXCEPT ![a] = "DONE"]
    /\ IF HoldsLease(w) THEN Step(w, "record") ELSE Return(w)
    /\ UNCHANGED <<lease, consumption, knowledge, proposal, operation, attachVars>> /\ WorkerFrame

decide_outcome(situation) ==
    CASE situation = "new" -> "PUBLISH"
      [] situation \in {"listed", "restored", "unserved"} -> "LINKED"
      [] OTHER -> "REVIEW"

(* Fault: the kind of the outcome is stored as the status of the proposal.  *)
FaultWanted(a) == decide_outcome(cards[a])

(* The proposal _record_outcome inserts, unless the answer has one.         *)
Wanted(a) ==
    CASE decide_outcome(cards[a]) = "PUBLISH" -> "ANALYZED"
      [] decide_outcome(cards[a]) = "LINKED" /\ linked_target(a) -> "LINKED"
      [] OTHER -> "PENDING_REVIEW"

(* Fault: the conclusion is recorded first and reported afterwards.         *)
FaultRecordConclusion(w) == LET a == worker[w].answer IN
    /\ worker[w].pc = "record" /\ Wanted(a) # "ANALYZED" /\ proposal[a] \in {"NONE", Wanted(a)}
    /\ proposal' = [proposal EXCEPT ![a] = Wanted(a)]
    /\ worker' = [worker EXCEPT ![w].pc = "recorded", ![w].proposal = Wanted(a)]
    /\ UNCHANGED <<lease, consumption, knowledge, operation, source, cards, attachVars>>
    /\ WorkerFrame

(* _record_outcome with a conclusion: proposal and report in one transaction. *)
RecordConclusion(w) == LET a == worker[w].answer IN
    /\ worker[w].pc = "record" /\ Wanted(a) # "ANALYZED" /\ proposal[a] \in {"NONE", Wanted(a)}
    /\ Conclude(w, IF Wanted(a) = "LINKED" THEN "LINKED" ELSE "REVIEW", Wanted(a))
    /\ UNCHANGED <<operation, source, cards, attachVars>> /\ WorkerFrame

(* _record_outcome with cards to publish: nothing to report yet.            *)
RecordPublish(w) == LET a == worker[w].answer IN
    /\ worker[w].pc = "record" /\ Wanted(a) = "ANALYZED" /\ proposal[a] \in {"NONE", "ANALYZED"}
    /\ proposal' = [proposal EXCEPT ![a] = "ANALYZED"]
    /\ Step(w, "publish")
    /\ UNCHANGED <<lease, consumption, knowledge, operation, source, cards, attachVars>>
    /\ WorkerFrame

(* _record_outcome when another worker inserted a different proposal.       *)
RecordConflict(w) == LET a == worker[w].answer IN
    /\ worker[w].pc = "record" /\ proposal[a] \notin {"NONE", Wanted(a)}
    /\ FinishRecorded(w, proposal[a])
    /\ UNCHANGED <<operation, source, cards, attachVars>> /\ WorkerFrame

(* _resume_analyzed *)
resume_analyzed(w) == LET a == worker[w].answer IN
    /\ worker[w].pc = "resume"
    /\ IF decide_outcome(cards[a]) = "PUBLISH"
       THEN Step(w, "publish") /\ UNCHANGED <<lease, consumption, knowledge, proposal>>
       ELSE Conclude(w, "REVIEW", "PENDING_REVIEW")
    /\ UNCHANGED <<operation, source, cards, attachVars>> /\ WorkerFrame

----------------------------------------------------------------------------
(* owner_answer_worker._publish_new                                         *)

(* The heartbeats before publish_cards and after its index preparation.     *)
heartbeat(w) ==
    /\ worker[w].pc \in {"publish", "prepare"} /\ (worker[w].pc = "prepare"
                                                    => ~operation[worker[w].answer])
    /\ IF HoldsLease(w) THEN Step(w, IF worker[w].pc = "publish" THEN "prepare" ELSE "commit")
                        ELSE Return(w)
    /\ UNCHANGED <<lease, consumption, knowledge, answerVars, attachVars>> /\ WorkerFrame

(* The draft of a card has no provenance.                                   *)
NoProvenance(w) ==
    /\ worker[w].pc = "prepare" /\ ~operation[worker[w].answer]
    /\ Conclude(w, "REVIEW", "PENDING_REVIEW")
    /\ UNCHANGED <<operation, source, cards, attachVars>> /\ WorkerFrame

(* ALREADY_APPLIED: the operation of the answer committed before.           *)
AlreadyApplied(w) == LET a == worker[w].answer IN
    /\ worker[w].pc \in {"prepare", "commit"} /\ operation[a]
    /\ Conclude(w, IF linked_target(a) THEN "PUBLISHED" ELSE "REVIEW", "PUBLISHED")
    /\ UNCHANGED <<operation, source, cards, attachVars>> /\ WorkerFrame

(* Fault: the publication commits whatever the hook reports.                *)
FaultHookHolds(w) == TRUE

(* The hook's finish_owner_event; the evidence is this very publication.    *)
HookHolds(w) == MayFinish(w, "REVIEW")

(* The publication transaction: cards, proposal and report, or nothing.     *)
PublishCommit(w) == LET a == worker[w].answer IN
    /\ worker[w].pc = "commit" /\ ~operation[a]
    /\ IF cards[a] = "new" /\ HookHolds(w)
       THEN /\ Finish(w, "PUBLISHED")
            /\ proposal' = [proposal EXCEPT ![a] = "PUBLISHED"]
            /\ cards' = [cards EXCEPT ![a] = "listed"]
            /\ operation' = [operation EXCEPT ![a] = TRUE]
       ELSE /\ Fail(w, cards[a] # "new" \/ (HoldsLease(w) /\ Latest(a)))
            /\ UNCHANGED <<lease, consumption, knowledge, proposal, cards, operation>>
    /\ UNCHANGED <<source, attachVars>> /\ WorkerFrame

(* Any exception of _apply: a model or storage failure is retryable, an     *)
(* internal error or invalid content is not.                                *)
StepFails(w) ==
    /\ worker[w].pc \notin {"idle", "selected", "fail", "followup"}
    /\ \E retryable \in BOOLEAN : Fail(w, retryable)
    /\ UNCHANGED <<lease, consumption, knowledge, answerVars, attachVars>> /\ WorkerFrame

(* _follow_up_attachments: after the report, a job for what is attached.    *)
follow_up_attachments(w) ==
    /\ worker[w].pc = "followup"
    /\ attachment' = [attachment EXCEPT ![answers[worker[w].answer]] =
                         IF @ = "attached" THEN "job" ELSE @]
    /\ Return(w)
    /\ UNCHANGED <<lease, consumption, knowledge, answerVars, attaching>> /\ WorkerFrame

----------------------------------------------------------------------------
(* The environment *)

(* The process of a worker dies or is replaced by a deployment.  Before its *)
(* claim commits nothing of it is left behind: the SELECT did not happen.   *)
Crash(w) ==
    /\ Crashes /\ worker[w].pc \notin {"idle", "selected"} /\ Return(w)
    /\ UNCHANGED <<eventVars, answerVars, attachVars, index_ready>>

(* leased_until passes: the end of a claim or of a retry delay.             *)
LeaseExpires(a) ==
    /\ lease[a].held
    /\ lease' = [lease EXCEPT ![a].held = FALSE]
    /\ UNCHANGED <<answers, consumption, knowledge, retries, overtaken, answerVars, attachVars,
                   index_ready, worker>>

(* The index of the store becomes MISSING or OUTDATED, and is bootstrapped. *)
IndexChanges ==
    /\ Outages /\ index_ready' = ~index_ready
    /\ UNCHANGED <<eventVars, answerVars, attachVars, worker>>

----------------------------------------------------------------------------
Work(w) ==
    \/ select_owner_event(w) \/ claim_owner_event(w)
    \/ load_context(w) \/ finish_recorded(w) \/ ensure_owner_answer_source(w) \/ LoseLease(w)
    \/ ingest_owner_text(w) \/ RecordConclusion(w) \/ RecordPublish(w) \/ RecordConflict(w)
    \/ resume_analyzed(w) \/ heartbeat(w) \/ NoProvenance(w) \/ AlreadyApplied(w)
    \/ PublishCommit(w) \/ StepFails(w) \/ finish_failed(w) \/ follow_up_attachments(w)

Next ==
    \/ \E q \in Questions : submit_owner_answer(q) \/ BeginAttach(q) \/ CommitAttach(q)
    \/ \E a \in DOMAIN answers :
          \/ CardsChange(a) \/ approve_knowledge_proposal(a) \/ dismiss_knowledge_proposal(a)
          \/ retry_owner_event(a) \/ LeaseExpires(a)
    \/ \E w \in Workers : Work(w) \/ Crash(w)
    \/ IndexChanges

Spec == Init /\ [][Next]_vars

(* Every API process keeps its worker loop running, an open request of the  *)
(* owner ends, and time passes.  Nothing makes the owner, the model or the  *)
(* operator of the index do anything, and crashes are not prevented.        *)
Fairness ==
    /\ \A w \in Workers : WF_vars(Work(w))
    /\ \A q \in Questions : WF_vars(CommitAttach(q))
    /\ \A a \in Answers : WF_vars(a \in DOMAIN answers /\ LeaseExpires(a))

FairSpec == Spec /\ Fairness

----------------------------------------------------------------------------
(* Properties *)

(* A conclusion and its report are one transaction, whoever wrote it: when  *)
(* the proposal of an answer is decided, the answer's event is closed and   *)
(* the status the owner sees agrees with the proposal.  So a crash, a lost  *)
(* lease or a race of two workers never publishes or links an answer whose  *)
(* event is processed again.  Where a claim used outdated rows, the status  *)
(* may be the failure that claim reported, or the owner's retry of it: the  *)
(* proposal and the closed event stand all the same.                        *)
Agrees == [LINKED |-> {"LINKED"}, PUBLISHED |-> {"PUBLISHED"},
           PENDING_REVIEW |-> {"REVIEW"}, DISMISSED |-> {"REVIEW"}]

ConclusionsReported ==
    \A a \in Answers : proposal[a] \in DOMAIN Agrees =>
        /\ consumption[a] = "APPLIED"
        /\ \/ knowledge[a] \in Agrees[proposal[a]]
           \/ a \in overtaken /\ knowledge[a] \in {"FAILED", "PENDING"}

(* Processing never stops silently.  An event the workers have given up has *)
(* the status FAILED, which lets the owner retry it; and a status that says *)
(* the answer failed or waits means that its event is still open, unless a  *)
(* claim used outdated rows of it.                                          *)
FailureVisible ==
    \A a \in DOMAIN answers :
        /\ lease[a].last_error = "TERMINAL" => knowledge[a] = "FAILED"
        /\ knowledge[a] \in {"FAILED", "PENDING"} /\ a \notin overtaken
              => consumption[a] # "APPLIED"

(* An event is attempted at most MAX_ATTEMPTS times before the owner is     *)
(* asked; each claim that read an outdated count may add one, and that many *)
(* of them as there are other workers can be under way when it is reached.  *)
AttemptsBounded ==
    \A a \in Answers :
        /\ lease[a].attempts <= MAX_ATTEMPTS + Cardinality(Workers) - 1
        /\ a \notin overtaken => lease[a].attempts <= MAX_ATTEMPTS

(* What scripts/verify_r_owner_delivery.py says of two claims at once, that *)
(* one of them gets the event: a claim that has not expired is never taken  *)
(* over.                                                                    *)
ClaimExclusive ==
    [][\A a \in Answers : lease[a].status = "CLAIMED" /\ lease[a].held
          => lease'[a].leased_by = lease[a].leased_by]_vars

(* An event is closed once: nobody who still holds, or wrongly got, its     *)
(* claim publishes for it or rewrites its proposal; only the owner decides  *)
(* about what is in review.  What a late worker may still leave is an open  *)
(* proposal of a superseded answer: _record_outcome inserts ANALYZED        *)
(* without looking at the lease.                                            *)
ClosedForGood ==
    [][\A a \in Answers : consumption[a] # "none" =>
          /\ consumption'[a] = consumption[a] /\ operation'[a] = operation[a]
          /\ \/ proposal'[a] = proposal[a]
             \/ /\ proposal[a] \in {"ANALYZED", "PENDING_REVIEW"}
                /\ proposal'[a] \in {"PUBLISHED", "DISMISSED"}
             \/ consumption[a] = "STALE" /\ proposal'[a] = "ANALYZED"]_vars

(* The protocol implements the abstract hand-over: one report per answer,   *)
(* for the latest answer only, and nothing after it but the approval; only  *)
(* where a claim used outdated rows, a failure and its retry.               *)
Handover == INSTANCE OwnerKnowledge WITH Ids <- Answers, report <- consumption,
                                         contested <- overtaken

ImplementsHandover == Handover!Spec

(* Every submitted answer, and every retried one, is concluded, skipped as  *)
(* superseded, or given up so that the owner sees it and can retry, as long *)
(* as the index of the store stays usable in the end; whatever workers      *)
(* crash, hang past their lease, fail or work with outdated rows.           *)
Settled(a) == consumption[a] # "none" \/ (lease[a].last_error = "TERMINAL" /\ knowledge[a] = "FAILED")

HandoffSettles ==
    <>[]index_ready => \A a \in Answers : a \in DOMAIN answers ~> Settled(a)

(* What W_PHASE_B_INTAKE_ROUTER_DESIGN says of a process that dies right    *)
(* after the report: the job of the attachment is created later.            *)
AttachmentsProcessed ==
    \A q \in Questions :
        (\E a \in DOMAIN answers : answers[a] = q /\ consumption[a] = "APPLIED"
                                   /\ attachment[q] = "attached") ~> attachment[q] = "job"
=============================================================================
