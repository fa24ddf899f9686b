# AskBuddy: formal models of the knowledge life cycle

AskBuddy lets the owner of a store upload material, review the knowledge cards extracted from it,
publish them, and answer the questions the staff could not get answered. This directory holds TLA+
models of the backend (`src/api/app`), the TLC configurations that check them, and proofs that
TLAPS checks. Paths below are relative to `src/api/app` unless they start with `src/`.

1. [The system](#1-the-system)  2. [Plan](#2-plan)  3. [Publication](#3-publication)
4. [Owner hand-over](#4-owner-hand-over)  5. [Ingest jobs](#5-ingest-jobs)
6. [Reclassification](#6-reclassification)  7. [Chat](#7-chat)
8. [Accounts and members](#8-accounts-and-members)  9. [Runs](#9-runs)
10. [Proofs](#10-proofs)  11. [Where code and documents disagree](#11-where-code-and-documents-disagree)
12. [What is not modelled](#12-what-is-not-modelled)

## 1. The system

The backend is a FastAPI service (several processes during a deployment) over one PostgreSQL
database at READ COMMITTED. Nearly every handler releases its connection before it calls a model and
checks its assumptions again in a later, short transaction. That is where the interesting behaviour
is: almost nothing is protected by one transaction from beginning to end.

| Component | State it keeps | Operations | Talks to |
|---|---|---|---|
| Card review (`cards/router.py`) | status, draft and public version of every card, review events | approve, exclude, restore, edit | publication coordinator |
| Publication coordinator (`publish/approval.py`, `publish/service.py`) | operations by idempotency key, publication row, snapshots, outbox | `publish_cards`: retry check, read, prepare, commit | index preparation, hooks of its callers |
| Index preparation (`reg/index_preparation.py`, `reg/index_retention.py`) | preparations with claim, lease and TTL, index documents, active index | prepare, activate, purge | embedding model |
| Knowledge proposals (`learn/knowledge_apply.py`, `learn/router.py`) | proposal status | approve, close, dismiss | coordinator, hand-over |
| Hand-over of owner answers (`learn/owner_delivery.py`, `learn/owner_handoff.py`) | answer revisions, events, leases, consumptions, knowledge status | submit, claim, heartbeat, finish, review completion, retry | worker |
| Owner-answer worker (`cards/owner_answer_worker.py`) | local to a loop in every process | ingest the answer, decide, link / review / publish, follow up attachments | hand-over, pipeline, coordinator |
| Ingest jobs (`ingest/router.py`, `ingest/job_repository.py`, `ingest/job_worker.py`) | jobs, a row per source, recovery state, source status | create, retry, extract anyway, delete, attach | pipeline, notifications |
| Ingest pipeline (`ingest/pipeline.py` and assembly modules) | segments, facts, occurrences, cards | extract, assemble, commit | models, storage |
| Chat (`learn/v2_router.py`, `learn/answer_storage.py`) | sessions, messages, receipts, pending questions | ask, clarify, escalate, store | retrieval, planner, models |
| Request limits (`learn/request_limits.py`) | request leases | admit, release | chat |
| Categories (`categories/`) | categories, version, reclassification jobs | edit, reclassify | model |
| Accounts (`auth/`) | role, refresh tokens, cookies and access tokens | sign up, sign in, choose a role, refresh, log out, Kakao | membership |
| Membership (`members/`) | invite links, join requests, members | link, rotate, request, approve, reject, remove | accounts |
| Operators, notifications, checklist, usage, evaluation, web | small independent records | | |

What is hard, and what makes each part correct (`PROJECT.json` lists the hazards at their lines):

* **Publication.** Between the first read and the commit lie an embedding call of up to 30 seconds
  and any number of other publications, edits, exclusions and restorations. No approval may be
  lost, nothing the review does not allow may go public, a retried request takes effect once, and a
  question always finds exactly one index that matches the current snapshot.
* **Index preparation.** Claims expire under their holders, preparations expire under their
  callers, the embedding model changes with a deployment, and old documents are purged meanwhile.
* **Proposals.** Approval, dismissal and approval of the same card from the card screen race; a
  proposal is resolved once and never against a decision already made.
* **Hand-over.** Workers of several processes share one queue by 60 second leases. They crash, hang
  past the lease, and meet newer answers; and what a claim knows may be out of date. A conclusion
  and its report are one; each answer is reported once, the latest one only; what is given up is
  visible to the owner; every answer is settled.
* **Ingest jobs.** A background task in the memory of one process; retries, deletion and creation of
  jobs race with it and with each other. Cards are committed once per row, the job's status agrees
  with its rows, a deletion that nothing crossed is final, and an undisturbed job leaves nothing waiting.
* **Chat.** An answer is generated on one edition and stored on another; the same request arrives
  twice; two devices continue one dialogue or answer one offer; two people ask the same unanswered
  question.
* **Accounts and members.** Requests of the person, of other tabs and of two owners that touch one
  account: one store per member, no session that outlives its end, and old tokens, old screens and
  row locks that wait for each other.
* **Categories.** Results of a slow call applied to data that changed, and writes that read the
  categories and their version in two statements.

## 2. Plan

In the order of importance; items 1 to 7 are done.

1. `PublicKnowledge` (abstract register) and `Publication` (coordinator, index, review, proposals).
2. `OwnerKnowledge` (abstract hand-over) and `OwnerHandoff` (leases, worker, owner).
3. `IngestJob`: jobs, rows, tasks, recovery state and source deletion.
4. `Reclassification`: category versions and card edits against a slow classification.
5. `Chat`: requests over a moving publication, with the register of `PublicKnowledge` as their
   environment.
6. `Sessions` and `Membership`: refresh tokens, sign-in, invite links, join requests, members.
7. Proofs of every safety property of the passing runs, and of both refinements.
8. The lock order of the transactions of 1 and 2 as a module of its own.

Modules are written to be proved about: bounds are constants that only guards mention, every
operation is one action, invariants are conjunctions of named parts, and there is no RECURSIVE
operator in any of them. Each module has operators named `Fault...`: a plausible bug of the
definition that follows it, which makes one of its properties fail. No specification uses them.

## 3. Publication

| Module | Contents |
|---|---|
| `PublicKnowledge` | the abstract register: drafts are reviewed, an edition goes public atomically |
| `Publication` | `publish_cards`, index preparation, review actions, proposal approval |
| `MCPublication` | instances for TLC |
| `PublicationProofs`, `PublicationSafety` | type correctness; the safety theorems |

*State.* `status`, `draft` and `published` are the columns of `knowledge_cards`; `publication`,
`snapshots`, `operations`, `outbox`, `preparations`, `index_publications` and `proposal` are the
tables of those names. `call[p]` holds the local variables of a request inside `publish_cards`, and
its `pc` is the next statement. `restored` is a history variable.

*Actions.* One per statement that sees its own snapshot of the database: `approve_card`,
`exclude_card`, `restore_card`, `approve_owner_proposal`, `bootstrap_store_index` and
`ensure_initial_publication` begin a call (exclusion and restoration commit their own change
first); `read_operation`, `read_publication`, `read_cards` and `read_manifest` are steps 0 and 1;
`ReusePreparation`, `ReclaimPreparation`, `InsertPreparation` and `PreparationRefused` are the first
transaction of `prepare_index`, `FinishEmbedding` and `FailEmbedding` the second; `Commit` and
`RejectCommit` are the publish transaction, which locks the publication row, all cards of its
manifest and the preparation before it decides. `Crash` ends a call anywhere. Leases, TTLs and the
time window of the preparation key pass, documents are purged, and a deployment changes the model.

*Abstractions.* The content of a version never changes, so the content built from a manifest is the
manifest, and whether a version can be published is a constant (`Unpublishable`). PENDING and
NEEDS_REVIEW are one value. Vectors are one flag.

*Properties.* `ApprovedIsServed` (no approval is lost), `CurrentIndexServes`, `SearchFindsSnapshot`,
`PublishesReviewedOnly`, `OperationsAppliedOnce`, `KeysIdentifyRequests`, `ActivatesCurrentModel`,
`ProposalResolvedOnce`, and `ImplementsRegister`: the coordinator implements `PublicKnowledge`.

## 4. Owner hand-over

| Module | Contents |
|---|---|
| `OwnerKnowledge` | abstract hand-over: one report per answer, for the latest answer only |
| `OwnerHandoff` | submission, leases, the worker, the owner's review and retries, attachments |
| `MCOwnerHandoff` | instances for TLC |
| `OwnerHandoffSafety` | type correctness; what a step of a worker does to the rows of an answer; `ClosedForGood` |
| `OwnerHandoffFencing` | the invariant of the claim protocol, its properties, the refinement |

*State.* `lease` and `consumption` are the rows of `outbox_leases` and `outbox_consumptions`,
`knowledge` is `r_owner_knowledge_states.status`, `proposal` the status of the answer's proposal,
`operation` whether the publication `owner-answer:<id>` committed, `source` the answer's own source,
`attachment` and `attaching` the file attached to a question and an open request that attaches one.
`worker[w]` is the loop of one process; its `pc` is the next transaction. An answer, its revision and
its event share one number. A worker is sequential, so its name stands for the claim token it drew.

*Cards.* What an answer's cards are to this protocol is one value per answer: what `decide_outcome`,
`_linked_target` and `publication_evidence` tell apart. Extraction chooses it (`Ingested`), the owner
and other sources move it (`Moves`). `Publication` models the publication itself in full, here it is
the one transaction `PublishCommit`; `restored` and `unserved` are the two states, shown by
`Publication`, in which a card is approved without being in the snapshot.

*Actions.* One per transaction: `submit_owner_answer`, `claim_owner_event`, `load_context`,
`ensure_owner_answer_source`, `ingest_owner_text`, `RecordConclusion` / `RecordPublish` /
`RecordConflict` (the three exits of `_record_outcome`), `resume_analyzed`, `heartbeat`,
`PublishCommit`, `AlreadyApplied`, `NoProvenance`, `finish_recorded`, `finish_failed`,
`follow_up_attachments`; the owner's `approve_knowledge_proposal`, `dismiss_knowledge_proposal`,
`retry_owner_event`, `BeginAttach` and `CommitAttach`. `StepFails` is any exception of `_apply`, `Crash` the
death of a process, `LeaseExpires` time, `IndexChanges` an index that becomes unusable.

`LateAttach` is the set of questions to which a file may still be attached.

*The claim* is two actions, because PostgreSQL evaluates it in two: `select_owner_event` is the snapshot of
the `SELECT`, with the lease and consumption columns it joins, and `claim_owner_event` is what happens once
`for update of e skip locked` has the event row. That row is the only one locked and no claim ever
changes it, so the database finds nothing to evaluate again: whoever claimed, finished or retried
the event between the two actions is not seen (`Outdated`). `Locked` is what SKIP LOCKED passes over.
The history `overtaken` holds the answers with a claim that worked with outdated rows. What such a
claim does:

* It takes a live lease over. The worker that had it is refused at its next heartbeat or report.
* It may take an event that is consumed already. The consumption key then refuses its conclusion, and
  it reports FAILED, or gives the event up, over the conclusion the owner was shown. The owner may
  retry; the status goes back to PENDING, and no worker picks the event up, since it is consumed.
* It may add an attempt beyond MAX_ATTEMPTS, as many as there are other workers: each of their claims
  may have read the count before it was reached.

*Properties.* `ConclusionsReported`: a proposal is decided only together with the event, and the status
agrees, unless the answer was `overtaken`. `FailureVisible`: what is given up is shown as FAILED, and
FAILED or PENDING means an open event, unless `overtaken`. `AttemptsBounded`, `ClosedForGood` (nobody
publishes for a closed event or rewrites its proposal, outdated or not), `HandoffSettles`, and
`ImplementsHandover`: the protocol implements `OwnerKnowledge`, where an answer two workers contested may
be shown as failed although its conclusion stands. `ClaimExclusive` is what the code does not keep.

## 5. Ingest jobs

| Module | Contents |
|---|---|
| `IngestJob` | creating, retrying, forcing and deleting; the task of a job; `process_source` |
| `MCIngestJob` | the instance for TLC |
| `IngestJobProofs` | type correctness and the other four properties |

*State.* `source`, `job` and `row` are `sources`, `ingest_jobs` and `ingest_job_sources`, of which a
row keeps its recovery state. `creating`, `retrying`, `deleting` and `forcing` are requests between
their check and their commit; the rows in `retrying` and the sources in `deleting` are locked. `task` and `direct` are background tasks that have not started, `worker[w]` one that runs; its `pc` is
the next transaction. `committed` and `disturbed` are history: how often a whole extraction of a row
became cards since the row was cleared, and the jobs whose work was overlapped by a retry or by
another extraction of the source, met a failing statement, or died with the process. `crossed` is
history as well: the sources of a job whose creation or retry was open across their deletion.

*Actions.* `BeginCreate` and `CommitCreate` are the unlocked check and the commit of
`create_ingest_job`, `ReplayCreate` its repeated key. `BeginRetry` is the statement of `retry_ingest_job`
that locks and resets rows, with its unlocked look at the sources, and `CommitRetry` its commit
(`AbortRetry`: the transaction is rolled back). `BeginDelete` locks the source in `delete_ingest_source`
and looks at the rows in progress, `CommitDelete` makes DELETED visible. Then there are
`extract_source_anyway`, and `BeginProcess` / `CommitProcess` for `POST /ingest/process`. Who updates
a row waits for a retry that has it, who updates a source, or inserts a row that refers to it, for a
deletion that has it (`RowFree`, `SourceFree`). A task runs
`ClaimJob`, `SelectRows`, then per row `BeginRow`, `process_source`, `RecordRow` and `Refresh`, and
`FinishJob`. `process_source` is `LoadRecovery`, `StartSource`, `ShowClassifying`, `Intake`,
`CheckLayout`, `SaveExtraction`, `Commit`; an exception leads through `RaiseInSource` to `MarkFailed`,
a `RecoveryConflict` fails the job. `TaskFails` is a statement that fails between two rows, `Crash`
the death of the process.

*Abstractions.* A source has cards or not, an extraction lost segments or not; the recovery state is
its phase, whether segments were lost, and which extraction's facts it holds. The intake decisions
a task makes for its sources together are made source by source, in `Intake`.

*Properties.* `CommittedOnce`: whatever is repeated, the facts of one extraction become cards once.
`NothingLeftBehind`, `SucceededIsComplete` and `DeletedIsNotRead` are about jobs that nothing
disturbed, and the last one exempts the sources in `crossed`. What happens to the others was found while these were stated:

* A retry does not ask whether a task is still in the job. The rows it queues are not among those the
  task selected, and the task's last `_refresh_job` overwrites QUEUED with a final status, so the
  new task finds nothing to claim: the rows stay QUEUED in a finished job.
* Of two tasks in one row the loser of the compare-and-set fails its whole job.
* Two extractions of one source write one `sources.status`; a row can be reported SUCCEEDED although
  its own extraction failed.
* A source deleted between the check and the commit of a creation is extracted.
* So is one deleted during a retry. The retry updates `ingest_job_sources` and looks at the sources
  without a lock (`ingest/job_repository.py:202`); the deletion locks the `sources` row and looks at the
  committed rows in progress (`ingest/router.py:424`). Neither sees the other before it commits, no
  row is locked by both, and both commit.
* A task that dies leaves its job and rows EXTRACTING for good
  (`src/docs/dev/ASKBUDDY_MVP_CURRENT.md:912` says that no persistent worker exists yet).

## 6. Reclassification

| Module | Contents |
|---|---|
| `Reclassification` | category edits, jobs and tasks, moves and new cards |
| `MCReclassification` | the instance for TLC |
| `ReclassificationProofs` | the inductive invariant; the four properties |

*State.* `version` is `stores.category_version`, `active` the categories, `edit` the open
transaction of an edit, `card` the columns of `knowledge_cards` that matter here, `writing` the open
transactions that move or create a card, `jobs` the jobs with their results, `task` and `worker` the
background tasks. `stamp` counts the values of `updated_at`, which a trigger changes with every
update of a card. `chosen`, `edited`, `overlapped` and `died` are history.

*Actions.* An edit is `add_category` or `delete_category` (the lock on the store row; a deletion sees
here which of the owner's cards it has to move, `edit.seen`), `move_deleted_manual_cards_to_other`
(once it has their locks) and `CommitEdit` (version, job, result rows); `retry_reclassification_job`. A
deleted category may be added again. A move (`update_category`) and a card of an extraction
(`persist_fact_cards`) take three steps, as the code has three statements at READ COMMITTED: they see that
the category is active, `ReadVersion` reads the version (`cards/router.py:491` and `:493`,
`ingest/pipeline.py:339` and `:340`), and `CommitWrite` commits, after it has waited for an edit that
holds the category's row, as the foreign key does. A task runs
`ClaimJob`, `CheckVersion`, `ReadCards`, then per card `NextCard`, `ApplyCard`, `CommitCard` and
`RecordCard`, and `FinishJob`; `FailJob` is an exception, `Crash` the death of the process.

*Properties.* `ManualIsKept` (a card stays where the owner put it), `VersionsAdvance` (results of an
older version never replace newer ones), `JobsAccounted` (no job is forgotten), and
`ClassifiedIsListed`: a card stays in a deleted category only for a reason that the property names.
The reasons are real. A move or a new card overlaps an edit: the edit commits between its
reading of the categories and its commit, and if it read the version after that edit, it stands in the
deleted category at the newest version, where nothing classifies it again; or it commits after the
deletion looked for the owner's cards. Further,
an excluded card gets no result row; and a card the owner changed after the job was made, in any
way, is SKIPPED_NEWER_EDIT although its category is gone.

## 7. Chat

| Module | Contents |
|---|---|
| `Chat` | a call from `saved_reply` to `save_answer`, contexts, failed turns, pending questions |
| `MCChat` | the instance for TLC |
| `ChatProofs` | type correctness; the safety theorems |

*State.* The variables of `PublicKnowledge` are what the store publishes: `Publication` implements
that register, so a chat over `Publication` sees the same. `receipts`, `contexts`, `questions` and
`failed` are the tables `r_answer_receipts`, `r_question_contexts`, `pending_questions` and
`r_failed_user_turns`; their rows are numbered as their identities are. `call[p]` holds what a call
read: the edition, the head of the dialogue, that of the failed turns, the rounds of a context, and its plan.

*Actions.* `saved_reply` (replay or begin), `ensure_initial_publication`, `ReadContext` (edition,
history or context), `Plan` (searching reads the edition once more; what the planner may decide in
that state is `Plans`), `FailSemantics` and `record_failed_turn`, and the transaction of
`save_answer` with its outcomes: `save_answer` stores, `ReplyOrRefuse` returns the earlier reply or
refuses, `Requery` plans once more on a newer edition. `EndCall` is a deadline, a crash or any
other failure. The owner edits, excludes, restores and publishes (`Edit`) and answers
(`submit_owner_answer`); contexts and failed turns expire.

*Abstractions.* A question is only whether it matches the safety policy, a plan its action, the
versions it cites and the key it would ask the owner under; the history is its head, since storage
compares heads; the options of an offer are left out. Which reply a repeated request gets after 24
hours is wording. Not modelled are the unique constraints of `r_answer_receipts` and of waiting
questions: `OneTurnPerRequest` shows the first is never hit, and the second never either, because
the session and key locks make `save_answer` one action.

*Properties.* `OneTurnPerRequest`, `TurnsSeeDialogue`, `AnswersArePublic`, `OffersAnsweredOnce`,
`ConfirmedOnce`, `AskersAreAnswered`, and `LimitNeverRaised`: the `ClarificationLimit` that
`offer_next_context` raises and `save_answer` does not catch cannot happen. `AnswersArePublic`
needs both checks of storage: a card is excluded before the republication that takes it out of the
edition, so the edition alone does not tell.

## 8. Accounts and members

| Module | Contents |
|---|---|
| `Sessions` | sign-up and sign-in, the role, refresh tokens (`auth/session.py`, `auth/router.py`) |
| `Membership` | the first store, Kakao sign-in, invite links, join requests, members; composed with `Sessions` |
| `MCMembership` | the instance for TLC |
| `MembershipProofs` | the inductive invariant; the properties of `Sessions` and `Membership` |

*State.* One person, because every transaction here touches the row of one; owners of the stores act
in the same calls. `role`, `tokens`, `member`, `requests` and `linked` are the columns and tables
`users.role`, `auth_refresh_tokens`, `store_members`, `store_join_requests` and the active
`invite_codes`; `kakao` says how the account signs in, since an email account and a Kakao account are
never joined. `jar` and `claims` are the cookie and the access token of each browser, whose tabs
share them. `call[c]` is a request in progress, `row` the call that holds the lock on the person's row
between two statements. `ended` is history: the families a logout, a removal or a reuse ended.

*Actions.* `signup` / `SignupInsert` (the second of two is an uncaught violation), `login`, `choose_role`, `refresh` / `LockToken` /
`rotate_refresh` / `session_payload`, `logout` / `revoke_family_of`, `issue_refresh`, and `Answer`,
with which a device learns the result; `Lose` is a process that dies, a connection that breaks or a
browser that gives up, at any moment. In `Membership`: `create_store` / `InsertStore`, `kakao_start` /
`kakao_callback` / `EnterAccount`, which locks the person's row, and `RequestAtSignIn`, which inserts the
request under that lock, or `FindNoAccount` / `CreateAccount` (with the second attempt),
`create_join_request` with `JoinRole` to `ReadRequest`, `get_or_create` / `InsertLink` / `ReadLink`,
`rotate_link`, `approve` / `LockPerson` / `Admit`, `reject`, and `remove`, which ends in
`revoke_user_sessions`. A row that refers to the person waits for the lock, because its foreign key
locks the row as well. A join request enters the unique index first (`InsertRequest`), where it waits for
another entry that has not committed and for a decision under way (`EntryHolders`), and takes the key
lock at the end of the statement (`ReferencePerson`). So a Kakao sign-in, which holds the person's row, and a
join request of the same person, which holds the entry, may wait for each other: `WaitsFor` is who waits
for whom, and `Deadlock` the exception with which PostgreSQL ends one of two.

*Abstractions.* Which link a Kakao callback brings back is whether a rotation has revoked it. A revoked
token is recent for the 30 seconds of grace, then stale; the 90 days of a refresh token and the minutes
of an access token do not end. Passwords, the signed state of the OAuth cookie, the status screen and
notifications are left out.

*Properties.* `OneWorkplace` (one store per member, no owner among the staff), `FamiliesAreSound` (one
working token in a family, none in an ended one), `SessionsAreKept` (a late tab ends no session), and
`RacesAreAnswered`: no call is ended by an exception that nobody catches, but in three races that were
found while it was stated, and in which the code does fail:

* The second of two sign-ups with one address ends in a 500: `signup` looks before it inserts
  (`auth/router.py:95`) and, unlike `create_store` and the Kakao sign-in, does not catch the violation.
* The second of two equal join requests fails when the owner decides the first before it is read
  again (`members/join_requests.py:60` returns nothing then).
* A join request and a Kakao sign-in of the same person wait for each other, and one is aborted.

In every other race for a Kakao account, a link or a request, the second gets what the first made.

## 9. Runs

| Run | Question | Instance |
|---|---|---|
| `publish_races` | Does any interleaving lose an approval or publish something excluded? Does the coordinator implement the register? | 2 cards, 2 calls, 2 exclusions or restorations, 2 snapshots |
| `card_lifecycle` | Do edits, review, proposal approval and retries of one card stay consistent? | 1 card, 2 versions, 1 proposal, 2 calls, 1 exclusion |
| `index_bootstrap` | Does the current snapshot always have exactly one usable index of the current model? | 2 cards approved earlier, bootstrap and first publication, 1 expired preparation, 1 new window, 1 new model |
| `handoff_races` | Do leases, crashes, retries and corrections keep conclusion and report one, for the latest answer, and a closed event closed? | 2 workers, 2 answers to one question, claims with outdated rows, 1 attempt, 1 owner retry |
| `handoff_settles` | Is every answer settled in the end, its failures shown and its attempts bounded? | 2 workers, 1 answer, claims with outdated rows, 2 attempts, 1 owner retry, card moves of the owner, a late attachment, index outages; no symmetry |
| `ingest_jobs` | Are cards committed once, and does an undisturbed job end with everything done and reported truly? | 1 job of 2 sources, 2 tasks, 1 further request, 1 deletion, layout changes, crashes |
| `reclassification` | Do moves, new cards, edits and classification keep every card in a category, the owner's moves above all? | 2 cards (1 of them new), 2 categories, 2 tasks, 3 edits, 3 jobs, 1 write, crashes |
| `chat_turns` | Is every stored turn what it was planned on, stored once, and does every question reach its answer? | 1 session, 3 requests, 3 calls, 2 at a time, 1 card, 2 editions, 1 semantic key, expiries |
| `membership` | Do races of requests, devices and owners keep members, roles and sessions right? | 1 person, 1 browser, 2 stores, 2 calls, 3 refresh tokens, 2 join requests, 6 rows (`MaxRows`), losses |
| `restore_heals`, `claim_skew`, `attachment_crash` | the disagreements of section 11 | the smallest instance that shows them |

*Bounds.* Two calls or workers are enough for every two-party race; the code never looks at a third
party. Two cards are needed to see a publication drop a card it does not change, two versions to see
a draft move under an approval, two snapshots for a publication that overtakes another. Two
answers to one question supersede each other. With one attempt every failure, and every claim that read an
outdated count, meets the limit; with two there is a retry delay in between, and the owner's retry starts
the count again. Two workers let every claim overlap another one. One job of two sources has a row
in work beside a row that waits, and with one further request a retry, a forced extraction or a
repeated creation meets the running task, and a deletion the retry. Three edits make a job stale while
its task runs, and delete a category, add it again and delete it; one write meets each step of them. Three calls are an offer, its choice and a competitor, or two of the same request beside an
escalation; two editions make a plan stale; a context reaches its limit of two rounds with two of the
three. Two stores approve one person at a time; two calls are two tabs, a tab and a logout, or two
owners; three tokens are two tabs that rotate one token, a token with two successors in a row, or a family beside another. `MaxRows`
counts a token as two rows, so that a run with all three tokens has no requests and one with two requests
has two tokens. The graphs of `handoff_races`, `reclassification`, `ingest_jobs` and `membership` have about 1.8, 2.2,
1.3 and 0.9 million distinct states. Liveness is checked with two workers on one event; a second question would
make that graph too large, and an event in its retry delay keeps nobody from the next one, because
`Selected` passes it over.
Two jobs over one source do not occur in `ingest_jobs`; `CommittedOnce` is proved for them.
Retries, events, windows and deployments are bounded by constants named in the modules and appear
only in guards. Deadlock checking is off: when the bounds are used up and nobody has anything to do
the system may stop.

*Symmetry* is over callers, workers or calls, and in `chat_turns` over requests as well: sets that no
operator orders. Runs with liveness use none.

*Fairness* (`FairSpec` in `OwnerHandoff`): weak fairness of each worker's `Work`, because every API
process restarts its loop as long as it lives and a crashed process is replaced; of `CommitAttach`,
because a request ends; and of `LeaseExpires`, because time passes. Nothing is assumed of the owner, of
the extraction, of exceptions or of crashes; `HandoffSettles` has the usability of the index as a
premise, since `_index_ready` stops claiming without one. Crashes need no bound: each costs an
attempt.

## 10. Proofs

All constants are arbitrary: any cards, callers, proposals, questions, workers, versions and bounds,
under the assumptions the models name. In `Publication`, `NoCard` is no card, and `Legacy` and
`ProposalCards` name cards; in `OwnerHandoff`, `NoWorker` is no worker, an event may be attempted at
least once, and what an ingestion leads to (`Ingested`) is a card situation; in `IngestJob`, sources
are finitely many positive numbers and `NoJob` is no job; in `Chat`, `NoKey` is no semantic key.

* `TypeCorrect`: `TypeOK`, and a call that embeds or commits refers to a preparation that exists.
* `ApprovedServed`: `[]ApprovedIsServed`. The property is not inductive: whether a commit drops a
  card depends on a manifest read long before. The invariant `SafeInv` adds what a call knows
  (`Sound`): the revision it read is not from the future, its manifest holds its own changes, and, as
  long as that revision is still the current one, its manifest covers every approved publishable card
  that is not waiting for the republication of its restoration. That last part is the argument for
  the order of the reads in step 1: a card becomes approved by a publication, which moves the revision,
  or by a restoration. `PointerIsLatest` and `ApprovedHasPointer` connect rows.
* `ReviewedOnly`: what `Commit` lists is approved and unexcluded in the very step, and what becomes
  public was the current draft.
* `ResolvedOnce`: no step changes a proposal that left PENDING_REVIEW.
* `IndexServes`, `SnapshotFound`: `Backed` says that an activated index names its snapshot and holds
  that snapshot's manifest, that a snapshot has one, and that a preparation which may still be
  activated has its documents (`Ready`: only expired ones are purged). `Prunable` spares the index of
  the current snapshot, which is the latest by `PointerIsLatest`. `Pointed` says that what is listed
  is where the pointers are, and that no pointer is ahead of its draft. `QuietRows` is the fact about
  all steps but a publication: they change no request, consume nothing, and purge what is prunable.
* `CurrentModelActivated`: who embeds or commits holds a preparation of the running model
  (`Modelled`). The argument is that `prepare_index` compares the model and a deployment ends every
  call; a rolling deployment, with two models at a time, is not modelled.
* `AppliedOnceAlways`: `Applied` ties an operation to its snapshot and to pointers that only move
  forward, since a publication takes the current draft.
* `RequestsIdentified`: keys fit their changes (`Fits`); the numbers in the keys of exclusions and
  restorations come from their events, so no two calls, and no operation and a call, share one.
* `RegisterImplemented`: the refinement of `PublicKnowledge`. A publication is `Publish` with its
  changes as what is taken; the cards it omits are restored ones by `Covers`, the invariant of
  `ApprovedServed`, and what it lists may be published (`Vetted`). Every other step is a card edit, an
  exclusion, a restoration or a stutter.

* `HandoffTypeCorrect`: `TypeOK`, and a busy worker works on an answer that was submitted.
* `ClosedOnce`: `ClosedForGood`, whatever a claim reads. `WorkerRowStep` reduces the eighteen actions
  of a worker to five effects on the rows of an answer: none, a claim, an opened proposal, a report, a
  failure. A report needs an open event, so only an opened proposal could touch a closed one, and it
  does so only to an answer without a proposal. `Closed` says a reported answer has one; that needs
  that a worker that reports a recorded proposal (`pc = "recorded"`) still finds it.
* `AlwaysReported`, `AlwaysVisible`, `AlwaysBounded`, `HandoffRefines` assume nothing of the rows a claim
  reads. The invariant `Fenced` relates the columns of one answer: a decided proposal, a shown conclusion
  or a committed publication means a closed event (`Reported`); an event given up is shown as FAILED
  (`GivenUp`); only superseded answers are skipped (`Skipped`); and as long as no claim used outdated
  rows, a report ends the lease, stays what is shown, and attempts stay within the limit (`Fresh`). From it
  follows `HolderOpen`, the heart of the argument: who holds the lease of the latest answer has an open
  event, or the answer is `overtaken`. For the bound, `Counted` adds to the attempts the workers whose
  `SELECT` saw room for another (`Racing`): a claim turns one of these into an attempt, and the last of
  them started below the limit. In the refinement each effect is one action of `OwnerKnowledge` or a
  stutter, with `contested` as `overtaken`.

* `IngestTypeCorrect`: `TypeOK`. Its invariant adds that a task that works on a row belongs to a
  job that exists and has a source, without which the writes of a task would not be typed.
* `ExtractionsCommittedOnce`: `[]CommittedOnce`. `OnceInv` says of a row (`Kept`) that nothing of a
  whole extraction is committed while its recovery state is empty or holds the facts of one, of a
  task (`Fresh`) that what it loaded is not EXTRACTED when it extracts, and of a job that does not
  exist (`Created`) that nothing is committed for it. A commit that counts replaces a state that
  holds facts by one that does not; an extraction of the whole source can follow only an empty state,
  because a task that loads COMMITTED reads lost segments alone. The compare-and-set is what lets the
  argument go from the state the task loaded to the state in the row; no property of retries,
  leases or claims is used.
* `NothingLeftBehindAlways`, `SucceededIsCompleteAlways`, `DeletedIsNotReadAlways` follow from one
  invariant, `Settled`, about each job that is not in `disturbed`: a queued job has a task that waits
  and a running one a task in it (`Manned`); an unfinished row is that task's to do, and
  one that succeeded has committed everything (`RowDue`); the task is alone in its job and at its source, and its list names each
  queued row once (`Engaged`). `AtRow` is what completeness needs: while a task compares the
  recovery state of its row, the row still holds what the task loaded or saved, so the
  compare-and-set never loses and `record` reports what was committed. `Noted` is the argument about
  deletions: a row of a deleted source that is unfinished, or waits for the commit of a creation or a
  retry, crossed the deletion; `BeginDelete` has seen no row in progress, so one that appears while the
  source is locked comes from a transaction that was open, and all other requests wait for the lock. Every action of a task writes its own job, rows and
  source (`Local`), so that a job is kept by whatever is not in it (`Untouched`).
* `TypeCorrect` of `ChatProofs`: `TypeOK` of `Chat`, for the environment of `PublicKnowledge` as well.
* `RequestsStoredOnce`, `NoticesConfirmedOnce`: only `save_answer` stores, and it looks first.
* `TurnsFollowDialogue`: the head that `save_answer` compares is the last receipt of the session at
  that moment, and no receipt is ever stored before one that exists.
* `NoAskerForgotten`: by `Asked`, an escalation refers to a question that exists and waits or has
  reached it; a question that takes new askers waits, and an answer reaches every receipt that refers
  to its question at that moment.
* `AnswersStayPublic`: by `Seen`, a plan cites what its edition lists for as long as that edition is
  the public one, and an edition number is used once.
* `OffersHaveOneAnswer`, `LimitIsNeverRaised`: the state revision of a context grows with every
  acceptance and every offer. `Offered` says a context is never behind an offer made from it,
  `Passed` that it is past every offer that was answered, `Chosen` that a running choice answers an
  offer that was shown, `Counted` that a call has counted the rounds right or its context has moved.

* `SafeAlways` of `MembershipProofs`: one inductive invariant for the composition of `Sessions` and
  `Membership`. `Refers` says that what a call refers to exists, `Unknown` that nobody works for an
  account that is not there yet, `Chosen` that a role is chosen once and that a call that read one
  read the right one. `LockHeld` is the point of the row lock: between the two statements of a
  rotation or of an approval the token is as it was read, and no other store takes the person in.
  `Signing` is what a Kakao sign-in knows while it has the row locked. `Loser` says what the call that
  lost a unique row will find when it reads again, and `Answered` which calls may have failed. The
  lemma `VictimAsks` shows that two calls wait for each other only if one is a join request and the
  other a Kakao sign-in: nobody else holds the person's row and waits for the unique index.
* `OneWorkplaceAlways`, `FamiliesSound`, `RacesAnswered`, `MembershipTyped` follow from it.
  `SessionsKept` is the action property: only a rotation, a reuse after the grace period and the end
  of the person's sessions revoke a working token.
* `SafeAlways` of `ReclassificationProofs`: every step is one of twenty effects on the rows
  (`Stepped`), and the invariant has five parts. `Ordered`: a version is written over one that is
  not newer: a write holds the card from before it read the version (`Dated`), and the stamp a job's
  update compares bounds the card's version (`Since`).
  `Protected`: what the holder of a row lock read holds until it commits (`Guarded`, `Held`); an
  insertion and an update of the same card exclude each other because a job only covers cards that
  existed (`Covers`). `Awaited`: a pending result is ahead of the task that runs the job. `Listed`:
  whoever read the categories at the current version, or classifies at it, has a category that is still
  listed, and a deletion misses only cards among the overlapped ones. `Accounted`: a card that differs from the newest job's snapshot was changed by
  the owner, or is settled; without it SKIPPED_NEWER_EDIT could hide a card nobody touched.
* `ManualKeptAlways`, `JobsAccountedAlways`, `ClassifiedAlways` and the action property
  `VersionsAlwaysAdvance` follow from it. The argument of `ClassifiedAlways` is `Keeps`: between two
  edits of the categories a settled card stays settled.

Every invariant and action property of the passing runs, and both refinements, are theorems. Only
model-checked is `HandoffSettles`: liveness under fairness and ENABLED are outside what the proof
system supports and stay with TLC, as would induction over data and recursive operators. The three
violations are counterexamples of TLC; no theorem claims what they refute.

## 11. Where code and documents disagree

The first three are runs that TLC ends with a counterexample; `PROJECT.json` quotes the lines.

* `restore_heals`: a lost republication after a restoration is not healed by approving that card again,
  because the approval's key was already used.
* `claim_skew`: two overlapping claims can both succeed. Section 4 lists what follows. `ClosedForGood`
  shows what does not: an event consumed by one worker is not published or concluded again by the other.
* `attachment_crash`: a file attached to an answer remains without a job when the process dies
  between the report and the follow-up.

The models contain these as well; no run is spent on them:

* `_linked_target` (`cards/owner_answer_worker.py:190`) accepts a restored card whose republication
  has not run, although `publication_evidence`, whose condition its docstring (:179) claims, refuses it.
* A worker whose outcome is REVIEW meets the ANALYZED proposal of another one and reports REVIEW
  (`cards/owner_answer_worker.py:459`); the proposal stays ANALYZED, which no review screen lists.
* A file attached while its answer finishes gets no job from the request, which read an unfinished
  source, nor from the worker, which does not see the uncommitted attachment (`ingest/router.py:729`).
* What sections 5, 6 and 8 list.
* Two simultaneous requests can give an owner two stores: `create_store` looks before its
  transaction (`auth/router.py:187`) and only the slug is unique.
* A process that dies between the removal of a member and the end of the sessions
  (`members/router.py:82`) leaves the sessions; the owner's retry is answered 404 before that line.

## 12. What is not modelled

Texts, facts, vectors, prompts and the answers of models: the models keep the decisions that depend
on them as choices. Notifications (but for the one of a finished job), usage records and logs of the
modelled handlers. In `OwnerHandoff`, an interrupted ingestion that leaves part of its facts is the
choice between `Ingested` situations; the recovery of a committed ingestion is exact. In `IngestJob`,
uploads: the sources are there from the start. In `Reclassification`, the legacy endpoint that sets
all categories at once, which makes the same edits. In `Chat`, the creation of sessions, feedback,
listings, and a member who leaves the store.

Plan item 8 is left. A preparation whose embedding failed answers FAILED to every retry of its key until its
window is over: `Publication` has it (`PreparationRefused`), and no property forbids it. Notifications
are delivered at least once by design. The request limits are one counter under an advisory lock, the operators' lockout one
object in memory. Not planned: the planner and the verification of answers, retrieval ranking, card
assembly and extraction (functions without shared state, most of the code by size), evaluation tools and scripts, and the web front end.
