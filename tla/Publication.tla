---------------------------- MODULE Publication ----------------------------
(***************************************************************************)
(* Publishing the knowledge of one store (api/app/publish, api/app/reg,     *)
(* the review routes of api/app/cards and proposal approval in              *)
(* api/app/learn).                                                          *)
(*                                                                          *)
(* publish_cards is a coordinator without a lock around it: it reads the    *)
(* operation, the publication, the cards and the manifest in separate       *)
(* READ COMMITTED statements, embeds the index documents with no connection *)
(* held, and only its last transaction locks rows.  Every statement that    *)
(* sees its own snapshot of the database is an action here; the last        *)
(* transaction, which locks the publication row, every card of its manifest *)
(* and the preparation before it decides, is one action.                    *)
(*                                                                          *)
(* Data abstraction.  A version id is a per-card number.  A manifest (and   *)
(* a list of changes) is a function from cards to version numbers, 0 for    *)
(* absence.  Card content is immutable per version, so the content built    *)
(* from a manifest is the manifest itself and whether a version can be      *)
(* published is a constant.  Nothing here tells PENDING from NEEDS_REVIEW,   *)
(* so "PENDING" stands for both.  Expiry of a lease or of a preparation is  *)
(* an action that may happen at any time.                                   *)
(***************************************************************************)
EXTENDS Naturals, Sequences, FiniteSets

CONSTANTS
    Cards,            \* card ids of the store
    Procs,            \* concurrent callers of publish_cards
    Proposals,        \* knowledge_change_proposals waiting for the owner (a subset of Nat)
    ProposalCards,    \* cards linked to the proposal's owner answer
    Legacy,           \* cards the retired direct route may have approved before
    Callers,          \* kinds of requests issued in this instance
    Unpublishable,    \* <<card, version>> without provenance or with invalid content
    NoCard,           \* card component of keys that name no card
    MaxVersion,       \* bound on versions per card
    MaxEvents,        \* bound on EXCLUDE and RESTORE events
    MaxSnapshots,     \* bound on published snapshots
    MaxPreparations,  \* bound on index preparations
    MaxExpired,       \* bound on preparations whose 15 minute TTL passes
    MaxWindow,        \* bound on prepare-key time windows
    MaxModel          \* bound on embedding model deployments

ASSUME CardsAssumption ==
    NoCard \notin Cards /\ Legacy \subseteq Cards /\ Unpublishable \subseteq Cards \X Nat
ASSUME ProposalsAssumption ==
    Proposals \subseteq Nat /\ ProposalCards \in [Proposals -> SUBSET Cards]

VARIABLES
    status,             \* knowledge_cards.review_status, "NONE" before the insert
    draft,              \* knowledge_cards.draft_version_id
    published,          \* knowledge_cards.published_version_id
    publication,        \* the knowledge_publications row
    snapshots,          \* knowledge_snapshots with their snapshot_card_versions
    operations,         \* SUCCEEDED rows of operations (PUBLISH)
    outbox,             \* KNOWLEDGE_PUBLISHED events
    preparations,       \* r_index_preparations with r_index_documents
    index_publications, \* r_index_publications
    proposal,           \* status of every knowledge change proposal
    visibility_events,  \* number of EXCLUDE and RESTORE rows of card_review_events
    window,             \* time // PREPARE_KEY_WINDOW_SECONDS
    embedding_model,    \* settings.embedding_model of the running deployment
    call,               \* local state of every caller inside publish_cards
    restored            \* history: cards restored and listed by no snapshot since

cardVars == <<status, draft, published>>
publicVars == <<publication, snapshots, operations, outbox, index_publications>>
clockVars == <<window, embedding_model>>
vars == <<status, draft, published, publication, snapshots, operations, outbox, preparations,
          index_publications, proposal, visibility_events, window, embedding_model, call, restored>>

----------------------------------------------------------------------------
(* Values *)

Statuses == {"NONE", "PENDING", "APPROVED", "EXCLUDED"}
PreparationStates == {"PREPARING", "PREPARED", "FAILED", "CONSUMED"}
Phases == {"idle", "operation", "publication", "cards", "manifest", "prepare", "embed", "commit"}

Manifest == [Cards -> Nat]
Nothing == [c \in Cards |-> 0]
Listed(m) == {c \in Cards : m[c] # 0}
Publishable(c, v) == <<c, v>> \notin Unpublishable

Keys == [kind : {"approve", "exclude", "restore", "proposal", "bootstrap", "initial", "none"},
         card : Cards \cup {NoCard}, id : Nat]

(* The key R files a preparation under: the caller's key, the publication   *)
(* revision it expects, the content and the time window.                    *)
PrepareKeys == [idempotency_key : Keys, expected_publication_revision : Nat,
                content : Manifest, window : Nat]

Idle == [pc |-> "idle",
         idempotency_key |-> [kind |-> "none", card |-> NoCard, id |-> 0],
         changes |-> Nothing, initialize_empty |-> FALSE,
         publication_revision |-> 0, current_snapshot_id |-> 0,
         manifest |-> Nothing, prepared_id |-> 0, claim |-> 0]

TypeOK ==
    /\ status \in [Cards -> Statuses]
    /\ draft \in [Cards -> Nat] /\ published \in [Cards -> Nat]
    /\ publication \in [publication_revision : Nat, knowledge_revision : Nat,
                        current_snapshot_id : Nat]
    /\ snapshots \in Seq([knowledge_revision : Nat, manifest : Manifest])
    /\ operations \subseteq [idempotency_key : Keys, body : Manifest, snapshot_id : Nat]
    /\ outbox \subseteq [aggregate_id : Nat, knowledge_revision : Nat]
    /\ preparations \in Seq([key : PrepareKeys, embedding_model : Nat, state : PreparationStates,
                             attempt_no : Nat, leased : BOOLEAN, expired : BOOLEAN,
                             documents : BOOLEAN])
    /\ index_publications \subseteq [snapshot_id : Nat, prepared_id : Nat]
    /\ proposal \in [Proposals -> {"PENDING_REVIEW", "PUBLISHED", "DISMISSED"}]
    /\ visibility_events \in Nat /\ window \in Nat /\ embedding_model \in Nat
    /\ call \in [Procs -> [pc : Phases, idempotency_key : Keys, changes : Manifest,
                           initialize_empty : BOOLEAN, publication_revision : Nat,
                           current_snapshot_id : Nat, manifest : Manifest,
                           prepared_id : Nat, claim : Nat]]
    /\ restored \subseteq Cards

----------------------------------------------------------------------------
(* What the statements of the code read *)

(* content.current_manifest: the approved cards at their public pointers.   *)
current_manifest == [c \in Cards |-> IF status[c] = "APPROVED" THEN published[c] ELSE 0]

(* Fault: the draft may have moved since the reviewer saw it.               *)
FaultChangesHold(changes) == \A c \in Listed(changes) : status[c] # "EXCLUDED"

(* approval._cas_holds for the cards of changes: the draft is the one the   *)
(* reviewer saw and the card is not excluded.                               *)
ChangesHold(changes) ==
    \A c \in Listed(changes) : draft[c] = changes[c] /\ status[c] # "EXCLUDED"

(* Fault: only the pointers are compared, not the review status.            *)
FaultManifestHolds(changes, manifest) ==
    \A c \in Listed(manifest) : c \notin Listed(changes) => published[c] = manifest[c]

(* approval._cas_holds with a manifest: the other cards are still approved  *)
(* at the listed version.                                                   *)
ManifestHolds(changes, manifest) ==
    \A c \in Listed(manifest) :
        /\ status[c] \notin {"NONE", "EXCLUDED"}
        /\ c \notin Listed(changes) => status[c] = "APPROVED" /\ published[c] = manifest[c]

cas_holds(changes, manifest) == ManifestHolds(changes, manifest) /\ ChangesHold(changes)

(* Fault: no operation is ever found again.                                 *)
FaultOperationsOf(key) == {}

(* The committed operation that already used the key, as a set.             *)
OperationsOf(key) == {o \in operations : o.idempotency_key = key}

(* Fault: the revision is read again, after the manifest.                   *)
FaultExpectedRevision(p) == publication.publication_revision

(* The revision step 1 read; everything later is checked against it.        *)
expected_publication_revision(p) == call[p].publication_revision

(* approval.build_prepare_request                                           *)
prepare_key(p) ==
    [idempotency_key |-> call[p].idempotency_key,
     expected_publication_revision |-> expected_publication_revision(p),
     content |-> call[p].manifest, window |-> window]

(* hybrid.read_current_index: the consumed preparation that backs the       *)
(* current snapshot, as a set of prepared ids; empty is 503.                *)
read_current_index ==
    {a.prepared_id : a \in {x \in index_publications :
        /\ x.snapshot_id = publication.current_snapshot_id
        /\ snapshots[x.snapshot_id].knowledge_revision = publication.knowledge_revision
        /\ preparations[x.prepared_id].state = "CONSUMED"}}

(* hybrid.search_channels: the documents a question may retrieve.           *)
search_channels ==
    {d \in Cards \X (1..MaxVersion) :
        /\ status[d[1]] = "APPROVED" /\ published[d[1]] = d[2]
        /\ \E i \in read_current_index :
              preparations[i].documents /\ preparations[i].key.content[d[1]] = d[2]}

(* bootstrap.index_status *)
index_status ==
    IF Listed(current_manifest) = {} THEN "EMPTY"
    ELSE IF read_current_index = {} THEN "MISSING"
    ELSE IF \E i \in read_current_index : preparations[i].embedding_model # embedding_model
         THEN "OUTDATED" ELSE "READY"

----------------------------------------------------------------------------
Init ==
    /\ \E legacy \in SUBSET Legacy :
          /\ status = [c \in Cards |-> IF c \in legacy THEN "APPROVED" ELSE "NONE"]
          /\ draft = [c \in Cards |-> IF c \in legacy THEN 1 ELSE 0]
          /\ published = [c \in Cards |-> IF c \in legacy THEN 1 ELSE 0]
    /\ publication = [publication_revision |-> 0, knowledge_revision |-> 0,
                      current_snapshot_id |-> 0]
    /\ snapshots = <<>> /\ preparations = <<>>
    /\ operations = {} /\ outbox = {} /\ index_publications = {}
    /\ proposal = [q \in Proposals |-> "PENDING_REVIEW"]
    /\ visibility_events = 0 /\ window = 0 /\ embedding_model = 1
    /\ call = [p \in Procs |-> Idle]
    /\ restored = {}

----------------------------------------------------------------------------
(* Writing cards *)

(* A new draft version: the insert of an extracted card, a re-assembled     *)
(* extraction draft, new facts attached to a published card, or the owner's *)
(* fact edit.  Unreviewed cards stay unreviewed, approved ones approved.    *)
WriteDraft(c) ==
    /\ status[c] # "EXCLUDED" /\ draft[c] < MaxVersion
    /\ draft' = [draft EXCEPT ![c] = @ + 1]
    /\ status' = [status EXCEPT ![c] = IF @ = "APPROVED" THEN "APPROVED" ELSE "PENDING"]
    /\ UNCHANGED <<published, publicVars, preparations, proposal, visibility_events,
                   clockVars, call, restored>>

----------------------------------------------------------------------------
(* Callers of publish_cards *)

Begin(p, key, changes, initialize_empty) ==
    /\ key.kind \in Callers
    /\ call' = [call EXCEPT ![p] = [Idle EXCEPT !.pc = "operation", !.idempotency_key = key,
                                                !.changes = changes,
                                                !.initialize_empty = initialize_empty]]

(* Fault: the key of an approval does not name the draft.                   *)
FaultApproveKey(c) == [kind |-> "approve", card |-> c, id |-> 0]

ApproveKey(c) == [kind |-> "approve", card |-> c, id |-> draft[c]]

(* cards/router.approve_card: the owner approves the draft the route reads. *)
approve_card(p, c) ==
    /\ call[p].pc = "idle"
    /\ status[c] # "EXCLUDED" /\ draft[c] # 0
    /\ Begin(p, ApproveKey(c), [Nothing EXCEPT ![c] = draft[c]], FALSE)
    /\ UNCHANGED <<cardVars, publicVars, preparations, proposal, visibility_events,
                   clockVars, restored>>

(* cards/router._republish_after_status_change: the key names the event.    *)
RepublishKey(kind, c) == [kind |-> kind, card |-> c, id |-> visibility_events + 1]

(* cards/router.exclude_card: commits the exclusion, then republishes when  *)
(* the card had been published.                                             *)
exclude_card(p, c) ==
    /\ call[p].pc = "idle" /\ visibility_events < MaxEvents
    /\ status[c] \notin {"NONE", "EXCLUDED"}
    /\ status' = [status EXCEPT ![c] = "EXCLUDED"]
    /\ visibility_events' = visibility_events + 1
    /\ IF published[c] # 0 THEN Begin(p, RepublishKey("exclude", c), Nothing, FALSE)
                           ELSE UNCHANGED call
    /\ UNCHANGED <<draft, published, publicVars, preparations, proposal, clockVars, restored>>

(* cards/router.restore_card                                                *)
restore_card(p, c) ==
    /\ call[p].pc = "idle" /\ visibility_events < MaxEvents
    /\ status[c] = "EXCLUDED"
    /\ status' = [status EXCEPT ![c] = IF published[c] # 0 THEN "APPROVED" ELSE "PENDING"]
    /\ visibility_events' = visibility_events + 1
    /\ restored' = restored \cup {c}
    /\ IF published[c] # 0 THEN Begin(p, RepublishKey("restore", c), Nothing, FALSE)
                           ELSE UNCHANGED call
    /\ UNCHANGED <<draft, published, publicVars, preparations, proposal, clockVars>>

(* bootstrap.bootstrap_store_index                                          *)
bootstrap_store_index(p) ==
    /\ call[p].pc = "idle" /\ index_status \in {"MISSING", "OUTDATED"}
    /\ Begin(p, [kind |-> "bootstrap", card |-> NoCard, id |-> publication.publication_revision],
             Nothing, FALSE)
    /\ UNCHANGED <<cardVars, publicVars, preparations, proposal, visibility_events,
                   clockVars, restored>>

(* empty.ensure_initial_publication                                         *)
ensure_initial_publication(p) ==
    /\ call[p].pc = "idle"
    /\ publication.current_snapshot_id = 0 /\ Listed(current_manifest) = {}
    /\ Begin(p, [kind |-> "initial", card |-> NoCard, id |-> 0], Nothing, TRUE)
    /\ UNCHANGED <<cardVars, publicVars, preparations, proposal, visibility_events,
                   clockVars, restored>>

(* Drafts of the cards of a proposal that are not public yet.               *)
ProposalChanges(q) ==
    [c \in Cards |-> IF /\ c \in ProposalCards[q] /\ status[c] # "EXCLUDED"
                        /\ draft[c] # published[c]
                     THEN draft[c] ELSE 0]

(* worker._linked_target: is the card reported as publicly served?          *)
linked_target(c) == publication.current_snapshot_id # 0 /\ current_manifest[c] # 0

(* knowledge_apply.approve_owner_proposal, first transaction: pick the      *)
(* drafts; with none left, close the proposal when all its cards are public.*)
approve_owner_proposal(p, q) ==
    /\ call[p].pc = "idle" /\ proposal[q] = "PENDING_REVIEW"
    /\ Listed(ProposalChanges(q)) # {}
    /\ Begin(p, [kind |-> "proposal", card |-> NoCard, id |-> q], ProposalChanges(q), FALSE)
    /\ UNCHANGED <<cardVars, publicVars, preparations, proposal, visibility_events,
                   clockVars, restored>>

close_already_published(q) ==
    LET cards == {c \in ProposalCards[q] : status[c] # "EXCLUDED" /\ draft[c] # 0} IN
    /\ proposal[q] = "PENDING_REVIEW"
    /\ Listed(ProposalChanges(q)) = {}
    /\ cards # {} /\ \A c \in cards : linked_target(c)
    /\ proposal' = [proposal EXCEPT ![q] = "PUBLISHED"]
    /\ UNCHANGED <<cardVars, publicVars, preparations, visibility_events, clockVars,
                   call, restored>>

(* learn/router.dismiss_knowledge_proposal                                  *)
dismiss_knowledge_proposal(q) ==
    /\ proposal[q] = "PENDING_REVIEW"
    /\ proposal' = [proposal EXCEPT ![q] = "DISMISSED"]
    /\ UNCHANGED <<cardVars, publicVars, preparations, visibility_events, clockVars,
                   call, restored>>

----------------------------------------------------------------------------
(* approval.publish_cards, one action per database statement or R call.     *)
(* Return is every early return and every exception of the coordinator.     *)

Return(p) == call' = [call EXCEPT ![p] = Idle]

Private == UNCHANGED <<cardVars, publicVars, proposal, visibility_events, clockVars, restored>>

(* Step 0: a key that already committed is answered without doing anything. *)
read_operation(p) ==
    /\ call[p].pc = "operation"
    /\ IF OperationsOf(call[p].idempotency_key) # {} THEN Return(p)
       ELSE call' = [call EXCEPT ![p].pc = "publication"]
    /\ Private /\ UNCHANGED preparations

(* Step 1: the revision is read before the cards it will be checked with.   *)
read_publication(p) ==
    /\ call[p].pc = "publication"
    /\ call' = [call EXCEPT ![p].publication_revision = publication.publication_revision,
                            ![p].current_snapshot_id = publication.current_snapshot_id,
                            ![p].pc = IF Listed(call[p].changes) # {} THEN "cards" ELSE "manifest"]
    /\ Private /\ UNCHANGED preparations

read_cards(p) ==
    /\ call[p].pc = "cards"
    /\ IF ChangesHold(call[p].changes) THEN call' = [call EXCEPT ![p].pc = "manifest"]
                                       ELSE Return(p)
    /\ Private /\ UNCHANGED preparations

(* The manifest to publish: approved pointers overlaid with the changes.    *)
Overlaid(p) == [c \in Cards |-> IF call[p].changes[c] # 0 THEN call[p].changes[c]
                                                          ELSE current_manifest[c]]

(* approval._check_cards drops the unpublishable cards nobody changed.      *)
check_cards(m) == [c \in Cards |-> IF Publishable(c, m[c]) THEN m[c] ELSE 0]

read_manifest(p) ==
    LET kept == check_cards(Overlaid(p)) IN
    /\ call[p].pc = "manifest"
    /\ IF \/ /\ call[p].initialize_empty
             /\ Listed(current_manifest) # {} \/ call[p].current_snapshot_id # 0
                                              \/ Listed(call[p].changes) # {}
          \/ \E c \in Listed(call[p].changes) : ~Publishable(c, call[p].changes[c])
          \/ Listed(kept) = {} /\ Listed(current_manifest) # {}
       THEN Return(p)
       ELSE call' = [call EXCEPT ![p].manifest = kept, ![p].pc = "prepare"]
    /\ Private /\ UNCHANGED preparations

(* Step 2, reg/index_preparation.prepare_index.  A row already filed under  *)
(* the key decides first; only a lapsed PREPARING row, or no row at all,    *)
(* goes on to the revision check and takes a new 45 second claim.           *)
RowsOf(key) == {i \in DOMAIN preparations : preparations[i].key = key}

(* Fault: the request hash leaves the embedding model out.                  *)
FaultSameRequest(i) == TRUE

SameRequest(i) == preparations[i].embedding_model = embedding_model

Reusable(i) == /\ SameRequest(i) /\ ~preparations[i].expired
               /\ preparations[i].state \in {"PREPARED", "CONSUMED"}

Reclaimable(i) == /\ SameRequest(i) /\ ~preparations[i].expired
                  /\ preparations[i].state = "PREPARING" /\ ~preparations[i].leased

RevisionHolds(p) == publication.publication_revision = expected_publication_revision(p)

ReusePreparation(p) ==
    /\ call[p].pc = "prepare"
    /\ \E i \in RowsOf(prepare_key(p)) :
          /\ Reusable(i)
          /\ call' = [call EXCEPT ![p].prepared_id = i, ![p].pc = "commit"]
    /\ Private /\ UNCHANGED preparations

ReclaimPreparation(p) ==
    /\ call[p].pc = "prepare" /\ RevisionHolds(p)
    /\ \E i \in RowsOf(prepare_key(p)) :
          /\ Reclaimable(i) /\ preparations[i].attempt_no < MaxPreparations
          /\ preparations' = [preparations EXCEPT ![i] =
                               [@ EXCEPT !.attempt_no = preparations[i].attempt_no + 1,
                                         !.leased = TRUE]]
          /\ call' = [call EXCEPT ![p].prepared_id = i, ![p].pc = "embed",
                                  ![p].claim = preparations[i].attempt_no + 1]
    /\ Private

InsertPreparation(p) ==
    /\ call[p].pc = "prepare" /\ RevisionHolds(p)
    /\ RowsOf(prepare_key(p)) = {} /\ Len(preparations) < MaxPreparations
    /\ preparations' = Append(preparations,
          [key |-> prepare_key(p), embedding_model |-> embedding_model, state |-> "PREPARING",
           attempt_no |-> 1, leased |-> TRUE, expired |-> FALSE, documents |-> FALSE])
    /\ call' = [call EXCEPT ![p].prepared_id = Len(preparations) + 1, ![p].pc = "embed",
                            ![p].claim = 1]
    /\ Private

(* PREPARE_FAILED: conflict, timeout, a failed or busy row, a moved revision. *)
PreparationRefused(p) ==
    /\ call[p].pc = "prepare"
    /\ \/ \E i \in RowsOf(prepare_key(p)) : ~Reusable(i) /\ (Reclaimable(i) => ~RevisionHolds(p))
       \/ RowsOf(prepare_key(p)) = {} /\ ~RevisionHolds(p)
    /\ Return(p) /\ Private /\ UNCHANGED preparations

(* The completion and failure writes are conditional on still owning the    *)
(* claim.                                                                   *)
Owns(p) == LET row == preparations[call[p].prepared_id] IN
    row.attempt_no = call[p].claim /\ row.state = "PREPARING"

FinishEmbedding(p) ==
    /\ call[p].pc = "embed"
    /\ IF Owns(p) /\ ~preparations[call[p].prepared_id].expired
       THEN /\ preparations' = [preparations EXCEPT ![call[p].prepared_id] =
                                  [@ EXCEPT !.state = "PREPARED", !.documents = TRUE]]
            /\ call' = [call EXCEPT ![p].pc = "commit"]
       ELSE Return(p) /\ UNCHANGED preparations
    /\ Private

FailEmbedding(p) ==
    /\ call[p].pc = "embed"
    /\ preparations' = IF Owns(p)
                       THEN [preparations EXCEPT ![call[p].prepared_id].state = "FAILED"]
                       ELSE preparations
    /\ Return(p) /\ Private

(* reg/index_preparation.activate_prepared_index: may the preparation back  *)
(* the snapshot that is being published?                                    *)
Activatable(p) == LET row == preparations[call[p].prepared_id] IN
    /\ row.state = "PREPARED" /\ ~row.expired
    /\ publication.publication_revision = row.key.expected_publication_revision
    /\ row.key.content = call[p].manifest

Activated(i) == [preparations EXCEPT ![i].state = "CONSUMED"]

(* Fault: the hook trusts the status read before the embedding.             *)
FaultHookHolds(p) == TRUE

(* The hook of approve_owner_proposal: the proposal is still approvable.    *)
HookHolds(p) == call[p].idempotency_key.kind = "proposal"
                   => proposal[call[p].idempotency_key.id] = "PENDING_REVIEW"

(* Step 3, one transaction under the publication lock: re-check the cards,  *)
(* claim the operation, compare the revision, write the snapshot, move the  *)
(* pointers, activate the index, run the hook.  Any refusal rolls all of it *)
(* back.                                                                    *)
MayCommit(p) ==
    /\ call[p].initialize_empty => /\ publication.current_snapshot_id = 0
                                   /\ Listed(current_manifest) = {}
    /\ cas_holds(call[p].changes, call[p].manifest)
    /\ OperationsOf(call[p].idempotency_key) = {}
    /\ RevisionHolds(p)
    /\ Activatable(p)
    /\ HookHolds(p)

(* service.publish_knowledge *)
publish_knowledge(p) ==
    LET revision == publication.knowledge_revision + 1
        id == Len(snapshots) + 1
    IN
    /\ snapshots' = Append(snapshots, [knowledge_revision |-> revision,
                                       manifest |-> call[p].manifest])
    /\ publication' = [publication_revision |-> publication.publication_revision + 1,
                       knowledge_revision |-> revision, current_snapshot_id |-> id]
    /\ outbox' = outbox \cup {[aggregate_id |-> id, knowledge_revision |-> revision]}
    /\ operations' = operations \cup {[idempotency_key |-> call[p].idempotency_key,
                                       body |-> call[p].changes, snapshot_id |-> id]}

(* Faults: a card that was public keeps its pointer; a status of another    *)
(* table is written.                                                        *)
FaultKeepPointer(p) ==
    /\ status' = [c \in Cards |-> IF call[p].changes[c] # 0 THEN "APPROVED" ELSE status[c]]
    /\ published' = [c \in Cards |-> IF published[c] = 0 THEN call[p].changes[c]
                                                         ELSE published[c]]

FaultWrongStatus(p) ==
    /\ status' = [c \in Cards |-> IF call[p].changes[c] # 0 THEN "PUBLISHED" ELSE status[c]]
    /\ published' = [c \in Cards |-> IF call[p].changes[c] # 0 THEN call[p].changes[c]
                                                              ELSE published[c]]

(* approval._mark_published for every change *)
mark_published(p) ==
    /\ status' = [c \in Cards |-> IF call[p].changes[c] # 0 THEN "APPROVED" ELSE status[c]]
    /\ published' = [c \in Cards |-> IF call[p].changes[c] # 0 THEN call[p].changes[c]
                                                              ELSE published[c]]

Commit(p) ==
    /\ call[p].pc = "commit" /\ Len(snapshots) < MaxSnapshots
    /\ MayCommit(p)
    /\ publish_knowledge(p)
    /\ mark_published(p)
    /\ index_publications' = index_publications \cup
          {[snapshot_id |-> Len(snapshots) + 1, prepared_id |-> call[p].prepared_id]}
    /\ preparations' = Activated(call[p].prepared_id)
    /\ proposal' = IF call[p].idempotency_key.kind = "proposal"
                   THEN [proposal EXCEPT ![call[p].idempotency_key.id] = "PUBLISHED"]
                   ELSE proposal
    /\ restored' = restored \ Listed(call[p].manifest)
    /\ Return(p)
    /\ UNCHANGED <<draft, visibility_events, clockVars>>

RejectCommit(p) ==
    /\ call[p].pc = "commit" /\ ~MayCommit(p)
    /\ Return(p) /\ Private /\ UNCHANGED preparations

(* The process dies, the request is cancelled or a statement raises: an     *)
(* open transaction rolls back, what committed before stays.                *)
Crash(p) ==
    /\ call[p].pc # "idle"
    /\ Return(p) /\ Private /\ UNCHANGED preparations

----------------------------------------------------------------------------
(* Clocks, deployments and maintenance *)

LeaseExpires(i) ==
    /\ preparations[i].state = "PREPARING" /\ preparations[i].leased
    /\ preparations' = [preparations EXCEPT ![i].leased = FALSE]
    /\ UNCHANGED <<cardVars, publicVars, proposal, visibility_events, clockVars, call, restored>>

PreparationExpires(i) ==
    /\ Cardinality({j \in DOMAIN preparations : preparations[j].expired}) < MaxExpired
    /\ ~preparations[i].expired
    /\ preparations' = [preparations EXCEPT ![i].expired = TRUE]
    /\ UNCHANGED <<cardVars, publicVars, proposal, visibility_events, clockVars, call, restored>>

WindowPasses ==
    /\ window < MaxWindow /\ window' = window + 1
    /\ UNCHANGED <<cardVars, publicVars, preparations, proposal, visibility_events,
                   embedding_model, call, restored>>

(* A release with another embedding model restarts every process.           *)
DeployModel ==
    /\ embedding_model < MaxModel /\ embedding_model' = embedding_model + 1
    /\ call' = [p \in Procs |-> Idle]
    /\ UNCHANGED <<cardVars, publicVars, preparations, proposal, visibility_events,
                   window, restored>>

(* Fault: age alone makes documents prunable.                               *)
FaultPrunable(i) == preparations[i].expired /\ preparations[i].state # "PREPARING"

(* r_index_prunable with keep_n = 0: the documents of an expired preparation *)
(* that backs no snapshot, or a retired one, may be deleted.                *)
Prunable(i) ==
    /\ preparations[i].expired /\ preparations[i].state # "PREPARING"
    /\ \A a \in index_publications : a.prepared_id = i
                                        => a.snapshot_id # publication.current_snapshot_id

PurgeDocuments(i) ==
    /\ preparations[i].documents /\ Prunable(i)
    /\ preparations' = [preparations EXCEPT ![i].documents = FALSE]
    /\ UNCHANGED <<cardVars, publicVars, proposal, visibility_events, clockVars, call, restored>>

----------------------------------------------------------------------------
Coordinate(p) ==
    \/ read_operation(p) \/ read_publication(p) \/ read_cards(p) \/ read_manifest(p)
    \/ ReusePreparation(p) \/ ReclaimPreparation(p) \/ InsertPreparation(p)
    \/ PreparationRefused(p) \/ FinishEmbedding(p) \/ FailEmbedding(p)
    \/ Commit(p) \/ RejectCommit(p) \/ Crash(p)

Next ==
    \/ \E c \in Cards : WriteDraft(c)
    \/ \E p \in Procs, c \in Cards : approve_card(p, c) \/ exclude_card(p, c) \/ restore_card(p, c)
    \/ \E p \in Procs : bootstrap_store_index(p) \/ ensure_initial_publication(p)
    \/ \E p \in Procs, q \in Proposals : approve_owner_proposal(p, q)
    \/ \E q \in Proposals : close_already_published(q) \/ dismiss_knowledge_proposal(q)
    \/ \E p \in Procs : Coordinate(p)
    \/ \E i \in DOMAIN preparations : LeaseExpires(i) \/ PreparationExpires(i) \/ PurgeDocuments(i)
    \/ WindowPasses
    \/ DeployModel

Spec == Init /\ [][Next]_vars

----------------------------------------------------------------------------
(* Properties *)

served == IF publication.current_snapshot_id = 0 THEN Nothing
          ELSE snapshots[publication.current_snapshot_id].manifest

(* Once a store has published, a question always finds exactly one active   *)
(* index, its documents are there, and they are the documents of the        *)
(* current snapshot's manifest: read_current_index never answers 503,       *)
(* whatever claims, expiries, crashes, purges and races happened.           *)
CurrentIndexServes ==
    publication.current_snapshot_id # 0 =>
        \E i \in DOMAIN preparations :
            /\ read_current_index = {i}
            /\ preparations[i].documents
            /\ preparations[i].key.content = served

(* No approved card gets lost: a card that is approved and publishable is   *)
(* in the current snapshot, unless the owner restored it and no publication *)
(* has listed it since (the best-effort republish of restore_card).  It     *)
(* fails when publish_cards reads the revision after the manifest.          *)
ApprovedIsServed ==
    publication.current_snapshot_id # 0 =>
        \A c \in Cards : status[c] = "APPROVED" /\ Publishable(c, published[c])
                             => served[c] # 0 \/ c \in restored

(* The public pointer of a card and the version the current snapshot lists  *)
(* never disagree, so search_channels, which joins the two, drops a listed  *)
(* card only because it is excluded.                                        *)
SearchFindsSnapshot ==
    search_channels = {d \in Cards \X (1..MaxVersion) :
                          served[d[1]] = d[2] /\ status[d[1]] = "APPROVED"}

(* A publication that commits never lists an excluded card, even one the    *)
(* owner excluded while the index was being embedded, and it takes live     *)
(* only drafts that are still the current draft.                            *)
PublishesReviewedOnly ==
    [][snapshots' # snapshots =>
         \A c \in Cards : served'[c] # 0 =>
             /\ status[c] # "EXCLUDED" /\ status'[c] = "APPROVED"
             /\ served'[c] = published'[c]
             /\ published'[c] \in {published[c], draft[c]}]_vars

(* A key is applied at most once, and its effect is the one it asked for:   *)
(* an ALREADY_APPLIED answer is the truth.  The snapshot of the operation   *)
(* lists the changed versions and no pointer has moved behind them.         *)
OperationsAppliedOnce ==
    \A o \in operations :
        /\ \A x \in operations : x.idempotency_key = o.idempotency_key
                                   \/ x.snapshot_id = o.snapshot_id => x = o
        /\ \A c \in Listed(o.body) : /\ snapshots[o.snapshot_id].manifest[c] = o.body[c]
                                      /\ published[c] >= o.body[c]

(* A caller is never told that an earlier, different request was its own:   *)
(* an operation found under the key of a running call has the same body,    *)
(* and exclusion and restoration republish under a key of their own.  (Two  *)
(* approvals of one proposal share its key whatever drafts they picked.)    *)
KeysIdentifyRequests ==
    \A p \in Procs : \A o \in OperationsOf(call[p].idempotency_key) :
        /\ call[p].idempotency_key.kind # "proposal" => o.body = call[p].changes
        /\ call[p].idempotency_key.kind \notin {"exclude", "restore"}

(* The index activated with a snapshot was embedded by the model the        *)
(* deployment queries with, although activation does not look at the model. *)
ActivatesCurrentModel ==
    [][\A i \in DOMAIN preparations :
          preparations'[i].state = "CONSUMED" /\ preparations[i].state # "CONSUMED"
             => preparations[i].embedding_model = embedding_model]_vars

(* A resolved proposal stays resolved: an approval that was embedding while *)
(* the owner dismissed the proposal does not publish it after all.          *)
ProposalResolvedOnce ==
    [][\A q \in Proposals : proposal[q] # "PENDING_REVIEW" => proposal'[q] = proposal[q]]_vars

(* publish_cards implements the atomic register of PublicKnowledge.         *)
Register == INSTANCE PublicKnowledge WITH
    served <- served, edition <- publication.publication_revision

ImplementsRegister == Register!Spec

(* What the docstring of _republish_after_status_change claims: a restored  *)
(* card whose republication was lost comes back with the next approval of   *)
(* any card.  So when an approval is answered (here: from its operation),   *)
(* every approved card is in the current snapshot.                          *)
ApprovalHealsRestore ==
    \A p \in Procs :
        /\ call[p].pc = "operation" /\ call[p].idempotency_key.kind = "approve"
        /\ OperationsOf(call[p].idempotency_key) # {}
        => \A c \in Cards : status[c] = "APPROVED" => served[c] # 0
=============================================================================
