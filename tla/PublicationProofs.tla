------------------------- MODULE PublicationProofs -------------------------
(***************************************************************************)
(* Proofs about Publication, for any cards, callers, proposals and bounds.  *)
(***************************************************************************)
EXTENDS Publication, TLAPS, SequenceTheorems

(* The values the state variables range over, named for the proofs.         *)
Snapshot == [knowledge_revision : Nat, manifest : Manifest]
Operation == [idempotency_key : Keys, body : Manifest, snapshot_id : Nat]
Preparation == [key : PrepareKeys, embedding_model : Nat, state : PreparationStates,
                attempt_no : Nat, leased : BOOLEAN, expired : BOOLEAN, documents : BOOLEAN]
Call == [pc : Phases, idempotency_key : Keys, changes : Manifest, initialize_empty : BOOLEAN,
         publication_revision : Nat, current_snapshot_id : Nat, manifest : Manifest,
         prepared_id : Nat, claim : Nat]

(* A finished or aborted call leaves a well-formed idle caller.             *)
LEMMA IdleType == Idle \in Call /\ Idle.pc = "idle"
  BY CardsAssumption DEF Idle, Call, Keys, Nothing, Manifest, Phases

(* current_manifest reads a manifest.                                       *)
LEMMA ManifestType == TypeOK => current_manifest \in Manifest
  BY DEF TypeOK, current_manifest, Manifest

(* Returning keeps the callers well formed.                                 *)
LEMMA ReturnType ==
  ASSUME TypeOK, NEW p \in Procs, Return(p)
  PROVE  call' \in [Procs -> Call]
  BY IdleType DEF TypeOK, Return, Call

(* Starting a request keeps the callers well formed.                        *)
LEMMA BeginType ==
  ASSUME TypeOK, NEW p \in Procs, NEW key \in Keys, NEW changes \in Manifest,
         NEW empty \in BOOLEAN, Begin(p, key, changes, empty)
  PROVE  call' \in [Procs -> Call]
  BY IdleType DEF TypeOK, Begin, Call, Phases, Idle

(* One row of the preparation table changes to a well-formed row.           *)
LEMMA RowType ==
  ASSUME preparations \in Seq(Preparation), NEW i \in DOMAIN preparations, NEW r \in Preparation
  PROVE  [preparations EXCEPT ![i] = r] \in Seq(Preparation)
  BY ExceptSeq
----------------------------------------------------------------------------
(* A caller that embeds or commits names an existing preparation.           *)
PreparationKnown ==
    \A p \in Procs : call[p].pc \in {"embed", "commit"} =>
        call[p].prepared_id \in DOMAIN preparations

TypeInv == TypeOK /\ PreparationKnown

(* A step that writes only callers and preparations is well typed when what *)
(* it writes is.                                                            *)
LEMMA PrivateType ==
  ASSUME TypeOK, Private, call' \in [Procs -> Call], preparations' \in Seq(Preparation)
  PROVE  TypeOK'
  BY DEF TypeOK, Private, cardVars, publicVars, clockVars, Call, Preparation

(* Rows are never removed, so a known preparation stays known when the step *)
(* of p leaves the other callers alone and p itself idle or elsewhere.      *)
LEMMA KnownStep ==
  ASSUME PreparationKnown, NEW p \in Procs,
         DOMAIN preparations \subseteq DOMAIN preparations',
         \A q \in Procs \ {p} : call'[q] = call[q],
         call'[p].pc \in {"embed", "commit"} => call'[p].prepared_id \in DOMAIN preparations'
  PROVE  PreparationKnown'
  BY DEF PreparationKnown

LEMMA InitType == Init => TypeInv
  <1> SUFFICES ASSUME Init PROVE TypeInv
    OBVIOUS
  <1>1. call \in [Procs -> Call] /\ \A p \in Procs : call[p].pc = "idle"
    BY IdleType DEF Init
  <1>2. snapshots \in Seq(Snapshot) /\ preparations \in Seq(Preparation)
    BY EmptySeq DEF Init
  <1>3. status \in [Cards -> Statuses] /\ draft \in [Cards -> Nat] /\ published \in [Cards -> Nat]
    BY DEF Init, Statuses
  <1> QED
    BY <1>1, <1>2, <1>3 DEF Init, TypeInv, TypeOK, PreparationKnown, Call, Snapshot, Preparation

(* Starting a request is well typed and keeps prepared ids known.           *)
LEMMA BeginStep ==
  ASSUME TypeInv, NEW p \in Procs, NEW key \in Keys, NEW changes \in Manifest,
         NEW empty \in BOOLEAN, Begin(p, key, changes, empty), UNCHANGED preparations
  PROVE  call' \in [Procs -> Call] /\ PreparationKnown'
  <1>1. call' \in [Procs -> Call]
    BY BeginType DEF TypeInv
  <1>2. call'[p].pc = "operation" /\ \A q \in Procs \ {p} : call'[q] = call[q]
    BY DEF Begin, TypeInv, TypeOK, Idle
  <1> QED
    BY <1>1, <1>2, KnownStep DEF TypeInv

(* Review requests: the caller and the card change.                         *)
LEMMA ReviewType ==
  ASSUME TypeInv, NEW p \in Procs, NEW c \in Cards,
         approve_card(p, c) \/ exclude_card(p, c) \/ restore_card(p, c)
  PROVE  TypeInv'
  <1>1. CASE approve_card(p, c)
    <2>1. ApproveKey(c) \in Keys /\ [Nothing EXCEPT ![c] = draft[c]] \in Manifest
      BY DEF TypeInv, TypeOK, ApproveKey, Keys, Nothing, Manifest
    <2>2. call' \in [Procs -> Call] /\ PreparationKnown'
      BY <1>1, <2>1, BeginStep DEF approve_card
    <2> QED
      BY <1>1, <2>2 DEF approve_card, TypeInv, TypeOK, cardVars, publicVars, clockVars, Call
  <1>2. CASE exclude_card(p, c)
    <2>1. RepublishKey("exclude", c) \in Keys /\ Nothing \in Manifest
      BY DEF TypeInv, TypeOK, RepublishKey, Keys, Nothing, Manifest
    <2>2. call' \in [Procs -> Call] /\ PreparationKnown'
      <3>1. CASE published[c] # 0
        BY <1>2, <2>1, <3>1, BeginStep DEF exclude_card
      <3>2. CASE published[c] = 0
        BY <1>2, <3>2 DEF exclude_card, TypeInv, TypeOK, PreparationKnown, Call
      <3> QED
        BY <3>1, <3>2
    <2>3. status' \in [Cards -> Statuses] /\ visibility_events' \in Nat
      BY <1>2 DEF exclude_card, TypeInv, TypeOK, Statuses
    <2> QED
      BY <1>2, <2>2, <2>3 DEF exclude_card, TypeInv, TypeOK, publicVars, clockVars, Call
  <1>3. CASE restore_card(p, c)
    <2>1. RepublishKey("restore", c) \in Keys /\ Nothing \in Manifest
      BY DEF TypeInv, TypeOK, RepublishKey, Keys, Nothing, Manifest
    <2>2. call' \in [Procs -> Call] /\ PreparationKnown'
      <3>1. CASE published[c] # 0
        BY <1>3, <2>1, <3>1, BeginStep DEF restore_card
      <3>2. CASE published[c] = 0
        BY <1>3, <3>2 DEF restore_card, TypeInv, TypeOK, PreparationKnown, Call
      <3> QED
        BY <3>1, <3>2
    <2>3. /\ status' \in [Cards -> Statuses] /\ visibility_events' \in Nat
          /\ restored' \subseteq Cards
      BY <1>3 DEF restore_card, TypeInv, TypeOK, Statuses
    <2> QED
      BY <1>3, <2>2, <2>3 DEF restore_card, TypeInv, TypeOK, publicVars, clockVars, Call
  <1> QED
    BY <1>1, <1>2, <1>3

(* Requests that touch no card row: bootstrap, initial publication and the  *)
(* approval of a proposal.                                                  *)
LEMMA OtherRequestType ==
  ASSUME TypeInv, NEW p \in Procs,
         \/ bootstrap_store_index(p) \/ ensure_initial_publication(p)
         \/ \E q \in Proposals : approve_owner_proposal(p, q)
  PROVE  TypeInv'
  <1>1. CASE bootstrap_store_index(p)
    <2>1. Nothing \in Manifest
          /\ [kind |-> "bootstrap", card |-> NoCard, id |-> publication.publication_revision] \in Keys
      BY DEF TypeInv, TypeOK, Keys, Nothing, Manifest
    <2>2. call' \in [Procs -> Call] /\ PreparationKnown'
      BY <1>1, <2>1, BeginStep DEF bootstrap_store_index
    <2> QED
      BY <1>1, <2>2 DEF bootstrap_store_index, TypeInv, TypeOK, cardVars, publicVars, clockVars, Call
  <1>2. CASE ensure_initial_publication(p)
    <2>1. Nothing \in Manifest /\ [kind |-> "initial", card |-> NoCard, id |-> 0] \in Keys
      BY DEF Keys, Nothing, Manifest
    <2>2. call' \in [Procs -> Call] /\ PreparationKnown'
      BY <1>2, <2>1, BeginStep DEF ensure_initial_publication
    <2> QED
      BY <1>2, <2>2 DEF ensure_initial_publication, TypeInv, TypeOK, cardVars, publicVars,
                        clockVars, Call
  <1>3. ASSUME NEW q \in Proposals, approve_owner_proposal(p, q)
        PROVE  TypeInv'
    <2>1. ProposalChanges(q) \in Manifest /\ [kind |-> "proposal", card |-> NoCard, id |-> q] \in Keys
      BY ProposalsAssumption DEF TypeInv, TypeOK, ProposalChanges, Keys, Manifest
    <2>2. call' \in [Procs -> Call] /\ PreparationKnown'
      BY <1>3, <2>1, BeginStep DEF approve_owner_proposal
    <2> QED
      BY <1>3, <2>2 DEF approve_owner_proposal, TypeInv, TypeOK, cardVars, publicVars,
                        clockVars, Call
  <1> QED
    BY <1>1, <1>2, <1>3

(* A coordinator step that ends the call or leaves it short of the          *)
(* preparation, without touching the database.                              *)
LEMMA ReadStepType ==
  ASSUME TypeInv, NEW p \in Procs, Private, UNCHANGED preparations,
         call' \in [Procs -> Call], \A q \in Procs \ {p} : call'[q] = call[q],
         call'[p].pc \in {"embed", "commit"} => call'[p].prepared_id \in DOMAIN preparations
  PROVE  TypeInv'
  BY PrivateType, KnownStep DEF TypeInv, TypeOK, Preparation

(* Returning without touching the database.                                 *)
LEMMA ReturnStepType ==
  ASSUME TypeInv, NEW p \in Procs, Private, UNCHANGED preparations, Return(p)
  PROVE  TypeInv'
  <1>1. call'[p].pc = "idle" /\ \A q \in Procs \ {p} : call'[q] = call[q]
    BY IdleType DEF Return, TypeInv, TypeOK
  <1> QED
    BY <1>1, ReturnType, ReadStepType DEF TypeInv

(* A caller whose record moves to another well-formed one.                  *)
LEMMA MoveType ==
  ASSUME TypeInv, NEW p \in Procs, Private, UNCHANGED preparations,
         NEW r \in Call, call' = [call EXCEPT ![p] = r],
         r.pc \in {"embed", "commit"} => r.prepared_id \in DOMAIN preparations
  PROVE  TypeInv'
  <1>1. call' \in [Procs -> Call] /\ call'[p] = r /\ \A q \in Procs \ {p} : call'[q] = call[q]
    BY DEF TypeInv, TypeOK, Call
  <1> QED
    BY <1>1, ReadStepType

(* The reads of steps 0 and 1.                                              *)
LEMMA ReadType ==
  ASSUME TypeInv, NEW p \in Procs,
         read_operation(p) \/ read_publication(p) \/ read_cards(p) \/ read_manifest(p)
  PROVE  TypeInv'
  <1>0. call[p] \in Call
    BY DEF TypeInv, TypeOK, Call
  <1>1. ASSUME read_operation(p), ~Return(p)
        PROVE  TypeInv'
    <2> DEFINE r == [call[p] EXCEPT !.pc = "publication"]
    <2>1. r \in Call /\ r.pc = "publication"
      BY <1>0 DEF Call, Phases
    <2>2. call' = [call EXCEPT ![p] = r]
      BY <1>1 DEF read_operation
    <2> HIDE DEF r
    <2> QED
      BY <1>1, <2>1, <2>2, MoveType DEF read_operation
  <1>2. ASSUME read_publication(p)
        PROVE  TypeInv'
    <2> DEFINE r == [call[p] EXCEPT !.publication_revision = publication.publication_revision,
                                    !.current_snapshot_id = publication.current_snapshot_id,
                                    !.pc = IF Listed(call[p].changes) # {} THEN "cards"
                                                                           ELSE "manifest"]
    <2>1. r \in Call /\ r.pc \in {"cards", "manifest"}
      BY <1>0 DEF Call, Phases, TypeInv, TypeOK
    <2>2. call' = [call EXCEPT ![p] = r]
      BY <1>2 DEF read_publication
    <2> HIDE DEF r
    <2> QED
      BY <1>2, <2>1, <2>2, MoveType DEF read_publication
  <1>3. ASSUME read_cards(p), ~Return(p)
        PROVE  TypeInv'
    <2> DEFINE r == [call[p] EXCEPT !.pc = "manifest"]
    <2>1. r \in Call /\ r.pc = "manifest"
      BY <1>0 DEF Call, Phases
    <2>2. call' = [call EXCEPT ![p] = r]
      BY <1>3 DEF read_cards
    <2> HIDE DEF r
    <2> QED
      BY <1>3, <2>1, <2>2, MoveType DEF read_cards
  <1>4. ASSUME read_manifest(p), ~Return(p)
        PROVE  TypeInv'
    <2> DEFINE r == [call[p] EXCEPT !.manifest = check_cards(Overlaid(p)), !.pc = "prepare"]
    <2>1. check_cards(Overlaid(p)) \in Manifest
      BY <1>0, ManifestType DEF check_cards, Overlaid, Manifest, Call, TypeInv
    <2>2. r \in Call /\ r.pc = "prepare"
      BY <1>0, <2>1 DEF Call, Phases
    <2>3. call' = [call EXCEPT ![p] = r]
      BY <1>4 DEF read_manifest
    <2> HIDE DEF r
    <2> QED
      BY <1>4, <2>2, <2>3, MoveType DEF read_manifest
  <1>5. CASE Return(p)
    BY <1>2, <1>5, ReturnStepType DEF read_operation, read_cards, read_manifest
  <1> QED
    BY <1>1, <1>2, <1>3, <1>4, <1>5

(* Changing, or appending, one well-formed row and moving one caller.       *)
LEMMA RowStepType ==
  ASSUME TypeInv, NEW p \in Procs, Private, NEW r \in Call,
         call' = [call EXCEPT ![p] = r],
         \/ \E i \in DOMAIN preparations : \E row \in Preparation :
               preparations' = [preparations EXCEPT ![i] = row]
         \/ \E row \in Preparation : preparations' = Append(preparations, row),
         r.pc \in {"embed", "commit"} => r.prepared_id \in DOMAIN preparations'
  PROVE  TypeInv'
  <1>1. preparations \in Seq(Preparation)
    BY DEF TypeInv, TypeOK, Preparation
  <1>2. preparations' \in Seq(Preparation) /\ DOMAIN preparations \subseteq DOMAIN preparations'
    <2>1. ASSUME NEW i \in DOMAIN preparations, NEW row \in Preparation,
                 preparations' = [preparations EXCEPT ![i] = row]
          PROVE  preparations' \in Seq(Preparation) /\ DOMAIN preparations' = DOMAIN preparations
      BY <1>1, <2>1, RowType
    <2>2. ASSUME NEW row \in Preparation, preparations' = Append(preparations, row)
          PROVE  /\ preparations' \in Seq(Preparation)
                 /\ DOMAIN preparations \subseteq DOMAIN preparations'
      BY <1>1, <2>2, AppendProperties
    <2> QED
      BY <2>1, <2>2
  <1>3. call' \in [Procs -> Call] /\ call'[p] = r /\ \A q \in Procs \ {p} : call'[q] = call[q]
    BY DEF TypeInv, TypeOK, Call
  <1>4. TypeOK'
    BY <1>2, <1>3, PrivateType DEF TypeInv
  <1>5. PreparationKnown'
    BY <1>2, <1>3, KnownStep DEF TypeInv
  <1> QED
    BY <1>4, <1>5 DEF TypeInv

(* The claim transaction of prepare_index.                                  *)
LEMMA PrepareType ==
  ASSUME TypeInv, NEW p \in Procs,
         \/ ReusePreparation(p) \/ ReclaimPreparation(p)
         \/ InsertPreparation(p) \/ PreparationRefused(p)
  PROVE  TypeInv'
  <1>0. call[p] \in Call /\ preparations \in Seq(Preparation) /\ embedding_model \in Nat
    BY DEF TypeInv, TypeOK, Call, Preparation
  <1>1. CASE ReusePreparation(p)
    <2>1. PICK i \in RowsOf(prepare_key(p)) :
             call' = [call EXCEPT ![p].prepared_id = i, ![p].pc = "commit"]
      BY <1>1 DEF ReusePreparation
    <2> DEFINE r == [call[p] EXCEPT !.prepared_id = i, !.pc = "commit"]
    <2>2. i \in DOMAIN preparations /\ i \in Nat
      BY <1>0 DEF RowsOf
    <2>3. r \in Call /\ r.prepared_id = i
      BY <1>0, <2>2 DEF Call, Phases
    <2>4. call' = [call EXCEPT ![p] = r]
      BY <2>1
    <2> HIDE DEF r
    <2> QED
      BY <1>1, <2>2, <2>3, <2>4, MoveType DEF ReusePreparation
  <1>2. CASE ReclaimPreparation(p)
    <2>1. PICK i \in RowsOf(prepare_key(p)) :
             /\ preparations' = [preparations EXCEPT ![i] =
                                   [@ EXCEPT !.attempt_no = preparations[i].attempt_no + 1,
                                             !.leased = TRUE]]
             /\ call' = [call EXCEPT ![p].prepared_id = i, ![p].pc = "embed",
                                     ![p].claim = preparations[i].attempt_no + 1]
      BY <1>2 DEF ReclaimPreparation
    <2>2. i \in DOMAIN preparations /\ i \in Nat /\ preparations[i] \in Preparation
      BY <1>0, ElementOfSeq DEF RowsOf
    <2> DEFINE n == preparations[i].attempt_no + 1
               r == [call[p] EXCEPT !.prepared_id = i, !.pc = "embed", !.claim = n]
               row == [preparations[i] EXCEPT !.attempt_no = n, !.leased = TRUE]
    <2>n. n \in Nat
      BY <2>2 DEF Preparation
    <2>r. call' = [call EXCEPT ![p] = r]
      BY <2>1
    <2>p. preparations' = [preparations EXCEPT ![i] = row]
      BY <2>1
    <2> HIDE DEF n
    <2>3. r \in Call /\ r.prepared_id = i
      BY <1>0, <2>2, <2>n DEF Call, Phases
    <2>4. row \in Preparation
      BY <2>2, <2>n DEF Preparation
    <2> HIDE DEF r, row
    <2>6. i \in DOMAIN preparations'
      BY <2>2, <2>p
    <2> QED
      BY <1>2, <2>2, <2>3, <2>4, <2>r, <2>p, <2>6, RowStepType DEF ReclaimPreparation
  <1>3. CASE InsertPreparation(p)
    <2> DEFINE n == Len(preparations) + 1
    <2>n. n \in Nat /\ 1 \in Nat
      BY <1>0
    <2>c. call' = [call EXCEPT ![p].prepared_id = n, ![p].pc = "embed", ![p].claim = 1]
      BY <1>3 DEF InsertPreparation
    <2> HIDE DEF n
    <2> DEFINE r == [call[p] EXCEPT !.prepared_id = n, !.pc = "embed", !.claim = 1]
               row == [key |-> prepare_key(p), embedding_model |-> embedding_model,
                       state |-> "PREPARING", attempt_no |-> 1, leased |-> TRUE,
                       expired |-> FALSE, documents |-> FALSE]
    <2>1. prepare_key(p) \in PrepareKeys
      BY <1>0 DEF prepare_key, expected_publication_revision, PrepareKeys, Call, TypeInv, TypeOK
    <2>2. row \in Preparation
      BY <1>0, <2>1 DEF Preparation, PreparationStates
    <2>3. r \in Call /\ r.prepared_id = n
      BY <1>0, <2>n DEF Call, Phases
    <2>4. call' = [call EXCEPT ![p] = r] /\ preparations' = Append(preparations, row)
      BY <1>3, <2>c DEF InsertPreparation
    <2> HIDE DEF r, row
    <2>5. n \in DOMAIN preparations'
      BY <1>0, <2>2, <2>4, AppendProperties DEF n
    <2> QED
      BY <1>3, <2>2, <2>3, <2>4, <2>5, RowStepType DEF InsertPreparation
  <1>4. CASE PreparationRefused(p)
    BY <1>4, ReturnStepType DEF PreparationRefused
  <1> QED
    BY <1>1, <1>2, <1>3, <1>4

(* The completion of the embedding.                                         *)
LEMMA EmbedType ==
  ASSUME TypeInv, NEW p \in Procs, FinishEmbedding(p) \/ FailEmbedding(p)
  PROVE  TypeInv'
  <1> DEFINE i == call[p].prepared_id
  <1>0. /\ call[p] \in Call /\ preparations \in Seq(Preparation)
        /\ i \in DOMAIN preparations /\ preparations[i] \in Preparation
    <2>1. call[p].pc = "embed"
      BY DEF FinishEmbedding, FailEmbedding
    <2>2. call[p] \in Call /\ preparations \in Seq(Preparation)
      BY DEF TypeInv, TypeOK, Call, Preparation
    <2> QED
      BY <2>1, <2>2, ElementOfSeq DEF TypeInv, PreparationKnown
  <1>1. CASE FinishEmbedding(p)
    <2>1. CASE ~(Owns(p) /\ ~preparations[i].expired)
      BY <1>1, <2>1, ReturnStepType DEF FinishEmbedding
    <2>2. CASE Owns(p) /\ ~preparations[i].expired
      <3> DEFINE r == [call[p] EXCEPT !.pc = "commit"]
                 row == [preparations[i] EXCEPT !.state = "PREPARED", !.documents = TRUE]
      <3>1. call' = [call EXCEPT ![p] = r] /\ preparations' = [preparations EXCEPT ![i] = row]
        BY <1>1, <2>2 DEF FinishEmbedding
      <3>2. row \in Preparation
        BY <1>0 DEF Preparation, PreparationStates
      <3>3. r \in Call /\ r.prepared_id = i
        BY <1>0 DEF Call, Phases
      <3> HIDE DEF r, row
      <3>4. i \in DOMAIN preparations'
        BY <1>0, <3>1
      <3> QED
        BY <1>0, <1>1, <3>1, <3>2, <3>3, <3>4, RowStepType DEF FinishEmbedding
    <2> QED
      BY <2>1, <2>2
  <1>2. CASE FailEmbedding(p)
    <2>1. CASE ~Owns(p)
      BY <1>2, <2>1, ReturnStepType DEF FailEmbedding
    <2>2. CASE Owns(p)
      <3> DEFINE row == [preparations[i] EXCEPT !.state = "FAILED"]
      <3>1. preparations' = [preparations EXCEPT ![i] = row]
        BY <1>2, <2>2 DEF FailEmbedding
      <3>2. row \in Preparation
        BY <1>0 DEF Preparation, PreparationStates
      <3>3. call' = [call EXCEPT ![p] = Idle] /\ Private
        BY <1>2 DEF FailEmbedding, Return
      <3> HIDE DEF row
      <3> QED
        BY <1>0, <3>1, <3>2, <3>3, IdleType, RowStepType
    <2> QED
      BY <2>1, <2>2
  <1> QED
    BY <1>1, <1>2

(* The publish transaction.                                                 *)
LEMMA CommitType ==
  ASSUME TypeInv, NEW p \in Procs, Commit(p)
  PROVE  TypeInv'
  <1> DEFINE i == call[p].prepared_id
             row == [preparations[i] EXCEPT !.state = "CONSUMED"]
             revision == publication.knowledge_revision + 1
             id == Len(snapshots) + 1
  <1>0. /\ call[p] \in Call /\ preparations \in Seq(Preparation)
        /\ i \in DOMAIN preparations /\ preparations[i] \in Preparation
    <2>1. call[p].pc = "commit"
      BY DEF Commit
    <2>2. call[p] \in Call /\ preparations \in Seq(Preparation)
      BY DEF TypeInv, TypeOK, Call, Preparation
    <2> QED
      BY <2>1, <2>2, ElementOfSeq DEF TypeInv, PreparationKnown
  <1>1. preparations' \in Seq(Preparation) /\ DOMAIN preparations' = DOMAIN preparations
    <2>1. preparations' = [preparations EXCEPT ![i] = row]
      BY DEF Commit, Activated
    <2>2. row \in Preparation
      BY <1>0 DEF Preparation, PreparationStates
    <2> HIDE DEF row
    <2> QED
      BY <1>0, <2>1, <2>2, RowType
  <1>2. call' \in [Procs -> Call] /\ PreparationKnown'
    <2>1. call'[p].pc = "idle" /\ \A q \in Procs \ {p} : call'[q] = call[q]
      BY IdleType DEF Commit, Return, TypeInv, TypeOK
    <2>2. Return(p)
      BY DEF Commit
    <2> QED
      BY <1>1, <2>1, <2>2, ReturnType, KnownStep DEF TypeInv
  <1>3. revision \in Nat /\ id \in Nat /\ i \in Nat /\ publication.publication_revision + 1 \in Nat
    <2>1. snapshots \in Seq(Snapshot) /\ publication.knowledge_revision \in Nat
          /\ publication.publication_revision \in Nat
      BY DEF TypeInv, TypeOK, Snapshot
    <2> QED
      BY <1>0, <2>1
  <1>4. snapshots' \in Seq(Snapshot)
    <2>1. snapshots \in Seq(Snapshot)
      BY DEF TypeInv, TypeOK, Snapshot
    <2>2. [knowledge_revision |-> revision, manifest |-> call[p].manifest] \in Snapshot
      BY <1>0, <1>3 DEF Snapshot, Call
    <2>3. snapshots' = Append(snapshots, [knowledge_revision |-> revision,
                                          manifest |-> call[p].manifest])
      BY DEF Commit, publish_knowledge
    <2> QED
      BY <2>1, <2>2, <2>3, AppendProperties
  <1>5. /\ publication' \in [publication_revision : Nat, knowledge_revision : Nat,
                             current_snapshot_id : Nat]
        /\ outbox' \subseteq [aggregate_id : Nat, knowledge_revision : Nat]
        /\ operations' \subseteq [idempotency_key : Keys, body : Manifest, snapshot_id : Nat]
        /\ index_publications' \subseteq [snapshot_id : Nat, prepared_id : Nat]
    <2> HIDE DEF revision, id, i
    <2>1. /\ publication' = [publication_revision |-> publication.publication_revision + 1,
                             knowledge_revision |-> revision, current_snapshot_id |-> id]
          /\ outbox' = outbox \cup {[aggregate_id |-> id, knowledge_revision |-> revision]}
          /\ operations' = operations \cup {[idempotency_key |-> call[p].idempotency_key,
                                             body |-> call[p].changes, snapshot_id |-> id]}
          /\ index_publications' = index_publications \cup {[snapshot_id |-> id, prepared_id |-> i]}
      BY DEF Commit, publish_knowledge, revision, id, i
    <2>2. /\ outbox \subseteq [aggregate_id : Nat, knowledge_revision : Nat]
          /\ operations \subseteq [idempotency_key : Keys, body : Manifest, snapshot_id : Nat]
          /\ index_publications \subseteq [snapshot_id : Nat, prepared_id : Nat]
      BY DEF TypeInv, TypeOK
    <2>3. revision \in Nat /\ id \in Nat /\ i \in Nat
          /\ call[p].idempotency_key \in Keys /\ call[p].changes \in Manifest
      BY <1>0, <1>3 DEF Call, revision, id, i
    <2> QED
      BY <1>3, <2>1, <2>2, <2>3
  <1>6. status' \in [Cards -> Statuses] /\ published' \in [Cards -> Nat]
    BY <1>0 DEF Commit, mark_published, Statuses, Call, Manifest, TypeInv, TypeOK
  <1>7. /\ proposal' \in [Proposals -> {"PENDING_REVIEW", "PUBLISHED", "DISMISSED"}]
        /\ restored' \subseteq Cards
    BY DEF Commit, TypeInv, TypeOK
  <1>8. UNCHANGED <<draft, visibility_events, window, embedding_model>>
    BY DEF Commit, clockVars
  <1> QED
    BY <1>1, <1>2, <1>4, <1>5, <1>6, <1>7, <1>8 DEF TypeInv, TypeOK, Call, Preparation, Snapshot

(* Everything a caller of publish_cards does.                               *)
LEMMA CoordinateType ==
  ASSUME TypeInv, NEW p \in Procs, Coordinate(p)
  PROVE  TypeInv'
  <1>1. CASE RejectCommit(p) \/ Crash(p)
    BY <1>1, ReturnStepType DEF RejectCommit, Crash
  <1> QED
    BY <1>1, ReadType, PrepareType, EmbedType, CommitType DEF Coordinate

(* Card edits, the resolution of proposals, clocks and deployments.         *)
LEMMA EnvironmentType ==
  ASSUME TypeInv,
         \/ \E c \in Cards : WriteDraft(c)
         \/ \E q \in Proposals : close_already_published(q) \/ dismiss_knowledge_proposal(q)
         \/ WindowPasses \/ DeployModel
  PROVE  TypeInv'
  <1>1. ASSUME NEW c \in Cards, WriteDraft(c) PROVE TypeInv'
    <2>1. draft' \in [Cards -> Nat] /\ status' \in [Cards -> Statuses]
      BY <1>1 DEF WriteDraft, TypeInv, TypeOK, Statuses
    <2> QED
      BY <1>1, <2>1 DEF WriteDraft, TypeInv, TypeOK, PreparationKnown, publicVars, clockVars
  <1>2. ASSUME NEW q \in Proposals, close_already_published(q) \/ dismiss_knowledge_proposal(q)
        PROVE  TypeInv'
    <2>1. proposal' \in [Proposals -> {"PENDING_REVIEW", "PUBLISHED", "DISMISSED"}]
      BY <1>2 DEF close_already_published, dismiss_knowledge_proposal, TypeInv, TypeOK
    <2> QED
      BY <1>2, <2>1 DEF close_already_published, dismiss_knowledge_proposal, TypeInv, TypeOK,
                        PreparationKnown, cardVars, publicVars, clockVars
  <1>3. CASE WindowPasses
    BY <1>3 DEF WindowPasses, TypeInv, TypeOK, PreparationKnown, cardVars, publicVars
  <1>4. CASE DeployModel
    <2>1. call' \in [Procs -> Call] /\ \A p \in Procs : call'[p].pc = "idle"
      BY <1>4, IdleType DEF DeployModel
    <2>2. embedding_model' \in Nat
      BY <1>4 DEF DeployModel, TypeInv, TypeOK
    <2>3. PreparationKnown'
      BY <2>1 DEF PreparationKnown
    <2>4. TypeOK'
      BY <1>4, <2>1, <2>2 DEF DeployModel, TypeInv, TypeOK, cardVars, publicVars, Call
    <2> QED
      BY <2>3, <2>4 DEF TypeInv
  <1> QED
    BY <1>1, <1>2, <1>3, <1>4

(* Maintenance changes a flag of one preparation.                           *)
LEMMA MaintenanceType ==
  ASSUME TypeInv, NEW i \in DOMAIN preparations,
         LeaseExpires(i) \/ PreparationExpires(i) \/ PurgeDocuments(i)
  PROVE  TypeInv'
  <1>0. preparations \in Seq(Preparation) /\ preparations[i] \in Preparation
    <2>1. preparations \in Seq(Preparation)
      BY DEF TypeInv, TypeOK, Preparation
    <2> QED
      BY <2>1, ElementOfSeq
  <1>1. PICK row \in Preparation : preparations' = [preparations EXCEPT ![i] = row]
    <2>1. /\ [preparations[i] EXCEPT !.leased = FALSE] \in Preparation
          /\ [preparations[i] EXCEPT !.expired = TRUE] \in Preparation
          /\ [preparations[i] EXCEPT !.documents = FALSE] \in Preparation
      BY <1>0 DEF Preparation
    <2> QED
      BY <2>1 DEF LeaseExpires, PreparationExpires, PurgeDocuments
  <1>2. preparations' \in Seq(Preparation) /\ DOMAIN preparations' = DOMAIN preparations
    BY <1>0, <1>1, RowType
  <1>3. Private /\ UNCHANGED call
    BY DEF LeaseExpires, PreparationExpires, PurgeDocuments, Private
  <1>4. call' \in [Procs -> Call]
    BY <1>3 DEF TypeInv, TypeOK, Call
  <1>5. TypeOK'
    BY <1>2, <1>3, <1>4, PrivateType DEF TypeInv
  <1> QED
    BY <1>2, <1>3, <1>5 DEF TypeInv, PreparationKnown

(* TypeInv is inductive.                                                    *)
LEMMA StepType ==
  ASSUME TypeInv, [Next]_vars
  PROVE  TypeInv'
  <1>1. CASE UNCHANGED vars
    BY <1>1 DEF vars, TypeInv, TypeOK, PreparationKnown
  <1> QED
    BY <1>1, ReviewType, OtherRequestType, CoordinateType, EnvironmentType, MaintenanceType
       DEF Next

(* Every reachable state is well typed, and a caller that embeds or commits *)
(* names a preparation that exists.                                         *)
THEOREM TypeCorrect == Spec => [](TypeOK /\ PreparationKnown)
  <1>1. TypeInv => TypeOK /\ PreparationKnown
    BY DEF TypeInv
  <1> QED
    BY <1>1, InitType, StepType, PTL DEF Spec
=============================================================================
