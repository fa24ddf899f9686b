------------------------- MODULE PublicationSafety -------------------------
(***************************************************************************)
(* The safety properties of publishing, for any cards, callers, proposals   *)
(* and bounds.                                                              *)
(*                                                                          *)
(* Why it loses no approved card although publish_cards reads the           *)
(* publication, the cards and the manifest in separate statements: a        *)
(* manifest read after the revision covers every approved card for as long  *)
(* as that revision is current, and only such a manifest commits.  Then     *)
(* that the index of the current snapshot is there, that keys identify      *)
(* their requests, and that all of it implements the register of            *)
(* PublicKnowledge.                                                         *)
(***************************************************************************)
EXTENDS PublicationProofs

(* Where a caller holds a manifest.                                         *)
Manifested == {"prepare", "embed", "commit"}

(* The manifest of a call lists every approved publishable card, or the     *)
(* card was restored and no snapshot has listed it since.                   *)
Covers(p) == \A c \in Cards :
    status[c] = "APPROVED" /\ Publishable(c, published[c])
        => call[p].manifest[c] # 0 \/ c \in restored

(* What every call knows: a revision of the past, a manifest that holds its *)
(* changes, and full coverage while the revision it read is still current.  *)
Sound(p) ==
    /\ call[p].publication_revision <= publication.publication_revision
    /\ call[p].pc \in Manifested =>
          /\ \A c \in Cards : call[p].changes[c] # 0
                                 => call[p].manifest[c] = call[p].changes[c]
          /\ call[p].publication_revision = publication.publication_revision => Covers(p)

PointerIsLatest == publication.current_snapshot_id = Len(snapshots)
ApprovedHasPointer == \A c \in Cards : status[c] = "APPROVED" => published[c] # 0

SafeInv == /\ PointerIsLatest /\ ApprovedHasPointer
           /\ \A p \in Procs : Sound(p)
           /\ ApprovedIsServed

LEMMA InitSafe == Init => SafeInv
  <1> SUFFICES ASSUME Init PROVE SafeInv
    OBVIOUS
  <1>1. \A p \in Procs : call[p].pc = "idle" /\ call[p].publication_revision = 0
    BY DEF Init, Idle
  <1>2. publication.publication_revision = 0 /\ publication.current_snapshot_id = 0
        /\ snapshots = <<>>
    BY DEF Init
  <1>3. ApprovedHasPointer
    BY DEF Init, ApprovedHasPointer
  <1> QED
    BY <1>1, <1>2, <1>3 DEF SafeInv, PointerIsLatest, Sound, Manifested, ApprovedIsServed
----------------------------------------------------------------------------
(* A step may leave a call as it is, take it out of (or keep it from) the   *)
(* phases that hold a manifest, or move it between those phases.            *)
Unmoved(q) == call'[q] = call[q]
Released(q) == /\ call'[q].pc \notin Manifested
               /\ call'[q].publication_revision <= publication.publication_revision
Carried(q) == /\ call[q].pc \in Manifested
              /\ call'[q].changes = call[q].changes /\ call'[q].manifest = call[q].manifest
              /\ call'[q].publication_revision = call[q].publication_revision

(* No card becomes approved but a restored one, and pointers stay.          *)
NothingApproved ==
    /\ restored \subseteq restored'
    /\ \A c \in Cards : status'[c] = "APPROVED" =>
          /\ published'[c] = published[c] /\ published[c] # 0
          /\ status[c] = "APPROVED" \/ c \in restored'

(* Steps that publish nothing preserve the invariant.                       *)
LEMMA QuietStep ==
  ASSUME TypeInv, SafeInv, UNCHANGED <<publication, snapshots>>, NothingApproved,
         \A q \in Procs : Unmoved(q) \/ Released(q) \/ Carried(q) \/ Sound(q)'
  PROVE  SafeInv'
  <1>1. PointerIsLatest' /\ ApprovedHasPointer'
    BY DEF SafeInv, PointerIsLatest, ApprovedHasPointer, NothingApproved
  <1>2. ASSUME NEW q \in Procs PROVE Sound(q)'
    <2>1. CASE Unmoved(q) \/ Carried(q)
      BY <2>1 DEF SafeInv, Sound, Covers, Unmoved, Carried, NothingApproved
    <2>2. CASE Released(q)
      BY <2>2 DEF Sound, Released
    <2> QED
      BY <2>1, <2>2
  <1>3. ApprovedIsServed'
    BY DEF SafeInv, ApprovedIsServed, served, Nothing, NothingApproved
  <1> QED
    BY <1>1, <1>2, <1>3 DEF SafeInv

(* A step that leaves the cards alone approves nothing.                     *)
LEMMA CardsStay ==
  ASSUME SafeInv, UNCHANGED <<status, published, restored>>
  PROVE  NothingApproved
  BY DEF SafeInv, ApprovedHasPointer, NothingApproved

LEMMA RevisionNumber == TypeInv => publication.publication_revision \in Nat
  BY DEF TypeInv, TypeOK

(* Only the record of the stepping caller changes.                          *)
LEMMA OthersUnmoved ==
  ASSUME TypeInv, NEW p \in Procs, NEW r, call' = [call EXCEPT ![p] = r]
  PROVE  call'[p] = r /\ \A q \in Procs \ {p} : Unmoved(q)
  BY DEF TypeInv, TypeOK, Unmoved

(* Ending a call.                                                           *)
LEMMA ReturnSafe ==
  ASSUME TypeInv, SafeInv, NEW p \in Procs, Private, Return(p)
  PROVE  SafeInv'
  <1>1. Released(p) /\ \A q \in Procs \ {p} : Unmoved(q)
    <2>1. call'[p] = Idle /\ \A q \in Procs \ {p} : Unmoved(q)
      BY OthersUnmoved DEF Return
    <2> QED
      BY <2>1, RevisionNumber DEF Released, Idle, Manifested
  <1>2. UNCHANGED <<publication, snapshots, status, published, restored>>
    BY DEF Private, publicVars, cardVars
  <1> QED
    BY <1>1, <1>2, CardsStay, QuietStep

(* Beginning a call, which may exclude or restore a card.                   *)
LEMMA BeginSafe ==
  ASSUME TypeInv, SafeInv, NEW p \in Procs, NEW key, NEW changes, NEW empty,
         Begin(p, key, changes, empty) \/ UNCHANGED call,
         UNCHANGED publicVars, NothingApproved
  PROVE  SafeInv'
  <1>1. CASE Begin(p, key, changes, empty)
    <2>1. Released(p) /\ \A q \in Procs \ {p} : Unmoved(q)
      <3> DEFINE r == [Idle EXCEPT !.pc = "operation", !.idempotency_key = key,
                                   !.changes = changes, !.initialize_empty = empty]
      <3>1. call' = [call EXCEPT ![p] = r]
        BY <1>1 DEF Begin
      <3>2. r.pc = "operation" /\ r.publication_revision = 0
        BY DEF Idle
      <3> HIDE DEF r
      <3>3. call'[p] = r /\ \A q \in Procs \ {p} : Unmoved(q)
        BY <3>1, OthersUnmoved
      <3> QED
        BY <3>2, <3>3, RevisionNumber DEF Released, Manifested
    <2> QED
      BY <2>1, QuietStep DEF publicVars
  <1>2. CASE UNCHANGED call
    BY <1>2, QuietStep DEF publicVars, Unmoved
  <1> QED
    BY <1>1, <1>2

(* Every request.                                                           *)
LEMMA RequestSafe ==
  ASSUME TypeInv, SafeInv, NEW p \in Procs,
         \/ \E c \in Cards : approve_card(p, c) \/ exclude_card(p, c) \/ restore_card(p, c)
         \/ bootstrap_store_index(p) \/ ensure_initial_publication(p)
         \/ \E q \in Proposals : approve_owner_proposal(p, q)
  PROVE  SafeInv'
  <1>1. ASSUME NEW c \in Cards, approve_card(p, c) PROVE SafeInv'
    BY <1>1, BeginSafe, CardsStay DEF approve_card, cardVars
  <1>2. ASSUME NEW c \in Cards, exclude_card(p, c) PROVE SafeInv'
    <2>1. NothingApproved
      BY <1>2 DEF exclude_card, NothingApproved, SafeInv, ApprovedHasPointer, TypeInv, TypeOK
    <2> QED
      BY <1>2, <2>1, BeginSafe DEF exclude_card
  <1>3. ASSUME NEW c \in Cards, restore_card(p, c) PROVE SafeInv'
    <2>1. NothingApproved
      BY <1>3 DEF restore_card, NothingApproved, SafeInv, ApprovedHasPointer, TypeInv, TypeOK
    <2> QED
      BY <1>3, <2>1, BeginSafe DEF restore_card
  <1>4. CASE bootstrap_store_index(p)
    BY <1>4, BeginSafe, CardsStay DEF bootstrap_store_index, cardVars
  <1>5. CASE ensure_initial_publication(p)
    BY <1>5, BeginSafe, CardsStay DEF ensure_initial_publication, cardVars
  <1>6. ASSUME NEW q \in Proposals, approve_owner_proposal(p, q) PROVE SafeInv'
    BY <1>6, BeginSafe, CardsStay DEF approve_owner_proposal, cardVars
  <1> QED
    BY <1>1, <1>2, <1>3, <1>4, <1>5, <1>6
----------------------------------------------------------------------------
(* The reads: a call keeps no manifest until read_manifest builds one, and  *)
(* that one lists every approved publishable card.                          *)
LEMMA ReadSafe ==
  ASSUME TypeInv, SafeInv, NEW p \in Procs,
         read_operation(p) \/ read_publication(p) \/ read_cards(p) \/ read_manifest(p)
  PROVE  SafeInv'
  <1>0. /\ call[p] \in Call
        /\ call[p].publication_revision <= publication.publication_revision
        /\ publication.publication_revision \in Nat
    BY DEF TypeInv, TypeOK, Call, SafeInv, Sound
  <1>1. Private
    BY DEF read_operation, read_publication, read_cards, read_manifest
  <1>2. UNCHANGED <<publication, snapshots, status, published, restored>>
    BY <1>1 DEF Private, publicVars, cardVars
  <1>3. CASE Return(p)
    BY <1>1, <1>3, ReturnSafe
  <1>4. ASSUME read_operation(p) \/ read_publication(p) \/ read_cards(p), ~Return(p)
        PROVE  SafeInv'
    <2>1. PICK r : /\ call' = [call EXCEPT ![p] = r] /\ r.pc \notin Manifested
                   /\ \/ r.publication_revision = call[p].publication_revision
                      \/ r.publication_revision = publication.publication_revision
      <3>1. CASE read_operation(p)
        <4> DEFINE r == [call[p] EXCEPT !.pc = "publication"]
        <4>1. call' = [call EXCEPT ![p] = r]
          BY <1>4, <3>1 DEF read_operation
        <4>2. r.pc \notin Manifested /\ r.publication_revision = call[p].publication_revision
          BY <1>0 DEF Call, Manifested
        <4> QED
          BY <4>1, <4>2
      <3>2. CASE read_cards(p)
        <4> DEFINE r == [call[p] EXCEPT !.pc = "manifest"]
        <4>1. call' = [call EXCEPT ![p] = r]
          BY <1>4, <3>2 DEF read_cards
        <4>2. r.pc \notin Manifested /\ r.publication_revision = call[p].publication_revision
          BY <1>0 DEF Call, Manifested
        <4> QED
          BY <4>1, <4>2
      <3>3. CASE read_publication(p)
        <4> DEFINE r == [call[p] EXCEPT !.publication_revision = publication.publication_revision,
                            !.current_snapshot_id = publication.current_snapshot_id,
                            !.pc = IF Listed(call[p].changes) # {} THEN "cards" ELSE "manifest"]
        <4>1. call' = [call EXCEPT ![p] = r]
          BY <3>3 DEF read_publication
        <4>2. /\ r.pc \notin Manifested
              /\ r.publication_revision = publication.publication_revision
          BY <1>0 DEF Call, Manifested
        <4> QED
          BY <4>1, <4>2
      <3> QED
        BY <1>4, <3>1, <3>2, <3>3
    <2>2. Released(p) /\ \A q \in Procs \ {p} : Unmoved(q)
      <3>1. call'[p] = r /\ \A q \in Procs \ {p} : Unmoved(q)
        BY <2>1, OthersUnmoved
      <3>2. r.publication_revision <= publication.publication_revision
        BY <1>0, <2>1
      <3> QED
        BY <2>1, <3>1, <3>2 DEF Released
    <2> QED
      BY <1>2, <2>2, CardsStay, QuietStep
  <1>5. ASSUME read_manifest(p), ~Return(p)
        PROVE  SafeInv'
    <2> DEFINE kept == check_cards(Overlaid(p))
               r == [call[p] EXCEPT !.manifest = kept, !.pc = "prepare"]
    <2>1. call' = [call EXCEPT ![p] = r]
      BY <1>5 DEF read_manifest
    <2>2. /\ r.manifest = kept /\ r.changes = call[p].changes
          /\ r.publication_revision = call[p].publication_revision
      BY <1>0 DEF Call
    <2>3. \A c \in Cards : call[p].changes[c] # 0 => kept[c] = call[p].changes[c]
      <3>1. \A c \in Cards : call[p].changes[c] # 0 => Publishable(c, call[p].changes[c])
        BY <1>5 DEF read_manifest, Listed
      <3> QED
        BY <3>1 DEF check_cards, Overlaid
    <2>4. \A c \in Cards :
             status[c] = "APPROVED" /\ Publishable(c, published[c]) => kept[c] # 0
      <3>1. ASSUME NEW c \in Cards, status[c] = "APPROVED", Publishable(c, published[c])
            PROVE  kept[c] # 0
        <4>1. CASE call[p].changes[c] # 0
          BY <2>3, <4>1
        <4>2. CASE call[p].changes[c] = 0
          BY <3>1, <4>2 DEF check_cards, Overlaid, current_manifest, SafeInv, ApprovedHasPointer
        <4> QED
          BY <4>1, <4>2
      <3> QED
        BY <3>1
    <2> HIDE DEF kept
    <2>5. call'[p] = r /\ \A q \in Procs \ {p} : Unmoved(q)
      BY <2>1, OthersUnmoved
    <2>6. Sound(p)'
      BY <1>0, <1>2, <2>2, <2>3, <2>4, <2>5 DEF Sound, Covers
    <2> QED
      BY <1>2, <2>5, <2>6, CardsStay, QuietStep
  <1> QED
    BY <1>3, <1>4, <1>5

(* The index preparation carries the manifest along unchanged.              *)
LEMMA PrepareSafe ==
  ASSUME TypeInv, SafeInv, NEW p \in Procs,
         \/ ReusePreparation(p) \/ ReclaimPreparation(p) \/ InsertPreparation(p)
         \/ PreparationRefused(p) \/ FinishEmbedding(p) \/ FailEmbedding(p)
  PROVE  SafeInv'
  <1>1. Private
    BY DEF ReusePreparation, ReclaimPreparation, InsertPreparation, PreparationRefused,
           FinishEmbedding, FailEmbedding
  <1>2. UNCHANGED <<publication, snapshots, status, published, restored>>
    BY <1>1 DEF Private, publicVars, cardVars
  <1>3. CASE Return(p)
    BY <1>1, <1>3, ReturnSafe
  <1>4. CASE ~Return(p)
    <2>1. call[p] \in Call
      BY DEF TypeInv, TypeOK, Call
    <2>2. call[p].pc \in Manifested
      BY DEF ReusePreparation, ReclaimPreparation, InsertPreparation, PreparationRefused,
             FinishEmbedding, FailEmbedding, Manifested
    <2> DEFINE Moved(pc, i, n) == call' = [call EXCEPT ![p] =
                              [@ EXCEPT !.pc = pc, !.prepared_id = i, !.claim = n]]
    <2>3. \E pc, i, n : Moved(pc, i, n)
      <3>1. ASSUME NEW i, call' = [call EXCEPT ![p].prepared_id = i, ![p].pc = "commit"]
            PROVE  Moved("commit", i, call[p].claim)
        BY <2>1, <3>1 DEF Call
      <3>2. ASSUME NEW i, NEW n, call' = [call EXCEPT ![p].prepared_id = i, ![p].pc = "embed",
                                                      ![p].claim = n]
            PROVE  Moved("embed", i, n)
        BY <2>1, <3>2 DEF Call
      <3>3. ASSUME call' = [call EXCEPT ![p].pc = "commit"]
            PROVE  Moved("commit", call[p].prepared_id, call[p].claim)
        BY <2>1, <3>3 DEF Call
      <3> HIDE DEF Moved
      <3>4. \/ \E i : call' = [call EXCEPT ![p].prepared_id = i, ![p].pc = "commit"]
            \/ \E i, n : call' = [call EXCEPT ![p].prepared_id = i, ![p].pc = "embed",
                                              ![p].claim = n]
            \/ call' = [call EXCEPT ![p].pc = "commit"]
        BY <1>4 DEF ReusePreparation, ReclaimPreparation, InsertPreparation,
                    PreparationRefused, FinishEmbedding, FailEmbedding
      <3> QED
        BY <3>1, <3>2, <3>3, <3>4
    <2>4. Carried(p) /\ \A q \in Procs \ {p} : Unmoved(q)
      <3>1. PICK pc, i, n : Moved(pc, i, n)
        BY <2>3
      <3> DEFINE r == [call[p] EXCEPT !.pc = pc, !.prepared_id = i, !.claim = n]
      <3>2. call' = [call EXCEPT ![p] = r]
        BY <3>1
      <3>3. /\ r.changes = call[p].changes /\ r.manifest = call[p].manifest
            /\ r.publication_revision = call[p].publication_revision
        BY <2>1 DEF Call
      <3> HIDE DEF r
      <3>4. call'[p] = r /\ \A q \in Procs \ {p} : Unmoved(q)
        BY <3>2, OthersUnmoved
      <3> QED
        BY <2>2, <3>3, <3>4 DEF Carried
    <2> QED
      BY <1>2, <2>4, CardsStay, QuietStep
  <1> QED
    BY <1>3, <1>4

(* After the publish transaction the caller's manifest is what is served.   *)
LEMMA CommitServes ==
  ASSUME TypeInv, NEW p \in Procs, Commit(p)
  PROVE  /\ served' = call[p].manifest
         /\ Len(snapshots') = publication'.current_snapshot_id
         /\ publication'.publication_revision = publication.publication_revision + 1
  <1> DEFINE id == Len(snapshots) + 1
             snapshot == [knowledge_revision |-> publication.knowledge_revision + 1,
                          manifest |-> call[p].manifest]
  <1>1. snapshots \in Seq(Snapshot) /\ snapshot \in Snapshot
    BY DEF TypeInv, TypeOK, Call, Snapshot
  <1>2. snapshots' = Append(snapshots, snapshot)
        /\ publication' = [publication_revision |-> publication.publication_revision + 1,
                           knowledge_revision |-> publication.knowledge_revision + 1,
                           current_snapshot_id |-> id]
    BY DEF Commit, publish_knowledge
  <1>3. snapshot.manifest = call[p].manifest
    OBVIOUS
  <1> HIDE DEF snapshot
  <1>4. Len(snapshots') = id /\ snapshots'[id] = snapshot /\ id # 0
    BY <1>1, <1>2, AppendProperties, LenProperties
  <1> QED
    BY <1>2, <1>3, <1>4 DEF served

(* The publish transaction moves the revision on, so that every manifest    *)
(* read before is of the past, and the one it publishes was current.        *)
LEMMA CommitSafe ==
  ASSUME TypeInv, SafeInv, NEW p \in Procs, Commit(p)
  PROVE  SafeInv'
  <1>0. publication.publication_revision \in Nat
    BY RevisionNumber
  <1>1. call[p].pc \in Manifested /\ RevisionHolds(p) /\ Return(p)
    BY DEF Commit, MayCommit, Manifested
  <1>2. publication'.publication_revision = publication.publication_revision + 1
    BY CommitServes
  <1>3. /\ \A c \in Cards : /\ status'[c] = IF call[p].changes[c] # 0 THEN "APPROVED" ELSE status[c]
                            /\ published'[c] = IF call[p].changes[c] # 0 THEN call[p].changes[c]
                                               ELSE published[c]
        /\ restored' = restored \ {c \in Cards : call[p].manifest[c] # 0}
    BY DEF Commit, mark_published, Listed
  <1>5. PointerIsLatest'
    BY CommitServes DEF PointerIsLatest
  <1>6. ApprovedHasPointer'
    BY <1>3 DEF ApprovedHasPointer, SafeInv
  <1>7. ASSUME NEW q \in Procs PROVE Sound(q)'
    <2>1. call'[p] = Idle /\ \A x \in Procs \ {p} : Unmoved(x)
      BY <1>1, OthersUnmoved DEF Return
    <2>2. publication'.publication_revision = publication.publication_revision + 1
      BY <1>2
    <2>3. CASE q = p
      <3>1. call'[q].pc = "idle" /\ call'[q].publication_revision = 0
        BY <2>1, <2>3 DEF Idle
      <3>2. call'[q].publication_revision <= publication'.publication_revision
        BY <1>0, <2>2, <3>1
      <3> QED
        BY <3>1, <3>2 DEF Sound, Manifested
    <2>4. CASE q # p
      <3>1. call'[q] = call[q] /\ call[q].publication_revision <= publication.publication_revision
            /\ call[q].publication_revision \in Nat
        BY <2>1, <2>4 DEF Unmoved, SafeInv, Sound, TypeInv, TypeOK
      <3>2. call'[q].publication_revision < publication'.publication_revision
        BY <1>0, <2>2, <3>1
      <3>3. /\ call'[q].publication_revision <= publication'.publication_revision
            /\ call'[q].publication_revision # publication'.publication_revision
        BY <1>0, <2>2, <3>1, <3>2
      <3> QED
        BY <3>1, <3>3 DEF Sound, SafeInv
    <2> QED
      BY <2>3, <2>4
  <1>8. ApprovedIsServed'
    <2>1. /\ \A c \in Cards : call[p].changes[c] # 0 => call[p].manifest[c] = call[p].changes[c]
          /\ Covers(p)
      BY <1>1 DEF SafeInv, Sound, RevisionHolds, expected_publication_revision
    <2>2. served' = call[p].manifest
      BY CommitServes
    <2>3. ASSUME NEW c \in Cards, status'[c] = "APPROVED", Publishable(c, published'[c])
          PROVE  call[p].manifest[c] # 0 \/ c \in restored'
      BY <1>3, <2>1, <2>3 DEF Covers
    <2> QED
      BY <2>2, <2>3 DEF ApprovedIsServed, Publishable
  <1> QED
    BY <1>5, <1>6, <1>7, <1>8 DEF SafeInv

(* Card edits, proposals, clocks, deployments and maintenance.              *)
LEMMA EnvironmentSafe ==
  ASSUME TypeInv, SafeInv,
         \/ \E c \in Cards : WriteDraft(c)
         \/ \E q \in Proposals : close_already_published(q) \/ dismiss_knowledge_proposal(q)
         \/ \E i \in DOMAIN preparations :
               LeaseExpires(i) \/ PreparationExpires(i) \/ PurgeDocuments(i)
         \/ WindowPasses \/ DeployModel
  PROVE  SafeInv'
  <1>1. ASSUME NEW c \in Cards, WriteDraft(c) PROVE SafeInv'
    <2>1. NothingApproved
      BY <1>1 DEF WriteDraft, NothingApproved, SafeInv, ApprovedHasPointer, TypeInv, TypeOK
    <2> QED
      BY <1>1, <2>1, QuietStep DEF WriteDraft, publicVars, Unmoved
  <1>2. CASE DeployModel
    <2>1. \A q \in Procs : Released(q)
      BY <1>2, RevisionNumber DEF DeployModel, Released, Idle, Manifested
    <2> QED
      BY <1>2, <2>1, CardsStay, QuietStep DEF DeployModel, publicVars, cardVars
  <1>3. ASSUME UNCHANGED <<cardVars, publicVars, call, restored>> PROVE SafeInv'
    BY <1>3, CardsStay, QuietStep DEF publicVars, cardVars, Unmoved
  <1> QED
    BY <1>1, <1>2, <1>3 DEF close_already_published, dismiss_knowledge_proposal, LeaseExpires,
       PreparationExpires, PurgeDocuments, WindowPasses

(* SafeInv is inductive on well-typed states.                               *)
LEMMA StepSafe ==
  ASSUME TypeInv, SafeInv, [Next]_vars
  PROVE  SafeInv'
  <1>1. CASE UNCHANGED vars
    BY <1>1, CardsStay, QuietStep DEF vars, Unmoved
  <1>2. ASSUME NEW p \in Procs, Coordinate(p) PROVE SafeInv'
    <2>1. CASE RejectCommit(p) \/ Crash(p)
      BY <2>1, ReturnSafe DEF RejectCommit, Crash
    <2> QED
      BY <1>2, <2>1, ReadSafe, PrepareSafe, CommitSafe DEF Coordinate
  <1> QED
    BY <1>1, <1>2, RequestSafe, EnvironmentSafe DEF Next

(* Every reachable state satisfies the invariant.                           *)
LEMMA Safe == Spec => [](TypeInv /\ SafeInv)
  <1>1. Init => TypeInv /\ SafeInv
    BY InitType, InitSafe
  <1>2. TypeInv /\ SafeInv /\ [Next]_vars => TypeInv' /\ SafeInv'
    BY StepType, StepSafe
  <1> QED
    BY <1>1, <1>2, PTL DEF Spec

(* No approved publishable card is ever missing from the current snapshot   *)
(* because approvals, exclusions, restorations, edits, crashes or expiries  *)
(* overlapped: for any cards, callers, proposals and bounds.                *)
THEOREM ApprovedServed == Spec => []ApprovedIsServed
  <1>1. SafeInv => ApprovedIsServed
    BY DEF SafeInv
  <1> QED
    BY <1>1, Safe, PTL
----------------------------------------------------------------------------
(* Only the publish transaction adds a snapshot.                            *)
LEMMA OnlyCommitPublishes ==
  ASSUME [Next]_vars, snapshots' # snapshots
  PROVE  \E p \in Procs : Commit(p)
  BY DEF Next, Coordinate, vars, publicVars, Private, WriteDraft, approve_card, exclude_card,
         restore_card, bootstrap_store_index, ensure_initial_publication, approve_owner_proposal,
         close_already_published, dismiss_knowledge_proposal, read_operation, read_publication,
         read_cards, read_manifest, ReusePreparation, ReclaimPreparation, InsertPreparation,
         PreparationRefused, FinishEmbedding, FailEmbedding, RejectCommit, Crash, LeaseExpires,
         PreparationExpires, PurgeDocuments, WindowPasses, DeployModel

(* What a publication lists is approved, was not excluded when the          *)
(* transaction began, and is either already public or the current draft.    *)
LEMMA CommitReviewed ==
  ASSUME TypeInv, SafeInv, NEW p \in Procs, Commit(p), NEW c \in Cards, served'[c] # 0
  PROVE  /\ status[c] # "EXCLUDED" /\ status'[c] = "APPROVED"
         /\ served'[c] = published'[c]
         /\ published'[c] \in {published[c], draft[c]}
  <1>1. served' = call[p].manifest
    BY CommitServes
  <1>2. /\ cas_holds(call[p].changes, call[p].manifest) /\ mark_published(p)
        /\ call[p].pc \in Manifested
    BY DEF Commit, MayCommit, Manifested
  <1>3. call[p].manifest[c] # 0 /\ status[c] \notin {"NONE", "EXCLUDED"}
    BY <1>1, <1>2 DEF cas_holds, ManifestHolds, Listed
  <1>4. CASE call[p].changes[c] # 0
    <2>1. draft[c] = call[p].changes[c] /\ call[p].manifest[c] = call[p].changes[c]
      BY <1>2, <1>4 DEF cas_holds, ChangesHold, Listed, SafeInv, Sound
    <2>2. status'[c] = "APPROVED" /\ published'[c] = call[p].changes[c]
      BY <1>2, <1>4 DEF mark_published
    <2> QED
      BY <1>1, <1>3, <2>1, <2>2
  <1>5. CASE call[p].changes[c] = 0
    <2>1. status[c] = "APPROVED" /\ published[c] = call[p].manifest[c]
      BY <1>2, <1>3, <1>5 DEF cas_holds, ManifestHolds, Listed
    <2>2. status'[c] = status[c] /\ published'[c] = published[c]
      BY <1>2, <1>5 DEF mark_published
    <2> QED
      BY <1>1, <1>3, <2>1, <2>2
  <1> QED
    BY <1>4, <1>5

(* A publication never takes an excluded card or an unreviewed version live,*)
(* whatever happened to the card while the index was being embedded.        *)
THEOREM ReviewedOnly == Spec => PublishesReviewedOnly
  <1>1. TypeInv /\ SafeInv /\ [Next]_vars =>
          [snapshots' # snapshots =>
             \A c \in Cards : served'[c] # 0 =>
                 /\ status[c] # "EXCLUDED" /\ status'[c] = "APPROVED"
                 /\ served'[c] = published'[c]
                 /\ published'[c] \in {published[c], draft[c]}]_vars
    BY OnlyCommitPublishes, CommitReviewed
  <1> QED
    BY <1>1, Safe, PTL DEF PublishesReviewedOnly, Spec

(* A resolved knowledge proposal is never resolved again, not even by an    *)
(* approval that was already embedding its index.                           *)
THEOREM ResolvedOnce == Spec => ProposalResolvedOnce
  <1>1. ASSUME TypeInv, [Next]_vars, NEW q \in Proposals, proposal[q] # "PENDING_REVIEW"
        PROVE  proposal'[q] = proposal[q]
    <2>1. ASSUME NEW p \in Procs, Commit(p) PROVE proposal'[q] = proposal[q]
      BY <1>1, <2>1 DEF Commit, MayCommit, HookHolds, TypeInv, TypeOK
    <2>2. ASSUME NEW x \in Proposals, close_already_published(x) \/ dismiss_knowledge_proposal(x)
          PROVE  proposal'[q] = proposal[q]
      BY <1>1, <2>2 DEF close_already_published, dismiss_knowledge_proposal, TypeInv, TypeOK
    <2>3. CASE UNCHANGED proposal
      BY <2>3
    <2> QED
      BY <1>1, <2>1, <2>2, <2>3
      DEF Next, Coordinate, vars, Private, WriteDraft, approve_card, exclude_card, restore_card,
          bootstrap_store_index, ensure_initial_publication, approve_owner_proposal,
          read_operation, read_publication, read_cards, read_manifest, ReusePreparation,
          ReclaimPreparation, InsertPreparation, PreparationRefused, FinishEmbedding,
          FailEmbedding, RejectCommit, Crash, LeaseExpires, PreparationExpires, PurgeDocuments,
          WindowPasses, DeployModel
  <1>2. TypeInv /\ [Next]_vars =>
          [\A q \in Proposals : proposal[q] # "PENDING_REVIEW" => proposal'[q] = proposal[q]]_vars
    BY <1>1
  <1> QED
    BY <1>2, InitType, StepType, PTL DEF ProposalResolvedOnce, Spec
----------------------------------------------------------------------------
(* What every step but a publication leaves alone *)

Publishes == \E p \in Procs : Commit(p)

(* Only a publication writes the public tables and the pointers, and no     *)
(* step takes a draft back.                                                 *)
LEMMA NothingPublished ==
  ASSUME TypeInv, [Next]_vars, ~Publishes
  PROVE  /\ UNCHANGED <<publication, snapshots, operations, index_publications, published>>
         /\ \A c \in Cards : draft[c] <= draft'[c]
  <1>1. ASSUME NEW c \in Cards, WriteDraft(c)
        PROVE  /\ UNCHANGED <<publication, snapshots, operations, index_publications, published>>
               /\ \A x \in Cards : draft[x] <= draft'[x]
    BY <1>1 DEF WriteDraft, publicVars, TypeInv, TypeOK
  <1>2. UNCHANGED draft => \A c \in Cards : draft[c] <= draft'[c]
    BY DEF TypeInv, TypeOK
  <1>3. CASE UNCHANGED <<publication, snapshots, operations, index_publications, published, draft>>
    BY <1>2, <1>3
  <1> QED
    BY <1>1, <1>3
    DEF Publishes, Next, Coordinate, vars, publicVars, cardVars, Private, approve_card,
        exclude_card, restore_card, bootstrap_store_index, ensure_initial_publication, approve_owner_proposal,
        close_already_published, dismiss_knowledge_proposal, read_operation, read_publication,
        read_cards, read_manifest, ReusePreparation, ReclaimPreparation, InsertPreparation,
        PreparationRefused, FinishEmbedding, FailEmbedding, RejectCommit, Crash, LeaseExpires,
        PreparationExpires, PurgeDocuments, WindowPasses, DeployModel

(* A preparation that can back a snapshot has its documents.                *)
Ready(row) == row.state = "PREPARED" /\ ~row.expired => row.documents

(* What no step but a publication does to a preparation: it changes neither *)
(* its request nor whether a snapshot uses it, and takes its documents only *)
(* when they may be pruned.                                                 *)
KeptAs(i, row) ==
    /\ row.key = preparations[i].key
    /\ row.embedding_model = preparations[i].embedding_model
    /\ row.state = "CONSUMED" <=> preparations[i].state = "CONSUMED"
    /\ preparations[i].documents => row.documents \/ Prunable(i)
    /\ Ready(preparations[i]) => Ready(row)

RowsKept ==
    /\ \A i \in DOMAIN preparations : i \in DOMAIN preparations' /\ KeptAs(i, preparations'[i])
    /\ \A i \in DOMAIN preparations' :
          i \in DOMAIN preparations \/ preparations'[i].state = "PREPARING"

(* Leaving all rows, writing one and appending one.                         *)
LEMMA RowsUnchanged == UNCHANGED preparations => RowsKept
  BY DEF RowsKept, KeptAs

LEMMA RowWritten ==
  ASSUME TypeInv, NEW i \in DOMAIN preparations, NEW row,
         preparations' = [preparations EXCEPT ![i] = row]
  PROVE  /\ DOMAIN preparations' = DOMAIN preparations /\ preparations'[i] = row
         /\ \A k \in DOMAIN preparations : k # i => preparations'[k] = preparations[k]
  OBVIOUS

LEMMA WrittenKept ==
  ASSUME TypeInv, NEW i \in DOMAIN preparations, NEW row, KeptAs(i, row),
         preparations' = [preparations EXCEPT ![i] = row]
  PROVE  RowsKept
  <1>1. ASSUME NEW k \in DOMAIN preparations PROVE KeptAs(k, preparations'[k])
    <2>1. CASE k = i
      BY <2>1, RowWritten
    <2>2. CASE k # i
      BY <2>2, RowWritten DEF KeptAs
    <2> QED
      BY <2>1, <2>2
  <1> QED
    BY <1>1, RowWritten DEF RowsKept

(* Rows are well formed.                                                    *)
LEMMA RowsTyped ==
  ASSUME TypeInv
  PROVE  /\ preparations \in Seq(Preparation)
         /\ \A i \in DOMAIN preparations : preparations[i] \in Preparation
  <1>1. preparations \in Seq(Preparation)
    BY DEF TypeInv, TypeOK, Preparation
  <1> QED
    BY <1>1, ElementOfSeq

LEMMA AppendedKept ==
  ASSUME TypeInv, NEW row \in Preparation, row.state = "PREPARING",
         preparations' = Append(preparations, row)
  PROVE  RowsKept
  <1>1. preparations \in Seq(Preparation)
    BY RowsTyped
  <1>2. /\ Len(preparations') = Len(preparations) + 1 /\ preparations' \in Seq(Preparation)
        /\ \A k \in 1..Len(preparations) : preparations'[k] = preparations[k]
        /\ preparations'[Len(preparations) + 1] = row
    BY <1>1, AppendProperties
  <1>3. DOMAIN preparations = 1..Len(preparations) /\ DOMAIN preparations' = 1..Len(preparations')
        /\ Len(preparations) \in Nat
    BY <1>1, <1>2, LenProperties
  <1>4. \A k \in DOMAIN preparations : k \in DOMAIN preparations'
    BY <1>2, <1>3
  <1>5. \A k \in DOMAIN preparations' : k \in DOMAIN preparations \/ k = Len(preparations) + 1
    BY <1>2, <1>3
  <1> QED
    BY <1>2, <1>3, <1>4, <1>5 DEF RowsKept, KeptAs

(* The rows under every step that publishes nothing.                        *)
LEMMA QuietRows ==
  ASSUME TypeInv, [Next]_vars, ~Publishes
  PROVE  RowsKept
  <1>1. ASSUME NEW i \in DOMAIN preparations, LeaseExpires(i) PROVE RowsKept
    <2> DEFINE row == [preparations[i] EXCEPT !.leased = FALSE]
    <2>1. preparations' = [preparations EXCEPT ![i] = row]
      BY <1>1 DEF LeaseExpires
    <2>2. KeptAs(i, row)
      BY RowsTyped DEF KeptAs, Ready, Preparation
    <2> QED
      BY <2>1, <2>2, WrittenKept
  <1>2. ASSUME NEW i \in DOMAIN preparations, PreparationExpires(i) PROVE RowsKept
    <2> DEFINE row == [preparations[i] EXCEPT !.expired = TRUE]
    <2>1. preparations' = [preparations EXCEPT ![i] = row]
      BY <1>2 DEF PreparationExpires
    <2>2. KeptAs(i, row)
      BY RowsTyped DEF KeptAs, Ready, Preparation
    <2> QED
      BY <2>1, <2>2, WrittenKept
  <1>3. ASSUME NEW i \in DOMAIN preparations, PurgeDocuments(i) PROVE RowsKept
    <2> DEFINE row == [preparations[i] EXCEPT !.documents = FALSE]
    <2>1. preparations' = [preparations EXCEPT ![i] = row]
      BY <1>3 DEF PurgeDocuments
    <2>2. Prunable(i) /\ preparations[i].expired
      BY <1>3 DEF PurgeDocuments, Prunable
    <2>3. KeptAs(i, row)
      BY <2>2, RowsTyped DEF KeptAs, Ready, Preparation
    <2> QED
      BY <2>1, <2>3, WrittenKept
  <1>4. ASSUME NEW p \in Procs, ReclaimPreparation(p) PROVE RowsKept
    <2>1. PICK i \in RowsOf(prepare_key(p)) :
             /\ Reclaimable(i)
             /\ preparations' = [preparations EXCEPT ![i] =
                                   [@ EXCEPT !.attempt_no = preparations[i].attempt_no + 1,
                                             !.leased = TRUE]]
      BY <1>4 DEF ReclaimPreparation
    <2> DEFINE row == [preparations[i] EXCEPT !.attempt_no = preparations[i].attempt_no + 1,
                                              !.leased = TRUE]
    <2>2. i \in DOMAIN preparations /\ preparations' = [preparations EXCEPT ![i] = row]
      BY <2>1 DEF RowsOf
    <2>3. KeptAs(i, row)
      BY <2>2, RowsTyped DEF KeptAs, Ready, Preparation
    <2> HIDE DEF row
    <2> QED
      BY <2>2, <2>3, WrittenKept
  <1>5. ASSUME NEW p \in Procs, InsertPreparation(p) PROVE RowsKept
    <2> DEFINE row == [key |-> prepare_key(p), embedding_model |-> embedding_model,
                       state |-> "PREPARING", attempt_no |-> 1, leased |-> TRUE,
                       expired |-> FALSE, documents |-> FALSE]
    <2>1. prepare_key(p) \in PrepareKeys /\ embedding_model \in Nat
      BY DEF prepare_key, expected_publication_revision, PrepareKeys, TypeInv, TypeOK
    <2>2. row \in Preparation /\ row.state = "PREPARING"
      BY <2>1 DEF Preparation, PreparationStates
    <2>3. preparations' = Append(preparations, row)
      BY <1>5 DEF InsertPreparation
    <2> HIDE DEF row
    <2> QED
      BY <2>2, <2>3, AppendedKept
  <1>6. ASSUME NEW p \in Procs, FinishEmbedding(p) PROVE RowsKept
    <2> DEFINE i == call[p].prepared_id
               row == [preparations[i] EXCEPT !.state = "PREPARED", !.documents = TRUE]
    <2>1. CASE UNCHANGED preparations
      BY <2>1, RowsUnchanged
    <2>2. CASE ~UNCHANGED preparations
      <3>1. preparations' = [preparations EXCEPT ![i] = row] /\ preparations[i].state = "PREPARING"
            /\ i \in DOMAIN preparations
        BY <1>6, <2>2 DEF FinishEmbedding, Owns, TypeInv, PreparationKnown
      <3>2. KeptAs(i, row)
        BY <3>1, RowsTyped DEF KeptAs, Ready, Preparation
      <3> HIDE DEF row
      <3> QED
        BY <3>1, <3>2, WrittenKept
    <2> QED
      BY <2>1, <2>2
  <1>7. ASSUME NEW p \in Procs, FailEmbedding(p) PROVE RowsKept
    <2> DEFINE i == call[p].prepared_id
               row == [preparations[i] EXCEPT !.state = "FAILED"]
    <2>1. CASE UNCHANGED preparations
      BY <2>1, RowsUnchanged
    <2>2. CASE ~UNCHANGED preparations
      <3>1. preparations' = [preparations EXCEPT ![i] = row] /\ preparations[i].state = "PREPARING"
            /\ i \in DOMAIN preparations
        BY <1>7, <2>2 DEF FailEmbedding, Owns, TypeInv, PreparationKnown
      <3>2. KeptAs(i, row)
        BY <3>1, RowsTyped DEF KeptAs, Ready, Preparation
      <3> HIDE DEF row
      <3> QED
        BY <3>1, <3>2, WrittenKept
    <2> QED
      BY <2>1, <2>2
  <1>8. CASE UNCHANGED preparations
    BY <1>8, RowsUnchanged
  <1> QED
    BY <1>1, <1>2, <1>3, <1>4, <1>5, <1>6, <1>7, <1>8
    DEF Publishes, Next, Coordinate, vars, WriteDraft, approve_card, exclude_card,
        restore_card, bootstrap_store_index, ensure_initial_publication, approve_owner_proposal,
        close_already_published, dismiss_knowledge_proposal, read_operation, read_publication,
        read_cards, read_manifest, ReusePreparation, PreparationRefused, RejectCommit, Crash,
        WindowPasses, DeployModel

(* A publication writes one snapshot, consumes one preparation with its     *)
(* documents and its manifest, and files it under the snapshot.             *)
CommitsRows(p) == LET i == call[p].prepared_id IN
    /\ i \in DOMAIN preparations /\ DOMAIN preparations' = DOMAIN preparations
    /\ preparations[i].state = "PREPARED" /\ ~preparations[i].expired
    /\ preparations[i].key.content = call[p].manifest
    /\ preparations'[i].state = "CONSUMED" /\ preparations'[i].key = preparations[i].key
    /\ preparations'[i].documents = preparations[i].documents
    /\ preparations'[i].embedding_model = preparations[i].embedding_model
    /\ \A k \in DOMAIN preparations : k # i => preparations'[k] = preparations[k]

CommitsSnapshot(p) == LET id == Len(snapshots) + 1 IN
    /\ Len(snapshots) \in Nat /\ DOMAIN snapshots = 1..Len(snapshots)
    /\ Len(snapshots') = id /\ DOMAIN snapshots' = 1..id
    /\ \A k \in DOMAIN snapshots : snapshots'[k] = snapshots[k]
    /\ snapshots'[id].manifest = call[p].manifest
    /\ snapshots'[id].knowledge_revision = publication'.knowledge_revision

(* The publish transaction does that.                                       *)
LEMMA CommitRows == ASSUME TypeInv, NEW p \in Procs, Commit(p) PROVE CommitsRows(p)
  <1> DEFINE i == call[p].prepared_id
             row == [preparations[i] EXCEPT !.state = "CONSUMED"]
  <1>1. i \in DOMAIN preparations
    BY DEF Commit, TypeInv, PreparationKnown
  <1>2. preparations[i] \in Preparation
    BY <1>1, RowsTyped
  <1>3. /\ row.state = "CONSUMED" /\ row.key = preparations[i].key
        /\ row.documents = preparations[i].documents
        /\ row.embedding_model = preparations[i].embedding_model
    BY <1>2 DEF Preparation
  <1>4. preparations' = [preparations EXCEPT ![i] = row]
    BY DEF Commit, Activated
  <1>5. /\ preparations[i].state = "PREPARED" /\ ~preparations[i].expired
        /\ preparations[i].key.content = call[p].manifest
    BY DEF Commit, MayCommit, Activatable
  <1> HIDE DEF row
  <1> QED
    BY <1>1, <1>3, <1>4, <1>5, RowWritten DEF CommitsRows

LEMMA CommitSnapshot == ASSUME TypeInv, NEW p \in Procs, Commit(p) PROVE CommitsSnapshot(p)
  <1> DEFINE snapshot == [knowledge_revision |-> publication.knowledge_revision + 1,
                          manifest |-> call[p].manifest]
  <1>1. snapshots \in Seq(Snapshot) /\ snapshot \in Snapshot
    BY DEF TypeInv, TypeOK, Call, Snapshot
  <1>2. /\ snapshots' = Append(snapshots, snapshot)
        /\ publication'.knowledge_revision = publication.knowledge_revision + 1
    BY DEF Commit, publish_knowledge
  <1>3. /\ snapshot.manifest = call[p].manifest
        /\ snapshot.knowledge_revision = publication.knowledge_revision + 1
    OBVIOUS
  <1> HIDE DEF snapshot
  <1>4. /\ Len(snapshots') = Len(snapshots) + 1 /\ snapshots' \in Seq(Snapshot)
        /\ \A k \in 1..Len(snapshots) : snapshots'[k] = snapshots[k]
        /\ snapshots'[Len(snapshots) + 1] = snapshot
    BY <1>1, <1>2, AppendProperties
  <1>5. Len(snapshots) \in Nat /\ DOMAIN snapshots = 1..Len(snapshots)
        /\ DOMAIN snapshots' = 1..Len(snapshots')
    BY <1>1, <1>4, LenProperties
  <1> QED
    BY <1>2, <1>3, <1>4, <1>5 DEF CommitsSnapshot
----------------------------------------------------------------------------
(* The index behind the current snapshot *)

(* Every activated index names its snapshot and holds the documents of that *)
(* snapshot's manifest, one snapshot has one index, and the index of the    *)
(* latest snapshot keeps its documents.                                     *)
Backs(a) ==
    /\ a.snapshot_id \in DOMAIN snapshots /\ a.prepared_id \in DOMAIN preparations
    /\ preparations[a.prepared_id].state = "CONSUMED"
    /\ preparations[a.prepared_id].key.content = snapshots[a.snapshot_id].manifest
LatestBacked ==
    /\ snapshots[Len(snapshots)].knowledge_revision = publication.knowledge_revision
    /\ \E a \in index_publications :
          a.snapshot_id = Len(snapshots) /\ preparations[a.prepared_id].documents
Backed ==
    /\ \A i \in DOMAIN preparations : Ready(preparations[i])
    /\ \A a \in index_publications : Backs(a)
    /\ \A a, b \in index_publications : a.snapshot_id = b.snapshot_id => a = b
    /\ Len(snapshots) # 0 => LatestBacked

LEMMA InitBacked == Init => Backed
  <1> SUFFICES ASSUME Init PROVE Backed
    OBVIOUS
  <1>1. snapshots = <<>> /\ preparations = <<>> /\ index_publications = {}
    BY DEF Init
  <1>2. DOMAIN preparations = {} /\ Len(snapshots) = 0
    BY <1>1
  <1> QED
    BY <1>1, <1>2 DEF Backed

(* An index of the latest snapshot cannot be pruned.                        *)
LEMMA QuietBacked ==
  ASSUME TypeInv, SafeInv, Backed, RowsKept,
         UNCHANGED <<publication, snapshots, index_publications>>
  PROVE  Backed'
  <1>1. \A i \in DOMAIN preparations' : Ready(preparations'[i])
    <2>1. ASSUME NEW i \in DOMAIN preparations' PROVE Ready(preparations'[i])
      <3>1. CASE i \in DOMAIN preparations
        BY <3>1 DEF RowsKept, KeptAs, Backed
      <3>2. CASE preparations'[i].state = "PREPARING"
        BY <3>2 DEF Ready
      <3> QED
        BY <3>1, <3>2 DEF RowsKept
    <2> QED
      BY <2>1
  <1>2. \A a \in index_publications' : Backs(a)'
    <2>1. ASSUME NEW a \in index_publications PROVE Backs(a)'
      <3>1. Backs(a) /\ KeptAs(a.prepared_id, preparations'[a.prepared_id])
            /\ a.prepared_id \in DOMAIN preparations'
        BY DEF Backed, Backs, RowsKept
      <3> QED
        BY <3>1 DEF Backs, KeptAs
    <2> QED
      BY <2>1
  <1>3. Len(snapshots') # 0 => LatestBacked'
    <2>1. ASSUME Len(snapshots) # 0 PROVE LatestBacked'
      <3>1. PICK a \in index_publications :
               a.snapshot_id = Len(snapshots) /\ preparations[a.prepared_id].documents
        BY <2>1 DEF Backed, LatestBacked
      <3>2. KeptAs(a.prepared_id, preparations'[a.prepared_id])
        BY DEF Backed, Backs, RowsKept
      <3>3. ~Prunable(a.prepared_id)
        BY <3>1 DEF Prunable, SafeInv, PointerIsLatest
      <3>4. preparations'[a.prepared_id].documents
        BY <3>1, <3>2, <3>3 DEF KeptAs
      <3> QED
        BY <2>1, <3>1, <3>4 DEF Backed, LatestBacked
    <2> QED
      BY <2>1
  <1>4. \A a, b \in index_publications' : a.snapshot_id = b.snapshot_id => a = b
    BY DEF Backed
  <1> QED
    BY <1>1, <1>2, <1>3, <1>4 DEF Backed

(* A publication files the index it consumed under its own snapshot.        *)
LEMMA CommitBacked ==
  ASSUME TypeInv, Backed, NEW p \in Procs, Commit(p)
  PROVE  Backed'
  <1> DEFINE i == call[p].prepared_id
             id == Len(snapshots) + 1
             new == [snapshot_id |-> id, prepared_id |-> i]
  <1>1. CommitsRows(p) /\ CommitsSnapshot(p)
    BY CommitRows, CommitSnapshot
  <1>2. index_publications' = index_publications \cup {new}
    BY DEF Commit
  <1>3. new.snapshot_id = id /\ new.prepared_id = i
    OBVIOUS
  <1> HIDE DEF new
  <1>4. \A k \in DOMAIN preparations' : Ready(preparations'[k])
    BY <1>1 DEF CommitsRows, Ready, Backed
  <1>5. ASSUME NEW a \in index_publications
        PROVE  Backs(a)' /\ a.snapshot_id # id
    <2>1. Backs(a)
      BY DEF Backed
    <2>2. a.prepared_id # i /\ preparations'[a.prepared_id] = preparations[a.prepared_id]
      BY <1>1, <2>1 DEF Backs, CommitsRows
    <2>3. /\ snapshots'[a.snapshot_id] = snapshots[a.snapshot_id]
          /\ a.snapshot_id \in DOMAIN snapshots' /\ a.snapshot_id # id
      BY <1>1, <2>1 DEF Backs, CommitsSnapshot
    <2> QED
      BY <1>1, <2>1, <2>2, <2>3 DEF Backs, CommitsRows
  <1>6. \A a : a = new => Backs(a)'
    <2>1. preparations'[i].state = "CONSUMED" /\ preparations'[i].key.content = call[p].manifest
          /\ i \in DOMAIN preparations'
      BY <1>1 DEF CommitsRows
    <2>2. id \in DOMAIN snapshots' /\ snapshots'[id].manifest = call[p].manifest
      BY <1>1 DEF CommitsSnapshot
    <2> QED
      BY <1>3, <2>1, <2>2 DEF Backs
  <1>7. LatestBacked'
    <2>1. preparations'[i].documents
      BY <1>1 DEF CommitsRows, Backed, Ready
    <2> QED
      BY <1>1, <1>2, <1>3, <2>1 DEF LatestBacked, CommitsSnapshot
  <1>8. \A a \in index_publications' : Backs(a)'
    BY <1>2, <1>5, <1>6
  <1>9. \A a, b \in index_publications' : a.snapshot_id = b.snapshot_id => a = b
    BY <1>2, <1>3, <1>5 DEF Backed
  <1> QED
    BY <1>4, <1>7, <1>8, <1>9 DEF Backed

(* The pointers and what is listed agree, and no pointer is ahead of the    *)
(* draft.                                                                   *)
Pointed == \A c \in Cards : /\ served[c] # 0 => published[c] = served[c]
                            /\ published[c] <= draft[c]

LEMMA InitPointed == Init => Pointed
  BY DEF Init, Pointed, served, Nothing

LEMMA QuietPointed ==
  ASSUME TypeInv, TypeInv', Pointed, UNCHANGED <<publication, snapshots, published>>,
         \A c \in Cards : draft[c] <= draft'[c]
  PROVE  Pointed'
  <1>1. served' = served
    BY DEF served, Nothing
  <1>2. ASSUME NEW c \in Cards PROVE published'[c] <= draft'[c]
    <2>1. published[c] \in Nat /\ draft[c] \in Nat /\ draft'[c] \in Nat
      BY DEF TypeInv, TypeOK
    <2>2. published[c] <= draft[c] /\ draft[c] <= draft'[c]
      BY DEF Pointed
    <2> QED
      BY <2>1, <2>2
  <1> QED
    BY <1>1, <1>2 DEF Pointed

(* A publication takes the pointers of its changes to the current drafts,   *)
(* which no pointer is ahead of.                                            *)
LEMMA CommitPointers ==
  ASSUME TypeInv, Pointed, NEW p \in Procs, Commit(p), NEW c \in Cards
  PROVE  /\ published'[c] = (IF call[p].changes[c] # 0 THEN call[p].changes[c] ELSE published[c])
         /\ published[c] <= published'[c] /\ published'[c] <= draft'[c] /\ draft'[c] = draft[c]
  <1>1. published'[c] = IF call[p].changes[c] # 0 THEN call[p].changes[c] ELSE published[c]
    BY DEF Commit, mark_published
  <1>2. call[p].changes[c] # 0 => call[p].changes[c] = draft[c]
    BY DEF Commit, MayCommit, cas_holds, ChangesHold, Listed
  <1>3. draft' = draft
    BY DEF Commit
  <1>4. published[c] \in Nat /\ draft[c] \in Nat /\ published[c] <= draft[c]
    BY DEF Pointed, TypeInv, TypeOK
  <1> QED
    BY <1>1, <1>2, <1>3, <1>4

(* What a publication lists is what its pointers say.                       *)
LEMMA CommitPointed ==
  ASSUME TypeInv, SafeInv, Pointed, NEW p \in Procs, Commit(p)
  PROVE  Pointed'
  BY CommitPointers, CommitReviewed DEF Pointed

Consistent == Backed /\ Pointed

(* Backed and Pointed are inductive.                                        *)
LEMMA ConsistentStep ==
  ASSUME TypeInv, SafeInv, Consistent, [Next]_vars
  PROVE  Consistent'
  <1>1. ASSUME NEW p \in Procs, Commit(p) PROVE Consistent'
    BY <1>1, CommitBacked, CommitPointed DEF Consistent
  <1>2. CASE ~Publishes
    BY <1>2, StepType, NothingPublished, QuietRows, QuietBacked, QuietPointed DEF Consistent
  <1> QED
    BY <1>1, <1>2 DEF Publishes

LEMMA ConsistentAlways == Spec => []Consistent
  <1>1. Init => Consistent
    BY InitBacked, InitPointed DEF Consistent
  <1>2. (TypeInv /\ SafeInv) /\ Consistent /\ [Next]_vars => Consistent'
    BY ConsistentStep
  <1> QED
    BY <1>1, <1>2, Safe, PTL DEF Spec

(* The index that backs the latest snapshot is the only one a question      *)
(* reads.                                                                   *)
LEMMA CurrentIndex ==
  ASSUME TypeInv, SafeInv, Backed, publication.current_snapshot_id # 0
  PROVE  \E i \in DOMAIN preparations :
            /\ read_current_index = {i}
            /\ preparations[i].documents
            /\ preparations[i].key.content = served
  <1>1. publication.current_snapshot_id = Len(snapshots)
    BY DEF SafeInv, PointerIsLatest
  <1>2. PICK a \in index_publications :
           a.snapshot_id = Len(snapshots) /\ preparations[a.prepared_id].documents
    BY <1>1 DEF Backed, LatestBacked
  <1>3. Backs(a) /\ snapshots[a.snapshot_id].knowledge_revision = publication.knowledge_revision
    BY <1>1, <1>2 DEF Backed, LatestBacked
  <1>4. \A b \in index_publications : b.snapshot_id = publication.current_snapshot_id => b = a
    BY <1>1, <1>2 DEF Backed
  <1>5. read_current_index = {a.prepared_id}
    BY <1>1, <1>2, <1>3, <1>4 DEF read_current_index, Backs
  <1>6. preparations[a.prepared_id].key.content = served
    BY <1>1, <1>2, <1>3 DEF Backs, served
  <1> QED
    BY <1>2, <1>3, <1>5, <1>6 DEF Backs

(* Once a store has published, exactly one index answers its questions, its *)
(* documents are there and they are those of the served manifest, whatever  *)
(* claims, expiries, crashes, purges and publications overlap.              *)
THEOREM IndexServes == Spec => []CurrentIndexServes
  <1>1. TypeInv /\ SafeInv /\ Consistent => CurrentIndexServes
    BY CurrentIndex DEF Consistent, CurrentIndexServes
  <1> QED
    BY <1>1, Safe, ConsistentAlways, PTL

(* Retrieval, which joins the index with the pointers of the cards, finds   *)
(* every listed card that is approved, at the listed version.               *)
THEOREM SnapshotFound == Spec => []SearchFindsSnapshot
  <1>1. TypeInv /\ SafeInv /\ Consistent => SearchFindsSnapshot
    <2> SUFFICES ASSUME TypeInv, SafeInv, Consistent
                 PROVE  search_channels = {d \in Cards \X (1..MaxVersion) :
                                             served[d[1]] = d[2] /\ status[d[1]] = "APPROVED"}
      BY DEF SearchFindsSnapshot
    <2> DEFINE Found(d) == \E i \in read_current_index :
                  preparations[i].documents /\ preparations[i].key.content[d[1]] = d[2]
    <2>1. ASSUME NEW d \in Cards \X (1..MaxVersion)
          PROVE  (published[d[1]] = d[2] /\ Found(d)) <=> served[d[1]] = d[2]
      <3>1. d[1] \in Cards /\ d[2] # 0
        OBVIOUS
      <3>2. CASE publication.current_snapshot_id = 0
        <4>1. read_current_index = {}
          <5>1. \A a \in index_publications : a.snapshot_id # 0
            <6>1. Len(snapshots) \in Nat /\ DOMAIN snapshots = 1..Len(snapshots)
              BY DEF TypeInv, TypeOK
            <6> QED
              BY <6>1 DEF Consistent, Backed, Backs
          <5> QED
            BY <3>2, <5>1 DEF read_current_index
        <4>2. served[d[1]] = 0
          BY <3>1, <3>2 DEF served, Nothing
        <4> QED
          BY <3>1, <4>1, <4>2
      <3>3. CASE publication.current_snapshot_id # 0
        <4>1. PICK i \in DOMAIN preparations :
                 /\ read_current_index = {i}
                 /\ preparations[i].documents
                 /\ preparations[i].key.content = served
          BY <3>3, CurrentIndex DEF Consistent
        <4>2. Found(d) <=> served[d[1]] = d[2]
          BY <4>1
        <4>3. served[d[1]] = d[2] => published[d[1]] = d[2]
          BY <3>1 DEF Consistent, Pointed
        <4> HIDE DEF Found
        <4> QED
          BY <4>2, <4>3
      <3> QED
        BY <3>2, <3>3
    <2> QED
      BY <2>1 DEF search_channels
  <1> QED
    BY <1>1, Safe, ConsistentAlways, PTL
----------------------------------------------------------------------------
(* How a call moves *)

(* What a coordinator step may make of the record of its caller: the key    *)
(* and the changes stay, a manifest is the one the call had or the one read *)
(* now, and a preparation is the one it had or one of the current model.    *)
MayBecome(p, r) ==
    /\ r.idempotency_key = call[p].idempotency_key /\ r.changes = call[p].changes
    /\ r.pc \in Manifested =>
          \/ call[p].pc \in Manifested /\ r.manifest = call[p].manifest
          \/ r.manifest = check_cards(Overlaid(p))
    /\ r.pc \in {"embed", "commit"} =>
          \/ call[p].pc = "embed" /\ r.prepared_id = call[p].prepared_id
          \/ preparations'[r.prepared_id].embedding_model = embedding_model

Advances(p) == \E r : call' = [call EXCEPT ![p] = r] /\ MayBecome(p, r)

(* Every coordinator step that does not return moves its call that way.     *)
LEMMA AdvanceStep ==
  ASSUME TypeInv, NEW p \in Procs, Coordinate(p), ~Return(p)
  PROVE  Advances(p) /\ UNCHANGED embedding_model
  <1>0. call[p] \in Call
    BY DEF TypeInv, TypeOK, Call
  <1>1. CASE read_operation(p)
    <2> DEFINE r == [call[p] EXCEPT !.pc = "publication"]
    <2>1. call' = [call EXCEPT ![p] = r] /\ UNCHANGED embedding_model
      BY <1>1 DEF read_operation, Private, clockVars
    <2>2. MayBecome(p, r)
      BY <1>0 DEF MayBecome, Call, Manifested
    <2> QED
      BY <2>1, <2>2 DEF Advances
  <1>2. CASE read_publication(p)
    <2> DEFINE r == [call[p] EXCEPT !.publication_revision = publication.publication_revision,
                        !.current_snapshot_id = publication.current_snapshot_id,
                        !.pc = IF Listed(call[p].changes) # {} THEN "cards" ELSE "manifest"]
    <2>1. call' = [call EXCEPT ![p] = r] /\ UNCHANGED embedding_model
      BY <1>2 DEF read_publication, Private, clockVars
    <2>2. MayBecome(p, r)
      BY <1>0 DEF MayBecome, Call, Manifested
    <2> QED
      BY <2>1, <2>2 DEF Advances
  <1>3. CASE read_cards(p)
    <2> DEFINE r == [call[p] EXCEPT !.pc = "manifest"]
    <2>1. call' = [call EXCEPT ![p] = r] /\ UNCHANGED embedding_model
      BY <1>3 DEF read_cards, Private, clockVars
    <2>2. MayBecome(p, r)
      BY <1>0 DEF MayBecome, Call, Manifested
    <2> QED
      BY <2>1, <2>2 DEF Advances
  <1>4. CASE read_manifest(p)
    <2> DEFINE kept == check_cards(Overlaid(p))
               r == [call[p] EXCEPT !.manifest = kept, !.pc = "prepare"]
    <2>1. call' = [call EXCEPT ![p] = r] /\ UNCHANGED embedding_model
      BY <1>4 DEF read_manifest, Private, clockVars
    <2>2. MayBecome(p, r)
      <3> HIDE DEF kept
      <3>1. /\ r.idempotency_key = call[p].idempotency_key /\ r.changes = call[p].changes
            /\ r.manifest = kept /\ r.pc = "prepare"
        BY <1>0 DEF Call
      <3> HIDE DEF r
      <3> QED
        BY <3>1 DEF MayBecome, Manifested, kept
    <2> QED
      BY <2>1, <2>2 DEF Advances
  <1>5. CASE ReusePreparation(p)
    <2>1. PICK i \in RowsOf(prepare_key(p)) :
             Reusable(i) /\ call' = [call EXCEPT ![p].prepared_id = i, ![p].pc = "commit"]
      BY <1>5 DEF ReusePreparation
    <2> DEFINE r == [call[p] EXCEPT !.prepared_id = i, !.pc = "commit"]
    <2>2. call' = [call EXCEPT ![p] = r] /\ UNCHANGED <<embedding_model, preparations>>
      BY <1>5, <2>1 DEF ReusePreparation, Private, clockVars
    <2>3. preparations'[i].embedding_model = embedding_model
      BY <2>1, <2>2 DEF Reusable, SameRequest
    <2>4. MayBecome(p, r)
      BY <1>0, <1>5, <2>3 DEF MayBecome, Call, Manifested, ReusePreparation
    <2> QED
      BY <2>2, <2>4 DEF Advances
  <1>6. CASE ReclaimPreparation(p)
    <2>1. PICK i \in RowsOf(prepare_key(p)) :
             /\ Reclaimable(i)
             /\ preparations' = [preparations EXCEPT ![i] =
                                   [@ EXCEPT !.attempt_no = preparations[i].attempt_no + 1,
                                             !.leased = TRUE]]
             /\ call' = [call EXCEPT ![p].prepared_id = i, ![p].pc = "embed",
                                     ![p].claim = preparations[i].attempt_no + 1]
      BY <1>6 DEF ReclaimPreparation
    <2> DEFINE n == preparations[i].attempt_no + 1
               r == [call[p] EXCEPT !.prepared_id = i, !.pc = "embed", !.claim = n]
               row == [preparations[i] EXCEPT !.attempt_no = n, !.leased = TRUE]
    <2>2. call' = [call EXCEPT ![p] = r] /\ UNCHANGED embedding_model
      BY <1>6, <2>1 DEF ReclaimPreparation, Private, clockVars
    <2>3. i \in DOMAIN preparations /\ preparations' = [preparations EXCEPT ![i] = row]
      BY <2>1 DEF RowsOf
    <2> HIDE DEF n
    <2>4. row.embedding_model = embedding_model
      BY <2>1, <2>3, RowsTyped DEF Reclaimable, SameRequest, Preparation
    <2>5. preparations'[i].embedding_model = embedding_model
      <3> HIDE DEF row
      <3> QED
        BY <2>3, <2>4, RowWritten
    <2>6. MayBecome(p, r)
      <3>1. /\ r.idempotency_key = call[p].idempotency_key /\ r.changes = call[p].changes
            /\ r.manifest = call[p].manifest /\ r.prepared_id = i
        BY <1>0 DEF Call
      <3>2. call[p].pc \in Manifested
        BY <1>6 DEF ReclaimPreparation, Manifested
      <3> HIDE DEF r
      <3> QED
        BY <2>5, <3>1, <3>2 DEF MayBecome
    <2> QED
      BY <2>2, <2>6 DEF Advances
  <1>7. CASE InsertPreparation(p)
    <2> DEFINE n == Len(preparations) + 1
               r == [call[p] EXCEPT !.prepared_id = n, !.pc = "embed", !.claim = 1]
               row == [key |-> prepare_key(p), embedding_model |-> embedding_model,
                       state |-> "PREPARING", attempt_no |-> 1, leased |-> TRUE,
                       expired |-> FALSE, documents |-> FALSE]
    <2>1. call' = [call EXCEPT ![p] = r] /\ UNCHANGED embedding_model
      BY <1>7 DEF InsertPreparation, Private, clockVars
    <2>2. preparations' = Append(preparations, row) /\ row.embedding_model = embedding_model
      BY <1>7 DEF InsertPreparation
    <2>3. preparations'[n].embedding_model = embedding_model
      <3>1. prepare_key(p) \in PrepareKeys /\ embedding_model \in Nat
        BY DEF prepare_key, expected_publication_revision, PrepareKeys, TypeInv, TypeOK
      <3>2. row \in Preparation
        BY <3>1 DEF Preparation, PreparationStates
      <3> HIDE DEF row
      <3> QED
        BY <2>2, <3>2, RowsTyped, AppendProperties
    <2>4. MayBecome(p, r)
      <3> HIDE DEF n
      <3>1. /\ r.idempotency_key = call[p].idempotency_key /\ r.changes = call[p].changes
            /\ r.manifest = call[p].manifest /\ r.prepared_id = n
        BY <1>0 DEF Call
      <3>2. call[p].pc \in Manifested
        BY <1>7 DEF InsertPreparation, Manifested
      <3> HIDE DEF r
      <3> QED
        BY <2>3, <3>1, <3>2 DEF MayBecome
    <2> QED
      BY <2>1, <2>4 DEF Advances
  <1>8. CASE FinishEmbedding(p)
    <2> DEFINE r == [call[p] EXCEPT !.pc = "commit"]
    <2>1. call' = [call EXCEPT ![p] = r] /\ UNCHANGED embedding_model
      BY <1>8 DEF FinishEmbedding, Private, clockVars
    <2>2. MayBecome(p, r)
      BY <1>0, <1>8 DEF MayBecome, Call, Manifested, FinishEmbedding
    <2> QED
      BY <2>1, <2>2 DEF Advances
  <1> QED
    BY <1>1, <1>2, <1>3, <1>4, <1>5, <1>6, <1>7, <1>8
    DEF Coordinate, PreparationRefused, FailEmbedding, Commit, RejectCommit, Crash

Requests(p) ==
    \/ \E c \in Cards : approve_card(p, c) \/ exclude_card(p, c) \/ restore_card(p, c)
    \/ bootstrap_store_index(p) \/ ensure_initial_publication(p)
    \/ \E q \in Proposals : approve_owner_proposal(p, q)

(* A call that begins has its key and its changes.                          *)
LEMMA BegunCall ==
  ASSUME TypeInv, NEW p \in Procs, NEW key, NEW changes, NEW empty,
         Begin(p, key, changes, empty)
  PROVE  /\ call'[p].pc = "operation" /\ call'[p].idempotency_key = key
         /\ call'[p].changes = changes
  <1> DEFINE r == [Idle EXCEPT !.pc = "operation", !.idempotency_key = key,
                               !.changes = changes, !.initialize_empty = empty]
  <1>1. call' = [call EXCEPT ![p] = r]
    BY DEF Begin
  <1>2. r.pc = "operation" /\ r.idempotency_key = key /\ r.changes = changes
    BY DEF Idle
  <1> HIDE DEF r
  <1> QED
    BY <1>1, <1>2, OthersUnmoved

(* A step begins one call, moves or ends one, ends all, or leaves them.     *)
OthersStay(p) == \A q \in Procs \ {p} : call'[q] = call[q]
CallStep(p) == /\ OthersStay(p) /\ UNCHANGED embedding_model
               /\ Requests(p) \/ call'[p] = Idle \/ Advances(p)

(* Every step is of one of these forms.                                     *)
LEMMA CallSteps ==
  ASSUME TypeInv, [Next]_vars
  PROVE  \/ UNCHANGED <<call, embedding_model>>
         \/ \A q \in Procs : call'[q] = Idle
         \/ \E p \in Procs : CallStep(p)
  <1>1. ASSUME NEW p \in Procs, Requests(p) PROVE CallStep(p)
    <2>1. UNCHANGED embedding_model
      BY <1>1 DEF Requests, approve_card, exclude_card, restore_card, bootstrap_store_index,
                  ensure_initial_publication, approve_owner_proposal, clockVars
    <2>2. UNCHANGED call \/ \E r : call' = [call EXCEPT ![p] = r]
      BY <1>1 DEF Requests, approve_card, exclude_card, restore_card, bootstrap_store_index,
                  ensure_initial_publication, approve_owner_proposal, Begin
    <2>3. OthersStay(p)
      BY <2>2, OthersUnmoved DEF OthersStay, Unmoved
    <2> QED
      BY <1>1, <2>1, <2>3 DEF CallStep
  <1>2. ASSUME NEW p \in Procs, Coordinate(p) PROVE CallStep(p)
    <2>1. CASE Return(p)
      <3>1. UNCHANGED embedding_model
        BY <1>2 DEF Coordinate, Private, clockVars, read_operation, read_publication,
           read_cards, read_manifest, ReusePreparation, ReclaimPreparation, InsertPreparation,
           PreparationRefused, FinishEmbedding, FailEmbedding, Commit, RejectCommit, Crash
      <3> QED
        BY <2>1, <3>1, OthersUnmoved DEF Return, CallStep, OthersStay, Unmoved
    <2>2. CASE ~Return(p)
      BY <1>2, <2>2, AdvanceStep, OthersUnmoved DEF Advances, CallStep, OthersStay, Unmoved
    <2> QED
      BY <2>1, <2>2
  <1>3. CASE DeployModel
    BY <1>3 DEF DeployModel
  <1>4. CASE UNCHANGED <<call, embedding_model>>
    BY <1>4
  <1> QED
    BY <1>1, <1>2, <1>3, <1>4
    DEF Requests, Next, vars, WriteDraft, close_already_published, dismiss_knowledge_proposal,
        LeaseExpires, PreparationExpires, PurgeDocuments, WindowPasses, clockVars
----------------------------------------------------------------------------
(* The model of a preparation *)

(* Whoever embeds or commits holds a preparation of the running model: a    *)
(* deployment ends every call.                                              *)
Modelled == \A p \in Procs : call[p].pc \in {"embed", "commit"} =>
    preparations[call[p].prepared_id].embedding_model = embedding_model

(* No step gives a preparation another model.                               *)
LEMMA ModelKept ==
  ASSUME TypeInv, [Next]_vars, NEW i \in DOMAIN preparations
  PROVE  preparations'[i].embedding_model = preparations[i].embedding_model
  <1>1. ASSUME NEW p \in Procs, Commit(p)
        PROVE  preparations'[i].embedding_model = preparations[i].embedding_model
    BY <1>1, CommitRows DEF CommitsRows
  <1>2. CASE ~Publishes
    BY <1>2, QuietRows DEF RowsKept, KeptAs
  <1> QED
    BY <1>1, <1>2 DEF Publishes

(* A deployment, and only it, changes the model.                            *)
LEMMA ModelledStep ==
  ASSUME TypeInv, Modelled, [Next]_vars
  PROVE  Modelled'
  <1>1. ASSUME NEW q \in Procs, UNCHANGED embedding_model, call'[q] = call[q],
               call[q].pc \in {"embed", "commit"}
        PROVE  preparations'[call'[q].prepared_id].embedding_model = embedding_model'
    BY <1>1, ModelKept DEF Modelled, TypeInv, PreparationKnown
  <1>2. CASE UNCHANGED <<call, embedding_model>>
    BY <1>1, <1>2 DEF Modelled
  <1>3. CASE \A q \in Procs : call'[q] = Idle
    BY <1>3 DEF Modelled, Idle
  <1>4. ASSUME NEW p \in Procs, CallStep(p) PROVE Modelled'
    <2>1. ASSUME call'[p].pc \in {"embed", "commit"}
          PROVE  preparations'[call'[p].prepared_id].embedding_model = embedding_model'
      <3>1. CASE Requests(p)
        <4>1. UNCHANGED call \/ call'[p].pc = "operation"
          BY <3>1, BegunCall DEF Requests, approve_card, exclude_card, restore_card,
             bootstrap_store_index, ensure_initial_publication, approve_owner_proposal
        <4> QED
          BY <1>1, <1>4, <2>1, <4>1 DEF CallStep
      <3>2. CASE call'[p] = Idle
        BY <2>1, <3>2 DEF Idle
      <3>3. CASE Advances(p)
        <4>1. PICK r : call' = [call EXCEPT ![p] = r] /\ MayBecome(p, r)
          BY <3>3 DEF Advances
        <4>2. call'[p] = r
          BY <4>1, OthersUnmoved
        <4>3. CASE call[p].pc = "embed" /\ r.prepared_id = call[p].prepared_id
          BY <1>4, <4>2, <4>3, ModelKept DEF Modelled, TypeInv, PreparationKnown, CallStep
        <4> QED
          BY <1>4, <2>1, <4>1, <4>2, <4>3 DEF MayBecome, CallStep
      <3> QED
        BY <1>4, <3>1, <3>2, <3>3 DEF CallStep
    <2>2. ASSUME NEW q \in Procs, q # p, call'[q].pc \in {"embed", "commit"}
          PROVE  preparations'[call'[q].prepared_id].embedding_model = embedding_model'
      BY <1>1, <1>4, <2>2 DEF CallStep, OthersStay
    <2> QED
      BY <2>1, <2>2 DEF Modelled
  <1> QED
    BY <1>2, <1>3, <1>4, CallSteps

(* Every index that a publication activates was embedded by the model that  *)
(* the deployment queries with, although the activation does not compare    *)
(* models and the embedding takes as long as a release may.                 *)
THEOREM CurrentModelActivated == Spec => ActivatesCurrentModel
  <1>1. Init => Modelled
    BY DEF Init, Modelled, Idle
  <1>2. TypeInv /\ Modelled /\ [Next]_vars => Modelled'
    BY ModelledStep
  <1>3. TypeInv /\ Modelled /\ [Next]_vars =>
          [\A i \in DOMAIN preparations :
              preparations'[i].state = "CONSUMED" /\ preparations[i].state # "CONSUMED"
                 => preparations[i].embedding_model = embedding_model]_vars
    <2> SUFFICES ASSUME TypeInv, Modelled, [Next]_vars, NEW i \in DOMAIN preparations,
                        preparations'[i].state = "CONSUMED", preparations[i].state # "CONSUMED"
                 PROVE  preparations[i].embedding_model = embedding_model
      OBVIOUS
    <2>1. PICK p \in Procs : Commit(p)
      BY QuietRows DEF RowsKept, KeptAs, Publishes
    <2>2. i = call[p].prepared_id
      BY <2>1, CommitRows DEF CommitsRows
    <2>3. call[p].pc = "commit"
      BY <2>1 DEF Commit
    <2> QED
      BY <2>2, <2>3 DEF Modelled
  <1> QED
    BY <1>1, <1>2, <1>3, InitType, StepType, PTL DEF ActivatesCurrentModel, Spec
----------------------------------------------------------------------------
(* Operations and their keys *)

(* What an operation did: its snapshot lists the versions it asked for, and *)
(* the pointers have not gone back behind them.                             *)
Applied(o) ==
    /\ o.snapshot_id \in DOMAIN snapshots
    /\ \A c \in Cards : o.body[c] # 0 =>
          snapshots[o.snapshot_id].manifest[c] = o.body[c] /\ o.body[c] <= published[c]
Once == \A o, x \in operations :
    x.idempotency_key = o.idempotency_key \/ x.snapshot_id = o.snapshot_id => x = o
AppliedOnce == Once /\ \A o \in operations : Applied(o)

(* A publication records its own operation and moves no pointer back.       *)
LEMMA CommitAppliedOnce ==
  ASSUME TypeInv, SafeInv, Pointed, AppliedOnce, NEW p \in Procs, Commit(p)
  PROVE  AppliedOnce'
  <1> DEFINE id == Len(snapshots) + 1
             new == [idempotency_key |-> call[p].idempotency_key, body |-> call[p].changes,
                     snapshot_id |-> id]
  <1>1. CommitsSnapshot(p)
    BY CommitSnapshot
  <1>2. operations' = operations \cup {new}
    BY DEF Commit, publish_knowledge
  <1>3. /\ new.idempotency_key = call[p].idempotency_key /\ new.body = call[p].changes
        /\ new.snapshot_id = id
    OBVIOUS
  <1> HIDE DEF new
  <1>4. ASSUME NEW o \in operations PROVE Applied(o)'
    <2>1. Applied(o)
      BY DEF AppliedOnce
    <2>2. /\ o.snapshot_id \in DOMAIN snapshots'
          /\ snapshots'[o.snapshot_id] = snapshots[o.snapshot_id]
      BY <1>1, <2>1 DEF Applied, CommitsSnapshot
    <2>3. ASSUME NEW c \in Cards, o.body[c] # 0 PROVE o.body[c] <= published'[c]
      <3>1. o.body[c] <= published[c] /\ published[c] <= published'[c]
        BY <2>1, <2>3, CommitPointers DEF Applied
      <3>2. o.body[c] \in Nat /\ published[c] \in Nat /\ published'[c] \in Nat
        BY CommitType DEF TypeInv, TypeOK, Manifest
      <3> QED
        BY <3>1, <3>2
    <2> QED
      BY <2>1, <2>2, <2>3 DEF Applied
  <1>5. \A x : x = new => Applied(x)'
    <2>1. ASSUME NEW c \in Cards, call[p].changes[c] # 0
          PROVE  call[p].manifest[c] = call[p].changes[c] /\ call[p].changes[c] <= published'[c]
      <3>1. call[p].pc \in Manifested
        BY DEF Commit, Manifested
      <3>2. published'[c] = call[p].changes[c] /\ published'[c] \in Nat
        BY <2>1, CommitPointers, CommitType DEF TypeInv, TypeOK
      <3> QED
        BY <2>1, <3>1, <3>2 DEF SafeInv, Sound
    <2> QED
      BY <1>1, <1>3, <2>1 DEF Applied, CommitsSnapshot
  <1>6. Once'
    <2>1. \A o \in operations : o.idempotency_key # call[p].idempotency_key
      BY DEF Commit, MayCommit, OperationsOf
    <2>2. \A o \in operations : o.snapshot_id # id
      BY <1>1 DEF AppliedOnce, Applied, CommitsSnapshot
    <2> QED
      BY <1>2, <1>3, <2>1, <2>2 DEF AppliedOnce, Once
  <1> QED
    BY <1>2, <1>4, <1>5, <1>6 DEF AppliedOnce

LEMMA AppliedOnceStep ==
  ASSUME TypeInv, SafeInv, Consistent, AppliedOnce, [Next]_vars
  PROVE  AppliedOnce'
  <1>1. ASSUME NEW p \in Procs, Commit(p) PROVE AppliedOnce'
    BY <1>1, CommitAppliedOnce DEF Consistent
  <1>2. CASE ~Publishes
    BY <1>2, NothingPublished DEF AppliedOnce, Once, Applied
  <1> QED
    BY <1>1, <1>2 DEF Publishes

(* A key is applied at most once, with the effect it asked for, however     *)
(* often and by however many callers its request is repeated.               *)
THEOREM AppliedOnceAlways == Spec => []OperationsAppliedOnce
  <1>1. Init => AppliedOnce
    BY DEF Init, AppliedOnce, Once
  <1>2. (TypeInv /\ SafeInv) /\ Consistent /\ AppliedOnce /\ [Next]_vars => AppliedOnce'
    BY AppliedOnceStep
  <1>3. TypeInv /\ AppliedOnce => OperationsAppliedOnce
    <2> SUFFICES ASSUME TypeInv, AppliedOnce, NEW o \in operations
                 PROVE  /\ \A x \in operations : x.idempotency_key = o.idempotency_key
                                                \/ x.snapshot_id = o.snapshot_id => x = o
                        /\ \A c \in Listed(o.body) :
                              /\ snapshots[o.snapshot_id].manifest[c] = o.body[c]
                              /\ published[c] >= o.body[c]
      BY DEF OperationsAppliedOnce
    <2>1. ASSUME NEW c \in Listed(o.body)
          PROVE  snapshots[o.snapshot_id].manifest[c] = o.body[c] /\ published[c] >= o.body[c]
      <3>1. c \in Cards /\ o.body[c] # 0 /\ o.body[c] \in Nat /\ published[c] \in Nat
        BY DEF Listed, TypeInv, TypeOK, Manifest
      <3> QED
        BY <3>1 DEF AppliedOnce, Applied
    <2> QED
      BY <2>1 DEF AppliedOnce, Once
  <1> QED
    BY <1>1, <1>2, <1>3, Safe, ConsistentAlways, PTL DEF Spec

(* The key of an approval names its one change, and the other keys but that *)
(* of a proposal belong to requests that change nothing.                    *)
Fits(key, changes) ==
    /\ key.kind = "approve" => changes = [Nothing EXCEPT ![key.card] = key.id]
    /\ key.kind \notin {"approve", "proposal"} => changes = Nothing

(* Exclusions and restorations number their keys: no number is used before  *)
(* its event, by two calls, or by a call whose operation is committed.      *)
Visibility == {"exclude", "restore"}
Numbered(key) == key.kind \in Visibility => key.id <= visibility_events
Unshared(p) == LET key == call[p].idempotency_key IN
    key.kind \in Visibility =>
        /\ \A o \in operations : o.idempotency_key # key
        /\ \A q \in Procs : call[q].idempotency_key = key => q = p
Identified ==
    /\ \A p \in Procs : /\ Fits(call[p].idempotency_key, call[p].changes)
                        /\ Numbered(call[p].idempotency_key) /\ Unshared(p)
    /\ \A o \in operations : Fits(o.idempotency_key, o.body) /\ Numbered(o.idempotency_key)

(* What a step may do to the key of one call: keep it, take one that is not *)
(* numbered, or take the next number.                                       *)
Rekeyed(p) ==
    /\ Fits(call'[p].idempotency_key, call'[p].changes)
    /\ \/ call'[p].idempotency_key = call[p].idempotency_key
       \/ call'[p].idempotency_key.kind \notin Visibility
       \/ /\ call'[p].idempotency_key.id = visibility_events + 1
          /\ visibility_events' = visibility_events + 1

(* A call that begins with a fitting key.                                   *)
LEMMA BegunRekeyed ==
  ASSUME TypeInv, NEW p \in Procs, NEW key \in Keys, NEW changes, NEW empty,
         Begin(p, key, changes, empty), Fits(key, changes),
         \/ key.kind \notin Visibility
         \/ key.id = visibility_events + 1 /\ visibility_events' = visibility_events + 1
  PROVE  Rekeyed(p)
  BY BegunCall DEF Rekeyed

(* Every request takes a fitting key.                                       *)
LEMMA RequestRekeyed ==
  ASSUME TypeInv, Identified, NEW p \in Procs, Requests(p)
  PROVE  Rekeyed(p)
  <1>0. visibility_events \in Nat
    BY DEF TypeInv, TypeOK
  <1>1. ASSUME NEW c \in Cards, approve_card(p, c) PROVE Rekeyed(p)
    <2> DEFINE changes == [Nothing EXCEPT ![c] = draft[c]]
    <2>1. ApproveKey(c) \in Keys /\ ApproveKey(c).kind \notin Visibility
      BY DEF TypeInv, TypeOK, ApproveKey, Keys, Visibility
    <2>2. Fits(ApproveKey(c), changes)
      BY DEF ApproveKey, Fits
    <2>3. Begin(p, ApproveKey(c), changes, FALSE)
      BY <1>1 DEF approve_card
    <2> HIDE DEF changes
    <2> QED
      BY <2>1, <2>2, <2>3, BegunRekeyed
  <1>2. ASSUME NEW kind \in Visibility, NEW c \in Cards,
               Begin(p, RepublishKey(kind, c), Nothing, FALSE),
               visibility_events' = visibility_events + 1
        PROVE  Rekeyed(p)
    <2>1. /\ RepublishKey(kind, c) \in Keys /\ RepublishKey(kind, c).id = visibility_events + 1
          /\ Fits(RepublishKey(kind, c), Nothing)
      BY <1>0 DEF RepublishKey, Keys, Visibility, Fits
    <2> QED
      BY <1>2, <2>1, BegunRekeyed
  <1>3. UNCHANGED call => Rekeyed(p)
    BY DEF Rekeyed, Identified
  <1>4. ASSUME NEW c \in Cards, exclude_card(p, c) \/ restore_card(p, c) PROVE Rekeyed(p)
    BY <1>2, <1>3, <1>4 DEF exclude_card, restore_card, Visibility
  <1>5. CASE bootstrap_store_index(p)
    <2> DEFINE key == [kind |-> "bootstrap", card |-> NoCard,
                       id |-> publication.publication_revision]
    <2>1. key \in Keys /\ key.kind \notin Visibility /\ Fits(key, Nothing)
      BY DEF TypeInv, TypeOK, Keys, Visibility, Fits
    <2>2. Begin(p, key, Nothing, FALSE)
      BY <1>5 DEF bootstrap_store_index
    <2> HIDE DEF key
    <2> QED
      BY <2>1, <2>2, BegunRekeyed
  <1>6. CASE ensure_initial_publication(p)
    <2> DEFINE key == [kind |-> "initial", card |-> NoCard, id |-> 0]
    <2>1. key \in Keys /\ key.kind \notin Visibility /\ Fits(key, Nothing)
      BY DEF Keys, Visibility, Fits
    <2>2. Begin(p, key, Nothing, TRUE)
      BY <1>6 DEF ensure_initial_publication
    <2> HIDE DEF key
    <2> QED
      BY <2>1, <2>2, BegunRekeyed
  <1>7. ASSUME NEW q \in Proposals, approve_owner_proposal(p, q) PROVE Rekeyed(p)
    <2> DEFINE key == [kind |-> "proposal", card |-> NoCard, id |-> q]
    <2>1. key \in Keys /\ key.kind \notin Visibility /\ Fits(key, ProposalChanges(q))
      BY ProposalsAssumption DEF Keys, Visibility, Fits
    <2>2. Begin(p, key, ProposalChanges(q), FALSE)
      BY <1>7 DEF approve_owner_proposal
    <2> HIDE DEF key
    <2> QED
      BY <2>1, <2>2, BegunRekeyed
  <1> QED
    BY <1>1, <1>4, <1>5, <1>6, <1>7 DEF Requests

LEMMA IdleRekeyed ==
  ASSUME NEW p \in Procs, call'[p] = Idle
  PROVE  Rekeyed(p)
  BY DEF Rekeyed, Idle, Fits, Visibility

(* No other step changes the key of a call.                                 *)
LEMMA CallRekeyed ==
  ASSUME TypeInv, Identified, NEW p \in Procs, CallStep(p)
  PROVE  Rekeyed(p)
  <1>1. CASE Advances(p)
    <2>1. PICK r : call' = [call EXCEPT ![p] = r] /\ MayBecome(p, r)
      BY <1>1 DEF Advances
    <2>2. call'[p] = r
      BY <2>1, OthersUnmoved
    <2> QED
      BY <2>1, <2>2 DEF Rekeyed, MayBecome, Identified
  <1> QED
    BY <1>1, RequestRekeyed, IdleRekeyed DEF CallStep

(* The number of a key is new, so the invariant survives one new key at a   *)
(* time, or many that are not numbered.                                     *)
LEMMA RekeyedKeeps ==
  ASSUME TypeInv, Identified, \A q \in Procs : Rekeyed(q),
         \/ \E p \in Procs : OthersStay(p)
         \/ UNCHANGED call
         \/ \A q \in Procs : call'[q] = Idle,
         visibility_events' \in Nat, visibility_events <= visibility_events',
         \A o \in operations' :
            \/ o \in operations
            \/ \E p \in Procs :
                  /\ o.idempotency_key = call[p].idempotency_key /\ o.body = call[p].changes
                  /\ call'[p] = Idle
  PROVE  Identified'
  <1>0. visibility_events \in Nat /\ \A p \in Procs : call[p].idempotency_key.id \in Nat
    BY DEF TypeInv, TypeOK, Keys
  <1>1. \A p \in Procs : Numbered(call[p].idempotency_key)'
    BY <1>0 DEF Rekeyed, Identified, Numbered
  <1>2. \A o \in operations' : Fits(o.idempotency_key, o.body)
    BY DEF Identified
  <1>3. ASSUME NEW o \in operations' PROVE Numbered(o.idempotency_key)'
    <2>1. o.idempotency_key.kind \in Visibility => o.idempotency_key.id <= visibility_events
      BY DEF Identified, Numbered
    <2>2. o.idempotency_key.id \in Nat
      BY <1>0 DEF TypeInv, TypeOK, Keys
    <2> QED
      BY <1>0, <2>1, <2>2 DEF Numbered
  <1>4. ASSUME NEW p \in Procs, call'[p].idempotency_key.kind \in Visibility
        PROVE  /\ \A o \in operations' : o.idempotency_key # call'[p].idempotency_key
               /\ \A q \in Procs : call'[q].idempotency_key = call'[p].idempotency_key => q = p
    <2>i. \A q \in Procs : call'[q] = Idle => call'[q].idempotency_key.kind \notin Visibility
      BY DEF Idle, Visibility
    <2>1. CASE call'[p].idempotency_key = call[p].idempotency_key
      <3>1. ASSUME NEW q \in Procs, call'[q].idempotency_key = call'[p].idempotency_key
            PROVE  q = p
        <4>1. call[p].idempotency_key.id <= visibility_events
          BY <1>4, <2>1 DEF Identified, Numbered
        <4>2. call'[q].idempotency_key.id # visibility_events + 1
          BY <1>0, <2>1, <3>1, <4>1
        <4>3. call'[q].idempotency_key = call[q].idempotency_key
          BY <1>4, <3>1, <4>2 DEF Rekeyed
        <4> QED
          BY <1>4, <2>1, <3>1, <4>3 DEF Identified, Unshared
      <3>2. ASSUME NEW o \in operations' PROVE o.idempotency_key # call'[p].idempotency_key
        <4>1. CASE o \in operations
          BY <1>4, <2>1, <4>1 DEF Identified, Unshared
        <4>2. ASSUME NEW q \in Procs, o.idempotency_key = call[q].idempotency_key, call'[q] = Idle
              PROVE  o.idempotency_key # call'[p].idempotency_key
          <5>1. q # p
            BY <1>4, <2>i, <4>2
          <5> QED
            BY <1>4, <2>1, <4>2, <5>1 DEF Identified, Unshared
        <4> QED
          BY <4>1, <4>2
      <3> QED
        BY <3>1, <3>2
    <2>2. CASE call'[p].idempotency_key # call[p].idempotency_key
      <3>1. call'[p].idempotency_key.id = visibility_events + 1
        BY <1>4, <2>2 DEF Rekeyed
      <3>2. ASSUME NEW q \in Procs, q # p PROVE call'[q].idempotency_key # call'[p].idempotency_key
        <4>1. call'[q] = call[q]
          BY <1>4, <2>2, <2>i, <3>2 DEF OthersStay
        <4>2. call[q].idempotency_key.kind \in Visibility =>
                 call[q].idempotency_key.id <= visibility_events
          BY DEF Identified, Numbered
        <4> QED
          BY <1>0, <1>4, <3>1, <4>1, <4>2
      <3>3. ASSUME NEW o \in operations' PROVE o.idempotency_key # call'[p].idempotency_key
        <4>1. o.idempotency_key.kind \in Visibility => o.idempotency_key.id <= visibility_events
          BY DEF Identified, Numbered
        <4> QED
          BY <1>0, <1>4, <3>1, <4>1
      <3> QED
        BY <3>2, <3>3
    <2> QED
      BY <2>1, <2>2
  <1>5. \A p \in Procs : Fits(call'[p].idempotency_key, call'[p].changes)
    BY DEF Rekeyed
  <1> QED
    BY <1>1, <1>2, <1>3, <1>4, <1>5 DEF Identified, Unshared

(* Only a publication files an operation, under the key of a call it ends.  *)
LEMMA IdentifiedStep ==
  ASSUME TypeInv, Identified, [Next]_vars
  PROVE  Identified'
  <1>1. \A q \in Procs : call'[q] = call[q] => Rekeyed(q)
    BY DEF Rekeyed, Identified
  <1>2. visibility_events' \in Nat /\ visibility_events <= visibility_events'
    <2>1. UNCHANGED visibility_events \/ visibility_events' = visibility_events + 1
      BY DEF Next, Coordinate, vars, Private, WriteDraft, approve_card, exclude_card,
         restore_card, bootstrap_store_index, ensure_initial_publication, approve_owner_proposal,
         close_already_published, dismiss_knowledge_proposal, read_operation, read_publication,
         read_cards, read_manifest, ReusePreparation, ReclaimPreparation, InsertPreparation,
         PreparationRefused, FinishEmbedding, FailEmbedding, Commit, RejectCommit, Crash,
         LeaseExpires, PreparationExpires, PurgeDocuments, WindowPasses, DeployModel
    <2>2. visibility_events \in Nat
      BY DEF TypeInv, TypeOK
    <2> QED
      BY <2>1, <2>2
  <1>3. \A o \in operations' :
            \/ o \in operations
            \/ \E p \in Procs :
                  /\ o.idempotency_key = call[p].idempotency_key /\ o.body = call[p].changes
                  /\ call'[p] = Idle
    <2>1. ASSUME NEW p \in Procs, Commit(p), NEW o \in operations', o \notin operations
          PROVE  /\ o.idempotency_key = call[p].idempotency_key /\ o.body = call[p].changes
                 /\ call'[p] = Idle
      <3>1. /\ o.idempotency_key = call[p].idempotency_key /\ o.body = call[p].changes
        BY <2>1 DEF Commit, publish_knowledge
      <3>2. call'[p] = Idle
        BY <2>1, OthersUnmoved DEF Commit, Return
      <3> QED
        BY <3>1, <3>2
    <2>2. CASE ~Publishes
      BY <2>2, NothingPublished
    <2> QED
      BY <2>1, <2>2 DEF Publishes
  <1>4. CASE UNCHANGED call
    BY <1>1, <1>2, <1>3, <1>4, RekeyedKeeps
  <1>5. CASE \A q \in Procs : call'[q] = Idle
    BY <1>2, <1>3, <1>5, IdleRekeyed, RekeyedKeeps
  <1>6. ASSUME NEW p \in Procs, CallStep(p) PROVE Identified'
    <2>1. \A q \in Procs : Rekeyed(q)
      BY <1>1, <1>6, CallRekeyed DEF CallStep, OthersStay
    <2> QED
      BY <1>2, <1>3, <1>6, <2>1, RekeyedKeeps DEF CallStep
  <1> QED
    BY <1>4, <1>5, <1>6, CallSteps

(* An operation found under the key of a running call is that call's own:   *)
(* it did what the call asks for, and exclusions and restorations never     *)
(* find one.  (The two approvals of one proposal share their key.)          *)
THEOREM RequestsIdentified == Spec => []KeysIdentifyRequests
  <1>1. Init => Identified
    <2> SUFFICES ASSUME Init PROVE Identified
      OBVIOUS
    <2>1. \A p \in Procs : call[p] = Idle
      BY DEF Init
    <2> QED
      BY <2>1 DEF Init, Identified, Fits, Numbered, Unshared, Visibility, Idle
  <1>2. TypeInv /\ Identified /\ [Next]_vars => Identified'
    BY IdentifiedStep
  <1>3. Identified => KeysIdentifyRequests
    <2> SUFFICES ASSUME Identified, NEW p \in Procs,
                        NEW o \in OperationsOf(call[p].idempotency_key)
                 PROVE  /\ call[p].idempotency_key.kind # "proposal" => o.body = call[p].changes
                        /\ call[p].idempotency_key.kind \notin {"exclude", "restore"}
      BY DEF KeysIdentifyRequests
    <2>1. o \in operations /\ o.idempotency_key = call[p].idempotency_key
      BY DEF OperationsOf
    <2>2. Fits(call[p].idempotency_key, call[p].changes) /\ Fits(o.idempotency_key, o.body)
          /\ Unshared(p)
      BY <2>1 DEF Identified
    <2> QED
      BY <2>1, <2>2 DEF Fits, Unshared, Visibility
  <1> QED
    BY <1>1, <1>2, <1>3, InitType, StepType, PTL DEF Spec
----------------------------------------------------------------------------
(* The register that publishing implements *)

(* Every version in the manifest of a call may be published.                *)
Vetted == \A p \in Procs : call[p].pc \in Manifested =>
    \A c \in Cards : call[p].manifest[c] # 0 => Publishable(c, call[p].manifest[c])

(* A manifest is vetted when it is read, and is not changed after.          *)
LEMMA VettedStep ==
  ASSUME TypeInv, Vetted, [Next]_vars
  PROVE  Vetted'
  <1>1. CASE UNCHANGED call
    BY <1>1 DEF Vetted, Publishable
  <1>2. CASE \A q \in Procs : call'[q] = Idle
    BY <1>2 DEF Vetted, Idle, Manifested
  <1>3. ASSUME NEW p \in Procs, CallStep(p) PROVE Vetted'
    <2>1. ASSUME NEW c \in Cards, call'[p].pc \in Manifested, call'[p].manifest[c] # 0
          PROVE  Publishable(c, call'[p].manifest[c])
      <3>1. CASE Requests(p)
        <4>1. UNCHANGED call \/ call'[p].pc = "operation"
          BY <3>1, BegunCall DEF Requests, approve_card, exclude_card, restore_card,
             bootstrap_store_index, ensure_initial_publication, approve_owner_proposal
        <4> QED
          BY <2>1, <4>1 DEF Vetted, Manifested
      <3>2. CASE call'[p] = Idle
        BY <2>1, <3>2 DEF Idle, Manifested
      <3>3. CASE Advances(p)
        <4>1. PICK r : call' = [call EXCEPT ![p] = r] /\ MayBecome(p, r)
          BY <3>3 DEF Advances
        <4>2. call'[p] = r
          BY <4>1, OthersUnmoved
        <4>3. CASE r.manifest = check_cards(Overlaid(p))
          BY <2>1, <4>2, <4>3 DEF check_cards, Publishable
        <4> QED
          BY <2>1, <4>1, <4>2, <4>3 DEF MayBecome, Vetted
      <3> QED
        BY <1>3, <3>1, <3>2, <3>3 DEF CallStep
    <2> QED
      BY <1>3, <2>1 DEF CallStep, OthersStay, Vetted, Publishable
  <1> QED
    BY <1>1, <1>2, <1>3, CallSteps

RegisterStep == [Register!Next]_(Register!vars)

(* A publication is one step of the register: its changes are taken, and    *)
(* the approved publishable cards it leaves out were all restored.          *)
LEMMA CommitRegisters ==
  ASSUME TypeInv, SafeInv, Vetted, NEW p \in Procs, Commit(p)
  PROVE  RegisterStep
  <1> DEFINE taken == Listed(call[p].changes)
             omitted == {c \in Cards : /\ status'[c] = "APPROVED"
                                       /\ Publishable(c, published'[c]) /\ served'[c] = 0}
  <1>0. /\ call[p].pc \in Manifested /\ Sound(p) /\ Covers(p)
        /\ ChangesHold(call[p].changes)
    BY DEF Commit, MayCommit, RevisionHolds, expected_publication_revision, cas_holds, Manifested,
           SafeInv, Sound
  <1>1. /\ served' = call[p].manifest
        /\ publication'.publication_revision = publication.publication_revision + 1
    BY CommitServes
  <1>2. /\ \A c \in Cards : /\ status'[c] = IF call[p].changes[c] # 0 THEN "APPROVED" ELSE status[c]
                            /\ published'[c] = IF call[p].changes[c] # 0 THEN call[p].changes[c]
                                               ELSE published[c]
        /\ UNCHANGED draft
    BY DEF Commit, mark_published
  <1>3. \A c \in taken : /\ draft[c] # 0 /\ status[c] # "EXCLUDED" /\ Publishable(c, draft[c])
                         /\ draft[c] = call[p].changes[c] /\ served'[c] = draft[c]
    BY <1>0, <1>1 DEF Listed, ChangesHold, Sound, Vetted
  <1>4. omitted \subseteq restored \ taken
    BY <1>0, <1>1, <1>2, <1>3 DEF Covers, Listed
  <1>5. published' = [c \in Cards |-> IF c \in taken THEN draft[c] ELSE published[c]]
    BY <1>3 DEF Commit, mark_published, Listed
  <1>6. status' = [c \in Cards |-> IF c \in taken THEN "APPROVED" ELSE status[c]]
    BY DEF Commit, mark_published, Listed
  <1>7. served' = [c \in Cards |-> IF /\ status'[c] = "APPROVED" /\ c \notin omitted
                                      /\ Publishable(c, published'[c])
                                   THEN published'[c] ELSE 0]
    <2>1. served' \in Manifest
      BY <1>1 DEF TypeInv, TypeOK
    <2>2. ASSUME NEW c \in Cards
          PROVE  served'[c] = IF /\ status'[c] = "APPROVED" /\ c \notin omitted
                                 /\ Publishable(c, published'[c])
                              THEN published'[c] ELSE 0
      <3>1. CASE served'[c] # 0
        BY <1>0, <1>1, <3>1, CommitReviewed DEF Vetted
      <3>2. CASE served'[c] = 0
        BY <3>2
      <3> QED
        BY <3>1, <3>2
    <2> HIDE DEF omitted
    <2> QED
      BY <2>1, <2>2 DEF Manifest
  <1>8. restored' = {c \in restored : served'[c] = 0}
    BY <1>1 DEF Commit, Listed, TypeInv, TypeOK
  <1>9. taken \in SUBSET Cards /\ omitted \in SUBSET Cards
    BY DEF Listed
  <1> HIDE DEF taken, omitted
  <1>10. Register!Publish(taken, omitted)
    BY <1>1, <1>2, <1>3, <1>4, <1>5, <1>6, <1>7, <1>8
    DEF Register!Publish, Register!Publishable, Publishable
  <1> QED
    BY <1>9, <1>10 DEF RegisterStep, Register!Next

(* The register sees cards, pointers, snapshots and restorations only.      *)
LEMMA RegisterStutter ==
  UNCHANGED <<status, draft, published, publication, snapshots, restored>> => RegisterStep
  BY DEF RegisterStep, Register!vars, served, Nothing

(* Every step is a step of the register or a stutter.                       *)
LEMMA RegisterStepped ==
  ASSUME TypeInv, SafeInv, Vetted, [Next]_vars
  PROVE  RegisterStep
  <1>1. ASSUME NEW c \in Cards, WriteDraft(c) PROVE RegisterStep
    <2>1. Register!WriteDraft(c)
      BY <1>1 DEF WriteDraft, Register!WriteDraft, publicVars, served, Nothing
    <2> QED
      BY <2>1 DEF RegisterStep, Register!Next
  <1>2. ASSUME NEW p \in Procs, NEW c \in Cards, exclude_card(p, c) PROVE RegisterStep
    <2>1. Register!Exclude(c)
      BY <1>2 DEF exclude_card, Register!Exclude, publicVars, served, Nothing
    <2> QED
      BY <2>1 DEF RegisterStep, Register!Next
  <1>3. ASSUME NEW p \in Procs, NEW c \in Cards, restore_card(p, c) PROVE RegisterStep
    <2>1. Register!Restore(c)
      BY <1>3 DEF restore_card, Register!Restore, publicVars, served, Nothing
    <2> QED
      BY <2>1 DEF RegisterStep, Register!Next
  <1>4. ASSUME NEW p \in Procs, Commit(p) PROVE RegisterStep
    BY <1>4, CommitRegisters
  <1>5. CASE UNCHANGED <<status, draft, published, publication, snapshots, restored>>
    BY <1>5, RegisterStutter
  <1> QED
    BY <1>1, <1>2, <1>3, <1>4, <1>5
    DEF Next, Coordinate, vars, cardVars, publicVars, Private, approve_card,
        bootstrap_store_index, ensure_initial_publication, approve_owner_proposal,
        close_already_published, dismiss_knowledge_proposal, read_operation, read_publication,
        read_cards, read_manifest, ReusePreparation, ReclaimPreparation, InsertPreparation,
        PreparationRefused, FinishEmbedding, FailEmbedding, RejectCommit, Crash, LeaseExpires,
        PreparationExpires, PurgeDocuments, WindowPasses, DeployModel

(* The coordinator, with its unlocked reads, its embedding call, its keys   *)
(* and its index preparations, implements the atomic register of            *)
(* PublicKnowledge: whatever overlaps or crashes, what a store serves       *)
(* changes by whole publications of reviewed drafts.                        *)
THEOREM RegisterImplemented == Spec => ImplementsRegister
  <1>1. Init => Register!Init
    <2> SUFFICES ASSUME Init PROVE Register!Init
      OBVIOUS
    <2>1. PICK legacy \in SUBSET Legacy :
             /\ status = [c \in Cards |-> IF c \in legacy THEN "APPROVED" ELSE "NONE"]
             /\ draft = [c \in Cards |-> IF c \in legacy THEN 1 ELSE 0]
             /\ published = [c \in Cards |-> IF c \in legacy THEN 1 ELSE 0]
      BY DEF Init
    <2>2. legacy \in SUBSET Cards
      BY CardsAssumption
    <2>3. /\ publication.publication_revision = 0 /\ publication.current_snapshot_id = 0
          /\ restored = {}
      BY DEF Init
    <2>4. served = [c \in Cards |-> 0]
      BY <2>3 DEF served, Nothing
    <2> QED
      BY <2>1, <2>2, <2>3, <2>4 DEF Register!Init
  <1>2. Init => Vetted
    BY DEF Init, Vetted, Idle, Manifested
  <1>3. TypeInv /\ Vetted /\ [Next]_vars => Vetted'
    BY VettedStep
  <1>4. (TypeInv /\ SafeInv) /\ Vetted /\ [Next]_vars => [Register!Next]_(Register!vars)
    BY RegisterStepped DEF RegisterStep
  <1> QED
    BY <1>1, <1>2, <1>3, <1>4, Safe, PTL DEF Spec, ImplementsRegister, Register!Spec
=============================================================================
