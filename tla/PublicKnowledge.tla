-------------------------- MODULE PublicKnowledge --------------------------
(***************************************************************************)
(* What publishing promises the rest of AskBuddy: the knowledge a store     *)
(* serves is a register that changes only by atomic publications.  Owners   *)
(* review cards; a publication takes reviewed drafts live and re-lists all  *)
(* approved cards at once.  Nothing here mentions requests, revisions,      *)
(* idempotency keys or index preparations: module Publication shows that    *)
(* the code's multi-step coordinator implements this register.              *)
(***************************************************************************)
EXTENDS Naturals

CONSTANTS
    Cards,          \* card ids of one store
    Unpublishable   \* <<card, version>> pairs without provenance or with invalid content

VARIABLES
    status,     \* review_status of every card, "NONE" before it is inserted;
                \* "PENDING" also stands for NEEDS_REVIEW
    draft,      \* draft_version_id, 0 for null
    published,  \* published_version_id, 0 for null
    served,     \* version of each card in the current public edition, 0 when not listed
    edition,    \* number of editions published so far
    restored    \* cards restored by the owner and listed by no edition since

vars == <<status, draft, published, served, edition, restored>>

Publishable(c, v) == <<c, v>> \notin Unpublishable

----------------------------------------------------------------------------

(* A store that never published: drafts, or approvals made by the retired   *)
(* direct approval route, and no public edition.                            *)
Init ==
    /\ \E legacy \in SUBSET Cards :
          /\ status = [c \in Cards |-> IF c \in legacy THEN "APPROVED" ELSE "NONE"]
          /\ draft = [c \in Cards |-> IF c \in legacy THEN 1 ELSE 0]
          /\ published = [c \in Cards |-> IF c \in legacy THEN 1 ELSE 0]
    /\ served = [c \in Cards |-> 0]
    /\ edition = 0
    /\ restored = {}

WriteDraft(c) ==
    /\ status[c] # "EXCLUDED"
    /\ draft' = [draft EXCEPT ![c] = @ + 1]
    /\ status' = [status EXCEPT ![c] = IF @ = "APPROVED" THEN "APPROVED" ELSE "PENDING"]
    /\ UNCHANGED <<published, served, edition, restored>>

Exclude(c) ==
    /\ status[c] \notin {"NONE", "EXCLUDED"}
    /\ status' = [status EXCEPT ![c] = "EXCLUDED"]
    /\ UNCHANGED <<draft, published, served, edition, restored>>

Restore(c) ==
    /\ status[c] = "EXCLUDED"
    /\ status' = [status EXCEPT ![c] = IF published[c] # 0 THEN "APPROVED" ELSE "PENDING"]
    /\ restored' = restored \cup {c}
    /\ UNCHANGED <<draft, published, served, edition>>

(* One new edition.  The drafts of the cards in taken go live; every        *)
(* approved publishable card is listed at its public version, except some   *)
(* cards the owner restored since an edition last listed them.              *)
Publish(taken, omitted) ==
    /\ \A c \in taken : draft[c] # 0 /\ status[c] # "EXCLUDED" /\ Publishable(c, draft[c])
    /\ omitted \subseteq restored \ taken
    /\ published' = [c \in Cards |-> IF c \in taken THEN draft[c] ELSE published[c]]
    /\ status' = [c \in Cards |-> IF c \in taken THEN "APPROVED" ELSE status[c]]
    /\ served' = [c \in Cards |->
                     IF status'[c] = "APPROVED" /\ c \notin omitted /\ Publishable(c, published'[c])
                     THEN published'[c] ELSE 0]
    /\ edition' = edition + 1
    /\ restored' = {c \in restored : served'[c] = 0}
    /\ UNCHANGED draft

Next ==
    \/ \E c \in Cards : WriteDraft(c) \/ Exclude(c) \/ Restore(c)
    \/ \E taken, omitted \in SUBSET Cards : Publish(taken, omitted)

Spec == Init /\ [][Next]_vars
=============================================================================
