--------------------------- MODULE OwnerKnowledge ---------------------------
(***************************************************************************)
(* What the hand-over of owner answers promises: every answer the owner     *)
(* submits carries a knowledge status that the owner can see, a conclusion  *)
(* is reported for an answer at most once, and an answer that was           *)
(* superseded by a newer one never changes again.  After its conclusion     *)
(* only the owner's approval changes the status, except of an answer that   *)
(* two workers contested: it may be shown as failed, and retried, although  *)
(* its conclusion stands.  Nothing here mentions workers, leases, attempts  *)
(* or proposals: module OwnerHandoff shows that the code's claim /          *)
(* heartbeat / finish protocol implements this.                             *)
(***************************************************************************)
EXTENDS Naturals, Sequences

CONSTANTS
    Questions,
    Ids           \* ids of the answers that can be submitted, 1..n

VARIABLES
    answers,    \* question of every submitted answer, in order of submission
    knowledge,  \* knowledge status the owner is shown
    report,     \* how the answer's event was closed: "none", "STALE" or "APPLIED"
    contested   \* answers two workers were let in on at the same time

vars == <<answers, knowledge, report, contested>>

Conclusions == {"LINKED", "REVIEW", "PUBLISHED"}
Latest(a) == \A b \in DOMAIN answers : answers[b] = answers[a] => b <= a

----------------------------------------------------------------------------
Init ==
    /\ answers = <<>>
    /\ knowledge = [a \in Ids |-> "PENDING"]
    /\ report = [a \in Ids |-> "none"]
    /\ contested = {}

Submit(q) ==
    /\ Len(answers) + 1 \in Ids
    /\ answers' = Append(answers, q)
    /\ UNCHANGED <<knowledge, report, contested>>

(* A worker reports what became of the latest answer.                       *)
Conclude(a, conclusion) ==
    /\ Latest(a) /\ report[a] = "none"
    /\ knowledge' = [knowledge EXCEPT ![a] = conclusion]
    /\ report' = [report EXCEPT ![a] = "APPLIED"]
    /\ UNCHANGED <<answers, contested>>

(* A second worker is let in on an answer.                                  *)
Contest(a) ==
    /\ contested' = contested \cup {a}
    /\ UNCHANGED <<answers, knowledge, report>>

(* A worker reports a failure, possibly the one that was just let in.       *)
Fail(a) ==
    /\ Latest(a)
    /\ contested' \in {contested, contested \cup {a}}
    /\ report[a] = "none" \/ a \in contested'
    /\ knowledge' = [knowledge EXCEPT ![a] = "FAILED"]
    /\ UNCHANGED <<answers, report>>

(* The owner asks for a failed answer to be processed again.                *)
Retry(a) ==
    /\ Latest(a) /\ knowledge[a] = "FAILED"
    /\ report[a] = "none" \/ a \in contested
    /\ knowledge' = [knowledge EXCEPT ![a] = "PENDING"]
    /\ UNCHANGED <<answers, report, contested>>

(* The owner approves the proposal an answer in review led to.              *)
Approve(a) ==
    /\ Latest(a) /\ knowledge[a] = "REVIEW"
    /\ knowledge' = [knowledge EXCEPT ![a] = "PUBLISHED"]
    /\ UNCHANGED <<answers, report, contested>>

Skip(a) ==
    /\ ~Latest(a) /\ report[a] = "none"
    /\ contested' \in {contested, contested \cup {a}}
    /\ report' = [report EXCEPT ![a] = "STALE"]
    /\ UNCHANGED <<answers, knowledge>>

Next ==
    \/ \E q \in Questions : Submit(q)
    \/ \E a \in DOMAIN answers :
          \/ \E conclusion \in Conclusions : Conclude(a, conclusion)
          \/ Contest(a) \/ Fail(a) \/ Retry(a) \/ Approve(a) \/ Skip(a)

Spec == Init /\ [][Next]_vars
=============================================================================
