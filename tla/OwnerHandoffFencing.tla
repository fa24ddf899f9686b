------------------------ MODULE OwnerHandoffFencing ------------------------
(***************************************************************************)
(* What the claim protocol of OwnerHandoff guarantees for every value of    *)
(* its constants, whatever rows the claims worked with: conclusions are     *)
(* reported, failures are visible, attempts are bounded, and OwnerKnowledge *)
(* is implemented.                                                          *)
(***************************************************************************)
EXTENDS OwnerHandoffSafety, FiniteSetTheorems

Decided == {"LINKED", "PUBLISHED", "PENDING_REVIEW", "DISMISSED"}

(* The columns of one answer fit together.  What is decided, or shown as a  *)
(* conclusion, or published, was reported, and what is shown agrees with    *)
(* what was decided.                                                        *)
Reported(a) ==
    /\ proposal[a] \in Decided => consumption[a] = "APPLIED"
    /\ knowledge[a] \in Conclusions => consumption[a] = "APPLIED"
    /\ operation[a] => consumption[a] = "APPLIED"
    /\ knowledge[a] \in Conclusions =>
          /\ proposal[a] = "LINKED" => knowledge[a] = "LINKED"
          /\ proposal[a] = "PUBLISHED" => knowledge[a] = "PUBLISHED"
          /\ proposal[a] \in {"PENDING_REVIEW", "DISMISSED"} => knowledge[a] = "REVIEW"

(* An event given up is shown as failed.                                    *)
GivenUp(a) ==
    lease[a].last_error = "TERMINAL" => lease[a].status = "FAILED" /\ knowledge[a] = "FAILED"

(* Only superseded answers are skipped.                                     *)
Skipped(a) ==
    consumption[a] = "STALE" => \E b \in DOMAIN answers : answers[b] = answers[a] /\ b > a
                                                          /\ a \in DOMAIN answers

(* While no claim used outdated rows, a report ends the lease and stays     *)
(* what is shown, and the attempts are counted.                             *)
Fresh(a) ==
    a \notin overtaken =>
        /\ consumption[a] = "APPLIED" => lease[a].status = "DONE" /\ knowledge[a] \in Conclusions
        /\ lease[a].attempts <= MAX_ATTEMPTS

Row(a) == Reported(a) /\ GivenUp(a) /\ Skipped(a) /\ Fresh(a)

Fenced == \A a \in Answers : Row(a)

LEMMA InitFenced == Init => Fenced
  BY HandoffAssumption DEF Init, Fenced, Row, Reported, GivenUp, Skipped, Fresh, NoLease, Decided,
     Conclusions
----------------------------------------------------------------------------
(* The rows a step leaves alone stay as they were.                          *)
LEMMA SameRow ==
  ASSUME NEW a \in Answers, Row(a), UNCHANGED answers, a \in overtaken => a \in overtaken',
         lease'[a] = lease[a], consumption'[a] = consumption[a], knowledge'[a] = knowledge[a],
         proposal'[a] = proposal[a], operation'[a] = operation[a]
  PROVE  Row(a)'
  BY DEF Row, Reported, GivenUp, Skipped, Fresh

(* A claim that worked with the rows of now took an open event and counted  *)
(* the attempt; any other is on record.                                     *)
LEMMA ClaimFenced ==
  ASSUME TypeInv, Fenced, NEW w \in Workers, Claims(w), NEW a \in Answers
  PROVE  Row(a)'
  <1> DEFINE c == worker[w].answer
             attempts == worker[w].attempts
  <1>0. EventType /\ AnswersType
    BY TypeParts DEF TypeInv
  <1>c. c \in Answers /\ c \in DOMAIN answers /\ lease[c] \in LeaseRow
    BY <1>0, DomainType DEF EventType, TypeInv, BusyHasAnswer, Claims
  <1>1. /\ Claim(w, c, attempts) /\ UNCHANGED <<answers, proposal, operation>>
        /\ overtaken \subseteq overtaken'
        /\ c \notin overtaken' => /\ consumption[c] = "none" /\ lease[c].attempts = attempts
    BY DEF Claims, Outdated, Claimable
  <1> HIDE DEF c, attempts
  <1>2. CASE a # c
    <2>1. /\ lease'[a] = lease[a] /\ consumption'[a] = consumption[a]
          /\ knowledge'[a] = knowledge[a]
      BY <1>0, <1>1, <1>2 DEF Claim, GiveUp, EventType
    <2> QED
      BY <1>1, <2>1, SameRow DEF Fenced
  <1>3. CASE a = c
    <2>0. Row(c)
      BY <1>c DEF Fenced
    <2>1. CASE ~Latest(c)
      <3>1. /\ consumption'[c] = IF consumption[c] = "none" THEN "STALE" ELSE consumption[c]
            /\ UNCHANGED <<lease, knowledge>>
        BY <1>0, <1>c, <1>1, <2>1 DEF Claim, EventType
      <3>2. \E b \in DOMAIN answers : answers[b] = answers[c] /\ b > c
        BY <1>0, <1>c, <2>1, DomainType DEF Latest, Answers
      <3>3. /\ consumption'[c] = "APPLIED" <=> consumption[c] = "APPLIED"
        BY <3>1
      <3> QED
        BY <1>c, <1>1, <1>3, <2>0, <3>1, <3>2, <3>3
        DEF Row, Reported, GivenUp, Skipped, Fresh, Decided, Conclusions
    <2>2. CASE Latest(c) /\ Exhausted(attempts)
      <3>1. /\ lease'[c] = TerminalLease(c) /\ knowledge'[c] = "FAILED"
            /\ UNCHANGED consumption
        BY <1>0, <1>c, <1>1, <2>2 DEF Claim, GiveUp, EventType
      <3>2. /\ lease'[c].status = "FAILED" /\ lease'[c].attempts = lease[c].attempts
        BY <1>c, <3>1 DEF TerminalLease, LeaseRow
      <3> QED
        BY <1>1, <1>3, <2>0, <3>1, <3>2
        DEF Row, Reported, GivenUp, Skipped, Fresh, Decided, Conclusions
    <2>3. CASE Latest(c) /\ ~Exhausted(attempts)
      <3>1. lease'[c] = TakenLease(w, c) /\ UNCHANGED <<consumption, knowledge>>
        BY <1>0, <1>c, <1>1, <2>3 DEF Claim, EventType
      <3>2. lease'[c].last_error = "none" /\ lease'[c].attempts = lease[c].attempts + 1
        BY <3>1 DEF TakenLease
      <3>3. c \notin overtaken' => lease'[c].attempts <= MAX_ATTEMPTS
        BY <1>c, <1>1, <2>3, <3>2, HandoffAssumption DEF Exhausted, LeaseRow
      <3> QED
        BY <1>1, <1>3, <2>0, <3>1, <3>2, <3>3
        DEF Row, Reported, GivenUp, Skipped, Fresh, Decided, Conclusions
    <2> QED
      BY <2>1, <2>2, <2>3
  <1> QED
    BY <1>2, <1>3

(* A worker that holds the lease of the latest answer has an open event,    *)
(* unless its claim, or another, used outdated rows.                        *)
LEMMA HolderOpen ==
  ASSUME TypeInv, Fenced, NEW a \in DOMAIN answers, Latest(a), lease[a].status # "DONE"
  PROVE  consumption[a] = "none" \/ a \in overtaken
  <1>0. EventType /\ AnswersType /\ a \in Answers /\ consumption[a] \in Consumptions
    BY TypeParts, DomainType DEF TypeInv, EventType
  <1>1. consumption[a] = "APPLIED" => a \in overtaken
    BY <1>0 DEF Fenced, Row, Fresh
  <1>2. consumption[a] # "STALE"
    BY <1>0, DomainType DEF Latest, Fenced, Row, Skipped, Answers
  <1> QED
    BY <1>0, <1>1, <1>2 DEF Consumptions

LEMMA ReportFenced ==
  ASSUME TypeInv, Fenced, NEW w \in Workers, worker[w].pc # "idle",
         NEW status \in Conclusions, NEW written \in ProposalStates, Reports(w, status, written),
         NEW a \in Answers
  PROVE  Row(a)'
  <1> DEFINE b == worker[w].answer
  <1>0. EventType /\ AnswerType /\ AnswersType /\ b \in Answers
    BY TypeParts, DomainType DEF TypeInv, BusyHasAnswer
  <1>b. lease[b] \in LeaseRow
    BY <1>0 DEF EventType
  <1>1. CASE a # b
    <2>1. /\ lease'[a] = lease[a] /\ consumption'[a] = consumption[a]
          /\ knowledge'[a] = knowledge[a] /\ proposal'[a] = proposal[a]
          /\ operation'[a] = operation[a]
      BY <1>0, <1>1 DEF Reports, EventType, AnswerType
    <2> QED
      BY <2>1, SameRow DEF Fenced, Reports
  <1>2. CASE a = b
    <2>0. Row(b) /\ consumption[b] = "none"
      BY <1>0 DEF Fenced, Reports
    <2>1. /\ knowledge'[b] = status /\ consumption'[b] = "APPLIED" /\ proposal'[b] = written
      BY <1>0 DEF Reports, EventType, AnswerType
    <2>2. /\ lease'[b].status = "DONE" /\ lease'[b].last_error = lease[b].last_error
          /\ lease'[b].attempts = lease[b].attempts
      BY <1>0, <1>b DEF Reports, EventType, LeaseRow
    <2>3. lease[b].last_error # "TERMINAL"
      BY <2>0 DEF Row, GivenUp, Reports, HoldsLease
    <2>4. Drawn(status, written) \/ written \in {"NONE", "ANALYZED"}
      <3>1. ~operation[b] /\ proposal[b] \notin Decided
        BY <2>0 DEF Row, Reported
      <3>2. proposal[b] \in ProposalStates
        BY <1>0 DEF AnswerType
      <3> QED
        BY <2>0, <3>1, <3>2 DEF Reports, Found, Decided, ProposalStates
    <2>5. UNCHANGED <<answers, overtaken>>
      BY DEF Reports
    <2> QED
      BY <1>2, <2>0, <2>1, <2>2, <2>3, <2>4, <2>5
      DEF Row, Reported, GivenUp, Skipped, Fresh, Drawn, Decided, Conclusions
  <1> QED
    BY <1>1, <1>2

LEMMA FailFenced ==
  ASSUME TypeInv, Fenced, NEW w \in Workers, worker[w].pc = "fail", Fails(w), NEW a \in Answers
  PROVE  Row(a)'
  <1> DEFINE b == worker[w].answer
  <1>0. EventType /\ AnswerType /\ AnswersType /\ b \in Answers
    BY TypeParts, DomainType DEF TypeInv, BusyHasAnswer
  <1>b. lease[b] \in LeaseRow
    BY <1>0 DEF EventType
  <1>1. UNCHANGED <<answers, consumption, proposal, operation, overtaken>>
    BY DEF Fails
  <1>2. CASE a # b
    <2>1. lease'[a] = lease[a] /\ knowledge'[a] = knowledge[a]
      BY <1>0, <1>2 DEF Fails, EventType
    <2> QED
      BY <1>1, <2>1, SameRow DEF Fenced
  <1>3. CASE a = b
    <2>0. Row(b) /\ lease[b].status # "DONE"
      BY <1>0 DEF Fenced, Fails, HoldsLease
    <2>1. knowledge'[b] = "FAILED"
      BY <1>0 DEF Fails, EventType
    <2>2. lease'[b].status = "FAILED" /\ lease'[b].attempts = lease[b].attempts
      <3> DEFINE r == [lease[b] EXCEPT !.status = "FAILED", !.last_error = "retry"]
      <3>1. r.status = "FAILED" /\ r.attempts = lease[b].attempts
        BY <1>b DEF LeaseRow
      <3>2. /\ TerminalLease(b).status = "FAILED"
            /\ TerminalLease(b).attempts = lease[b].attempts
        BY <1>b DEF LeaseRow, TerminalLease
      <3>3. lease'[b] = r \/ lease'[b] = TerminalLease(b)
        BY <1>0 DEF Fails, EventType
      <3> HIDE DEF r
      <3> QED
        BY <3>1, <3>2, <3>3
    <2> QED
      BY <1>1, <1>3, <2>0, <2>1, <2>2
      DEF Row, Reported, GivenUp, Skipped, Fresh, Decided, Conclusions
  <1> QED
    BY <1>2, <1>3

LEMMA OpenFenced ==
  ASSUME TypeInv, Fenced, NEW w \in Workers, Opens(w), NEW a \in Answers
  PROVE  Row(a)'
  <1>0. AnswerType
    BY TypeParts DEF TypeInv
  <1>1. UNCHANGED <<answers, lease, consumption, knowledge, operation, overtaken>>
    BY DEF Opens
  <1>2. proposal'[a] = proposal[a] \/ proposal'[a] = "ANALYZED"
    BY <1>0 DEF Opens, AnswerType
  <1> QED
    BY <1>1, <1>2 DEF Fenced, Row, Reported, GivenUp, Skipped, Fresh, Decided
----------------------------------------------------------------------------
LEMMA WorkerFenced ==
  ASSUME TypeInv, Fenced, NEW w \in Workers, Work(w) \/ Crash(w)
  PROVE  Fenced'
  <1>1. RowStep(w)
    BY WorkerRowStep
  <1>2. ASSUME NEW a \in Answers PROVE Row(a)'
    <2>1. CASE UNCHANGED <<answers, rows>>
      BY <2>1, SameRow DEF rows, Fenced
    <2> QED
      BY <1>1, <2>1, ClaimFenced, ReportFenced, FailFenced, OpenFenced DEF RowStep
  <1> QED
    BY <1>2 DEF Fenced

LEMMA OwnerFenced ==
  ASSUME TypeInv, Fenced, NEW c \in DOMAIN answers,
         \/ CardsChange(c) \/ approve_knowledge_proposal(c) \/ dismiss_knowledge_proposal(c)
         \/ retry_owner_event(c) \/ LeaseExpires(c)
  PROVE  Fenced'
  <1>0. AnswersType /\ EventType /\ AnswerType /\ c \in Answers
    BY TypeParts, DomainType DEF TypeInv
  <1>c. lease[c] \in LeaseRow
    BY <1>0 DEF EventType
  <1>1. UNCHANGED <<answers, consumption, operation, worker, overtaken>>
    BY DEF CardsChange, approve_knowledge_proposal, dismiss_knowledge_proposal,
           retry_owner_event, LeaseExpires, eventVars, answerVars
  <1>2. ASSUME NEW a \in Answers, a # c PROVE Row(a)'
    <2>1. lease'[a] = lease[a] /\ knowledge'[a] = knowledge[a] /\ proposal'[a] = proposal[a]
      BY <1>0, <1>2 DEF CardsChange, approve_knowledge_proposal, dismiss_knowledge_proposal,
         retry_owner_event, LeaseExpires, eventVars, answerVars, EventType, AnswerType
    <2> QED
      BY <1>1, <2>1, SameRow DEF Fenced
  <1>3. Row(c)'
    <2>0. Row(c)
      BY <1>0 DEF Fenced
    <2>1. CASE CardsChange(c)
      BY <1>0, <1>1, <2>0, <2>1, SameRow DEF CardsChange, eventVars
    <2>2. CASE approve_knowledge_proposal(c)
      <3>1. knowledge[c] = "REVIEW" /\ knowledge'[c] = "PUBLISHED" /\ proposal'[c] = "PUBLISHED"
            /\ UNCHANGED lease
        BY <1>0, <2>2 DEF approve_knowledge_proposal, EventType, AnswerType
      <3> QED
        BY <1>1, <2>0, <3>1 DEF Row, Reported, GivenUp, Skipped, Fresh, Decided, Conclusions
    <2>3. CASE dismiss_knowledge_proposal(c)
      <3>1. proposal[c] = "PENDING_REVIEW" /\ proposal'[c] = "DISMISSED"
            /\ UNCHANGED <<lease, knowledge>>
        BY <1>0, <2>3 DEF dismiss_knowledge_proposal, eventVars, AnswerType
      <3> QED
        BY <1>1, <2>0, <3>1 DEF Row, Reported, GivenUp, Skipped, Fresh, Decided
    <2>4. CASE retry_owner_event(c)
      <3>1. /\ lease[c].status = "FAILED" /\ knowledge'[c] = "PENDING" /\ UNCHANGED proposal
            /\ lease'[c] = RetriedLease(c)
        BY <1>0, <2>4 DEF retry_owner_event, answerVars, EventType
      <3>2. lease'[c].last_error = "none" /\ lease'[c].attempts = 0
        BY <3>1 DEF RetriedLease, NoLease
      <3> QED
        BY <1>1, <2>0, <3>1, <3>2, HandoffAssumption
        DEF Row, Reported, GivenUp, Skipped, Fresh, Decided, Conclusions
    <2>5. CASE LeaseExpires(c)
      <3>1. /\ lease'[c].status = lease[c].status /\ lease'[c].last_error = lease[c].last_error
            /\ lease'[c].attempts = lease[c].attempts /\ UNCHANGED <<knowledge, proposal>>
        BY <1>0, <1>c, <2>5 DEF LeaseExpires, answerVars, EventType, LeaseRow
      <3> QED
        BY <1>1, <2>0, <3>1 DEF Row, Reported, GivenUp, Skipped, Fresh
    <2> QED
      BY <2>1, <2>2, <2>3, <2>4, <2>5
  <1> QED
    BY <1>1, <1>2, <1>3 DEF Fenced

LEMMA SubmitFenced ==
  ASSUME TypeInv, Fenced, NEW q \in Questions, submit_owner_answer(q)
  PROVE  Fenced'
  <1>0. AnswersType
    BY TypeParts DEF TypeInv
  <1>1. UNCHANGED <<lease, consumption, knowledge, proposal, operation, overtaken>>
    BY DEF submit_owner_answer, answerVars
  <1>2. \A b \in DOMAIN answers : b \in DOMAIN answers' /\ answers'[b] = answers[b]
    BY <1>0 DEF submit_owner_answer, AnswersType
  <1>3. ASSUME NEW a \in Answers PROVE Row(a)'
    BY <1>1, <1>2 DEF Fenced, Row, Reported, GivenUp, Skipped, Fresh
  <1> QED
    BY <1>1, <1>3 DEF Fenced

LEMMA NextFenced == TypeInv /\ Fenced /\ [Next]_vars => Fenced'
  <1> SUFFICES ASSUME TypeInv, Fenced, [Next]_vars PROVE Fenced'
    OBVIOUS
  <1>1. CASE UNCHANGED <<answers, rows>>
    BY <1>1, SameRow DEF Fenced, rows
  <1>2. ASSUME NEW q \in Questions, BeginAttach(q) \/ CommitAttach(q) PROVE Fenced'
    BY <1>1, <1>2 DEF BeginAttach, CommitAttach, eventVars, answerVars, rows
  <1>3. CASE IndexChanges \/ UNCHANGED vars
    BY <1>1, <1>3 DEF IndexChanges, eventVars, answerVars, vars, rows
  <1> QED
    BY <1>2, <1>3, SubmitFenced, OwnerFenced, WorkerFenced DEF Next

(* The claim protocol fences every conclusion and every failure.            *)
THEOREM FencedInv == Spec => [](TypeInv /\ Fenced)
  <1>1. Init => TypeInv /\ Fenced
    BY InitType, InitFenced
  <1>2. TypeInv /\ Fenced /\ [Next]_vars => (TypeInv /\ Fenced)'
    BY NextType, NextFenced
  <1> QED
    BY <1>1, <1>2, PTL DEF Spec

(* A decided proposal was reported in the same transaction: the event is    *)
(* closed and the status the owner sees is the one of the proposal, or the  *)
(* failure, or its retry, of a claim that used outdated rows.               *)
THEOREM AlwaysReported == Spec => []ConclusionsReported
  <1>1. TypeInv /\ Fenced => ConclusionsReported
    <2> SUFFICES ASSUME TypeInv, Fenced, NEW a \in Answers, proposal[a] \in DOMAIN Agrees
                 PROVE  /\ consumption[a] = "APPLIED"
                        /\ \/ knowledge[a] \in Agrees[proposal[a]]
                           \/ a \in overtaken /\ knowledge[a] \in {"FAILED", "PENDING"}
      BY DEF ConclusionsReported
    <2>1. proposal[a] \in Decided
      BY DEF Agrees, Decided
    <2>2. consumption[a] = "APPLIED"
      BY <2>1 DEF Fenced, Row, Reported
    <2>3. knowledge[a] \in Conclusions \/ (a \in overtaken /\ knowledge[a] \in {"FAILED", "PENDING"})
      <3>1. knowledge[a] \in Knowledge
        BY TypeParts DEF TypeInv, EventType
      <3>2. a \notin overtaken => knowledge[a] \in Conclusions
        BY <2>2 DEF Fenced, Row, Fresh
      <3> QED
        BY <3>1, <3>2 DEF Knowledge, Conclusions
    <2>4. knowledge[a] \in Conclusions => knowledge[a] \in Agrees[proposal[a]]
      BY <2>1 DEF Fenced, Row, Reported, Agrees, Decided
    <2> QED
      BY <2>2, <2>3, <2>4
  <1> QED
    BY <1>1, FencedInv, PTL

(* An event the workers gave up is shown as FAILED and can be retried; what *)
(* is shown as failed or waiting is open.                                   *)
THEOREM AlwaysVisible == Spec => []FailureVisible
  <1>1. TypeInv /\ Fenced => FailureVisible
    <2> SUFFICES ASSUME TypeInv, Fenced, NEW a \in DOMAIN answers
                 PROVE  /\ lease[a].last_error = "TERMINAL" => knowledge[a] = "FAILED"
                        /\ knowledge[a] \in {"FAILED", "PENDING"} /\ a \notin overtaken
                              => consumption[a] # "APPLIED"
      BY DEF FailureVisible
    <2>1. Row(a)
      BY DomainType, TypeParts DEF TypeInv, Fenced
    <2> QED
      BY <2>1 DEF Row, GivenUp, Fresh, Conclusions
  <1> QED
    BY <1>1, FencedInv, PTL
----------------------------------------------------------------------------
(* The workers that have read, in the SELECT of a claim that is under way,  *)
(* that another attempt at a is due.                                        *)
Racing(a) == {w \in Workers : /\ worker[w].pc = "selected" /\ worker[w].answer = a
                              /\ ~Exhausted(worker[w].attempts)}

(* Each of them may add one to the attempts.                                *)
Counted(a) == lease[a].attempts + Cardinality(Racing(a)) <= MAX_ATTEMPTS + Cardinality(Workers) - 1

LEMMA RacingFinite ==
  ASSUME NEW a
  PROVE  /\ IsFiniteSet(Racing(a)) /\ Cardinality(Racing(a)) \in Nat
         /\ Cardinality(Racing(a)) <= Cardinality(Workers) /\ Cardinality(Workers) \in Nat
  <1>1. Racing(a) \subseteq Workers
    BY DEF Racing
  <1> QED
    BY <1>1, HandoffAssumption, FS_Subset, FS_CardinalityType

LEMMA RacingFiniteLater ==
  ASSUME NEW a
  PROVE  /\ IsFiniteSet(Racing(a)') /\ Cardinality(Racing(a)') \in Nat
         /\ Cardinality(Racing(a)') <= Cardinality(Workers)
  <1>1. Racing(a)' \subseteq Workers
    BY DEF Racing
  <1> QED
    BY <1>1, HandoffAssumption, FS_Subset, FS_CardinalityType

LEMMA InitCounted == Init => \A a \in Answers : Counted(a)
  <1> SUFFICES ASSUME Init, NEW a \in Answers PROVE Counted(a)
    OBVIOUS
  <1>1. lease[a].attempts = 0
    BY DEF Init, NoLease
  <1>2. Racing(a) = {}
    BY DEF Init, Racing, Idle
  <1>3. Cardinality(Racing(a)) = 0 /\ Cardinality(Workers) \in Nat
    BY <1>2, FS_EmptySet, RacingFinite
  <1> QED
    BY <1>1, <1>3, HandoffAssumption DEF Counted

(* A step that adds neither an attempt nor a worker to the race.            *)
LEMMA KeepCounted ==
  ASSUME NEW a, Counted(a), lease[a].attempts \in Nat, lease'[a].attempts \in Nat,
         lease'[a].attempts <= lease[a].attempts, Racing(a)' \subseteq Racing(a)
  PROVE  Counted(a)'
  <1>1. Cardinality(Racing(a)') <= Cardinality(Racing(a))
    BY RacingFinite, FS_Subset
  <1> QED
    BY <1>1, RacingFinite, RacingFiniteLater, HandoffAssumption DEF Counted


LEMMA SelectCounted ==
  ASSUME TypeInv, NEW a \in Answers, Counted(a), NEW w \in Workers, select_owner_event(w)
  PROVE  Counted(a)'
  <1>0. WorkersType /\ EventType /\ lease[a].attempts \in Nat
    BY TypeParts DEF TypeInv, EventType, LeaseRow
  <1>1. lease'[a].attempts = lease[a].attempts
    BY DEF select_owner_event, eventVars
  <1>2. PICK c \in Selected :
           worker' = [worker EXCEPT ![w] = [Idle EXCEPT !.pc = "selected", !.answer = c,
                                                       !.attempts = lease[c].attempts]]
    BY DEF select_owner_event
  <1> DEFINE r == [Idle EXCEPT !.pc = "selected", !.answer = c, !.attempts = lease[c].attempts]
  <1>3. r.answer = c /\ r.attempts = lease[c].attempts
    BY DEF Idle
  <1>4. worker' = [worker EXCEPT ![w] = r]
    BY <1>2
  <1> HIDE DEF r
  <1>5. CASE c = a /\ ~Exhausted(lease[a].attempts)
    BY <1>0, <1>1, <1>5, RacingFiniteLater, RacingFinite, HandoffAssumption DEF Counted, Exhausted
  <1>6. CASE ~(c = a /\ ~Exhausted(lease[a].attempts))
    <2>1. Racing(a)' \subseteq Racing(a)
      BY <1>0, <1>3, <1>4, <1>6 DEF Racing, WorkersType
    <2> QED
      BY <1>0, <1>1, <2>1, KeepCounted
  <1> QED
    BY <1>5, <1>6

LEMMA ClaimCounted ==
  ASSUME TypeInv, NEW a \in Answers, Counted(a), NEW w \in Workers, Claims(w)
  PROVE  Counted(a)'
  <1> DEFINE c == worker[w].answer
             attempts == worker[w].attempts
  <1>0. WorkersType /\ EventType /\ AnswersType /\ c \in Answers /\ lease[a] \in LeaseRow
    BY TypeParts, DomainType DEF TypeInv, EventType, BusyHasAnswer, Claims
  <1>1. Claim(w, c, attempts) /\ worker[w].pc = "selected"
    BY DEF Claims
  <1> DEFINE Moved(r) == worker' = [worker EXCEPT ![w] = r] /\ r.pc # "selected"
             taken == [Idle EXCEPT !.pc = "context", !.answer = c]
  <1>2. PICK r : Moved(r)
    <2>1. Idle.pc # "selected" /\ taken.pc # "selected"
      BY DEF Idle
    <2>2. worker' = [worker EXCEPT ![w] = Idle] \/ worker' = [worker EXCEPT ![w] = taken]
      BY <1>1 DEF Claim, Return
    <2> HIDE DEF taken
    <2>3. Moved(Idle) \/ Moved(taken)
      BY <2>1, <2>2
    <2> HIDE DEF Moved
    <2> QED
      BY <2>3
  <1>3. Racing(a)' = Racing(a) \ {w}
    BY <1>0, <1>2 DEF Racing, WorkersType
  <1> HIDE DEF c, attempts
  <1>4. CASE a = c /\ Latest(c) /\ ~Exhausted(attempts)
    <2>1. lease'[a] = TakenLease(w, a)
      BY <1>0, <1>1, <1>4 DEF Claim, EventType
    <2>2. lease'[a].attempts = lease[a].attempts + 1
      BY <2>1 DEF TakenLease
    <2>3. w \in Racing(a)
      BY <1>1, <1>4 DEF Racing, c, attempts
    <2>4. Cardinality(Racing(a)') = Cardinality(Racing(a)) - 1
      BY <1>3, <2>3, RacingFinite, FS_RemoveElement
    <2>5. lease[a].attempts \in Nat
      BY <1>0 DEF LeaseRow
    <2> QED
      BY <2>2, <2>4, <2>5, RacingFinite, HandoffAssumption DEF Counted
  <1>5. CASE ~(a = c /\ Latest(c) /\ ~Exhausted(attempts))
    <2>1. lease'[a] = lease[a] \/ lease'[a] = TerminalLease(a)
      BY <1>0, <1>1, <1>5 DEF Claim, GiveUp, EventType
    <2>2. TerminalLease(a).attempts = lease[a].attempts
      BY <1>0 DEF TerminalLease, LeaseRow
    <2>3. lease[a].attempts \in Nat /\ lease'[a].attempts = lease[a].attempts
      BY <1>0, <2>1, <2>2 DEF LeaseRow
    <2> QED
      BY <1>3, <2>3, KeepCounted
  <1> QED
    BY <1>4, <1>5

(* No other step of a worker adds an attempt.                               *)
LEMMA WorkerCounted ==
  ASSUME TypeInv, NEW a \in Answers, Counted(a), NEW w \in Workers, Work(w) \/ Crash(w)
  PROVE  Counted(a)'
  <1>0. EventType /\ BusyHasAnswer /\ AnswersType /\ lease[a] \in LeaseRow
    BY TypeParts DEF TypeInv, EventType
  <1>1. CASE select_owner_event(w)
    BY <1>1, SelectCounted
  <1>2. CASE Claims(w)
    BY <1>2, ClaimCounted
  <1>3. ASSUME ~select_owner_event(w), lease'[a].attempts = lease[a].attempts
        PROVE  Counted(a)'
    <2>1. Racing(a)' \subseteq Racing(a)
      BY <1>3, RecordedMove DEF Racing
    <2>2. lease[a].attempts \in Nat
      BY <1>0 DEF LeaseRow
    <2> QED
      BY <1>3, <2>1, <2>2, KeepCounted
  <1>4. ASSUME ~Claims(w) PROVE lease'[a].attempts = lease[a].attempts
    <2>1. CASE UNCHANGED lease
      BY <2>1
    <2>2. ASSUME NEW status \in Conclusions, NEW written \in ProposalStates,
                 Reports(w, status, written)
          PROVE  lease'[a].attempts = lease[a].attempts
      BY <1>0, <2>2 DEF Reports, EventType, LeaseRow
    <2>3. CASE Fails(w)
      <3> DEFINE b == worker[w].answer
                 r == [lease[b] EXCEPT !.status = "FAILED", !.last_error = "retry"]
      <3>1. CASE a # b
        BY <1>0, <2>3, <3>1 DEF Fails, EventType
      <3>2. CASE a = b
        <4>1. r.attempts = lease[a].attempts /\ TerminalLease(b).attempts = lease[a].attempts
          BY <1>0, <3>2 DEF TerminalLease, LeaseRow
        <4>2. lease'[a] = r \/ lease'[a] = TerminalLease(b)
          BY <1>0, <2>3, <3>2 DEF Fails, EventType
        <4> HIDE DEF r
        <4> QED
          BY <4>1, <4>2
      <3> QED
        BY <3>1, <3>2
    <2> QED
      BY <1>4, <2>1, <2>2, <2>3, WorkerRowStep DEF RowStep, Opens, rows
  <1> QED
    BY <1>1, <1>2, <1>3, <1>4

LEMMA NextCounted ==
  ASSUME TypeInv, [Next]_vars, NEW a \in Answers, Counted(a)
  PROVE  Counted(a)'
  <1>0. EventType /\ lease[a] \in LeaseRow
    BY TypeParts DEF TypeInv, EventType
  <1>n. lease[a].attempts \in Nat
    BY <1>0 DEF LeaseRow
  <1>1. ASSUME UNCHANGED worker,
               lease'[a].attempts = lease[a].attempts \/ lease'[a].attempts = 0
        PROVE  Counted(a)'
    <2>1. Racing(a)' = Racing(a)
      BY <1>1 DEF Racing
    <2> QED
      BY <1>n, <1>1, <2>1, KeepCounted
  <1>2. ASSUME NEW c \in DOMAIN answers, retry_owner_event(c) PROVE Counted(a)'
    <2>1. lease'[a] = lease[a] \/ lease'[a] = RetriedLease(c)
      BY <1>0, <1>2 DEF retry_owner_event, EventType
    <2>2. RetriedLease(c).attempts = 0
      BY DEF RetriedLease, NoLease
    <2> QED
      BY <1>1, <1>2, <2>1, <2>2 DEF retry_owner_event
  <1>3. ASSUME NEW c \in DOMAIN answers, LeaseExpires(c) PROVE Counted(a)'
    <2>1. lease'[a].attempts = lease[a].attempts
      BY <1>0, <1>3 DEF LeaseExpires, EventType, LeaseRow
    <2> QED
      BY <1>1, <1>3, <2>1 DEF LeaseExpires
  <1>4. CASE UNCHANGED <<lease, worker>>
    BY <1>1, <1>4
  <1> QED
    BY <1>2, <1>3, <1>4, WorkerCounted
    DEF Next, vars, submit_owner_answer, BeginAttach, CommitAttach, CardsChange,
        approve_knowledge_proposal, dismiss_knowledge_proposal, IndexChanges, eventVars

(* An event is attempted at most MAX_ATTEMPTS times between two retries,    *)
(* and claims with outdated rows add at most one for every other worker.    *)
THEOREM AlwaysBounded == Spec => []AttemptsBounded
  <1> DEFINE AllCounted == \A a \in Answers : Counted(a)
  <1>1. Init => TypeInv /\ Fenced /\ AllCounted
    BY InitType, InitFenced, InitCounted
  <1>2. (TypeInv /\ Fenced /\ AllCounted) /\ [Next]_vars => (TypeInv /\ Fenced /\ AllCounted)'
    BY NextType, NextFenced, NextCounted
  <1>3. TypeInv /\ Fenced /\ AllCounted => AttemptsBounded
    <2> SUFFICES ASSUME TypeInv, Fenced, AllCounted, NEW a \in Answers
                 PROVE  /\ lease[a].attempts <= MAX_ATTEMPTS + Cardinality(Workers) - 1
                        /\ a \notin overtaken => lease[a].attempts <= MAX_ATTEMPTS
      BY DEF AttemptsBounded
    <2>1. lease[a].attempts \in Nat
      BY TypeParts DEF TypeInv, EventType, LeaseRow
    <2> QED
      BY <2>1, RacingFinite, HandoffAssumption DEF Counted, Fenced, Row, Fresh
  <1> HIDE DEF AllCounted
  <1> QED
    BY <1>1, <1>2, <1>3, PTL DEF Spec
----------------------------------------------------------------------------
(* The simulation: a step of the hand-over is a step of OwnerKnowledge, or  *)
(* changes nothing that module speaks of.                                   *)
HandoverStep == [Handover!Next]_(Handover!vars)

LEMMA HandoverStutter == UNCHANGED <<answers, knowledge, consumption, overtaken>> => HandoverStep
  BY DEF HandoverStep, Handover!vars

LEMMA HandoverWorker ==
  ASSUME TypeInv, Fenced, NEW w \in Workers, Work(w) \/ Crash(w)
  PROVE  HandoverStep
  <1> DEFINE a == worker[w].answer
  <1>0. BusyHasAnswer
    BY DEF TypeInv
  <1>1. CASE UNCHANGED <<answers, rows>>
    BY <1>1, HandoverStutter DEF rows
  <1>2. CASE Claims(w)
    <2>1. /\ Claim(w, a, worker[w].attempts) /\ UNCHANGED answers /\ a \in DOMAIN answers
          /\ overtaken' \in {overtaken, overtaken \cup {a}}
          /\ consumption[a] # "none" => overtaken' = overtaken \cup {a}
      BY <1>0, <1>2 DEF Claims, Outdated, Claimable, BusyHasAnswer
    <2> HIDE DEF a
    <2>2. CASE UNCHANGED <<knowledge, consumption>>
      <3>1. CASE overtaken' = overtaken
        BY <2>1, <2>2, <3>1, HandoverStutter
      <3>2. CASE overtaken' = overtaken \cup {a}
        BY <2>1, <2>2, <3>2 DEF Handover!Contest, HandoverStep, Handover!Next
      <3> QED
        BY <2>1, <3>1, <3>2
    <2>3. CASE ~Latest(a) /\ consumption[a] = "none"
      <3>1. Handover!Skip(a)
        BY <2>1, <2>3 DEF Claim, Handover!Skip, Handover!Latest, Latest
      <3> QED
        BY <2>1, <3>1 DEF HandoverStep, Handover!Next
    <2>4. CASE ~Latest(a) /\ consumption[a] # "none"
      <3>1. consumption' = consumption /\ UNCHANGED knowledge
        BY <2>1, <2>4, TypeParts DEF Claim, TypeInv, EventType
      <3> QED
        BY <2>2, <3>1
    <2>5. CASE Latest(a) /\ Exhausted(worker[w].attempts)
      <3>1. Handover!Fail(a)
        BY <2>1, <2>5 DEF Claim, GiveUp, Handover!Fail, Handover!Latest, Latest
      <3> QED
        BY <2>1, <3>1 DEF HandoverStep, Handover!Next
    <2>6. CASE Latest(a) /\ ~Exhausted(worker[w].attempts)
      BY <2>1, <2>2, <2>6 DEF Claim
    <2> QED
      BY <2>3, <2>4, <2>5, <2>6
  <1>3. CASE Opens(w)
    BY <1>3, HandoverStutter DEF Opens
  <1>4. ASSUME worker[w].pc # "idle",
               NEW status \in Conclusions, NEW written \in ProposalStates,
               Reports(w, status, written)
        PROVE  HandoverStep
    <2>1. Handover!Conclude(a, status) /\ status \in Handover!Conclusions
      BY <1>4 DEF Reports, Handover!Conclude, Handover!Latest, Latest, Conclusions,
                  Handover!Conclusions
    <2> QED
      BY <1>0, <1>4, <2>1 DEF HandoverStep, Handover!Next, BusyHasAnswer
  <1>5. CASE worker[w].pc = "fail" /\ Fails(w)
    <2>1. a \in DOMAIN answers /\ lease[a].status # "DONE" /\ Latest(a)
      BY <1>0, <1>5 DEF Fails, HoldsLease, BusyHasAnswer
    <2>2. consumption[a] = "none" \/ a \in overtaken
      BY <2>1, HolderOpen
    <2>3. Handover!Fail(a)
      BY <1>5, <2>2 DEF Fails, Handover!Fail, Handover!Latest, Latest
    <2> QED
      BY <2>1, <2>3 DEF HandoverStep, Handover!Next
  <1> QED
    BY <1>1, <1>2, <1>3, <1>4, <1>5, WorkerRowStep DEF RowStep

LEMMA HandoverOwner ==
  ASSUME TypeInv, Fenced, NEW a \in DOMAIN answers,
         \/ CardsChange(a) \/ approve_knowledge_proposal(a) \/ dismiss_knowledge_proposal(a)
         \/ retry_owner_event(a) \/ LeaseExpires(a)
  PROVE  HandoverStep
  <1>1. CASE CardsChange(a) \/ dismiss_knowledge_proposal(a) \/ LeaseExpires(a)
    BY <1>1, HandoverStutter DEF CardsChange, dismiss_knowledge_proposal, LeaseExpires, eventVars
  <1>2. CASE approve_knowledge_proposal(a)
    <2>1. Handover!Approve(a)
      BY <1>2 DEF approve_knowledge_proposal, Handover!Approve, Handover!Latest, Latest
    <2> QED
      BY <2>1 DEF HandoverStep, Handover!Next
  <1>3. CASE retry_owner_event(a)
    <2>1. /\ lease[a].status = "FAILED" /\ lease[a].last_error = "TERMINAL" /\ Latest(a)
          /\ knowledge[a] = "FAILED"
      BY <1>3, DomainType, TypeParts DEF retry_owner_event, TypeInv, Fenced, Row, GivenUp
    <2>2. consumption[a] = "none" \/ a \in overtaken
      BY <2>1, HolderOpen
    <2>3. Handover!Retry(a)
      BY <1>3, <2>1, <2>2 DEF retry_owner_event, Handover!Retry, Handover!Latest, Latest
    <2> QED
      BY <2>3 DEF HandoverStep, Handover!Next
  <1> QED
    BY <1>1, <1>2, <1>3

LEMMA HandoverNext == TypeInv /\ Fenced /\ [Next]_vars => HandoverStep
  <1> SUFFICES ASSUME TypeInv, Fenced, [Next]_vars PROVE HandoverStep
    OBVIOUS
  <1>1. ASSUME NEW q \in Questions, submit_owner_answer(q) PROVE HandoverStep
    <2>1. Len(answers) + 1 \in Answers
      BY <1>1, TypeParts, HandoffAssumption DEF submit_owner_answer, TypeInv, AnswersType, Answers
    <2>2. Handover!Submit(q)
      BY <1>1, <2>1 DEF submit_owner_answer, Handover!Submit
    <2> QED
      BY <2>2 DEF HandoverStep, Handover!Next
  <1>2. ASSUME NEW q \in Questions, BeginAttach(q) \/ CommitAttach(q) PROVE HandoverStep
    BY <1>2, HandoverStutter DEF BeginAttach, CommitAttach, eventVars
  <1>3. CASE IndexChanges \/ UNCHANGED vars
    BY <1>3, HandoverStutter DEF IndexChanges, eventVars, vars
  <1> QED
    BY <1>1, <1>2, <1>3, HandoverOwner, HandoverWorker DEF Next

(* The claim, heartbeat and finish protocol implements the abstract         *)
(* hand-over: one report per answer, for the latest answer only, and        *)
(* nothing after it but the owner's approval; a failure and its retry only  *)
(* where a claim used outdated rows.                                        *)
THEOREM HandoffRefines == Spec => ImplementsHandover
  <1>1. Init => Handover!Init
    BY DEF Init, Handover!Init
  <1>2. TypeInv /\ Fenced /\ [Next]_vars => [Handover!Next]_(Handover!vars)
    BY HandoverNext DEF HandoverStep
  <1> QED
    BY <1>1, <1>2, FencedInv, PTL DEF Spec, ImplementsHandover, Handover!Spec
=============================================================================
