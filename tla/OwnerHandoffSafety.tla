------------------------- MODULE OwnerHandoffSafety -------------------------
(***************************************************************************)
(* Type correctness and safety of OwnerHandoff for every value of its       *)
(* constants: what a step of a worker may do to the rows of an answer, and  *)
(* what a closed event keeps whatever rows the claims worked with.          *)
(***************************************************************************)
EXTENDS OwnerHandoff, TLAPS

LeaseRow == [status : {"NONE", "CLAIMED", "FAILED", "DONE"}, leased_by : Workers \cup {NoWorker},
             held : BOOLEAN, attempts : Nat, last_error : {"none", "retry", "TERMINAL"}]
Consumptions == {"none", "STALE", "APPLIED"}
Knowledge == {"PENDING", "LINKED", "REVIEW", "PUBLISHED", "FAILED"}
ProposalStates == {"NONE", "ANALYZED", "LINKED", "PENDING_REVIEW", "PUBLISHED", "DISMISSED"}
PCs == {"idle", "selected", "context", "recorded", "ingest", "extract", "record", "resume",
        "publish", "prepare", "commit", "fail", "followup"}
WorkerRow == [pc : PCs, answer : 0..MaxAnswers, attempts : Nat, proposal : ProposalStates,
              retryable : BOOLEAN]

(* The parts of TypeOK, with their types named.                             *)
AnswersType == answers \in Seq(Questions) /\ Len(answers) <= MaxAnswers
EventType == /\ lease \in [Answers -> LeaseRow]
             /\ consumption \in [Answers -> Consumptions]
             /\ knowledge \in [Answers -> Knowledge]
             /\ retries \in Nat /\ overtaken \in SUBSET Answers
AnswerType == /\ proposal \in [Answers -> ProposalStates]
              /\ operation \in [Answers -> BOOLEAN]
              /\ source \in [Answers -> {"none", "PROCESSING", "DONE"}]
              /\ cards \in [Answers -> CardStates]
AttachType == /\ attachment \in [Questions -> {"none", "attached", "job"}]
              /\ attaching \in [Questions -> {"none", "processing", "done"}]
WorkersType == worker \in [Workers -> WorkerRow]

(* A worker that does something does it for an answer that exists.          *)
BusyHasAnswer == \A w \in Workers : worker[w].pc # "idle" => worker[w].answer \in DOMAIN answers

TypeInv == TypeOK /\ BusyHasAnswer

LEMMA TypeParts ==
  TypeOK <=> /\ AnswersType /\ EventType /\ AnswerType /\ AttachType /\ WorkersType
             /\ index_ready \in BOOLEAN
  BY DEF TypeOK, AnswersType, EventType, AnswerType, AttachType, WorkersType, LeaseRow,
         Consumptions, Knowledge, ProposalStates, PCs, WorkerRow

LEMMA PrimedParts ==
  ASSUME AnswersType', EventType', AnswerType', AttachType', WorkersType', index_ready' \in BOOLEAN
  PROVE  TypeOK'
  BY DEF TypeOK, AnswersType, EventType, AnswerType, AttachType, WorkersType, LeaseRow,
         Consumptions, Knowledge, ProposalStates, PCs, WorkerRow

LEMMA IdleType == Idle \in WorkerRow /\ Idle.pc = "idle"
  BY HandoffAssumption DEF Idle, WorkerRow, PCs, ProposalStates

LEMMA DomainType == AnswersType => DOMAIN answers = 1..Len(answers) /\ DOMAIN answers \subseteq Answers
  BY HandoffAssumption DEF AnswersType, Answers

LEMMA InitType == Init => TypeInv
  <1> SUFFICES ASSUME Init PROVE TypeInv
    OBVIOUS
  <1>1. AnswersType
    BY HandoffAssumption DEF Init, AnswersType
  <1>2. EventType
    BY DEF Init, EventType, NoLease, LeaseRow, Consumptions, Knowledge
  <1>3. AnswerType
    BY DEF Init, AnswerType, ProposalStates, CardStates
  <1>4. AttachType
    BY DEF Init, AttachType
  <1>5. WorkersType /\ BusyHasAnswer
    BY IdleType DEF Init, WorkersType, BusyHasAnswer
  <1> QED
    BY <1>1, <1>2, <1>3, <1>4, <1>5, TypeParts DEF Init, TypeInv
----------------------------------------------------------------------------
(* Where a worker goes next.                                                *)

(* A worker that only moves keeps its type and its answer.                  *)
LEMMA MoveType ==
  ASSUME TypeInv, NEW w \in Workers, UNCHANGED answers,
         \/ Return(w)
         \/ worker[w].pc # "idle" /\ \E pc \in PCs : Step(w, pc)
         \/ worker[w].pc # "idle" /\ \E retryable \in BOOLEAN : Fail(w, retryable)
  PROVE  WorkersType' /\ BusyHasAnswer'
  <1>0. WorkersType /\ BusyHasAnswer
    BY TypeParts DEF TypeInv
  <1>1. CASE Return(w)
    BY <1>0, <1>1, IdleType DEF Return, WorkersType, BusyHasAnswer
  <1>2. ASSUME worker[w].pc # "idle", NEW pc \in PCs, Step(w, pc)
        PROVE  WorkersType' /\ BusyHasAnswer'
    BY <1>0, <1>2 DEF Step, WorkersType, BusyHasAnswer, WorkerRow
  <1>3. ASSUME worker[w].pc # "idle", NEW retryable \in BOOLEAN, Fail(w, retryable)
        PROVE  WorkersType' /\ BusyHasAnswer'
    <2> DEFINE r == [worker[w] EXCEPT !.pc = "fail", !.retryable = retryable, !.proposal = "NONE"]
    <2>1. r \in WorkerRow /\ r.answer = worker[w].answer
      BY <1>0, <1>3 DEF WorkersType, WorkerRow, PCs, ProposalStates
    <2>2. worker' = [worker EXCEPT ![w] = r]
      BY <1>0, <1>3 DEF Fail, WorkersType, WorkerRow
    <2> HIDE DEF r
    <2> QED
      BY <1>0, <1>3, <2>1, <2>2 DEF WorkersType, BusyHasAnswer
  <1> QED
    BY <1>1, <1>2, <1>3

(* A conclusion, or its refusal, is well typed.                             *)
LEMMA ConcludeType ==
  ASSUME TypeInv, NEW w \in Workers, worker[w].pc # "idle", UNCHANGED answers,
         NEW status \in Knowledge, NEW written \in ProposalStates, Conclude(w, status, written),
         UNCHANGED <<retries, overtaken>>
  PROVE  /\ WorkersType' /\ BusyHasAnswer' /\ EventType'
         /\ proposal' \in [Answers -> ProposalStates]
  <1> DEFINE a == worker[w].answer
  <1>0. /\ EventType /\ AnswerType /\ WorkersType /\ BusyHasAnswer /\ AnswersType
    BY TypeParts DEF TypeInv
  <1>1. a \in Answers
    BY <1>0, DomainType DEF BusyHasAnswer
  <1>2. CASE MayFinish(w, status)
    <2>1. Finish(w, status) /\ proposal' = [proposal EXCEPT ![a] = written]
      BY <1>2 DEF Conclude
    <2>2. lease' \in [Answers -> LeaseRow]
      BY <2>1, <1>0, <1>1 DEF Finish, EventType, LeaseRow
    <2>3. consumption' \in [Answers -> Consumptions] /\ knowledge' \in [Answers -> Knowledge]
      BY <2>1, <1>0, <1>1 DEF Finish, EventType, Consumptions
    <2>4. Step(w, "followup")
      BY <2>1 DEF Finish
    <2>5. WorkersType' /\ BusyHasAnswer'
      BY <2>4, MoveType DEF PCs
    <2> QED
      BY <2>1, <2>2, <2>3, <2>5, <1>0, <1>1 DEF EventType, AnswerType
  <1>3. CASE ~MayFinish(w, status)
    <2>1. /\ Fail(w, RefusalRetryable(w, status))
          /\ UNCHANGED <<lease, consumption, knowledge, proposal>>
      BY <1>3 DEF Conclude
    <2>2. RefusalRetryable(w, status) \in BOOLEAN
      BY DEF RefusalRetryable, HoldsLease, Latest
    <2>3. WorkersType' /\ BusyHasAnswer'
      BY <2>1, <2>2, MoveType
    <2> QED
      BY <2>1, <2>3, <1>0 DEF EventType, AnswerType
  <1> QED
    BY <1>2, <1>3

(* What a report says and writes is a status of its row.                    *)
LEMMA FinishRecordedType ==
  ASSUME TypeInv, NEW w \in Workers, worker[w].pc # "idle", UNCHANGED <<answers, retries, overtaken>>,
         NEW p \in ProposalStates, FinishRecorded(w, p)
  PROVE  /\ WorkersType' /\ BusyHasAnswer' /\ EventType'
         /\ proposal' \in [Answers -> ProposalStates]
  <1> DEFINE a == worker[w].answer
  <1>1. AnswersType /\ AnswerType /\ BusyHasAnswer
    BY TypeParts DEF TypeInv
  <1>2. proposal[a] \in ProposalStates
    BY <1>1, DomainType DEF AnswerType, BusyHasAnswer
  <1>3. CASE p \in {"LINKED", "PUBLISHED"} /\ linked_target(a)
    <2>1. p \in Knowledge /\ Conclude(w, p, proposal[a])
      BY <1>3 DEF FinishRecorded, Knowledge
    <2> QED
      BY <2>1, <1>2, ConcludeType
  <1>4. CASE ~(p \in {"LINKED", "PUBLISHED"} /\ linked_target(a))
    <2> DEFINE written == IF p = "LINKED" THEN "PENDING_REVIEW" ELSE proposal[a]
    <2>1. written \in ProposalStates /\ "REVIEW" \in Knowledge
      BY <1>2 DEF ProposalStates, Knowledge
    <2>2. Conclude(w, "REVIEW", written)
      BY <1>4 DEF FinishRecorded
    <2> HIDE DEF written
    <2> QED
      BY <2>1, <2>2, ConcludeType
  <1> QED
    BY <1>3, <1>4
----------------------------------------------------------------------------
(* One lemma per group of actions.                                          *)

LEMMA SubmitType ==
  ASSUME TypeInv, NEW q \in Questions, submit_owner_answer(q)
  PROVE  TypeInv'
  <1>0. /\ AnswersType /\ EventType /\ AnswerType /\ AttachType /\ WorkersType /\ BusyHasAnswer
        /\ index_ready \in BOOLEAN
    BY TypeParts DEF TypeInv
  <1>1. AnswersType' /\ DOMAIN answers \subseteq DOMAIN answers'
    BY <1>0, HandoffAssumption DEF AnswersType, submit_owner_answer
  <1>2. EventType' /\ AnswerType' /\ AttachType' /\ WorkersType' /\ index_ready' \in BOOLEAN
    BY <1>0 DEF submit_owner_answer, answerVars, attachVars, EventType, AnswerType, AttachType,
                WorkersType
  <1>3. BusyHasAnswer'
    BY <1>0, <1>1 DEF submit_owner_answer, BusyHasAnswer
  <1> QED
    BY <1>1, <1>2, <1>3, PrimedParts DEF TypeInv

(* The owner, other sources and time leave answers and workers alone.       *)
LEMMA OwnerType ==
  ASSUME TypeInv, NEW a \in DOMAIN answers,
         \/ CardsChange(a) \/ approve_knowledge_proposal(a) \/ dismiss_knowledge_proposal(a)
         \/ retry_owner_event(a) \/ LeaseExpires(a)
  PROVE  TypeInv'
  <1>0. /\ AnswersType /\ EventType /\ AnswerType /\ AttachType /\ WorkersType /\ BusyHasAnswer
        /\ index_ready \in BOOLEAN
    BY TypeParts DEF TypeInv
  <1>a. a \in Answers
    BY <1>0, DomainType
  <1>1. UNCHANGED <<answers, worker, index_ready, attachVars>>
    BY DEF CardsChange, approve_knowledge_proposal, dismiss_knowledge_proposal,
           retry_owner_event, LeaseExpires, eventVars
  <1>2. AnswersType' /\ AttachType' /\ WorkersType' /\ BusyHasAnswer' /\ index_ready' \in BOOLEAN
    BY <1>0, <1>1 DEF AnswersType, AttachType, WorkersType, BusyHasAnswer, attachVars
  <1>3. CASE CardsChange(a)
    <2>1. PICK move \in CardMoves \cap Moves : cards' = [cards EXCEPT ![a] = move[2]]
      BY <1>3 DEF CardsChange
    <2>2. move[2] \in CardStates
      BY <2>1 DEF CardMoves, CardStates
    <2>3. AnswerType' /\ EventType'
      BY <1>0, <1>3, <2>1, <2>2 DEF CardsChange, eventVars, AnswerType, EventType
    <2> QED
      BY <1>2, <2>3, PrimedParts DEF TypeInv
  <1>4. CASE approve_knowledge_proposal(a)
    <2>1. AnswerType' /\ EventType'
      <3>1. /\ proposal' \in [Answers -> ProposalStates] /\ cards' \in [Answers -> CardStates]
            /\ knowledge' \in [Answers -> Knowledge]
        BY <1>0, <1>4 DEF approve_knowledge_proposal, AnswerType, EventType, CardStates,
                          ProposalStates, Knowledge
      <3> QED
        BY <1>0, <1>4, <3>1 DEF approve_knowledge_proposal, AnswerType, EventType
    <2> QED
      BY <1>2, <2>1, PrimedParts DEF TypeInv
  <1>5. CASE dismiss_knowledge_proposal(a)
    <2>1. AnswerType' /\ EventType'
      BY <1>0, <1>5 DEF dismiss_knowledge_proposal, eventVars, AnswerType, EventType,
                        ProposalStates
    <2> QED
      BY <1>2, <2>1, PrimedParts DEF TypeInv
  <1>6. CASE retry_owner_event(a)
    <2>1. RetriedLease(a) \in LeaseRow
      BY DEF RetriedLease, NoLease, LeaseRow
    <2>2. AnswerType' /\ EventType'
      <3>1. lease' \in [Answers -> LeaseRow] /\ knowledge' \in [Answers -> Knowledge]
        BY <1>0, <1>6, <2>1 DEF retry_owner_event, EventType, Knowledge
      <3>2. retries' \in Nat
        BY <1>0, <1>6 DEF retry_owner_event, EventType
      <3> QED
        BY <1>0, <1>6, <3>1, <3>2 DEF retry_owner_event, answerVars, AnswerType, EventType
    <2> QED
      BY <1>2, <2>2, PrimedParts DEF TypeInv
  <1>7. CASE LeaseExpires(a)
    <2>1. lease' \in [Answers -> LeaseRow]
      BY <1>0, <1>7, <1>a DEF LeaseExpires, EventType, LeaseRow
    <2>2. AnswerType' /\ EventType'
      BY <1>0, <1>7, <2>1 DEF LeaseExpires, answerVars, AnswerType, EventType
    <2> QED
      BY <1>2, <2>2, PrimedParts DEF TypeInv
  <1> QED
    BY <1>3, <1>4, <1>5, <1>6, <1>7

LEMMA AttachFileType ==
  ASSUME TypeInv, NEW q \in Questions, BeginAttach(q) \/ CommitAttach(q)
  PROVE  TypeInv'
  <1>0. /\ AnswersType /\ EventType /\ AnswerType /\ AttachType /\ WorkersType /\ BusyHasAnswer
        /\ index_ready \in BOOLEAN
    BY TypeParts DEF TypeInv
  <1>1. UNCHANGED <<eventVars, answerVars, index_ready, worker>>
    BY DEF BeginAttach, CommitAttach
  <1>2. /\ AnswersType' /\ EventType' /\ AnswerType' /\ WorkersType' /\ BusyHasAnswer'
        /\ index_ready' \in BOOLEAN
    BY <1>0, <1>1 DEF AnswersType, EventType, AnswerType, WorkersType, BusyHasAnswer, eventVars,
                      answerVars
  <1>3. AttachType'
    BY <1>0 DEF AttachType, BeginAttach, CommitAttach
  <1> QED
    BY <1>2, <1>3, PrimedParts DEF TypeInv
----------------------------------------------------------------------------
(* A claim skips, gives up or takes the event of an answer that exists.     *)
LEMMA ClaimType ==
  ASSUME TypeInv, NEW w \in Workers, NEW a \in DOMAIN answers, NEW attempts \in Nat,
         Claim(w, a, attempts), UNCHANGED <<answers, retries>>, overtaken' \in SUBSET Answers
  PROVE  WorkersType' /\ BusyHasAnswer' /\ EventType'
  <1>0. AnswersType /\ EventType /\ WorkersType /\ BusyHasAnswer
    BY TypeParts DEF TypeInv
  <1>a. a \in Answers /\ a \in 0..MaxAnswers
    BY <1>0, DomainType, HandoffAssumption DEF Answers
  <1>1. CASE ~Latest(a)
    <2>1. consumption' \in [Answers -> Consumptions]
      BY <1>0, <1>1, <1>a DEF Claim, EventType, Consumptions
    <2>2. WorkersType' /\ BusyHasAnswer'
      BY <1>1, MoveType DEF Claim
    <2> QED
      BY <1>0, <1>1, <2>1, <2>2 DEF Claim, EventType
  <1>2. CASE Latest(a) /\ Exhausted(attempts)
    <2>0. lease[a] \in LeaseRow
      BY <1>0, <1>a DEF EventType
    <2>1. TerminalLease(a) \in LeaseRow
      BY <2>0 DEF TerminalLease, LeaseRow
    <2>2. WorkersType' /\ BusyHasAnswer'
      BY <1>2, MoveType DEF Claim
    <2> QED
      BY <1>0, <1>2, <2>1, <2>2 DEF Claim, GiveUp, EventType, Knowledge
  <1>3. CASE Latest(a) /\ ~Exhausted(attempts)
    <2>1. TakenLease(w, a) \in LeaseRow
      BY <1>0, <1>a DEF TakenLease, EventType, LeaseRow
    <2> DEFINE r == [Idle EXCEPT !.pc = "context", !.answer = a]
    <2>2. r \in WorkerRow /\ r.answer = a
      BY <1>a, IdleType DEF WorkerRow, PCs
    <2>3. worker' = [worker EXCEPT ![w] = r]
      BY <1>3 DEF Claim
    <2> HIDE DEF r
    <2>4. WorkersType' /\ BusyHasAnswer'
      BY <1>0, <2>2, <2>3 DEF WorkersType, BusyHasAnswer
    <2> QED
      BY <1>0, <1>3, <2>1, <2>4 DEF Claim, EventType
  <1> QED
    BY <1>1, <1>2, <1>3

LEMMA ClaimStepType ==
  ASSUME TypeInv, NEW w \in Workers,
         select_owner_event(w) \/ claim_owner_event(w)
  PROVE  TypeInv'
  <1>0. /\ AnswersType /\ EventType /\ AnswerType /\ AttachType /\ WorkersType /\ BusyHasAnswer
        /\ index_ready \in BOOLEAN
    BY TypeParts DEF TypeInv
  <1>1. CASE select_owner_event(w)
    <2>1. PICK a \in Selected :
             worker' = [worker EXCEPT ![w] = [Idle EXCEPT !.pc = "selected", !.answer = a,
                                                         !.attempts = lease[a].attempts]]
      BY <1>1 DEF select_owner_event
    <2>2. a \in DOMAIN answers /\ a \in 0..MaxAnswers /\ lease[a].attempts \in Nat
      BY <1>0, DomainType, HandoffAssumption DEF Selected, EventType, LeaseRow, Answers
    <2> DEFINE r == [Idle EXCEPT !.pc = "selected", !.answer = a, !.attempts = lease[a].attempts]
    <2>3. r \in WorkerRow /\ r.answer = a
      BY <2>2, IdleType DEF WorkerRow, PCs
    <2>4. worker' = [worker EXCEPT ![w] = r]
      BY <2>1
    <2> HIDE DEF r
    <2>5. WorkersType' /\ BusyHasAnswer'
      BY <1>0, <1>1, <2>2, <2>3, <2>4 DEF WorkersType, BusyHasAnswer, select_owner_event, eventVars
    <2> QED
      BY <1>0, <1>1, <2>5, PrimedParts
      DEF select_owner_event, TypeInv, AnswersType, EventType, AnswerType, AttachType, eventVars,
          answerVars, attachVars
  <1>2. CASE claim_owner_event(w)
    <2>1. worker[w].answer \in DOMAIN answers /\ worker[w].attempts \in Nat
      BY <1>0, <1>2 DEF claim_owner_event, BusyHasAnswer, WorkersType, WorkerRow
    <2>2. overtaken' \in SUBSET Answers
      BY <1>0, <1>2, <2>1, DomainType DEF claim_owner_event, EventType
    <2>3. WorkersType' /\ BusyHasAnswer' /\ EventType'
      BY <1>2, <2>1, <2>2, ClaimType DEF claim_owner_event
    <2> QED
      BY <1>0, <1>2, <2>3, PrimedParts
      DEF claim_owner_event, TypeInv, AnswersType, AnswerType, AttachType, answerVars, attachVars
  <1> QED
    BY <1>1, <1>2

(* Steps that only move the worker, or change one row for it.               *)
LEMMA PrivateStepType ==
  ASSUME TypeInv, NEW w \in Workers,
         \/ LoseLease(w) \/ heartbeat(w) \/ StepFails(w) \/ Crash(w)
  PROVE  TypeInv'
  <1>0. /\ AnswersType /\ EventType /\ AnswerType /\ AttachType /\ index_ready \in BOOLEAN
    BY TypeParts DEF TypeInv
  <1>1. UNCHANGED <<eventVars, answerVars, attachVars, index_ready>>
    BY DEF LoseLease, heartbeat, StepFails, Crash, WorkerFrame, eventVars
  <1>2. \/ Return(w)
        \/ worker[w].pc # "idle" /\ \E pc \in PCs : Step(w, pc)
        \/ worker[w].pc # "idle" /\ \E retryable \in BOOLEAN : Fail(w, retryable)
    <2>1. CASE heartbeat(w)
      <3>1. CASE Return(w)
        BY <3>1
      <3>2. CASE worker[w].pc = "publish" /\ Step(w, "prepare")
        BY <3>2 DEF PCs
      <3>3. CASE worker[w].pc = "prepare" /\ Step(w, "commit")
        BY <3>3 DEF PCs
      <3> QED
        BY <2>1, <3>1, <3>2, <3>3 DEF heartbeat
    <2>2. CASE LoseLease(w) \/ StepFails(w) \/ Crash(w)
      BY <2>2 DEF LoseLease, StepFails, Crash
    <2> QED
      BY <2>1, <2>2
  <1>3. WorkersType' /\ BusyHasAnswer'
    BY <1>1, <1>2, MoveType DEF eventVars
  <1> QED
    BY <1>0, <1>1, <1>3, PrimedParts
    DEF TypeInv, AnswersType, EventType, AnswerType, AttachType, eventVars, answerVars, attachVars

(* The preparation of the source, and the ingestion.                        *)
LEMMA IngestStepType ==
  ASSUME TypeInv, NEW w \in Workers,
         ensure_owner_answer_source(w) \/ ingest_owner_text(w)
  PROVE  TypeInv'
  <1>0. /\ AnswersType /\ EventType /\ AnswerType /\ AttachType /\ WorkersType /\ BusyHasAnswer
        /\ index_ready \in BOOLEAN
    BY TypeParts DEF TypeInv
  <1>1. UNCHANGED <<eventVars, proposal, operation, attachVars, index_ready>>
    BY DEF ensure_owner_answer_source, ingest_owner_text, WorkerFrame, eventVars
  <1>2. /\ worker[w].pc # "idle"
        /\ Return(w) \/ \E pc \in PCs : Step(w, pc)
    BY DEF ensure_owner_answer_source, ingest_owner_text, PCs
  <1>3. WorkersType' /\ BusyHasAnswer'
    BY <1>1, <1>2, MoveType DEF eventVars
  <1>4. source' \in [Answers -> {"none", "PROCESSING", "DONE"}]
    BY <1>0 DEF ensure_owner_answer_source, ingest_owner_text, AnswerType
  <1>5. cards' \in [Answers -> CardStates]
    <2>1. CASE ensure_owner_answer_source(w)
      BY <1>0, <2>1 DEF ensure_owner_answer_source, AnswerType
    <2>2. CASE ingest_owner_text(w)
      <3>1. worker[w].answer \in Answers
        BY <1>0, <1>2, DomainType DEF BusyHasAnswer
      <3>2. PICK situation \in IF source[worker[w].answer] = "DONE" THEN {cards[worker[w].answer]}
                                                               ELSE Ingested :
               cards' = [cards EXCEPT ![worker[w].answer] = situation]
        BY <2>2 DEF ingest_owner_text
      <3>3. situation \in CardStates
        BY <1>0, <3>1, <3>2, IngestedAssumption DEF AnswerType
      <3> QED
        BY <1>0, <3>2, <3>3 DEF AnswerType
    <2> QED
      BY <2>1, <2>2
  <1>6. AnswerType'
    BY <1>0, <1>1, <1>4, <1>5 DEF AnswerType
  <1> QED
    BY <1>0, <1>1, <1>3, <1>6, PrimedParts
    DEF TypeInv, AnswersType, EventType, AttachType, eventVars, attachVars

LEMMA LoadType ==
  ASSUME TypeInv, NEW w \in Workers, load_context(w)
  PROVE  TypeInv'
  <1>0. /\ AnswersType /\ EventType /\ AnswerType /\ AttachType /\ WorkersType /\ BusyHasAnswer
        /\ index_ready \in BOOLEAN
    BY TypeParts DEF TypeInv
  <1> DEFINE p == proposal[worker[w].answer]
             pc == CASE p = "NONE" -> "ingest" [] p = "ANALYZED" -> "resume" [] OTHER -> "recorded"
             kept == IF p = "ANALYZED" THEN "NONE" ELSE p
             r == [worker[w] EXCEPT !.proposal = kept, !.pc = pc]
  <1>1. worker[w].pc # "idle" /\ p \in ProposalStates
    BY <1>0, DomainType DEF load_context, BusyHasAnswer, AnswerType
  <1>2. pc \in PCs /\ kept \in ProposalStates
    BY <1>1 DEF PCs, ProposalStates
  <1>3. worker' = [worker EXCEPT ![w] = r]
    BY <1>0 DEF load_context, WorkersType, WorkerRow
  <1> HIDE DEF p, pc, kept
  <1>4. r \in WorkerRow /\ r.answer = worker[w].answer
    BY <1>0, <1>1, <1>2 DEF WorkersType, WorkerRow
  <1> HIDE DEF r
  <1>5. WorkersType' /\ BusyHasAnswer'
    <2>1. WorkersType'
      BY <1>0, <1>3, <1>4 DEF WorkersType
    <2>2. UNCHANGED answers
      BY DEF load_context, WorkerFrame
    <2>3. \A v \in Workers : worker'[v] = IF v = w THEN r ELSE worker[v]
      BY <1>0, <1>3 DEF WorkersType
    <2>4. BusyHasAnswer'
      BY <1>0, <1>1, <1>4, <2>2, <2>3 DEF BusyHasAnswer
    <2> QED
      BY <2>1, <2>4
  <1> QED
    BY <1>0, <1>5, PrimedParts
    DEF load_context, WorkerFrame, TypeInv, AnswersType, EventType, AnswerType, AttachType,
        answerVars, attachVars

(* Steps that conclude, or go on to publish.                                *)
LEMMA ConcludeStepType ==
  ASSUME TypeInv, NEW w \in Workers,
         \/ finish_recorded(w) \/ RecordConclusion(w) \/ RecordPublish(w) \/ RecordConflict(w)
         \/ resume_analyzed(w) \/ NoProvenance(w) \/ AlreadyApplied(w)
  PROVE  TypeInv'
  <1> DEFINE a == worker[w].answer
  <1>0. /\ AnswersType /\ EventType /\ AnswerType /\ AttachType /\ WorkersType /\ BusyHasAnswer
        /\ index_ready \in BOOLEAN
    BY TypeParts DEF TypeInv
  <1>1. UNCHANGED <<answers, retries, overtaken, index_ready, operation, source, cards, attachVars>>
    BY DEF finish_recorded, RecordConclusion, RecordPublish, RecordConflict, resume_analyzed,
           NoProvenance, AlreadyApplied, WorkerFrame
  <1>2. worker[w].pc # "idle"
    BY DEF finish_recorded, RecordConclusion, RecordPublish, RecordConflict, resume_analyzed,
           NoProvenance, AlreadyApplied
  <1>3. a \in Answers /\ proposal[a] \in ProposalStates /\ worker[w].proposal \in ProposalStates
    BY <1>0, <1>2, DomainType DEF BusyHasAnswer, AnswerType, WorkersType, WorkerRow
  <1>4. {"REVIEW", "LINKED", "PUBLISHED"} \subseteq Knowledge
    BY DEF Knowledge
  <1>5. {"ANALYZED", "LINKED", "PENDING_REVIEW", "PUBLISHED"} \subseteq ProposalStates
    BY DEF ProposalStates
  <1>6. CASE \/ \E p \in ProposalStates : FinishRecorded(w, p)
             \/ \E status \in Knowledge, written \in ProposalStates : Conclude(w, status, written)
    <2>1. /\ WorkersType' /\ BusyHasAnswer' /\ EventType'
          /\ proposal' \in [Answers -> ProposalStates]
      BY <1>1, <1>2, <1>6, ConcludeType, FinishRecordedType
    <2> QED
      BY <1>0, <1>1, <2>1, PrimedParts DEF TypeInv, AnswersType, AnswerType, AttachType, attachVars
  <1>7. CASE /\ \E pc \in PCs : Step(w, pc)
             /\ proposal' = proposal \/ proposal' = [proposal EXCEPT ![a] = "ANALYZED"]
             /\ UNCHANGED <<lease, consumption, knowledge>>
    <2>1. WorkersType' /\ BusyHasAnswer'
      BY <1>1, <1>2, <1>7, MoveType
    <2>2. EventType' /\ AnswerType'
      BY <1>0, <1>1, <1>5, <1>7 DEF EventType, AnswerType
    <2> QED
      BY <1>0, <1>1, <2>1, <2>2, PrimedParts DEF TypeInv, AnswersType, AttachType, attachVars
  <1>8. CASE finish_recorded(w)
    BY <1>3, <1>6, <1>8 DEF finish_recorded
  <1>9. CASE RecordConclusion(w)
    <2>1. Wanted(a) \in ProposalStates
      BY <1>5 DEF Wanted
    <2>2. (IF Wanted(a) = "LINKED" THEN "LINKED" ELSE "REVIEW") \in Knowledge
      BY <1>4
    <2> QED
      BY <1>6, <1>9, <2>1, <2>2 DEF RecordConclusion
  <1>10. CASE RecordPublish(w)
    BY <1>7, <1>10 DEF RecordPublish, PCs
  <1>11. CASE RecordConflict(w)
    BY <1>3, <1>6, <1>11 DEF RecordConflict
  <1>12. CASE resume_analyzed(w)
    <2>1. CASE decide_outcome(cards[a]) = "PUBLISH"
      BY <1>7, <1>12, <2>1 DEF resume_analyzed, PCs
    <2>2. CASE decide_outcome(cards[a]) # "PUBLISH"
      BY <1>4, <1>5, <1>6, <1>12, <2>2 DEF resume_analyzed
    <2> QED
      BY <2>1, <2>2
  <1>13. CASE NoProvenance(w)
    BY <1>4, <1>5, <1>6, <1>13 DEF NoProvenance
  <1>14. CASE AlreadyApplied(w)
    <2>1. (IF linked_target(a) THEN "PUBLISHED" ELSE "REVIEW") \in Knowledge
      BY <1>4
    <2> QED
      BY <1>5, <1>6, <1>14, <2>1 DEF AlreadyApplied
  <1> QED
    BY <1>8, <1>9, <1>10, <1>11, <1>12, <1>13, <1>14

LEMMA PublishType ==
  ASSUME TypeInv, NEW w \in Workers, PublishCommit(w)
  PROVE  TypeInv'
  <1> DEFINE a == worker[w].answer
  <1>0. /\ AnswersType /\ EventType /\ AnswerType /\ AttachType /\ WorkersType /\ BusyHasAnswer
        /\ index_ready \in BOOLEAN
    BY TypeParts DEF TypeInv
  <1>1. UNCHANGED <<answers, retries, overtaken, index_ready, source, attachVars>>
    BY DEF PublishCommit, WorkerFrame
  <1>2. worker[w].pc # "idle" /\ a \in Answers
    BY <1>0, DomainType DEF PublishCommit, BusyHasAnswer
  <1>3. CASE cards[a] = "new" /\ HookHolds(w)
    <2>1. /\ Finish(w, "PUBLISHED")
          /\ proposal' = [proposal EXCEPT ![a] = "PUBLISHED"]
          /\ cards' = [cards EXCEPT ![a] = "listed"]
          /\ operation' = [operation EXCEPT ![a] = TRUE]
      BY <1>3 DEF PublishCommit
    <2>2. WorkersType' /\ BusyHasAnswer'
      BY <1>1, <1>2, <2>1, MoveType DEF Finish, PCs
    <2>3. lease' \in [Answers -> LeaseRow]
      <3>1. lease \in [Answers -> LeaseRow]
        BY <1>0 DEF EventType
      <3>2. lease' = [lease EXCEPT ![a].status = "DONE", ![a].held = FALSE]
        BY <2>1 DEF Finish
      <3> QED
        BY <1>2, <3>1, <3>2 DEF LeaseRow
    <2>4. consumption' \in [Answers -> Consumptions] /\ knowledge' \in [Answers -> Knowledge]
      BY <1>0, <1>2, <2>1 DEF Finish, EventType, Consumptions, Knowledge
    <2>5. AnswerType'
      BY <1>0, <1>1, <2>1 DEF AnswerType, ProposalStates, CardStates
    <2> QED
      BY <1>0, <1>1, <2>2, <2>3, <2>4, <2>5, PrimedParts
      DEF TypeInv, AnswersType, EventType, AttachType, attachVars
  <1>4. CASE ~(cards[a] = "new" /\ HookHolds(w))
    <2>1. /\ Fail(w, cards[a] # "new" \/ (HoldsLease(w) /\ Latest(a)))
          /\ UNCHANGED <<lease, consumption, knowledge, proposal, cards, operation>>
      BY <1>4 DEF PublishCommit
    <2>2. (cards[a] # "new" \/ (HoldsLease(w) /\ Latest(a))) \in BOOLEAN
      OBVIOUS
    <2>3. WorkersType' /\ BusyHasAnswer'
      BY <1>1, <1>2, <2>1, <2>2, MoveType
    <2> QED
      BY <1>0, <1>1, <2>1, <2>3, PrimedParts
      DEF TypeInv, AnswersType, EventType, AnswerType, AttachType, attachVars
  <1> QED
    BY <1>3, <1>4

LEMMA EndType ==
  ASSUME TypeInv, NEW w \in Workers, finish_failed(w) \/ follow_up_attachments(w)
  PROVE  TypeInv'
  <1> DEFINE a == worker[w].answer
  <1>0. /\ AnswersType /\ EventType /\ AnswerType /\ AttachType /\ WorkersType /\ BusyHasAnswer
        /\ index_ready \in BOOLEAN
    BY TypeParts DEF TypeInv
  <1>1. UNCHANGED <<answers, retries, overtaken, index_ready, consumption, answerVars, attaching>>
    BY DEF finish_failed, follow_up_attachments, WorkerFrame, attachVars
  <1>2. worker[w].pc # "idle" /\ a \in Answers
    BY <1>0, DomainType DEF finish_failed, follow_up_attachments, BusyHasAnswer
  <1>3. WorkersType' /\ BusyHasAnswer'
    BY <1>1, MoveType DEF finish_failed, follow_up_attachments
  <1>4. lease' \in [Answers -> LeaseRow] /\ knowledge' \in [Answers -> Knowledge]
    <2>1. lease[a] \in LeaseRow
      BY <1>0, <1>2 DEF EventType
    <2>2. TerminalLease(a) \in LeaseRow
      BY <2>1 DEF TerminalLease, LeaseRow
    <2> DEFINE r == [lease[a] EXCEPT !.status = "FAILED", !.last_error = "retry"]
    <2>3. r \in LeaseRow
      BY <2>1 DEF LeaseRow
    <2>4. \/ UNCHANGED lease
          \/ lease' = [lease EXCEPT ![a] = r]
          \/ lease' = [lease EXCEPT ![a] = TerminalLease(a)]
      BY <1>0, <1>2 DEF finish_failed, follow_up_attachments, EventType
    <2> HIDE DEF r
    <2>5. knowledge' \in [Answers -> Knowledge]
      BY <1>0 DEF finish_failed, follow_up_attachments, EventType, Knowledge
    <2> QED
      BY <1>0, <2>2, <2>3, <2>4, <2>5 DEF EventType
  <1>5. AttachType'
    BY <1>0 DEF finish_failed, follow_up_attachments, AttachType, attachVars
  <1> QED
    BY <1>0, <1>1, <1>3, <1>4, <1>5, PrimedParts
    DEF TypeInv, AnswersType, EventType, AnswerType, answerVars
----------------------------------------------------------------------------
LEMMA IndexType == ASSUME TypeInv, IndexChanges PROVE TypeInv'
  <1>0. /\ AnswersType /\ EventType /\ AnswerType /\ AttachType /\ WorkersType /\ BusyHasAnswer
        /\ index_ready \in BOOLEAN
    BY TypeParts DEF TypeInv
  <1> QED
    BY <1>0, PrimedParts
    DEF IndexChanges, TypeInv, AnswersType, EventType, AnswerType, AttachType, WorkersType,
        BusyHasAnswer, eventVars, answerVars, attachVars

LEMMA NextType == TypeInv /\ [Next]_vars => TypeInv'
  <1> SUFFICES ASSUME TypeInv, [Next]_vars PROVE TypeInv'
    OBVIOUS
  <1>1. ASSUME NEW q \in Questions, submit_owner_answer(q) \/ BeginAttach(q) \/ CommitAttach(q)
        PROVE  TypeInv'
    BY <1>1, SubmitType, AttachFileType
  <1>2. ASSUME NEW a \in DOMAIN answers,
               \/ CardsChange(a) \/ approve_knowledge_proposal(a) \/ dismiss_knowledge_proposal(a)
               \/ retry_owner_event(a) \/ LeaseExpires(a)
        PROVE  TypeInv'
    BY <1>2, OwnerType
  <1>3. ASSUME NEW w \in Workers, Work(w) \/ Crash(w)
        PROVE  TypeInv'
    BY <1>3, ClaimStepType, LoadType, ConcludeStepType, IngestStepType, PrivateStepType,
       PublishType, EndType DEF Work
  <1>4. CASE UNCHANGED vars
    <2>1. /\ AnswersType /\ EventType /\ AnswerType /\ AttachType /\ WorkersType /\ BusyHasAnswer
          /\ index_ready \in BOOLEAN
      BY TypeParts DEF TypeInv
    <2> QED
      BY <1>4, <2>1, PrimedParts
      DEF vars, TypeInv, AnswersType, EventType, AnswerType, AttachType, WorkersType, BusyHasAnswer
  <1> QED
    BY <1>1, <1>2, <1>3, <1>4, IndexType DEF Next

(* Every row and every worker keeps its type, and a worker that is busy     *)
(* works on an answer that was submitted.                                   *)
THEOREM HandoffInv == Spec => []TypeInv
  <1> QED
    BY InitType, NextType, PTL DEF Spec

(* The types of the rows of the hand-over and of its workers.               *)
THEOREM HandoffTypeCorrect == Spec => []TypeOK
  <1>1. TypeInv => TypeOK
    BY DEF TypeInv
  <1> QED
    BY <1>1, HandoffInv, PTL

----------------------------------------------------------------------------
Conclusions == {"LINKED", "REVIEW", "PUBLISHED"}
rows == <<lease, consumption, knowledge, proposal, operation, overtaken>>

(* What a step of worker w may do to the rows of the answers.               *)

Claims(w) ==
    /\ worker[w].pc = "selected" /\ Claim(w, worker[w].answer, worker[w].attempts)
    /\ overtaken' = IF Outdated(worker[w].answer, worker[w].attempts)
                    THEN overtaken \cup {worker[w].answer} ELSE overtaken
    /\ UNCHANGED <<answers, proposal, operation>>

Opens(w) == LET a == worker[w].answer IN
    /\ proposal[a] \in {"NONE", "ANALYZED"}
    /\ proposal' = [proposal EXCEPT ![a] = "ANALYZED"]
    /\ UNCHANGED <<answers, lease, consumption, knowledge, operation, overtaken>>

(* Where the written proposal comes from: a conclusion just drawn, the      *)
(* operation that committed before, or the proposal found in the row.       *)
Drawn(status, written) ==
    <<status, written>> \in {<<"LINKED", "LINKED">>, <<"REVIEW", "PENDING_REVIEW">>,
                             <<"PUBLISHED", "PUBLISHED">>}

Found(w, written) == LET a == worker[w].answer IN
    /\ worker[w].pc = "recorded" \/ proposal[a] # "NONE"
    /\ written = proposal[a]

Reports(w, status, written) == LET a == worker[w].answer IN
    /\ status \in Conclusions /\ written \in ProposalStates
    /\ HoldsLease(w) /\ Latest(a) /\ consumption[a] = "none"
    /\ \/ Drawn(status, written)
       \/ operation[a] /\ written = "PUBLISHED"
       \/ Found(w, written)
    /\ knowledge' = [knowledge EXCEPT ![a] = status]
    /\ lease' = [lease EXCEPT ![a].status = "DONE", ![a].held = FALSE]
    /\ consumption' = [consumption EXCEPT ![a] = "APPLIED"]
    /\ proposal' = [proposal EXCEPT ![a] = written]
    /\ \/ UNCHANGED operation
       \/ written = "PUBLISHED" /\ operation' = [operation EXCEPT ![a] = TRUE]
    /\ UNCHANGED <<answers, overtaken>>

Fails(w) == LET a == worker[w].answer IN
    /\ HoldsLease(w) /\ Latest(a)
    /\ knowledge' = [knowledge EXCEPT ![a] = "FAILED"]
    /\ \/ lease' = [lease EXCEPT ![a] = TerminalLease(a)]
       \/ lease' = [lease EXCEPT ![a] = [@ EXCEPT !.status = "FAILED", !.last_error = "retry"]]
    /\ UNCHANGED <<answers, consumption, proposal, operation, overtaken>>

RowStep(w) ==
    \/ UNCHANGED <<answers, rows>>
    \/ Claims(w)
    \/ worker[w].pc = "record" /\ Opens(w)
    \/ worker[w].pc # "idle" /\ \E status \in Conclusions, written \in ProposalStates :
                                   Reports(w, status, written)
    \/ worker[w].pc = "fail" /\ Fails(w)
----------------------------------------------------------------------------
(* A conclusion reports, or changes no row.                                 *)
LEMMA ConcludeReports ==
  ASSUME NEW w \in Workers, NEW status \in Conclusions,
         NEW written \in ProposalStates, Conclude(w, status, written),
         \/ Drawn(status, written)
         \/ operation[worker[w].answer] /\ written = "PUBLISHED"
         \/ Found(w, written),
         UNCHANGED <<answers, operation, overtaken>>
  PROVE  Reports(w, status, written) \/ UNCHANGED <<answers, rows>>
  <1>1. CASE MayFinish(w, status)
    BY <1>1 DEF Conclude, Finish, Reports, MayFinish, Conclusions
  <1>2. CASE ~MayFinish(w, status)
    BY <1>2 DEF Conclude, rows
  <1> QED
    BY <1>1, <1>2

LEMMA FinishRecordedReports ==
  ASSUME TypeInv, NEW w \in Workers, worker[w].pc # "idle", NEW p \in ProposalStates,
         FinishRecorded(w, p), UNCHANGED <<answers, operation, overtaken>>,
         worker[w].pc = "recorded" \/ (p = proposal[worker[w].answer] /\ p # "NONE")
  PROVE  \/ UNCHANGED <<answers, rows>>
         \/ \E status \in Conclusions, written \in ProposalStates :
               Reports(w, status, written)
  <1> DEFINE a == worker[w].answer
  <1>0. proposal[a] \in ProposalStates
    BY TypeParts, DomainType DEF TypeInv, AnswerType, BusyHasAnswer
  <1>1. CASE p \in {"LINKED", "PUBLISHED"} /\ linked_target(a)
    <2>1. Conclude(w, p, proposal[a]) /\ Found(w, proposal[a]) /\ p \in Conclusions
      BY <1>1 DEF FinishRecorded, Found, Conclusions
    <2> QED
      BY <1>0, <2>1, ConcludeReports
  <1>2. CASE ~(p \in {"LINKED", "PUBLISHED"} /\ linked_target(a))
    <2> DEFINE written == IF p = "LINKED" THEN "PENDING_REVIEW" ELSE proposal[a]
    <2>1. Conclude(w, "REVIEW", written) /\ "REVIEW" \in Conclusions
      BY <1>2 DEF FinishRecorded, Conclusions
    <2>2. /\ Drawn("REVIEW", written) \/ Found(w, written)
          /\ written \in ProposalStates
      BY <1>0 DEF Drawn, Found, ProposalStates
    <2> HIDE DEF written
    <2> QED
      BY <2>1, <2>2, ConcludeReports
  <1> QED
    BY <1>1, <1>2

(* Every step of a worker is one of these, whatever it does besides.        *)
LEMMA WorkerRowStep ==
  ASSUME TypeInv, NEW w \in Workers, Work(w) \/ Crash(w)
  PROVE  RowStep(w)
  <1> DEFINE a == worker[w].answer
  <1>0. AnswersType /\ EventType /\ AnswerType /\ WorkersType /\ BusyHasAnswer
    BY TypeParts DEF TypeInv
  <1>1. CASE claim_owner_event(w)
    BY <1>1 DEF claim_owner_event, RowStep, Claims, answerVars
  <1>3. CASE \/ load_context(w) \/ ensure_owner_answer_source(w) \/ LoseLease(w)
             \/ ingest_owner_text(w) \/ heartbeat(w) \/ StepFails(w) \/ follow_up_attachments(w)
             \/ select_owner_event(w) \/ Crash(w)
    BY <1>3 DEF load_context, ensure_owner_answer_source, LoseLease, ingest_owner_text, heartbeat,
                StepFails, follow_up_attachments, select_owner_event, Crash, WorkerFrame, RowStep, rows,
                eventVars, answerVars
  <1>4. CASE finish_failed(w)
    BY <1>4 DEF finish_failed, RowStep, Fails, rows, answerVars, WorkerFrame, MayFinish
  <1>5. CASE RecordPublish(w)
    BY <1>5 DEF RecordPublish, RowStep, Opens, WorkerFrame
  <1>6. CASE /\ worker[w].pc # "idle"
             /\ \/ UNCHANGED <<answers, rows>>
                \/ \E status \in Conclusions, written \in ProposalStates :
                      Reports(w, status, written)
    BY <1>6 DEF RowStep
  <1>7. CASE finish_recorded(w)
    <2>1. worker[w].proposal \in ProposalStates
      BY <1>0 DEF WorkersType, WorkerRow
    <2> QED
      BY <1>6, <1>7, <2>1, FinishRecordedReports DEF finish_recorded, WorkerFrame
  <1>8. CASE RecordConflict(w)
    <2>1. proposal[a] \in ProposalStates
      BY <1>0, <1>8, DomainType DEF RecordConflict, AnswerType, BusyHasAnswer
    <2> QED
      BY <1>6, <1>8, <2>1, FinishRecordedReports DEF RecordConflict, WorkerFrame
  <1>9. CASE RecordConclusion(w)
    <2> DEFINE status == IF Wanted(a) = "LINKED" THEN "LINKED" ELSE "REVIEW"
    <2>1. status \in Conclusions /\ Wanted(a) \in ProposalStates /\ Drawn(status, Wanted(a))
      BY <1>9 DEF RecordConclusion, Wanted, Conclusions, ProposalStates, Drawn
    <2>2. Conclude(w, status, Wanted(a)) /\ UNCHANGED <<answers, operation, overtaken>>
      BY <1>9 DEF RecordConclusion, WorkerFrame
    <2>3. worker[w].pc # "idle"
      BY <1>9 DEF RecordConclusion
    <2> HIDE DEF status
    <2> QED
      BY <1>6, <2>1, <2>2, <2>3, ConcludeReports
  <1>10. CASE resume_analyzed(w) \/ NoProvenance(w)
    <2>1. CASE UNCHANGED <<answers, rows>>
      BY <2>1 DEF RowStep
    <2>2. CASE Conclude(w, "REVIEW", "PENDING_REVIEW")
      <3>1. "REVIEW" \in Conclusions /\ "PENDING_REVIEW" \in ProposalStates
        BY DEF Conclusions, ProposalStates
      <3>2. Drawn("REVIEW", "PENDING_REVIEW")
        BY DEF Drawn
      <3>3. worker[w].pc # "idle" /\ UNCHANGED <<answers, operation, overtaken>>
        BY <1>10 DEF resume_analyzed, NoProvenance, WorkerFrame
      <3> QED
        BY <1>6, <2>2, <3>1, <3>2, <3>3, ConcludeReports
    <2> QED
      BY <1>10, <2>1, <2>2 DEF resume_analyzed, NoProvenance, WorkerFrame, rows
  <1>11. CASE AlreadyApplied(w)
    <2> DEFINE status == IF linked_target(a) THEN "PUBLISHED" ELSE "REVIEW"
    <2>1. status \in Conclusions /\ "PUBLISHED" \in ProposalStates
      BY DEF Conclusions, ProposalStates
    <2>2. /\ Conclude(w, status, "PUBLISHED") /\ operation[a]
          /\ UNCHANGED <<answers, operation, overtaken>> /\ worker[w].pc # "idle"
      BY <1>11 DEF AlreadyApplied, WorkerFrame
    <2> HIDE DEF status
    <2> QED
      BY <1>6, <2>1, <2>2, ConcludeReports
  <1>12. CASE PublishCommit(w)
    <2>1. CASE cards[a] = "new" /\ HookHolds(w)
      <3>1. Reports(w, "PUBLISHED", "PUBLISHED")
        BY <1>12, <2>1 DEF PublishCommit, HookHolds, MayFinish, Finish, Reports, Drawn,
                           Conclusions, ProposalStates, WorkerFrame
      <3> QED
        BY <1>6, <1>12, <3>1 DEF PublishCommit, Conclusions, ProposalStates
    <2>2. CASE ~(cards[a] = "new" /\ HookHolds(w))
      BY <1>12, <2>2 DEF PublishCommit, RowStep, rows, WorkerFrame
    <2> QED
      BY <2>1, <2>2
  <1> QED
    BY <1>1, <1>3, <1>4, <1>5, <1>7, <1>8, <1>9, <1>10, <1>11, <1>12 DEF Work

(* How a worker moves: nobody else moves, and it comes to report a recorded *)
(* proposal only by reading one, to a selection only by selecting.          *)
LEMMA WorkerMove ==
  ASSUME NEW w \in Workers, Work(w) \/ Crash(w)
  PROVE  \/ load_context(w) \/ select_owner_event(w) \/ Return(w)
         \/ \E a : worker' = [worker EXCEPT ![w] = [Idle EXCEPT !.pc = "context", !.answer = a]]
         \/ \E pc \in PCs \ {"recorded", "selected"} : Step(w, pc)
         \/ \E retryable \in BOOLEAN : Fail(w, retryable)
  <1>1. CASE claim_owner_event(w)
    BY <1>1 DEF claim_owner_event, Claim
  <1>2. CASE \/ ensure_owner_answer_source(w) \/ ingest_owner_text(w) \/ LoseLease(w)
             \/ heartbeat(w) \/ StepFails(w) \/ RecordPublish(w) \/ finish_failed(w)
             \/ follow_up_attachments(w) \/ Crash(w)
    BY <1>2 DEF ensure_owner_answer_source, ingest_owner_text, LoseLease, heartbeat, StepFails,
       RecordPublish, finish_failed, follow_up_attachments, Crash, PCs
  <1>3. CASE \E status, written : Conclude(w, status, written)
    <2>1. \/ Step(w, "followup")
          \/ \E retryable \in BOOLEAN : Fail(w, retryable)
      BY <1>3 DEF Conclude, Finish, RefusalRetryable, HoldsLease, Latest
    <2> QED
      BY <2>1 DEF PCs
  <1>4. CASE \/ finish_recorded(w) \/ RecordConclusion(w) \/ RecordConflict(w)
             \/ NoProvenance(w) \/ AlreadyApplied(w)
    BY <1>3, <1>4 DEF finish_recorded, RecordConclusion, RecordConflict, NoProvenance,
       AlreadyApplied, FinishRecorded
  <1>5. CASE resume_analyzed(w)
    BY <1>3, <1>5 DEF resume_analyzed, PCs
  <1>6. CASE PublishCommit(w)
    <2>1. Step(w, "followup") \/ \E retryable \in BOOLEAN : Fail(w, retryable)
      BY <1>6 DEF PublishCommit, Finish, HoldsLease, Latest
    <2> QED
      BY <2>1 DEF PCs
  <1> QED
    BY <1>1, <1>2, <1>4, <1>5, <1>6 DEF Work

LEMMA RecordedMove ==
  ASSUME TypeInv, NEW w \in Workers, Work(w) \/ Crash(w), NEW v \in Workers
  PROVE  /\ worker'[v].pc = "recorded" =>
               /\ worker'[v].answer = worker[v].answer
               /\ \/ worker[v].pc = "recorded"
                  \/ /\ worker[v].pc = "context" /\ UNCHANGED <<answers, rows>>
                     /\ proposal[worker[v].answer] \notin {"NONE", "ANALYZED"}
         /\ worker'[v].pc = "selected" =>
               \/ worker'[v] = worker[v]
               \/ v = w /\ select_owner_event(w)
  <1>0. WorkersType
    BY TypeParts DEF TypeInv
  <1>1. CASE load_context(w)
    BY <1>0, <1>1 DEF load_context, WorkersType, WorkerRow, WorkerFrame, rows, answerVars
  <1>2. ASSUME NEW r, worker' = [worker EXCEPT ![w] = r], r.pc \notin {"recorded", "selected"}
        PROVE  worker'[v].pc \in {"recorded", "selected"} => worker'[v] = worker[v]
    BY <1>0, <1>2 DEF WorkersType
  <1>3. CASE Return(w)
    BY <1>2, <1>3 DEF Return, Idle
  <1>4. CASE \E pc \in PCs \ {"recorded", "selected"} : Step(w, pc)
    BY <1>0, <1>4 DEF Step, WorkersType, WorkerRow
  <1>5. CASE \E retryable \in BOOLEAN : Fail(w, retryable)
    BY <1>0, <1>5 DEF Fail, WorkersType, WorkerRow
  <1>6. CASE \E a : worker' = [worker EXCEPT ![w] = [Idle EXCEPT !.pc = "context", !.answer = a]]
    <2>1. PICK a : worker' = [worker EXCEPT ![w] = [Idle EXCEPT !.pc = "context", !.answer = a]]
      BY <1>6
    <2>2. [Idle EXCEPT !.pc = "context", !.answer = a].pc = "context"
      BY DEF Idle
    <2> QED
      BY <1>2, <2>1, <2>2
  <1>7. CASE select_owner_event(w)
    <2>1. PICK a \in Selected :
             worker' = [worker EXCEPT ![w] = [Idle EXCEPT !.pc = "selected", !.answer = a,
                                                         !.attempts = lease[a].attempts]]
      BY <1>7 DEF select_owner_event
    <2>2. [Idle EXCEPT !.pc = "selected", !.answer = a,
                       !.attempts = lease[a].attempts].pc = "selected"
      BY DEF Idle
    <2> QED
      BY <1>0, <1>7, <2>1, <2>2 DEF WorkersType
  <1> QED
    BY <1>1, <1>3, <1>4, <1>5, <1>6, <1>7, WorkerMove
----------------------------------------------------------------------------
(* Whatever a claim reads, a closed event left a proposal, and a worker     *)
(* that reports a recorded proposal finds one.                              *)
Closed ==
    /\ \A a \in Answers : consumption[a] = "APPLIED" => proposal[a] # "NONE"
    /\ \A w \in Workers : worker[w].pc = "recorded" => proposal[worker[w].answer] # "NONE"

LEMMA OwnerRows ==
  ASSUME TypeInv, NEW a \in DOMAIN answers,
         \/ CardsChange(a) \/ approve_knowledge_proposal(a) \/ dismiss_knowledge_proposal(a)
         \/ retry_owner_event(a) \/ LeaseExpires(a)
  PROVE  /\ UNCHANGED <<consumption, operation, worker>>
         /\ \A b \in Answers :
               \/ proposal'[b] = proposal[b]
               \/ /\ proposal[b] \in {"ANALYZED", "PENDING_REVIEW"}
                  /\ proposal'[b] \in {"PUBLISHED", "DISMISSED"}
  BY TypeParts DEF TypeInv, AnswerType, CardsChange, approve_knowledge_proposal,
     dismiss_knowledge_proposal, retry_owner_event, LeaseExpires, eventVars, answerVars

(* What one step of a worker does to a closed event.                        *)
ClosedStep(a) ==
    /\ consumption'[a] = consumption[a] /\ operation'[a] = operation[a]
    /\ \/ proposal'[a] = proposal[a]
       \/ /\ proposal[a] \in {"ANALYZED", "PENDING_REVIEW"}
          /\ proposal'[a] \in {"PUBLISHED", "DISMISSED"}
       \/ consumption[a] = "STALE" /\ proposal'[a] = "ANALYZED"

LEMMA WorkerClosed ==
  ASSUME TypeInv, Closed, NEW w \in Workers, RowStep(w), NEW a \in Answers
  PROVE  /\ consumption[a] # "none" => ClosedStep(a)
         /\ proposal[a] # "NONE" => proposal'[a] # "NONE"
         /\ consumption'[a] = "APPLIED" => proposal'[a] # "NONE"
  <1> DEFINE b == worker[w].answer
  <1>0. EventType /\ AnswerType /\ BusyHasAnswer /\ AnswersType
    BY TypeParts DEF TypeInv
  <1>1. CASE UNCHANGED <<answers, rows>>
    BY <1>1 DEF rows, ClosedStep, Closed
  <1>2. ASSUME Claims(w)
        PROVE  /\ consumption[a] # "none" => consumption'[a] = consumption[a]
               /\ consumption'[a] = "APPLIED" => consumption[a] = "APPLIED"
               /\ UNCHANGED <<proposal, operation>>
    BY <1>0, <1>2 DEF Claims, Claim, EventType
  <1>3. CASE Opens(w)
    <2>1. \A c \in Answers : proposal'[c] = IF c = b THEN "ANALYZED" ELSE proposal[c]
      BY <1>0, <1>3 DEF Opens, AnswerType
    <2>2. proposal[b] \in {"NONE", "ANALYZED"} /\ UNCHANGED <<consumption, operation>>
      BY <1>3 DEF Opens
    <2>3. consumption[a] \in {"none", "STALE", "APPLIED"}
      BY <1>0 DEF EventType, Consumptions
    <2> QED
      BY <2>1, <2>2, <2>3 DEF ClosedStep, Closed
  <1>4. ASSUME worker[w].pc # "idle",
               NEW status \in Conclusions, NEW written \in ProposalStates,
               Reports(w, status, written)
        PROVE  /\ a # b => /\ consumption'[a] = consumption[a] /\ proposal'[a] = proposal[a]
                           /\ operation'[a] = operation[a]
               /\ a = b => consumption[a] = "none" /\ proposal'[a] = written /\ written # "NONE"
    <2>1. written # "NONE"
      BY <1>4 DEF Reports, Drawn, Found, Closed
    <2> QED
      BY <1>0, <1>4, <2>1 DEF Reports, EventType, AnswerType
  <1>5. CASE Fails(w)
    BY <1>0, <1>5 DEF Fails, ClosedStep, Closed
  <1> QED
    BY <1>1, <1>2, <1>3, <1>4, <1>5 DEF RowStep, ClosedStep, Closed

LEMMA NextClosed == TypeInv /\ Closed /\ [Next]_vars =>
                      Closed' /\ \A a \in Answers : consumption[a] # "none" => ClosedStep(a)
  <1> SUFFICES ASSUME TypeInv, Closed, [Next]_vars
               PROVE  Closed' /\ \A a \in Answers : consumption[a] # "none" => ClosedStep(a)
    OBVIOUS
  <1>0. AnswersType /\ BusyHasAnswer
    BY TypeParts DEF TypeInv
  <1>1. CASE UNCHANGED <<consumption, proposal, operation, worker>>
    BY <1>1 DEF Closed, ClosedStep
  <1>2. ASSUME NEW a \in DOMAIN answers,
               \/ CardsChange(a) \/ approve_knowledge_proposal(a) \/ dismiss_knowledge_proposal(a)
               \/ retry_owner_event(a) \/ LeaseExpires(a)
        PROVE  Closed' /\ \A b \in Answers : consumption[b] # "none" => ClosedStep(b)
    <2>1. \A w \in Workers : worker[w].pc = "recorded" => worker[w].answer \in Answers
      BY <1>0, DomainType DEF BusyHasAnswer
    <2> QED
      BY <1>2, <2>1, OwnerRows DEF Closed, ClosedStep
  <1>3. ASSUME NEW w \in Workers, Work(w) \/ Crash(w)
        PROVE  Closed' /\ \A a \in Answers : consumption[a] # "none" => ClosedStep(a)
    <2>1. RowStep(w)
      BY <1>3, WorkerRowStep
    <2>2. ASSUME NEW v \in Workers, worker'[v].pc = "recorded"
          PROVE  proposal'[worker'[v].answer] # "NONE"
      <3>1. /\ worker'[v].answer = worker[v].answer
            /\ proposal[worker[v].answer] # "NONE"
            /\ worker[v].pc # "idle"
        BY <1>3, <2>2, RecordedMove DEF Closed
      <3>2. worker[v].answer \in Answers
        BY <1>0, <3>1, DomainType DEF BusyHasAnswer
      <3> QED
        BY <2>1, <3>1, <3>2, WorkerClosed
    <2> QED
      BY <2>1, <2>2, WorkerClosed DEF Closed
  <1>4. CASE UNCHANGED vars
    BY <1>1, <1>4 DEF vars
  <1>5. ASSUME NEW q \in Questions, submit_owner_answer(q) \/ BeginAttach(q) \/ CommitAttach(q)
        PROVE  UNCHANGED <<consumption, proposal, operation, worker>>
    BY <1>5 DEF submit_owner_answer, BeginAttach, CommitAttach, eventVars, answerVars
  <1>6. IndexChanges => UNCHANGED <<consumption, proposal, operation, worker>>
    BY DEF IndexChanges, eventVars, answerVars
  <1> QED
    BY <1>1, <1>2, <1>3, <1>4, <1>5, <1>6 DEF Next

(* An event is closed once: whatever a claim reads, nobody publishes for a  *)
(* closed event or rewrites its proposal.                                   *)
THEOREM ClosedOnce == Spec => ClosedForGood
  <1>1. Init => Closed
    BY DEF Init, Closed, Idle
  <1>2. TypeInv /\ Closed /\ [Next]_vars => Closed'
    BY NextClosed
  <1>3. TypeInv /\ Closed /\ [Next]_vars =>
          [\A a \in Answers : consumption[a] # "none" => ClosedStep(a)]_vars
    BY NextClosed
  <1> QED
    BY <1>1, <1>2, <1>3, HandoffInv, PTL DEF Spec, ClosedForGood, ClosedStep
=============================================================================
