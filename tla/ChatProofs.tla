----------------------------- MODULE ChatProofs -----------------------------
(***************************************************************************)
(* Theorems of Chat, for every value of its constants: type correctness, and*)
(* safety of the turns that are stored: what they were planned on still     *)
(* holds, and repeated, late and competing calls store nothing twice.       *)
(***************************************************************************)
EXTENDS Chat, TLAPS

Keys == SemanticKeys \cup {NoKey}
Receipts == [request : Requests, body : Bodies, head : Nat, edition : Nat, action : Actions,
             cited : [Cards -> Nat], context : Nat, state_revision : Nat, pending : Nat]
Contexts == [session : Sessions, clarify_turns : 1..2, state_revision : Nat,
             offered : BOOLEAN, edition : Nat, expired : BOOLEAN]
Questions == [key : Keys, status : {"WAITING", "ANSWERED"}, reached : SUBSET Nat]
FailedTurns == [request : Requests, body : Bodies]
PlanRows == [action : Actions \cup {"NONE"}, cited : [Cards -> Nat], key : Keys]
CallRows == [pc : {"idle", "read", "search", "save", "failed"},
             request : Requests \cup {"none"}, body : Bodies \cup {NoBody},
             edition : Nat, served : [Cards -> Nat], head : Nat, failed_head : Nat,
             clarify_turns : Nat, stale : BOOLEAN, plan : PlanRows]

(* The parts of TypeOK.                                                     *)
StoreType == /\ status \in [Cards -> {"NONE", "PENDING", "APPROVED", "EXCLUDED"}]
             /\ draft \in [Cards -> Nat] /\ published \in [Cards -> Nat]
             /\ served \in [Cards -> Nat] /\ edition \in Nat /\ restored \subseteq Cards
ReceiptsType == receipts \in Seq(Receipts)
ContextsType == contexts \in Seq(Contexts)
QuestionsType == questions \in Seq(Questions)
FailedType == failed \in Seq(FailedTurns) /\ aged \in Nat /\ calls \in Nat
CallsType == call \in [Calls -> CallRows]

(* A running call has a request, and one that stores has a plan.            *)
Busy == \A p \in Calls :
          /\ call[p].pc # "idle" => call[p].request \in Requests /\ call[p].body \in Bodies
          /\ call[p].pc = "save" => call[p].plan.action \in Actions

(* Contexts that are named exist.                                           *)
OffersExist == \A i \in DOMAIN receipts : receipts[i].action = "CLARIFY" =>
                  receipts[i].context \in DOMAIN contexts
ChoicesExist == \A p \in Calls : call[p].body.kind = "choose" =>
                  call[p].body.ref \in DOMAIN contexts

TypeInv == TypeOK /\ Busy /\ OffersExist /\ ChoicesExist

LEMMA TypeParts ==
  TypeOK <=> StoreType /\ ReceiptsType /\ ContextsType /\ QuestionsType /\ FailedType /\ CallsType
  BY DEF TypeOK, StoreType, ReceiptsType, ContextsType, QuestionsType, FailedType, CallsType, Keys,
         Receipts, Contexts, Questions, FailedTurns, PlanRows, CallRows

LEMMA PrimedParts ==
  ASSUME StoreType', ReceiptsType', ContextsType', QuestionsType', FailedType', CallsType'
  PROVE  TypeOK'
  BY DEF TypeOK, StoreType, ReceiptsType, ContextsType, QuestionsType, FailedType, CallsType, Keys,
         Receipts, Contexts, Questions, FailedTurns, PlanRows, CallRows

LEMMA IdleType == Idle \in CallRows /\ NoPlan \in PlanRows /\ Nothing \in [Cards -> Nat]
  BY DEF Idle, CallRows, PlanRows, NoPlan, Nothing, Keys

(* The latest of some numbers is a number.                                  *)
LEMMA LastType == ASSUME NEW S \in SUBSET Nat PROVE Last(S) \in Nat
  <1> DEFINE latest == {i \in S : \A k \in S : k <= i}
  <1>1. CASE latest = {}
    BY <1>1 DEF Last
  <1>2. CASE latest # {}
    <2>1. (CHOOSE i \in latest : TRUE) \in latest
      BY <1>2
    <2> QED
      BY <1>2, <2>1 DEF Last
  <1> QED
    BY <1>1, <1>2

LEMMA HeadsType ==
  ASSUME ReceiptsType, FailedType, NEW s, NEW r
  PROVE  HistoryHead(s) \in Nat /\ FailedHead(s, r) \in Nat
  <1>1. DOMAIN receipts \subseteq Nat /\ DOMAIN failed \subseteq Nat
    BY DEF ReceiptsType, FailedType
  <1> QED
    BY <1>1, LastType DEF HistoryHead, FailedHead

LEMMA InitType == Init => TypeInv
  <1> SUFFICES ASSUME Init PROVE TypeInv
    OBVIOUS
  <1>1. StoreType
    BY DEF Init, Store!Init, StoreType
  <1>2. ReceiptsType /\ ContextsType /\ QuestionsType /\ FailedType
    BY DEF Init, ReceiptsType, ContextsType, QuestionsType, FailedType
  <1>3. CallsType
    BY IdleType DEF Init, CallsType
  <1>4. Busy /\ OffersExist /\ ChoicesExist
    BY DEF Init, Busy, OffersExist, ChoicesExist, Idle, NoBody
  <1> QED
    BY <1>1, <1>2, <1>3, <1>4, TypeParts DEF TypeInv

(* What the owner does to cards and editions keeps their types.             *)
LEMMA PublishType ==
  ASSUME StoreType, NEW taken \in SUBSET Cards, NEW omitted \in SUBSET Cards,
         Store!Publish(taken, omitted)
  PROVE  StoreType' /\ edition' = edition + 1
  BY DEF StoreType, Store!Publish, Store!Publishable

LEMMA EditType ==
  ASSUME StoreType, Edit
  PROVE  StoreType' /\ \/ UNCHANGED <<served, edition>>
                       \/ edition' = edition + 1
  <1>1. CASE \E c \in Cards : draft[c] < MaxVersion /\ Store!WriteDraft(c)
    BY <1>1 DEF StoreType, Store!WriteDraft
  <1>2. CASE \E c \in Cards : Store!Exclude(c)
    BY <1>2 DEF StoreType, Store!Exclude
  <1>3. CASE \E c \in Cards : Store!Restore(c)
    BY <1>3 DEF StoreType, Store!Restore
  <1>4. CASE \E taken, omitted \in SUBSET Cards : Store!Publish(taken, omitted)
    BY <1>4, PublishType
  <1> QED
    BY <1>1, <1>2, <1>3, <1>4 DEF Edit

(* Effects of the actions on the calls *)

(* What TypeInv says of the local state of one call.                        *)
RowOK(row) == /\ row \in CallRows
              /\ row.pc # "idle" => row.request \in Requests /\ row.body \in Bodies
              /\ row.pc = "save" => row.plan.action \in Actions

LEMMA IdleRow == RowOK(Idle) /\ Idle.body.kind = "none"
  BY IdleType DEF RowOK, Idle, NoBody

(* A call that changes to a good local state keeps the types of all calls.  *)
LEMMA RowChange ==
  ASSUME CallsType, Busy, ChoicesExist, NEW p \in Calls, NEW row, RowOK(row),
         row.body.kind = "choose" => row.body.ref \in DOMAIN contexts',
         DOMAIN contexts \subseteq DOMAIN contexts',
         call' = [call EXCEPT ![p] = row]
  PROVE  CallsType' /\ Busy' /\ ChoicesExist'
  <1>1. CallsType'
    BY DEF CallsType, RowOK
  <1>2. \A q \in Calls : call'[q] = IF q = p THEN row ELSE call[q]
    BY DEF CallsType
  <1>3. Busy'
    BY <1>2 DEF Busy, RowOK
  <1>4. ChoicesExist'
    BY <1>2 DEF ChoicesExist
  <1> QED
    BY <1>1, <1>3, <1>4

LEMMA ReturnType ==
  ASSUME CallsType, Busy, ChoicesExist, NEW p \in Calls,
         DOMAIN contexts \subseteq DOMAIN contexts', Return(p)
  PROVE  CallsType' /\ Busy' /\ ChoicesExist'
  <1>1. RowOK(Idle) /\ Idle.body.kind # "choose"
    BY IdleRow
  <1> HIDE DEF Idle
  <1> QED
    BY <1>1, RowChange DEF Return

(* Steps that touch calls only.                                             *)
LEMMA CallStep ==
  ASSUME TypeInv, UNCHANGED <<storeVars, turnVars, failed, aged>>, calls' \in Nat,
         CallsType', Busy', ChoicesExist'
  PROVE  TypeInv'
  <1>1. StoreType' /\ ReceiptsType' /\ ContextsType' /\ QuestionsType' /\ FailedType'
    BY TypeParts DEF TypeInv, storeVars, turnVars, StoreType, ReceiptsType, ContextsType,
                     QuestionsType, FailedType
  <1>2. OffersExist'
    BY DEF TypeInv, turnVars, OffersExist
  <1> QED
    BY <1>1, <1>2, PrimedParts DEF TypeInv

LEMMA SendableType ==
  ASSUME TypeInv, NEW body \in Sendable
  PROVE  body \in Bodies /\ (body.kind = "choose" => body.ref \in DOMAIN contexts)
  <1>1. ReceiptsType
    BY TypeParts DEF TypeInv
  <1>2. \A i \in DOMAIN receipts : receipts[i] \in Receipts /\ i \in Nat
    BY <1>1 DEF ReceiptsType
  <1>3. CASE \E s \in Sessions, b \in BOOLEAN : body = Ask(s, b)
    BY <1>3 DEF Ask, Bodies
  <1>4. CASE \E i \in DOMAIN receipts : receipts[i].action = "CLARIFY" /\ body = Choose(i)
    <2> PICK i \in DOMAIN receipts : receipts[i].action = "CLARIFY" /\ body = Choose(i)
      BY <1>4
    <2>1. receipts[i].body.session \in Sessions /\ receipts[i].context \in Nat
            /\ receipts[i].state_revision \in Nat
      BY <1>2 DEF Receipts, Bodies
    <2> QED
      BY <2>1 DEF Choose, Bodies, TypeInv, OffersExist
  <1>5. CASE \E i \in DOMAIN receipts : body = Confirm(i)
    <2> PICK i \in DOMAIN receipts : body = Confirm(i)
      BY <1>5
    <2>1. receipts[i].body.session \in Sessions /\ i \in Nat
      BY <1>2 DEF Receipts, Bodies
    <2> QED
      BY <2>1 DEF Confirm, Bodies
  <1> QED
    BY <1>3, <1>4, <1>5 DEF Sendable

LEMMA SavedReplyType ==
  ASSUME TypeInv, NEW p \in Calls, NEW r \in Requests, NEW body \in Sendable,
         saved_reply(p, r, body)
  PROVE  TypeInv'
  <1>1. StoreType /\ FailedType /\ CallsType /\ Busy /\ ChoicesExist
    BY TypeParts DEF TypeInv
  <1>2. UNCHANGED <<storeVars, turnVars, failed, aged>> /\ calls' \in Nat
    BY <1>1 DEF saved_reply, FailedType
  <1>3. CallsType' /\ Busy' /\ ChoicesExist'
    <2>1. CASE call' = call
      BY <1>1, <1>2, <2>1 DEF CallsType, Busy, ChoicesExist, turnVars
    <2> DEFINE row == [Idle EXCEPT !.pc = "read", !.request = r, !.body = body]
    <2>2. RowOK(row) /\ row.body = body
      BY SendableType, IdleType DEF RowOK, Idle, CallRows
    <2>3. CASE call' = [call EXCEPT ![p] = row]
      <3>1. row.body.kind = "choose" => row.body.ref \in DOMAIN contexts'
        BY <1>2, <2>2, SendableType DEF turnVars
      <3>2. DOMAIN contexts \subseteq DOMAIN contexts'
        BY <1>2 DEF turnVars
      <3> HIDE DEF row
      <3> QED
        BY <1>1, <2>2, <2>3, <3>1, <3>2, RowChange
    <2> QED
      BY <2>1, <2>3 DEF saved_reply
  <1> QED
    BY <1>2, <1>3, CallStep

LEMMA FirstPublicationType ==
  ASSUME TypeInv, NEW p \in Calls, ensure_initial_publication(p)
  PROVE  TypeInv'
  <1>1. StoreType'
    BY PublishType, TypeParts DEF TypeInv, ensure_initial_publication
  <1>2. ReceiptsType' /\ ContextsType' /\ QuestionsType' /\ FailedType' /\ CallsType'
    BY TypeParts DEF TypeInv, ensure_initial_publication, turnVars, ReceiptsType, ContextsType,
                     QuestionsType, FailedType, CallsType
  <1>3. Busy' /\ OffersExist' /\ ChoicesExist'
    BY DEF TypeInv, ensure_initial_publication, turnVars, Busy, OffersExist, ChoicesExist
  <1> QED
    BY <1>1, <1>2, <1>3, PrimedParts DEF TypeInv

LEMMA ReadContextType ==
  ASSUME TypeInv, NEW p \in Calls, ReadContext(p)
  PROVE  TypeInv'
  <1>1. StoreType /\ ReceiptsType /\ ContextsType /\ FailedType /\ CallsType /\ Busy /\ ChoicesExist
    BY TypeParts DEF TypeInv
  <1>2. UNCHANGED <<storeVars, turnVars, failed, aged>> /\ calls' \in Nat
    BY <1>1 DEF ReadContext, FailedType
  <1>3. DOMAIN contexts \subseteq DOMAIN contexts'
    BY <1>2 DEF turnVars
  <1> DEFINE body == call[p].body
             h == IF Free(body) THEN HistoryHead(body.session) ELSE 0
             f == IF Free(body) THEN FailedHead(body.session, call[p].request) ELSE 0
             t == IF body.kind = "choose" THEN contexts[body.ref].clarify_turns ELSE 0
             row == [call[p] EXCEPT !.pc = "search", !.edition = edition, !.served = served,
                                    !.head = h, !.failed_head = f, !.clarify_turns = t]
  <1>4. CASE Return(p)
    BY <1>1, <1>2, <1>3, <1>4, ReturnType, CallStep
  <1>5. CASE call' = [call EXCEPT ![p] = row]
    <2>1. h \in Nat /\ f \in Nat
      BY <1>1, HeadsType
    <2>2. t \in Nat
      <3>1. CASE body.kind = "choose"
        <4>1. contexts[body.ref] \in Contexts
          BY <1>1, <3>1 DEF ChoicesExist, ContextsType
        <4> QED
          BY <3>1, <4>1 DEF Contexts
      <3> QED
        BY <3>1
    <2> HIDE DEF h, f, t
    <2>3. call[p] \in CallRows /\ call[p].pc = "read"
      BY <1>1 DEF CallsType, ReadContext
    <2>4. call[p].request \in Requests /\ call[p].body \in Bodies
      BY <1>1, <2>3 DEF Busy
    <2>5. row \in CallRows /\ row.pc = "search" /\ row.body = body /\ row.request = call[p].request
      BY <1>1, <2>1, <2>2, <2>3 DEF StoreType, CallRows
    <2> HIDE DEF row
    <2>6. RowOK(row) /\ (row.body.kind = "choose" => row.body.ref \in DOMAIN contexts')
      BY <1>1, <1>3, <2>4, <2>5 DEF RowOK, ChoicesExist
    <2>7. CallsType' /\ Busy' /\ ChoicesExist'
      BY <1>1, <1>3, <1>5, <2>6, RowChange
    <2> QED
      BY <1>2, <2>7, CallStep
  <1> QED
    BY <1>4, <1>5 DEF ReadContext

LEMMA PlansType ==
  ASSUME StoreType, NEW p, NEW plan \in Plans(p)
  PROVE  plan \in PlanRows /\ plan.action \in Actions
  <1>1. NoPlan \in PlanRows
    BY IdleType
  <1>3. \A cards : [c \in Cards |-> IF c \in cards THEN served[c] ELSE 0] \in [Cards -> Nat]
    BY DEF StoreType
  <1>4. \/ \E a \in Actions : plan = [NoPlan EXCEPT !.action = a]
        \/ \E k \in Keys : plan = [NoPlan EXCEPT !.action = "ESCALATE", !.key = k]
        \/ \E cards : plan = [NoPlan EXCEPT !.action = "ANSWER",
                               !.cited = [c \in Cards |-> IF c \in cards THEN served[c] ELSE 0]]
    BY DEF Plans, Actions, Keys
  <1>5. CASE \E a \in Actions : plan = [NoPlan EXCEPT !.action = a]
    BY <1>1, <1>5 DEF PlanRows, NoPlan
  <1>6. CASE \E k \in Keys : plan = [NoPlan EXCEPT !.action = "ESCALATE", !.key = k]
    BY <1>1, <1>6 DEF PlanRows, NoPlan, Actions
  <1>7. CASE \E cards : plan = [NoPlan EXCEPT !.action = "ANSWER",
                               !.cited = [c \in Cards |-> IF c \in cards THEN served[c] ELSE 0]]
    <2> PICK cards : plan = [NoPlan EXCEPT !.action = "ANSWER",
                               !.cited = [c \in Cards |-> IF c \in cards THEN served[c] ELSE 0]]
      BY <1>7
    <2> DEFINE f == [c \in Cards |-> IF c \in cards THEN served[c] ELSE 0]
    <2>1. f \in [Cards -> Nat] /\ "ANSWER" \in Actions
      BY <1>3 DEF Actions
    <2>2. plan = [NoPlan EXCEPT !.action = "ANSWER", !.cited = f]
      OBVIOUS
    <2> HIDE DEF f
    <2> QED
      BY <1>1, <2>1, <2>2 DEF PlanRows, NoPlan
  <1> QED
    BY <1>4, <1>5, <1>6, <1>7

LEMMA PlanType ==
  ASSUME TypeInv, NEW p \in Calls, Plan(p)
  PROVE  TypeInv'
  <1>1. StoreType /\ ContextsType /\ FailedType /\ CallsType /\ Busy /\ ChoicesExist
    BY TypeParts DEF TypeInv
  <1>2. UNCHANGED <<storeVars, turnVars, failed, aged>> /\ calls' \in Nat
    BY <1>1 DEF Plan, FailedType
  <1>3. DOMAIN contexts \subseteq DOMAIN contexts'
    BY <1>2 DEF turnVars
  <1> DEFINE e == IF Searches(p) THEN edition ELSE call[p].edition
             v == IF Searches(p) THEN served ELSE call[p].served
             row(plan) == [call[p] EXCEPT !.pc = "save", !.plan = plan, !.edition = e,
                                          !.served = v]
  <1>4. CASE Return(p)
    BY <1>1, <1>2, <1>3, <1>4, ReturnType, CallStep
  <1>5. CASE \E plan \in Plans(p) : call' = [call EXCEPT ![p] = row(plan)]
    <2> PICK plan \in Plans(p) : call' = [call EXCEPT ![p] = row(plan)]
      BY <1>5
    <2>1. call[p] \in CallRows /\ call[p].pc = "search"
      BY <1>1 DEF CallsType, Plan
    <2>2. e \in Nat /\ v \in [Cards -> Nat]
      BY <1>1, <2>1 DEF StoreType, CallRows
    <2> HIDE DEF e, v
    <2>3. plan \in PlanRows /\ plan.action \in Actions
      BY <1>1, PlansType
    <2>4. /\ row(plan) \in CallRows /\ row(plan).pc = "save" /\ row(plan).body = call[p].body
          /\ row(plan).request = call[p].request /\ row(plan).plan = plan
      BY <2>1, <2>2, <2>3 DEF CallRows
    <2>5. call[p].request \in Requests /\ call[p].body \in Bodies
      BY <1>1, <2>1 DEF Busy
    <2> HIDE DEF row
    <2>6. RowOK(row(plan))
            /\ (row(plan).body.kind = "choose" => row(plan).body.ref \in DOMAIN contexts')
      BY <1>1, <1>3, <2>3, <2>4, <2>5 DEF RowOK, ChoicesExist
    <2>7. CallsType' /\ Busy' /\ ChoicesExist'
      BY <1>1, <1>3, <2>6, RowChange
    <2> QED
      BY <1>2, <2>7, CallStep
  <1>6. \E plan \in Plans(p) : Return(p) \/ call' = [call EXCEPT ![p] = row(plan)]
    BY DEF Plan
  <1> QED
    BY <1>4, <1>5, <1>6

LEMMA FailSemanticsType ==
  ASSUME TypeInv, NEW p \in Calls, FailSemantics(p)
  PROVE  TypeInv'
  <1>1. FailedType /\ CallsType /\ Busy /\ ChoicesExist
    BY TypeParts DEF TypeInv
  <1>2. UNCHANGED <<storeVars, turnVars, failed, aged>> /\ calls' \in Nat
    BY <1>1 DEF FailSemantics, FailedType
  <1> DEFINE row == [call[p] EXCEPT !.pc = "failed"]
  <1>3. call[p] \in CallRows /\ call[p].pc = "search"
    BY <1>1 DEF FailSemantics, CallsType
  <1>4. row \in CallRows /\ row.pc = "failed" /\ row.body = call[p].body
          /\ row.request = call[p].request
    BY <1>3 DEF CallRows
  <1>5. call' = [call EXCEPT ![p] = row]
    BY <1>1 DEF FailSemantics, Enter, CallsType, CallRows
  <1> HIDE DEF row
  <1>6. RowOK(row)
    BY <1>1, <1>3, <1>4 DEF RowOK, Busy
  <1>7. row.body.kind = "choose" => row.body.ref \in DOMAIN contexts'
    BY <1>1, <1>2, <1>4 DEF ChoicesExist, turnVars
  <1>8. CallsType' /\ Busy' /\ ChoicesExist'
    BY <1>1, <1>2, <1>5, <1>6, <1>7, RowChange DEF turnVars
  <1> QED
    BY <1>2, <1>8, CallStep

LEMMA RecordFailedType ==
  ASSUME TypeInv, NEW p \in Calls, record_failed_turn(p)
  PROVE  TypeInv'
  <1>1. FailedType /\ CallsType /\ Busy /\ ChoicesExist
    BY TypeParts DEF TypeInv
  <1>2. UNCHANGED <<storeVars, turnVars>>
    BY DEF record_failed_turn
  <1>3. FailedType'
    <2>1. call[p].request \in Requests /\ call[p].body \in Bodies
      BY <1>1 DEF record_failed_turn, Busy
    <2>2. [request |-> call[p].request, body |-> call[p].body] \in FailedTurns
      BY <2>1 DEF FailedTurns
    <2> QED
      BY <1>1, <2>2 DEF record_failed_turn, FailedType
  <1>4. CallsType' /\ Busy' /\ ChoicesExist'
    BY <1>1, <1>2, ReturnType DEF record_failed_turn, turnVars
  <1>5. StoreType' /\ ReceiptsType' /\ ContextsType' /\ QuestionsType' /\ OffersExist'
    BY <1>2, TypeParts DEF TypeInv, storeVars, turnVars, StoreType, ReceiptsType, ContextsType,
                           QuestionsType, OffersExist
  <1> QED
    BY <1>3, <1>4, <1>5, PrimedParts DEF TypeInv

LEMMA ReplyOrRefuseType ==
  ASSUME TypeInv, NEW p \in Calls, ReplyOrRefuse(p) \/ EndCall(p)
  PROVE  TypeInv'
  <1>1. FailedType /\ CallsType /\ Busy /\ ChoicesExist
    BY TypeParts DEF TypeInv
  <1>2. UNCHANGED <<storeVars, turnVars, failed, aged>> /\ calls' \in Nat /\ Return(p)
    BY <1>1 DEF ReplyOrRefuse, EndCall, FailedType
  <1> QED
    BY <1>1, <1>2, ReturnType, CallStep DEF turnVars

LEMMA RequeryType ==
  ASSUME TypeInv, NEW p \in Calls, Requery(p)
  PROVE  TypeInv'
  <1>1. FailedType /\ CallsType /\ Busy /\ ChoicesExist
    BY TypeParts DEF TypeInv
  <1>2. UNCHANGED <<storeVars, turnVars, failed, aged>> /\ calls' \in Nat
    BY <1>1 DEF Requery, FailedType
  <1> DEFINE row == [call[p] EXCEPT !.pc = "read", !.stale = TRUE, !.edition = 0,
                                    !.served = Nothing, !.head = 0, !.failed_head = 0,
                                    !.clarify_turns = 0, !.plan = NoPlan]
  <1>3. CASE Return(p)
    BY <1>1, <1>2, <1>3, ReturnType, CallStep DEF turnVars
  <1>4. CASE call' = [call EXCEPT ![p] = row]
    <2>1. call[p] \in CallRows /\ call[p].pc = "save"
      BY <1>1 DEF Requery, CallsType
    <2>2. row \in CallRows /\ row.pc = "read" /\ row.body = call[p].body
            /\ row.request = call[p].request
      BY <2>1, IdleType DEF CallRows
    <2> HIDE DEF row
    <2>3. RowOK(row)
      BY <1>1, <2>1, <2>2 DEF RowOK, Busy
    <2>4. row.body.kind = "choose" => row.body.ref \in DOMAIN contexts'
      BY <1>1, <1>2, <2>2 DEF ChoicesExist, turnVars
    <2>5. CallsType' /\ Busy' /\ ChoicesExist'
      BY <1>1, <1>2, <1>4, <2>3, <2>4, RowChange DEF turnVars
    <2> QED
      BY <1>2, <2>5, CallStep
  <1> QED
    BY <1>3, <1>4 DEF Requery

LEMMA AcceptedType ==
  ASSUME StoreType, NEW x \in Contexts
  PROVE  /\ Accepted(x) \in Contexts /\ Accepted(x).clarify_turns = x.clarify_turns
         /\ Accepted(x).state_revision = x.state_revision + 1
  <1>1. x.state_revision + 1 \in Nat
    BY DEF Contexts
  <1> DEFINE n == x.state_revision + 1
             y == [x EXCEPT !.offered = FALSE, !.state_revision = n, !.edition = edition]
  <1>2. Accepted(x) = y
    BY DEF Accepted, Contexts
  <1> HIDE DEF n
  <1>3. y \in Contexts /\ y.clarify_turns = x.clarify_turns /\ y.state_revision = n
    BY <1>1 DEF Contexts, StoreType, n
  <1> HIDE DEF y
  <1> QED
    BY <1>2, <1>3 DEF n

LEMMA OfferedType ==
  ASSUME NEW x \in Contexts, x.clarify_turns = 1
  PROVE  /\ OfferedNext(x) \in Contexts /\ OfferedNext(x).state_revision = x.state_revision + 1
  <1>1. x.state_revision + 1 \in Nat /\ x.clarify_turns + 1 \in 1..2
    BY DEF Contexts
  <1> DEFINE n == x.state_revision + 1
             t == x.clarify_turns + 1
             y == [x EXCEPT !.offered = TRUE, !.state_revision = n, !.clarify_turns = t]
  <1>2. OfferedNext(x) = y
    BY DEF OfferedNext, Contexts
  <1> HIDE DEF n, t
  <1>3. y \in Contexts /\ y.state_revision = n
    BY <1>1 DEF Contexts, n, t
  <1> HIDE DEF y
  <1> QED
    BY <1>2, <1>3 DEF n

(* The context a stored turn leaves behind.                                 *)
LEMMA ContextStored ==
  ASSUME TypeInv, NEW p \in Calls, save_answer(p)
  PROVE  /\ ContextsType' /\ DOMAIN contexts \subseteq DOMAIN contexts'
         /\ ContextOf(p) \in Nat
         /\ call[p].plan.action = "CLARIFY" => ContextOf(p) \in DOMAIN contexts'
         /\ ContextOf(p) # 0 => ContextOf(p) \in DOMAIN contexts'
         /\ \A x \in DOMAIN contexts : x # ContextOf(p) => contexts'[x] = contexts[x]
  <1>1. StoreType /\ ContextsType /\ CallsType /\ Busy /\ ChoicesExist
    BY TypeParts DEF TypeInv
  <1>2. contexts' = ContextsAfter(p) /\ ~LimitReached(p) /\ call[p].pc = "save"
    BY DEF save_answer
  <1>3. call[p].body \in Bodies /\ call[p].body.session \in Sessions
    BY <1>1, <1>2 DEF Busy, Bodies
  <1> DEFINE b == call[p].body
             x == contexts[b.ref]
  <1>4. CASE b.kind = "choose"
    <2>1. b.ref \in DOMAIN contexts /\ x \in Contexts /\ b.ref \in Nat /\ b.ref # 0
      BY <1>1, <1>4 DEF ChoicesExist, ContextsType
    <2> HIDE DEF x
    <2>2. Accepted(x) \in Contexts /\ Accepted(x).clarify_turns = x.clarify_turns
      BY <1>1, <2>1, AcceptedType
    <2>3. call[p].plan.action = "CLARIFY" => x.clarify_turns = 1
      BY <1>2, <1>4, <2>1 DEF LimitReached, Contexts, x
    <2>4. call[p].plan.action = "CLARIFY" => OfferedNext(Accepted(x)) \in Contexts
      BY <2>2, <2>3, OfferedType
    <2>5. \E y \in Contexts : contexts' = [contexts EXCEPT ![b.ref] = y]
      BY <1>2, <1>4, <2>2, <2>4 DEF ContextsAfter, x
    <2>6. ContextsType' /\ DOMAIN contexts' = DOMAIN contexts
      BY <1>1, <2>1, <2>5 DEF ContextsType
    <2>7. ContextOf(p) = b.ref
      BY <1>4 DEF ContextOf
    <2>8. \A z \in DOMAIN contexts : z # b.ref => contexts'[z] = contexts[z]
      BY <1>1, <2>5
    <2> QED
      BY <2>1, <2>6, <2>7, <2>8
  <1>5. CASE b.kind # "choose" /\ call[p].plan.action = "CLARIFY"
    <2>1. contexts' = Append(contexts, NewContext(b.session)) /\ ContextOf(p) = Len(contexts) + 1
      BY <1>2, <1>5 DEF ContextsAfter, ContextOf
    <2>2. NewContext(b.session) \in Contexts
      BY <1>1, <1>3 DEF NewContext, Contexts, StoreType
    <2> QED
      BY <1>1, <2>1, <2>2 DEF ContextsType
  <1>6. CASE b.kind # "choose" /\ call[p].plan.action # "CLARIFY"
    BY <1>1, <1>2, <1>6 DEF ContextsAfter, ContextOf, ContextsType
  <1> QED
    BY <1>4, <1>5, <1>6

(* The pending question an escalation leaves behind.                        *)
LEMMA QuestionStored ==
  ASSUME QuestionsType, CallsType, NEW p \in Calls, questions' = QuestionsAfter(p)
  PROVE  /\ QuestionsType' /\ PendingOf(p) \in Nat
         /\ DOMAIN questions \subseteq DOMAIN questions'
         /\ \A q \in DOMAIN questions : questions'[q] = questions[q]
         /\ call[p].plan.action = "ESCALATE" =>
               PendingOf(p) \in DOMAIN questions' /\ questions'[PendingOf(p)].status = "WAITING"
  <1> DEFINE k == call[p].plan.key
             new == [key |-> k, status |-> "WAITING", reached |-> {}]
  <1>1. new \in Questions
    BY DEF CallsType, CallRows, PlanRows, Questions
  <1>2. CASE call[p].plan.action # "ESCALATE"
    <2>1. PendingOf(p) = 0
      BY <1>2 DEF PendingOf
    <2> QED
      BY <1>2, <2>1 DEF QuestionsAfter, QuestionsType
  <1>3. CASE call[p].plan.action = "ESCALATE" /\ Waiting(k) = {}
    <2>1. PendingOf(p) = Len(questions) + 1
      BY <1>3 DEF PendingOf
    <2>2. questions' = Append(questions, new)
      BY <2>1 DEF QuestionsAfter
    <2> HIDE DEF new
    <2>3. questions'[Len(questions) + 1] = new /\ Len(questions') = Len(questions) + 1
      BY <1>1, <2>2 DEF QuestionsType
    <2>4. new.status = "WAITING"
      BY DEF new
    <2> QED
      BY <1>1, <2>1, <2>2, <2>3, <2>4 DEF QuestionsType
  <1>4. CASE call[p].plan.action = "ESCALATE" /\ Waiting(k) # {}
    <2>1. PendingOf(p) \in Waiting(k)
      BY <1>4 DEF PendingOf
    <2>2. PendingOf(p) \in DOMAIN questions /\ questions[PendingOf(p)].status = "WAITING"
      BY <2>1 DEF Waiting
    <2>3. DOMAIN questions = 1..Len(questions)
      BY DEF QuestionsType
    <2>4. PendingOf(p) # Len(questions) + 1
      BY <2>2, <2>3 DEF QuestionsType
    <2> QED
      BY <2>2, <2>3, <2>4 DEF QuestionsAfter, QuestionsType
  <1> QED
    BY <1>2, <1>3, <1>4

LEMMA ReceiptType ==
  ASSUME TypeInv, NEW p \in Calls, save_answer(p)
  PROVE  Receipt(p) \in Receipts
  <1>1. CallsType /\ Busy /\ QuestionsType
    BY TypeParts DEF TypeInv
  <1>2. call[p].pc = "save" /\ contexts' = ContextsAfter(p) /\ questions' = QuestionsAfter(p)
    BY DEF save_answer
  <1>3. /\ call[p].request \in Requests /\ call[p].body \in Bodies
        /\ call[p].plan.action \in Actions
        /\ call[p].plan.cited \in [Cards -> Nat] /\ call[p].head \in Nat /\ call[p].edition \in Nat
    BY <1>1, <1>2 DEF Busy, CallsType, CallRows, PlanRows
  <1>4. ContextOf(p) \in Nat /\ PendingOf(p) \in Nat
    BY <1>1, <1>2, ContextStored, QuestionStored
  <1> DEFINE r == IF ContextOf(p) = 0 THEN 0 ELSE ContextsAfter(p)[ContextOf(p)].state_revision
  <1>5. r \in Nat
    <2>1. CASE ContextOf(p) = 0
      BY <2>1
    <2>2. CASE ContextOf(p) # 0
      <3>1. ContextsAfter(p) \in Seq(Contexts) /\ ContextOf(p) \in DOMAIN ContextsAfter(p)
        BY <1>2, <2>2, ContextStored DEF ContextsType
      <3>2. ContextsAfter(p)[ContextOf(p)] \in Contexts
        BY <3>1
      <3> QED
        BY <2>2, <3>2 DEF Contexts
    <2> QED
      BY <2>1, <2>2
  <1>6. Receipt(p) = [request |-> call[p].request, body |-> call[p].body, head |-> call[p].head,
                      edition |-> call[p].edition, action |-> call[p].plan.action,
                      cited |-> call[p].plan.cited, context |-> ContextOf(p),
                      state_revision |-> r, pending |-> PendingOf(p)]
    BY DEF Receipt
  <1> HIDE DEF r
  <1> QED
    BY <1>3, <1>4, <1>5, <1>6 DEF Receipts

LEMMA SaveType ==
  ASSUME TypeInv, NEW p \in Calls, save_answer(p)
  PROVE  TypeInv'
  <1>1. ReceiptsType /\ CallsType /\ Busy /\ ChoicesExist /\ OffersExist /\ QuestionsType
    BY TypeParts DEF TypeInv
  <1>2. /\ receipts' = Append(receipts, Receipt(p)) /\ questions' = QuestionsAfter(p)
        /\ Return(p) /\ UNCHANGED <<storeVars, failed, aged, calls>>
    BY DEF save_answer
  <1>3. StoreType' /\ FailedType'
    BY <1>2, TypeParts DEF TypeInv, storeVars, StoreType, FailedType
  <1>4. ContextsType' /\ DOMAIN contexts \subseteq DOMAIN contexts'
    BY ContextStored
  <1>5. QuestionsType'
    BY <1>1, <1>2, QuestionStored
  <1>6. ReceiptsType'
    BY <1>1, <1>2, ReceiptType DEF ReceiptsType
  <1>7. CallsType' /\ Busy' /\ ChoicesExist'
    BY <1>1, <1>2, <1>4, ReturnType
  <1>8. OffersExist'
    <2>1. \A i \in DOMAIN receipts' :
            \/ i \in DOMAIN receipts /\ receipts'[i] = receipts[i]
            \/ receipts'[i] = Receipt(p)
      BY <1>1, <1>2 DEF ReceiptsType
    <2>2. /\ Receipt(p).action = call[p].plan.action
          /\ Receipt(p).context = ContextOf(p)
      BY DEF Receipt
    <2> QED
      BY <1>1, <1>4, <2>1, <2>2, ContextStored DEF OffersExist
  <1> QED
    BY <1>3, <1>4, <1>5, <1>6, <1>7, <1>8, PrimedParts DEF TypeInv

LEMMA OwnerAnswerType ==
  ASSUME TypeInv, NEW q \in DOMAIN questions, submit_owner_answer(q)
  PROVE  TypeInv'
  <1>1. ReceiptsType /\ QuestionsType
    BY TypeParts DEF TypeInv
  <1>2. QuestionsType'
    <2> DEFINE R == {i \in DOMAIN receipts : receipts[i].pending = q}
               row == [questions[q] EXCEPT !.status = "ANSWERED", !.reached = R]
    <2>1. R \in SUBSET Nat
      BY <1>1 DEF ReceiptsType
    <2>2. questions[q] \in Questions
      BY <1>1 DEF QuestionsType
    <2>3. questions' = [questions EXCEPT ![q] = row]
      BY Zenon DEF submit_owner_answer
    <2> HIDE DEF R
    <2>4. row \in Questions
      BY <2>1, <2>2 DEF Questions
    <2> HIDE DEF row
    <2> QED
      BY <1>1, <2>3, <2>4 DEF QuestionsType
  <1>3. StoreType' /\ ReceiptsType' /\ ContextsType' /\ FailedType' /\ CallsType'
    BY TypeParts DEF TypeInv, submit_owner_answer, storeVars, StoreType, ReceiptsType,
                     ContextsType, FailedType, CallsType
  <1>4. Busy' /\ OffersExist' /\ ChoicesExist'
    BY DEF TypeInv, submit_owner_answer, Busy, OffersExist, ChoicesExist
  <1> QED
    BY <1>2, <1>3, <1>4, PrimedParts DEF TypeInv

LEMMA ExpiryType ==
  ASSUME TypeInv, NEW x \in DOMAIN contexts, ContextExpires(x)
  PROVE  TypeInv'
  <1>1. ContextsType
    BY TypeParts DEF TypeInv
  <1> DEFINE row == [contexts[x] EXCEPT !.expired = TRUE]
  <1>2. contexts' = [contexts EXCEPT ![x] = row]
    BY DEF ContextExpires
  <1>3. row \in Contexts
    <2>1. contexts[x] \in Contexts
      BY <1>1 DEF ContextsType
    <2> QED
      BY <2>1 DEF Contexts
  <1> HIDE DEF row
  <1>4. ContextsType' /\ DOMAIN contexts' = DOMAIN contexts
    BY <1>1, <1>2, <1>3 DEF ContextsType
  <1>5. StoreType' /\ ReceiptsType' /\ QuestionsType' /\ FailedType' /\ CallsType'
    BY TypeParts DEF TypeInv, ContextExpires, storeVars, StoreType, ReceiptsType,
                     QuestionsType, FailedType, CallsType
  <1>6. Busy' /\ OffersExist' /\ ChoicesExist'
    BY <1>4 DEF TypeInv, ContextExpires, Busy, OffersExist, ChoicesExist
  <1> QED
    BY <1>4, <1>5, <1>6, PrimedParts DEF TypeInv

LEMMA EditAndTimeType ==
  ASSUME TypeInv, Edit \/ DayPasses
  PROVE  TypeInv'
  <1>1. StoreType'
    BY EditType, TypeParts DEF TypeInv, DayPasses, storeVars, StoreType
  <1>2. FailedType'
    BY TypeParts DEF TypeInv, Edit, DayPasses, FailedType
  <1>3. ReceiptsType' /\ ContextsType' /\ QuestionsType' /\ CallsType'
    BY TypeParts DEF TypeInv, Edit, DayPasses, turnVars, ReceiptsType, ContextsType,
                     QuestionsType, CallsType
  <1>4. Busy' /\ OffersExist' /\ ChoicesExist'
    BY DEF TypeInv, Edit, DayPasses, turnVars, Busy, OffersExist, ChoicesExist
  <1> QED
    BY <1>1, <1>2, <1>3, <1>4, PrimedParts DEF TypeInv

LEMMA StutterType == ASSUME TypeInv, UNCHANGED vars PROVE TypeInv'
  <1>1. /\ StoreType' /\ ReceiptsType' /\ ContextsType' /\ QuestionsType' /\ FailedType'
        /\ CallsType'
    BY TypeParts DEF TypeInv, vars, storeVars, turnVars, StoreType, ReceiptsType, ContextsType,
                     QuestionsType, FailedType, CallsType
  <1>2. Busy' /\ OffersExist' /\ ChoicesExist'
    BY DEF TypeInv, vars, turnVars, Busy, OffersExist, ChoicesExist
  <1> QED
    BY <1>1, <1>2, PrimedParts DEF TypeInv

LEMMA TypeStep == TypeInv /\ [Next]_vars => TypeInv'
  <1> SUFFICES ASSUME TypeInv, [Next]_vars PROVE TypeInv'
    OBVIOUS
  <1>1. CASE \E p \in Calls, r \in Requests, body \in Sendable : saved_reply(p, r, body)
    BY <1>1, SavedReplyType
  <1>2. CASE \E p \in Calls : Step(p)
    BY <1>2, FirstPublicationType, ReadContextType, PlanType, FailSemanticsType, RecordFailedType,
       SaveType, ReplyOrRefuseType, RequeryType DEF Step
  <1>3. CASE \E q \in DOMAIN questions : submit_owner_answer(q)
    BY <1>3, OwnerAnswerType
  <1>4. CASE \E x \in DOMAIN contexts : ContextExpires(x)
    BY <1>4, ExpiryType
  <1>5. CASE Edit \/ DayPasses
    BY <1>5, EditAndTimeType
  <1> QED
    BY <1>1, <1>2, <1>3, <1>4, <1>5, StutterType DEF Next

LEMMA TypeInvariant == Spec => []TypeInv
  BY InitType, TypeStep, PTL DEF Spec

(* Every variable of Chat keeps its type: requests, contexts, pending       *)
(* questions and plans are those the code stores, and an offer is never     *)
(* counted past the limit of two.                                           *)
THEOREM TypeCorrect == Spec => []TypeOK
  <1>1. TypeInv => TypeOK
    BY DEF TypeInv
  <1> QED
    BY <1>1, TypeInvariant, PTL

----------------------------------------------------------------------------
(* Effects: what one step does to calls, to stored turns and to the store.  *)

(* A call takes one of these steps.                                         *)
Arrives(q) == call'[q].pc \in {"idle", "read", "failed"} /\ UNCHANGED <<receipts, contexts>>
              /\ call'[q].body \in Sendable \cup {NoBody, call[q].body}
Reads(q) == /\ call'[q].pc = "search" /\ call'[q].body = call[q].body
            /\ call'[q].clarify_turns = IF call[q].body.kind = "choose"
                                        THEN contexts[call[q].body.ref].clarify_turns ELSE 0
            /\ UNCHANGED <<storeVars, turnVars>>
Decides(q) == /\ call[q].pc = "search" /\ call'[q].pc = "save" /\ call'[q].body = call[q].body
              /\ call'[q].clarify_turns = call[q].clarify_turns
              /\ call'[q].plan \in Plans(q)
              /\ Searches(q) => call'[q].edition = edition
              /\ UNCHANGED <<storeVars, turnVars>>
Stores(q) == save_answer(q) /\ call'[q] = Idle

(* What other calls and the owner do leaves a call alone.                   *)
LEMMA CallMoves ==
  ASSUME TypeInv, [Next]_vars, NEW q \in Calls
  PROVE  call'[q] = call[q] \/ Arrives(q) \/ Reads(q) \/ Decides(q) \/ Stores(q)
  <1>1. CallsType
    BY TypeParts DEF TypeInv
  <1>2. call[q] \in CallRows
    BY <1>1 DEF CallsType
  <1>3. CASE \E p \in Calls, r \in Requests, body \in Sendable : saved_reply(p, r, body)
    <2> PICK p \in Calls, r \in Requests, body \in Sendable : saved_reply(p, r, body)
      BY <1>3
    <2>1. UNCHANGED <<receipts, contexts>>
      BY DEF saved_reply, turnVars
    <2> DEFINE row == [Idle EXCEPT !.pc = "read", !.request = r, !.body = body]
    <2>2. row.pc = "read" /\ row.body = body
      BY DEF Idle
    <2>3. call' = call \/ call' = [call EXCEPT ![p] = row]
      BY DEF saved_reply
    <2> HIDE DEF row
    <2> QED
      BY <1>1, <2>1, <2>2, <2>3 DEF CallsType, Arrives
  <1>4. CASE \E p \in Calls : Step(p)
    <2> PICK p \in Calls : Step(p)
      BY <1>4
    <2>1. CASE Return(p) /\ UNCHANGED <<receipts, contexts>>
      <3>1. Idle.pc = "idle" /\ Idle.body = NoBody
        BY DEF Idle
      <3> QED
        BY <1>1, <2>1, <3>1 DEF Return, CallsType, Arrives
    <2>2. CASE ensure_initial_publication(p)
      BY <2>2 DEF ensure_initial_publication
    <2>3. CASE ReadContext(p)
      <3> DEFINE body == call[p].body
                 h == IF Free(body) THEN HistoryHead(body.session) ELSE 0
                 f == IF Free(body) THEN FailedHead(body.session, call[p].request) ELSE 0
                 t == IF body.kind = "choose" THEN contexts[body.ref].clarify_turns ELSE 0
                 row == [call[p] EXCEPT !.pc = "search", !.edition = edition, !.served = served,
                                        !.head = h, !.failed_head = f, !.clarify_turns = t]
      <3>1. Return(p) \/ call' = [call EXCEPT ![p] = row]
        BY <2>3 DEF ReadContext
      <3>2. row.pc = "search" /\ row.body = body /\ row.clarify_turns = t
        <4> HIDE DEF h, f, t
        <4> QED
          BY <1>1 DEF CallsType, CallRows
      <3> HIDE DEF row
      <3>3. CASE call' = [call EXCEPT ![p] = row]
        <4>1. call'[q] = IF q = p THEN row ELSE call[q]
          BY <1>1, <3>3 DEF CallsType
        <4> HIDE DEF h, f
        <4> QED
          BY <2>3, <3>2, <4>1 DEF ReadContext, Reads
      <3> QED
        BY <2>1, <2>3, <3>1, <3>3 DEF ReadContext, turnVars
    <2>4. CASE Plan(p)
      <3>1. CASE Return(p)
        BY <2>1, <2>4, <3>1 DEF Plan, turnVars
      <3>2. CASE ~Return(p)
        <4> DEFINE e == IF Searches(p) THEN edition ELSE call[p].edition
                   v == IF Searches(p) THEN served ELSE call[p].served
                   row(plan) == [call[p] EXCEPT !.pc = "save", !.plan = plan, !.edition = e,
                                                !.served = v]
        <4>1. PICK plan \in Plans(p) : call' = [call EXCEPT ![p] = row(plan)]
          BY <2>4, <3>2 DEF Plan
        <4>2. /\ row(plan).pc = "save" /\ row(plan).body = call[p].body
              /\ row(plan).clarify_turns = call[p].clarify_turns /\ row(plan).plan = plan
              /\ row(plan).edition = e
          BY <1>1 DEF CallsType, CallRows
        <4> HIDE DEF row
        <4>3. call'[q] = IF q = p THEN row(plan) ELSE call[q]
          BY <1>1, <4>1 DEF CallsType
        <4> QED
          BY <2>4, <4>2, <4>3 DEF Plan, Decides
      <3> QED
        BY <3>1, <3>2
    <2>5. CASE FailSemantics(p)
      BY <1>1, <1>2, <2>5 DEF FailSemantics, Enter, CallsType, CallRows, Arrives, turnVars
    <2>6. CASE record_failed_turn(p)
      BY <2>1, <2>6 DEF record_failed_turn, turnVars
    <2>7. CASE save_answer(p)
      <3>1. call' = [call EXCEPT ![p] = Idle]
        BY <2>7 DEF save_answer, Return
      <3> HIDE DEF Idle
      <3> QED
        BY <1>1, <2>7, <3>1 DEF CallsType, Stores
    <2>8. CASE ReplyOrRefuse(p) \/ EndCall(p)
      BY <2>1, <2>8 DEF ReplyOrRefuse, EndCall, turnVars
    <2>9. CASE Requery(p)
      <3> DEFINE row == [call[p] EXCEPT !.pc = "read", !.stale = TRUE, !.edition = 0,
                                        !.served = Nothing, !.head = 0, !.failed_head = 0,
                                        !.clarify_turns = 0, !.plan = NoPlan]
      <3>1. Return(p) \/ call' = [call EXCEPT ![p] = row]
        BY <2>9 DEF Requery
      <3>2. row.pc = "read" /\ row.body = call[p].body
        BY <1>1 DEF CallsType, CallRows
      <3> HIDE DEF row
      <3>3. CASE call' = [call EXCEPT ![p] = row]
        <4>1. call'[q] = IF q = p THEN row ELSE call[q]
          BY <1>1, <3>3 DEF CallsType
        <4> QED
          BY <2>9, <3>2, <4>1 DEF Requery, Arrives, turnVars
      <3> QED
        BY <2>1, <2>9, <3>1, <3>3 DEF Requery, turnVars
    <2> QED
      BY <2>2, <2>3, <2>4, <2>5, <2>6, <2>7, <2>8, <2>9 DEF Step
  <1>5. CASE UNCHANGED call
    BY <1>5
  <1>6. CASE \/ \E k \in DOMAIN questions : submit_owner_answer(k)
             \/ \E x \in DOMAIN contexts : ContextExpires(x)
             \/ Edit \/ DayPasses
    BY <1>5, <1>6 DEF submit_owner_answer, ContextExpires, Edit, DayPasses
  <1> QED
    BY <1>3, <1>4, <1>5, <1>6 DEF Next, vars

(* The store is left alone, or changes without a new edition, or publishes. *)
LEMMA StoreMoves ==
  ASSUME TypeInv, [Next]_vars
  PROVE  UNCHANGED <<served, edition>> \/ edition' = edition + 1
  <1>1. StoreType
    BY TypeParts DEF TypeInv
  <1>2. CASE Edit
    BY <1>1, <1>2, EditType
  <1>3. CASE \E p \in Calls : ensure_initial_publication(p)
    BY <1>1, <1>3, PublishType DEF ensure_initial_publication
  <1>4. CASE UNCHANGED storeVars
    BY <1>4 DEF storeVars
  <1> QED
    BY <1>2, <1>3, <1>4 DEF Next, Step, vars, saved_reply, ReadContext, Plan, FailSemantics,
       record_failed_turn, save_answer, ReplyOrRefuse, Requery, EndCall, submit_owner_answer,
       ContextExpires, DayPasses

(* Stored turns change only in save_answer, which adds one.                 *)
LEMMA TurnMoves ==
  ASSUME [Next]_vars
  PROVE  \/ UNCHANGED turnVars
         \/ \E p \in Calls : save_answer(p)
         \/ UNCHANGED <<receipts, contexts>> /\ \E q \in DOMAIN questions : submit_owner_answer(q)
         \/ UNCHANGED <<receipts, questions>> /\ \E x \in DOMAIN contexts : ContextExpires(x)
  BY DEF Next, Step, vars, saved_reply, ensure_initial_publication, ReadContext, Plan,
     FailSemantics, record_failed_turn, ReplyOrRefuse, Requery, EndCall, submit_owner_answer,
     ContextExpires, DayPasses, Edit, turnVars

LEMMA SaveEffect ==
  ASSUME TypeInv, NEW p \in Calls, save_answer(p)
  PROVE  \E n \in Nat \ {0} : /\ DOMAIN receipts = 1..(n - 1) /\ DOMAIN receipts' = 1..n
                              /\ receipts'[n] = Receipt(p)
                              /\ \A i \in 1..(n - 1) : receipts'[i] = receipts[i]
  <1>1. ReceiptsType
    BY TypeParts DEF TypeInv
  <1>2. receipts' = Append(receipts, Receipt(p)) /\ Receipt(p) \in Receipts
    BY ReceiptType DEF save_answer
  <1> WITNESS Len(receipts) + 1 \in Nat \ {0}
  <1> QED
    BY <1>1, <1>2 DEF ReceiptsType

----------------------------------------------------------------------------
(* Repeated requests and repeated confirmations *)

(* No request becomes two turns, whatever calls repeat it while it runs.    *)
THEOREM RequestsStoredOnce == Spec => []OneTurnPerRequest
  <1>1. Init => OneTurnPerRequest
    BY DEF Init, OneTurnPerRequest, Stored
  <1>2. TypeInv /\ OneTurnPerRequest /\ [Next]_vars => OneTurnPerRequest'
    <2> SUFFICES ASSUME TypeInv, OneTurnPerRequest, [Next]_vars PROVE OneTurnPerRequest'
      OBVIOUS
    <2>1. CASE UNCHANGED receipts
      BY <2>1 DEF OneTurnPerRequest, Stored, Earlier
    <2>2. CASE \E p \in Calls : save_answer(p)
      <3> PICK p \in Calls : save_answer(p)
        BY <2>2
      <3>1. PICK n \in Nat \ {0} :
              /\ DOMAIN receipts = 1..(n - 1) /\ DOMAIN receipts' = 1..n
              /\ receipts'[n] = Receipt(p)
              /\ \A i \in 1..(n - 1) : receipts'[i] = receipts[i]
        BY SaveEffect
      <3>2. \A i \in 1..(n - 1) : receipts[i].request # Receipt(p).request
        BY <3>1 DEF save_answer, Storable, NewRequest, ReceiptsOf, Receipt
      <3> QED
        BY <3>1, <3>2 DEF OneTurnPerRequest, Stored, Earlier
    <2> QED
      BY <2>1, <2>2, TurnMoves DEF turnVars
  <1> QED
    BY <1>1, <1>2, TypeInvariant, PTL DEF Spec

(* A safety notice is confirmed at most once, so that the owner is asked    *)
(* about it once.                                                           *)
THEOREM NoticesConfirmedOnce == Spec => []ConfirmedOnce
  <1>1. Init => ConfirmedOnce
    BY DEF Init, ConfirmedOnce, Stored
  <1>2. TypeInv /\ ConfirmedOnce /\ [Next]_vars => ConfirmedOnce'
    <2> SUFFICES ASSUME TypeInv, ConfirmedOnce, [Next]_vars PROVE ConfirmedOnce'
      OBVIOUS
    <2>1. CASE UNCHANGED receipts
      BY <2>1 DEF ConfirmedOnce, Stored, Earlier
    <2>2. CASE \E p \in Calls : save_answer(p)
      <3> PICK p \in Calls : save_answer(p)
        BY <2>2
      <3>1. PICK n \in Nat \ {0} :
              /\ DOMAIN receipts = 1..(n - 1) /\ DOMAIN receipts' = 1..n
              /\ receipts'[n] = Receipt(p)
              /\ \A i \in 1..(n - 1) : receipts'[i] = receipts[i]
        BY SaveEffect
      <3>2. Receipt(p).body.kind = "confirm" =>
              \A i \in 1..(n - 1) : receipts[i].body # Receipt(p).body
        BY <3>1 DEF save_answer, Storable, Confirmable, Receipt
      <3> QED
        BY <3>1, <3>2 DEF ConfirmedOnce, Stored, Earlier
    <2> QED
      BY <2>1, <2>2, TurnMoves DEF turnVars
  <1> QED
    BY <1>1, <1>2, TypeInvariant, PTL DEF Spec

----------------------------------------------------------------------------
(* The dialogue *)

(* An ordinary turn was planned with the turn that precedes it in its       *)
(* session: no other device stored one in between.                          *)
THEOREM TurnsFollowDialogue == Spec => []TurnsSeeDialogue
  <1>1. Init => TurnsSeeDialogue
    BY DEF Init, TurnsSeeDialogue, Stored
  <1>2. TypeInv /\ TurnsSeeDialogue /\ [Next]_vars => TurnsSeeDialogue'
    <2> SUFFICES ASSUME TypeInv, TurnsSeeDialogue, [Next]_vars PROVE TurnsSeeDialogue'
      OBVIOUS
    <2>1. CASE UNCHANGED receipts
      BY <2>1 DEF TurnsSeeDialogue, Stored, Earlier
    <2>2. CASE \E p \in Calls : save_answer(p)
      <3> PICK p \in Calls : save_answer(p)
        BY <2>2
      <3> DEFINE before(i) == {k \in Earlier(i) : receipts[k].body.session = receipts[i].body.session}
      <3>1. PICK n \in Nat \ {0} :
              /\ DOMAIN receipts = 1..(n - 1) /\ DOMAIN receipts' = 1..n
              /\ receipts'[n] = Receipt(p)
              /\ \A i \in 1..(n - 1) : receipts'[i] = receipts[i]
        BY SaveEffect
      <3>2. ASSUME NEW i \in 1..(n - 1) PROVE before(i)' = before(i)
        BY <3>1 DEF Earlier, Stored
      <3>3. before(n)' = {k \in DOMAIN receipts : receipts[k].body.session = call[p].body.session}
        BY <3>1 DEF Earlier, Stored, Receipt
      <3>4. Free(Receipt(p).body) => Receipt(p).head = Last(before(n)')
        BY <3>3 DEF save_answer, Storable, DialogueHolds, HistoryHead, Receipt
      <3>5. \A i \in 1..(n - 1) : Free(receipts[i].body) => receipts[i].head = Last(before(i))
        BY <3>1 DEF TurnsSeeDialogue, Stored
      <3> HIDE DEF before
      <3>6. \A i \in 1..n : Free(receipts'[i].body) => receipts'[i].head = Last(before(i)')
        BY <3>1, <3>2, <3>4, <3>5
      <3> QED
        BY <3>1, <3>6 DEF TurnsSeeDialogue, Stored, before
    <2> QED
      BY <2>1, <2>2, TurnMoves DEF turnVars
  <1> QED
    BY <1>1, <1>2, TypeInvariant, PTL DEF Spec

----------------------------------------------------------------------------
(* Questions for the owner *)

(* Every escalated turn has a question, which still waits or has reached    *)
(* the turn.                                                                *)
Asked == \A i \in DOMAIN receipts : receipts[i].action = "ESCALATE" =>
           /\ receipts[i].pending \in DOMAIN questions
           /\ \/ questions[receipts[i].pending].status = "WAITING"
              \/ i \in questions[receipts[i].pending].reached

LEMMA AskedStep ==
  ASSUME TypeInv, Asked, [Next]_vars
  PROVE  Asked'
  <1>1. QuestionsType /\ CallsType
    BY TypeParts DEF TypeInv
  <1>2. CASE UNCHANGED <<receipts, questions>>
    BY <1>2 DEF Asked
  <1>3. CASE \E p \in Calls : save_answer(p)
    <2> PICK p \in Calls : save_answer(p)
      BY <1>3
    <2>1. PICK n \in Nat \ {0} :
            /\ DOMAIN receipts = 1..(n - 1) /\ DOMAIN receipts' = 1..n
            /\ receipts'[n] = Receipt(p)
            /\ \A i \in 1..(n - 1) : receipts'[i] = receipts[i]
      BY SaveEffect
    <2>2. /\ DOMAIN questions \subseteq DOMAIN questions'
          /\ \A q \in DOMAIN questions : questions'[q] = questions[q]
          /\ call[p].plan.action = "ESCALATE" =>
                PendingOf(p) \in DOMAIN questions' /\ questions'[PendingOf(p)].status = "WAITING"
      BY <1>1, QuestionStored DEF save_answer
    <2>3. Receipt(p).action = call[p].plan.action /\ Receipt(p).pending = PendingOf(p)
      BY DEF Receipt
    <2> QED
      BY <2>1, <2>2, <2>3 DEF Asked
  <1>4. CASE UNCHANGED receipts /\ \E q \in DOMAIN questions : submit_owner_answer(q)
    <2> PICK q \in DOMAIN questions : submit_owner_answer(q)
      BY <1>4
    <2> DEFINE R == {i \in DOMAIN receipts : receipts[i].pending = q}
               row == [questions[q] EXCEPT !.status = "ANSWERED", !.reached = R]
    <2>1. questions' = [questions EXCEPT ![q] = row]
      BY Zenon DEF submit_owner_answer
    <2>2. questions[q] \in Questions
      BY <1>1 DEF QuestionsType
    <2> HIDE DEF R
    <2>3. row.reached = R
      BY <2>2 DEF Questions
    <2> HIDE DEF row
    <2>4. DOMAIN questions' = DOMAIN questions
            /\ \A k \in DOMAIN questions : questions'[k] = IF k = q THEN row ELSE questions[k]
      BY <2>1, <1>1 DEF QuestionsType
    <2> QED
      BY <1>4, <2>3, <2>4 DEF Asked, R
  <1> QED
    BY <1>2, <1>3, <1>4, TurnMoves DEF turnVars

(* Nobody who was told that the owner would answer is forgotten: an         *)
(* escalation never joins a question that was answered in the meantime.     *)
THEOREM NoAskerForgotten == Spec => []AskersAreAnswered
  <1>1. Init => Asked
    BY DEF Init, Asked
  <1>2. TypeInv /\ Asked /\ [Next]_vars => Asked'
    BY AskedStep
  <1>3. Asked => AskersAreAnswered
    BY DEF Asked, AskersAreAnswered, Stored
  <1> QED
    BY <1>1, <1>2, <1>3, TypeInvariant, PTL DEF Spec

----------------------------------------------------------------------------
(* Public knowledge *)

(* A planned answer cites what the edition it was planned on listed, as     *)
(* long as that edition is the public one.                                  *)
Seen == \A p \in Calls : call[p].pc = "save" =>
          \A c \in Listed(call[p].plan.cited) :
            /\ call[p].edition <= edition
            /\ call[p].edition = edition => served[c] = call[p].plan.cited[c]

(* Only a search cites cards, at the versions the public edition lists.     *)
LEMMA PlanCites ==
  ASSUME StoreType, NEW p, NEW plan \in Plans(p), NEW c \in Listed(plan.cited)
  PROVE  Searches(p) /\ plan.cited[c] = served[c]
  <1>1. NoPlan.cited = Nothing /\ c \in Cards /\ plan.cited[c] # 0 /\ Nothing[c] = 0
    BY DEF NoPlan, Listed, Nothing
  <1>2. \/ \E a \in Actions : plan = [NoPlan EXCEPT !.action = a]
        \/ \E k \in Keys : plan = [NoPlan EXCEPT !.action = "ESCALATE", !.key = k]
        \/ /\ Searches(p)
           /\ \E cards : plan = [NoPlan EXCEPT !.action = "ANSWER",
                            !.cited = [d \in Cards |-> IF d \in cards THEN served[d] ELSE 0]]
    BY DEF Plans, Actions, Keys
  <1>3. CASE \/ \E a \in Actions : plan = [NoPlan EXCEPT !.action = a]
             \/ \E k \in Keys : plan = [NoPlan EXCEPT !.action = "ESCALATE", !.key = k]
    BY <1>1, <1>3 DEF NoPlan
  <1>4. CASE \E cards : plan = [NoPlan EXCEPT !.action = "ANSWER",
                          !.cited = [d \in Cards |-> IF d \in cards THEN served[d] ELSE 0]]
    <2> PICK cards : plan = [NoPlan EXCEPT !.action = "ANSWER",
                          !.cited = [d \in Cards |-> IF d \in cards THEN served[d] ELSE 0]]
      BY <1>4
    <2> DEFINE f == [d \in Cards |-> IF d \in cards THEN served[d] ELSE 0]
    <2>1. plan.cited = f
      BY DEF NoPlan
    <2>2. f[c] # 0 => f[c] = served[c]
      BY <1>1
    <2> HIDE DEF f
    <2>3. Searches(p)
      BY <1>1, <1>2, <1>3
    <2> QED
      BY <1>1, <2>1, <2>2, <2>3
  <1> QED
    BY <1>2, <1>3, <1>4

LEMMA SeenStep ==
  ASSUME TypeInv, Seen, [Next]_vars
  PROVE  Seen'
  <1>1. StoreType /\ CallsType
    BY TypeParts DEF TypeInv
  <1> SUFFICES ASSUME NEW p \in Calls, call'[p].pc = "save", NEW c \in Listed(call'[p].plan.cited)
               PROVE  /\ call'[p].edition <= edition'
                      /\ call'[p].edition = edition' => served'[c] = call'[p].plan.cited[c]
    BY DEF Seen, Listed
  <1>2. CASE call'[p] = call[p]
    <2>1. c \in Listed(call[p].plan.cited) /\ call[p].edition \in Nat /\ edition \in Nat
      BY <1>1, <1>2 DEF Listed, CallsType, CallRows, StoreType
    <2> QED
      BY <1>2, <2>1, StoreMoves DEF Seen
  <1>3. CASE Decides(p)
    <2>1. Searches(p) /\ call'[p].plan.cited[c] = served[c] /\ edition \in Nat
      BY <1>1, <1>3, PlanCites DEF Decides, Listed, StoreType
    <2> QED
      BY <1>3, <2>1 DEF Decides, storeVars
  <1>4. CASE Arrives(p) \/ Reads(p) \/ Stores(p)
    BY <1>4 DEF Arrives, Reads, Stores, Idle
  <1> QED
    BY <1>2, <1>3, <1>4, CallMoves

(* An answer becomes visible only on public knowledge: the edition serves   *)
(* every version it cites and the owner has not excluded the card.          *)
THEOREM AnswersStayPublic == Spec => AnswersArePublic
  <1>1. Init => Seen
    BY DEF Init, Seen, Idle
  <1>2. TypeInv /\ Seen /\ [Next]_vars => Seen'
    BY SeenStep
  <1> DEFINE Public == \A i \in DOMAIN receipts' \ Stored : \A c \in Listed(receipts'[i].cited) :
                          status[c] = "APPROVED" /\ served[c] = receipts'[i].cited[c]
  <1>3. TypeInv /\ Seen /\ [Next]_vars => [Public]_vars
    <2> SUFFICES ASSUME TypeInv, Seen, [Next]_vars PROVE Public
      OBVIOUS
    <2>1. CASE UNCHANGED receipts
      BY <2>1 DEF Stored
    <2>2. CASE \E p \in Calls : save_answer(p)
      <3> PICK p \in Calls : save_answer(p)
        BY <2>2
      <3>1. PICK n \in Nat \ {0} :
              /\ DOMAIN receipts = 1..(n - 1) /\ DOMAIN receipts' = 1..n
              /\ receipts'[n] = Receipt(p)
              /\ \A i \in 1..(n - 1) : receipts'[i] = receipts[i]
        BY SaveEffect
      <3>2. Receipt(p).cited = call[p].plan.cited
        BY DEF Receipt
      <3>3. \A c \in Listed(call[p].plan.cited) :
               status[c] = "APPROVED" /\ served[c] = call[p].plan.cited[c]
        BY DEF save_answer, KnowledgeHolds, Seen
      <3>4. DOMAIN receipts' \ Stored = {n}
        BY <3>1 DEF Stored
      <3> QED
        BY <3>1, <3>2, <3>3, <3>4
    <2> QED
      BY <2>1, <2>2, TurnMoves DEF turnVars
  <1>4. Spec => [][Public]_vars
    BY <1>1, <1>2, <1>3, TypeInvariant, PTL DEF Spec
  <1> QED
    BY <1>4 DEF AnswersArePublic

----------------------------------------------------------------------------
(* Offers and the limit of two *)

(* A context is never behind an offer made from it, and is past every offer *)
(* that was answered.                                                       *)
Offered == \A i \in DOMAIN receipts : receipts[i].action = "CLARIFY" =>
             receipts[i].state_revision <= contexts[receipts[i].context].state_revision
Passed == \A i \in DOMAIN receipts : receipts[i].body.kind = "choose" =>
            /\ receipts[i].body.ref \in DOMAIN contexts
            /\ receipts[i].body.state_revision < contexts[receipts[i].body.ref].state_revision

(* A running choice answers an offer that was shown.                        *)
Shown(body) == \E k \in DOMAIN receipts : /\ receipts[k].action = "CLARIFY"
                                          /\ receipts[k].context = body.ref
                                          /\ receipts[k].state_revision = body.state_revision
Chosen == \A p \in Calls : call[p].body.kind = "choose" => Shown(call[p].body)

(* As long as the context has not moved, the call counted its offers right. *)
Counted == \A p \in Calls :
  /\ call[p].pc \in {"search", "save"} /\ call[p].body.kind = "choose" =>
        \/ contexts[call[p].body.ref].state_revision # call[p].body.state_revision
        \/ contexts[call[p].body.ref].clarify_turns = call[p].clarify_turns
  /\ call[p].pc = "save" /\ call[p].plan.action = "CLARIFY" /\ call[p].body.kind = "choose" =>
        call[p].clarify_turns < 2

OfferInv == Offered /\ Passed /\ Chosen /\ Counted

(* Contexts stay or move forward.                                           *)
LEMMA ContextMoves ==
  ASSUME TypeInv, [Next]_vars, NEW x \in DOMAIN contexts
  PROVE  /\ x \in DOMAIN contexts'
         /\ contexts[x].state_revision \in Nat /\ contexts'[x].state_revision \in Nat
         /\ \/ /\ contexts'[x].state_revision = contexts[x].state_revision
               /\ contexts'[x].clarify_turns = contexts[x].clarify_turns
            \/ contexts'[x].state_revision > contexts[x].state_revision
  <1>1. StoreType /\ ContextsType /\ ChoicesExist
    BY TypeParts DEF TypeInv
  <1>2. contexts[x] \in Contexts
    BY <1>1 DEF ContextsType
  <1>3. contexts[x].state_revision \in Nat
    BY <1>2 DEF Contexts
  <1>4. CASE UNCHANGED contexts
    BY <1>3, <1>4
  <1>5. CASE \E z \in DOMAIN contexts : ContextExpires(z)
    <2> PICK z \in DOMAIN contexts : ContextExpires(z)
      BY <1>5
    <2> DEFINE row == [contexts[z] EXCEPT !.expired = TRUE]
    <2>1. contexts' = [contexts EXCEPT ![z] = row]
      BY DEF ContextExpires
    <2>2. contexts[z] \in Contexts
      BY <1>1 DEF ContextsType
    <2>3. row.state_revision = contexts[z].state_revision /\ row.clarify_turns = contexts[z].clarify_turns
      BY <2>2 DEF Contexts
    <2> HIDE DEF row
    <2>4. x \in DOMAIN contexts' /\ contexts'[x] = IF x = z THEN row ELSE contexts[x]
      BY <1>1, <2>1 DEF ContextsType
    <2> QED
      BY <1>3, <2>3, <2>4
  <1>6. CASE \E p \in Calls : save_answer(p)
    <2> PICK p \in Calls : save_answer(p)
      BY <1>6
    <2>1. x \in DOMAIN contexts' /\ ContextsType'
      BY ContextStored
    <2>2. CASE x # ContextOf(p)
      BY <1>3, <2>1, <2>2, ContextStored
    <2>3. CASE x = ContextOf(p)
      <3> DEFINE b == call[p].body
                 y == Accepted(contexts[x])
      <3>1. b.kind = "choose" /\ x = b.ref
        BY <1>1, <2>3 DEF ContextOf, ContextsType
      <3>2. y \in Contexts /\ y.clarify_turns = contexts[x].clarify_turns
              /\ y.state_revision = contexts[x].state_revision + 1
        BY <1>1, <1>2, AcceptedType
      <3>3. contexts' = [contexts EXCEPT ![x] = IF call[p].plan.action = "CLARIFY"
                                                THEN OfferedNext(y) ELSE y]
        BY <3>1 DEF save_answer, ContextsAfter
      <3>4. call[p].plan.action = "CLARIFY" => contexts[x].clarify_turns = 1
        BY <1>2, <3>1 DEF save_answer, LimitReached, Contexts
      <3> HIDE DEF y
      <3>5. call[p].plan.action = "CLARIFY" => OfferedNext(y).state_revision = y.state_revision + 1
        BY <3>2, <3>4, OfferedType
      <3>6. contexts'[x] = IF call[p].plan.action = "CLARIFY" THEN OfferedNext(y) ELSE y
        BY <3>3
      <3> QED
        BY <1>3, <2>1, <3>2, <3>5, <3>6
    <2> QED
      BY <2>2, <2>3
  <1> QED
    BY <1>4, <1>5, <1>6, TurnMoves DEF turnVars

(* What a stored choice does to its context.                                *)
LEMMA ChoiceMoves ==
  ASSUME TypeInv, NEW p \in Calls, save_answer(p), call[p].body.kind = "choose"
  PROVE  /\ call[p].body.ref \in DOMAIN contexts
         /\ contexts[call[p].body.ref].state_revision = call[p].body.state_revision
         /\ call[p].body.ref \in DOMAIN contexts'
         /\ call[p].body.state_revision < contexts'[call[p].body.ref].state_revision
  <1> DEFINE b == call[p].body
             x == contexts[b.ref]
             y == Accepted(x)
  <1>1. StoreType /\ ContextsType /\ b.ref \in DOMAIN contexts
    BY TypeParts DEF TypeInv, ChoicesExist
  <1>2. x \in Contexts
    BY <1>1 DEF ContextsType
  <1>3. x.state_revision = b.state_revision
    BY DEF save_answer, Acceptable
  <1>4. y \in Contexts /\ y.clarify_turns = x.clarify_turns
          /\ y.state_revision = x.state_revision + 1
    BY <1>1, <1>2, AcceptedType
  <1>5. call[p].plan.action = "CLARIFY" => x.clarify_turns = 1
    BY <1>2 DEF save_answer, LimitReached, Contexts
  <1>6. contexts' = [contexts EXCEPT ![b.ref] = IF call[p].plan.action = "CLARIFY"
                                                THEN OfferedNext(y) ELSE y]
    BY DEF save_answer, ContextsAfter
  <1> HIDE DEF y
  <1>7. call[p].plan.action = "CLARIFY" => OfferedNext(y).state_revision = y.state_revision + 1
    BY <1>4, <1>5, OfferedType
  <1>8. b.ref \in DOMAIN contexts'
          /\ contexts'[b.ref] = IF call[p].plan.action = "CLARIFY" THEN OfferedNext(y) ELSE y
    BY <1>1, <1>6 DEF ContextsType
  <1>9. x.state_revision \in Nat
    BY <1>2 DEF Contexts
  <1> QED
    BY <1>1, <1>3, <1>4, <1>7, <1>8, <1>9

(* The types that the comparisons below need.                               *)
LEMMA RowTypes ==
  ASSUME TypeInv
  PROVE  /\ \A i \in DOMAIN receipts : /\ receipts[i].state_revision \in Nat
                                       /\ receipts[i].body.state_revision \in Nat
         /\ \A x \in DOMAIN contexts : contexts[x].state_revision \in Nat
  <1>1. ReceiptsType /\ ContextsType
    BY TypeParts DEF TypeInv
  <1>2. \A i \in DOMAIN receipts : receipts[i] \in Receipts
    BY <1>1 DEF ReceiptsType
  <1>3. \A x \in DOMAIN contexts : contexts[x] \in Contexts
    BY <1>1 DEF ContextsType
  <1> QED
    BY <1>2, <1>3 DEF Receipts, Bodies, Contexts

(* Stored turns stay stored.                                                *)
LEMMA ReceiptsKept ==
  ASSUME TypeInv, [Next]_vars, NEW i \in DOMAIN receipts
  PROVE  i \in DOMAIN receipts' /\ receipts'[i] = receipts[i]
  <1>1. CASE UNCHANGED receipts
    BY <1>1
  <1>2. CASE \E p \in Calls : save_answer(p)
    BY <1>2, SaveEffect
  <1> QED
    BY <1>1, <1>2, TurnMoves DEF turnVars

(* A turn that is not there yet is the one a call stores.                   *)
LEMMA NewReceipt ==
  ASSUME TypeInv, [Next]_vars, NEW i \in DOMAIN receipts', i \notin DOMAIN receipts
  PROVE  /\ \A k \in DOMAIN receipts : k < i
         /\ \E p \in Calls : save_answer(p) /\ receipts'[i] = Receipt(p)
  <1>1. PICK p \in Calls : save_answer(p)
    BY TurnMoves DEF turnVars
  <1> QED
    BY <1>1, SaveEffect

LEMMA OfferedStep ==
  ASSUME TypeInv, Offered, [Next]_vars
  PROVE  Offered'
  <1> SUFFICES ASSUME NEW i \in DOMAIN receipts', receipts'[i].action = "CLARIFY"
               PROVE  receipts'[i].state_revision <= contexts'[receipts'[i].context].state_revision
    BY DEF Offered
  <1>1. CASE i \in DOMAIN receipts
    <2>1. receipts'[i] = receipts[i] /\ receipts[i].context \in DOMAIN contexts
            /\ receipts[i].state_revision \in Nat
      BY <1>1, ReceiptsKept, RowTypes DEF TypeInv, OffersExist
    <2>2. receipts[i].state_revision <= contexts[receipts[i].context].state_revision
      BY <1>1, <2>1 DEF Offered
    <2> DEFINE x == receipts[i].context
    <2>3. /\ contexts[x].state_revision \in Nat /\ contexts'[x].state_revision \in Nat
          /\ contexts[x].state_revision <= contexts'[x].state_revision
      BY <2>1, ContextMoves
    <2> QED
      BY <2>1, <2>2, <2>3
  <1>2. CASE i \notin DOMAIN receipts
    <2>1. PICK p \in Calls : save_answer(p) /\ receipts'[i] = Receipt(p)
      BY <1>2, NewReceipt
    <2>2. call[p].plan.action = "CLARIFY" /\ Receipt(p).context = ContextOf(p)
      BY <2>1 DEF Receipt
    <2>3. ContextOf(p) \in DOMAIN contexts' /\ ContextsType'
      BY <2>1, <2>2, ContextStored
    <2>4. ContextOf(p) # 0
      BY <2>3 DEF ContextsType
    <2>5. Receipt(p).state_revision = contexts'[ContextOf(p)].state_revision
      BY <2>1, <2>4 DEF Receipt, save_answer
    <2>6. contexts'[ContextOf(p)].state_revision \in Nat
      <3>1. contexts'[ContextOf(p)] \in Contexts
        BY <2>3 DEF ContextsType
      <3> QED
        BY <3>1 DEF Contexts
    <2> QED
      BY <2>1, <2>2, <2>5, <2>6
  <1> QED
    BY <1>1, <1>2

LEMMA PassedStep ==
  ASSUME TypeInv, Passed, [Next]_vars
  PROVE  Passed'
  <1> SUFFICES ASSUME NEW i \in DOMAIN receipts', receipts'[i].body.kind = "choose"
               PROVE  /\ receipts'[i].body.ref \in DOMAIN contexts'
                      /\ receipts'[i].body.state_revision
                           < contexts'[receipts'[i].body.ref].state_revision
    BY DEF Passed
  <1>1. CASE i \in DOMAIN receipts
    <2> DEFINE b == receipts[i].body
    <2>1. receipts'[i] = receipts[i] /\ b.state_revision \in Nat
      BY <1>1, ReceiptsKept, RowTypes
    <2>2. b.ref \in DOMAIN contexts /\ b.state_revision < contexts[b.ref].state_revision
      BY <1>1, <2>1 DEF Passed
    <2>3. /\ b.ref \in DOMAIN contexts'
          /\ contexts[b.ref].state_revision \in Nat /\ contexts'[b.ref].state_revision \in Nat
          /\ contexts[b.ref].state_revision <= contexts'[b.ref].state_revision
      BY <2>2, ContextMoves
    <2> QED
      BY <2>1, <2>2, <2>3
  <1>2. CASE i \notin DOMAIN receipts
    <2>1. PICK p \in Calls : save_answer(p) /\ receipts'[i] = Receipt(p)
      BY <1>2, NewReceipt
    <2>2. Receipt(p).body = call[p].body
      BY DEF Receipt
    <2> QED
      BY <2>1, <2>2, ChoiceMoves
  <1> QED
    BY <1>1, <1>2

LEMMA ShownKept ==
  ASSUME TypeInv, [Next]_vars, NEW body, Shown(body)
  PROVE  \E k \in DOMAIN receipts' : /\ receipts'[k].action = "CLARIFY"
                                     /\ receipts'[k].context = body.ref
                                     /\ receipts'[k].state_revision = body.state_revision
  BY ReceiptsKept DEF Shown

LEMMA SendableShown ==
  ASSUME NEW body \in Sendable, body.kind = "choose"
  PROVE  Shown(body)
  BY DEF Sendable, Ask, Choose, Confirm, Shown

LEMMA ChosenStep ==
  ASSUME TypeInv, Chosen, [Next]_vars
  PROVE  Chosen'
  <1> SUFFICES ASSUME NEW p \in Calls, call'[p].body.kind = "choose"
               PROVE  \E k \in DOMAIN receipts' :
                         /\ receipts'[k].action = "CLARIFY"
                         /\ receipts'[k].context = call'[p].body.ref
                         /\ receipts'[k].state_revision = call'[p].body.state_revision
    BY DEF Chosen, Shown
  <1>1. call'[p].body \in Sendable \/ call'[p].body = call[p].body
    BY CallMoves, IdleRow DEF Arrives, Reads, Decides, Stores, NoBody
  <1>2. Shown(call'[p].body)
    BY <1>1, SendableShown DEF Chosen
  <1> QED
    BY <1>2, ShownKept

LEMMA PlanClarifies ==
  ASSUME NEW p, NEW plan \in Plans(p), plan.action = "CLARIFY", call[p].clarify_turns \in Nat
  PROVE  call[p].clarify_turns < 2
  <1>1. CASE ~(call[p].clarify_turns >= 2)
    BY <1>1
  <1>2. CASE call[p].clarify_turns >= 2
    <2>1. \/ \E a \in {"ESCALATE", "SAFE_ROUTE"} : plan = [NoPlan EXCEPT !.action = a]
          \/ \E k \in Keys : plan = [NoPlan EXCEPT !.action = "ESCALATE", !.key = k]
          \/ \E f : plan = [NoPlan EXCEPT !.action = "ANSWER", !.cited = f]
      BY <1>2 DEF Plans, Keys
    <2> QED
      BY <2>1 DEF NoPlan
  <1> QED
    BY <1>1, <1>2

LEMMA CountedStep ==
  ASSUME TypeInv, OfferInv, [Next]_vars
  PROVE  Counted'
  <1>1. ChoicesExist /\ CallsType
    BY TypeParts DEF TypeInv
  <1> SUFFICES ASSUME NEW p \in Calls
      PROVE  /\ call'[p].pc \in {"search", "save"} /\ call'[p].body.kind = "choose" =>
                   \/ contexts'[call'[p].body.ref].state_revision # call'[p].body.state_revision
                   \/ contexts'[call'[p].body.ref].clarify_turns = call'[p].clarify_turns
             /\ call'[p].pc = "save" /\ call'[p].plan.action = "CLARIFY"
                   /\ call'[p].body.kind = "choose" => call'[p].clarify_turns < 2
    BY DEF Counted
  <1>2. CASE call'[p] = call[p]
    <2> DEFINE b == call[p].body
    <2>1. CASE b.kind = "choose"
      <3>1. b.ref \in DOMAIN contexts /\ Shown(b)
        BY <1>1, <2>1 DEF ChoicesExist, OfferInv, Chosen
      <3>2. contexts[b.ref].state_revision \in Nat /\ b.state_revision \in Nat
              /\ b.state_revision <= contexts[b.ref].state_revision
        BY <3>1, RowTypes DEF Shown, OfferInv, Offered
      <3>3. \/ /\ contexts'[b.ref].state_revision = contexts[b.ref].state_revision
               /\ contexts'[b.ref].clarify_turns = contexts[b.ref].clarify_turns
            \/ /\ contexts'[b.ref].state_revision \in Nat
               /\ contexts'[b.ref].state_revision > contexts[b.ref].state_revision
        BY <3>1, ContextMoves
      <3> QED
        BY <1>2, <3>2, <3>3 DEF OfferInv, Counted
    <2>2. CASE b.kind # "choose"
      BY <1>2, <2>2
    <2> QED
      BY <2>1, <2>2
  <1>3. CASE Reads(p)
    BY <1>3 DEF Reads, turnVars
  <1>4. CASE Decides(p)
    <2>1. call[p].clarify_turns \in Nat
      BY <1>1 DEF CallsType, CallRows
    <2>2. call'[p].plan.action = "CLARIFY" => call[p].clarify_turns < 2
      BY <1>4, <2>1, PlanClarifies DEF Decides
    <2> QED
      BY <1>4, <2>2 DEF Decides, turnVars, OfferInv, Counted
  <1>5. CASE Arrives(p) \/ Stores(p)
    BY <1>5 DEF Arrives, Stores, Idle
  <1> QED
    BY <1>2, <1>3, <1>4, <1>5, CallMoves

LEMMA OfferInvariant == Spec => []OfferInv
  <1>1. Init => OfferInv
    BY DEF Init, OfferInv, Offered, Passed, Chosen, Counted, Idle, NoBody
  <1>2. TypeInv /\ OfferInv /\ [Next]_vars => OfferInv'
    BY OfferedStep, PassedStep, ChosenStep, CountedStep DEF OfferInv
  <1> QED
    BY <1>1, <1>2, TypeInvariant, PTL DEF Spec

(* The limit that offer_next_context raises and save_answer does not catch  *)
(* is never reached by a choice whose context is where the member saw it.   *)
THEOREM LimitIsNeverRaised == Spec => []LimitNeverRaised
  <1>1. TypeInv /\ OfferInv => LimitNeverRaised
    <2> SUFFICES ASSUME TypeInv, OfferInv, NEW p \in Calls, call[p].pc = "save", LimitReached(p)
                 PROVE  contexts[call[p].body.ref].state_revision # call[p].body.state_revision
      BY DEF LimitNeverRaised
    <2>1. CallsType
      BY TypeParts DEF TypeInv
    <2>2. call[p].clarify_turns \in Nat
      BY <2>1 DEF CallsType, CallRows
    <2> QED
      BY <2>2 DEF LimitReached, OfferInv, Counted
  <1> QED
    BY <1>1, TypeInvariant, OfferInvariant, PTL

(* An offer is answered by one stored turn at most, and every stored choice *)
(* answers an offer that an earlier turn made.                              *)
THEOREM OffersHaveOneAnswer == Spec => []OffersAnsweredOnce
  <1>1. Init => OffersAnsweredOnce
    BY DEF Init, OffersAnsweredOnce, Stored
  <1>2. TypeInv /\ OfferInv /\ OffersAnsweredOnce /\ [Next]_vars => OffersAnsweredOnce'
    <2> SUFFICES ASSUME TypeInv, OfferInv, OffersAnsweredOnce, [Next]_vars,
                        NEW i \in DOMAIN receipts', receipts'[i].body.kind = "choose"
                 PROVE  /\ \A k \in DOMAIN receipts' : k < i => receipts'[k].body # receipts'[i].body
                        /\ \E k \in DOMAIN receipts' :
                              /\ k < i /\ receipts'[k].action = "CLARIFY"
                              /\ receipts'[k].context = receipts'[i].body.ref
                              /\ receipts'[k].state_revision = receipts'[i].body.state_revision
      BY DEF OffersAnsweredOnce, Stored, Earlier
    <2>1. CASE UNCHANGED receipts
      BY <2>1 DEF OffersAnsweredOnce, Stored, Earlier
    <2>2. CASE \E p \in Calls : save_answer(p)
      <3> PICK p \in Calls : save_answer(p)
        BY <2>2
      <3>1. PICK n \in Nat \ {0} :
              /\ DOMAIN receipts = 1..(n - 1) /\ DOMAIN receipts' = 1..n
              /\ receipts'[n] = Receipt(p)
              /\ \A k \in 1..(n - 1) : receipts'[k] = receipts[k]
        BY SaveEffect
      <3>2. CASE i # n
        BY <3>1, <3>2 DEF OffersAnsweredOnce, Stored, Earlier
      <3>3. CASE i = n
        <4> DEFINE b == call[p].body
        <4>1. receipts'[i].body = b /\ b.kind = "choose"
          BY <3>1, <3>3 DEF Receipt
        <4>2. contexts[b.ref].state_revision = b.state_revision
          BY <4>1, ChoiceMoves
        <4>3. ASSUME NEW k \in 1..(n - 1) PROVE receipts[k].body # b
          <5>1. receipts[k].body.kind = "choose" =>
                  /\ receipts[k].body.state_revision \in Nat
                  /\ receipts[k].body.state_revision
                       < contexts[receipts[k].body.ref].state_revision
            BY <3>1, RowTypes DEF OfferInv, Passed
          <5> QED
            BY <4>1, <4>2, <5>1
        <4>4. Shown(b)
          BY <4>1 DEF OfferInv, Chosen
        <4> QED
          BY <3>1, <3>3, <4>1, <4>3, <4>4 DEF Shown
      <3> QED
        BY <3>2, <3>3
    <2> QED
      BY <2>1, <2>2, TurnMoves DEF turnVars
  <1> QED
    BY <1>1, <1>2, TypeInvariant, OfferInvariant, PTL DEF Spec
=============================================================================
