-------------------------------- MODULE Chat --------------------------------
(***************************************************************************)
(* Answering the questions of a member of a store (api/app/learn:           *)
(* v2_router.chat, answer_storage, question_contexts, dialogue_history,     *)
(* failed_user_turns, planner) while the owner publishes, excludes and      *)
(* answers.                                                                 *)
(*                                                                          *)
(* A call reads the dialogue and the public edition, searches and plans     *)
(* with no connection held, and stores the turn in one transaction that     *)
(* checks again what it was planned on.  The member's client may repeat a   *)
(* request while the first call still runs, and use several sessions and    *)
(* devices at once.  What the store publishes is the register of module     *)
(* PublicKnowledge, which module Publication implements.                    *)
(*                                                                          *)
(* Data abstraction.  A question is only whether it matches the safety      *)
(* policy; a plan is its action and the cards it cites; the options of an   *)
(* offer are left out, the offer itself is not.  Receipts, contexts,        *)
(* pending questions and failed turns are numbered as their identities.     *)
(* The member is one of the store; the sessions of other members differ     *)
(* only in the keys of their requests.  r_general_semantics_enabled is on.  *)
(***************************************************************************)
EXTENDS Naturals, Sequences

CONSTANTS
    Cards, Unpublishable,   \* of PublicKnowledge
    Sessions,               \* chat sessions of the member
    Requests,               \* request_id
    Calls,                  \* HTTP calls that run at the same time
    SemanticKeys,           \* semantic keys of fully resolved questions
    NoKey,                  \* an unresolved question, merged with no other
    MaxVersion, MaxEdition, \* bounds on drafts and on editions
    MaxCalls,               \* bound on calls
    Expiries                \* do contexts and failed turns expire?

ASSUME ChatAssumption ==
    /\ NoKey \notin SemanticKeys
    /\ {MaxVersion, MaxEdition, MaxCalls} \subseteq Nat
    /\ Expiries \in BOOLEAN

VARIABLES
    status, draft, published, served, edition, restored,   \* of PublicKnowledge
    receipts,   \* r_answer_receipts, with their citations
    contexts,   \* r_question_contexts
    questions,  \* pending_questions, and the turns their answer reached
    failed,     \* r_failed_user_turns
    aged,       \* number of failed turns that are a day old
    calls,      \* number of calls so far
    call        \* local state of every running call

storeVars == <<status, draft, published, served, edition, restored>>
turnVars == <<receipts, contexts, questions>>
vars == <<storeVars, turnVars, failed, aged, calls, call>>

Store == INSTANCE PublicKnowledge

----------------------------------------------------------------------------
(* What a request says.  An ordinary question, the choice of an option      *)
(* offered by a state of a context, or the confirmation of a safety notice. *)
Bodies == [kind : {"ask", "choose", "confirm"}, session : Sessions, policy : BOOLEAN,
           ref : Nat, state_revision : Nat]

Nothing == [c \in Cards |-> 0]
NoBody == [kind |-> "none", session |-> "none", policy |-> FALSE, ref |-> 0, state_revision |-> 0]
NoPlan == [action |-> "NONE", cited |-> Nothing, key |-> NoKey]
Idle == [pc |-> "idle", request |-> "none", body |-> NoBody, edition |-> 0, served |-> Nothing,
         head |-> 0, failed_head |-> 0, clarify_turns |-> 0, stale |-> FALSE, plan |-> NoPlan]

Actions == {"ANSWER", "CLARIFY", "ESCALATE", "SAFE_ROUTE"}
TypeOK ==
    /\ status \in [Cards -> {"NONE", "PENDING", "APPROVED", "EXCLUDED"}]
    /\ draft \in [Cards -> Nat] /\ published \in [Cards -> Nat] /\ served \in [Cards -> Nat]
    /\ edition \in Nat /\ restored \subseteq Cards
    /\ receipts \in Seq([request : Requests, body : Bodies, head : Nat, edition : Nat,
                         action : Actions, cited : [Cards -> Nat], context : Nat,
                         state_revision : Nat, pending : Nat])
    /\ contexts \in Seq([session : Sessions, clarify_turns : 1..2, state_revision : Nat,
                         offered : BOOLEAN, edition : Nat, expired : BOOLEAN])
    /\ questions \in Seq([key : SemanticKeys \cup {NoKey}, status : {"WAITING", "ANSWERED"},
                          reached : SUBSET Nat])
    /\ failed \in Seq([request : Requests, body : Bodies])
    /\ aged \in Nat /\ calls \in Nat
    /\ call \in [Calls -> [pc : {"idle", "read", "search", "save", "failed"},
                           request : Requests \cup {"none"}, body : Bodies \cup {NoBody},
                           edition : Nat, served : [Cards -> Nat], head : Nat,
                           failed_head : Nat, clarify_turns : Nat, stale : BOOLEAN,
                           plan : [action : Actions \cup {"NONE"}, cited : [Cards -> Nat],
                                   key : SemanticKeys \cup {NoKey}]]]

Init ==
    /\ Store!Init
    /\ receipts = <<>> /\ contexts = <<>> /\ questions = <<>> /\ failed = <<>>
    /\ aged = 0
    /\ calls = 0
    /\ call = [p \in Calls |-> Idle]

----------------------------------------------------------------------------
(* Receipts and failed turns, as a transaction that holds the session lock  *)
(* reads them *)

ReceiptsOf(r) == {i \in DOMAIN receipts : receipts[i].request = r}

(* The latest of some rows, 0 when there is none.                           *)
Last(indices) ==
    LET latest == {i \in indices : \A k \in indices : k <= i}
    IN IF latest = {} THEN 0 ELSE CHOOSE i \in latest : TRUE

(* dialogue_history.load_history, validate_history_head                     *)
HistoryHead(session) == Last({i \in DOMAIN receipts : receipts[i].body.session = session})

(* failed_user_turns.failed_turns: the latest one, without those of the     *)
(* request itself and those that were answered after all.                   *)
FailedHead(session, request) ==
    Last({f \in DOMAIN failed : /\ failed[f].body.session = session /\ f > aged
                                /\ failed[f].request # request
                                /\ ReceiptsOf(failed[f].request) = {}})

(* failed_user_turns.validate_failed_request                                *)
SameFailedRequest(request, body) ==
    \A f \in DOMAIN failed : failed[f].request = request /\ f > aged => failed[f].body = body

(* The turns that are planned with the history of the session.              *)
Free(body) == body.kind = "ask" /\ ~body.policy

(* Fault: a notice can be confirmed again.                                  *)
FaultConfirmable(body) ==
    /\ body.ref \in DOMAIN receipts
    /\ receipts[body.ref].action = "SAFE_ROUTE"
    /\ receipts[body.ref].body.session = body.session

(* answer_storage.validate_policy_confirmation                              *)
Confirmable(body) ==
    /\ body.ref \in DOMAIN receipts
    /\ receipts[body.ref].action = "SAFE_ROUTE"
    /\ receipts[body.ref].body.session = body.session
    /\ \A i \in DOMAIN receipts : ~(/\ receipts[i].body.kind = "confirm"
                                    /\ receipts[i].body.ref = body.ref)

(* Fault: an open offer is enough, whichever offer the member answers.      *)
FaultAcceptable(body) ==
    LET x == contexts[body.ref] IN
    /\ x.session = body.session /\ ~x.expired
    /\ x.edition <= edition
    /\ x.offered

(* question_contexts.load_context and accept_selection                      *)
Acceptable(body) ==
    LET x == contexts[body.ref] IN
    /\ x.session = body.session /\ ~x.expired
    /\ x.edition <= edition
    /\ x.state_revision = body.state_revision
    /\ x.offered

----------------------------------------------------------------------------
(* A call *)

Enter(p, pc) == call' = [call EXCEPT ![p].pc = pc]
Return(p) == call' = [call EXCEPT ![p] = Idle]

(* What a client sends: a question, an answer to an offer it was shown, or  *)
(* the confirmation of a notice it was shown.                               *)
Ask(session, policy) == [kind |-> "ask", session |-> session, policy |-> policy, ref |-> 0,
                         state_revision |-> 0]
Choose(i) == [kind |-> "choose", session |-> receipts[i].body.session, policy |-> FALSE,
              ref |-> receipts[i].context, state_revision |-> receipts[i].state_revision]
Confirm(i) == [kind |-> "confirm", session |-> receipts[i].body.session, policy |-> TRUE,
               ref |-> i, state_revision |-> 0]

Sendable ==
    {Ask(s, b) : s \in Sessions, b \in BOOLEAN}
    \cup {Choose(i) : i \in {k \in DOMAIN receipts : receipts[k].action = "CLARIFY"}}
    \cup {Confirm(i) : i \in {k \in DOMAIN receipts : receipts[k].action = "SAFE_ROUTE"}}

(* answer_storage.saved_reply: a repeated request gets its stored reply, or *)
(* a conflict when its body is another one or the reply is a day old.       *)
saved_reply(p, request, body) ==
    /\ call[p].pc = "idle" /\ calls < MaxCalls
    /\ call' = IF SameFailedRequest(request, body) /\ ReceiptsOf(request) = {}
               THEN [call EXCEPT ![p] = [Idle EXCEPT !.pc = "read", !.request = request,
                                                     !.body = body]]
               ELSE call
    /\ calls' = calls + 1
    /\ UNCHANGED <<storeVars, turnVars, failed, aged>>

(* empty.ensure_initial_publication, before the store's first turn.         *)
Unpublished(body) ==
    body.kind # "confirm" /\ edition = 0 /\ \A c \in Cards : status[c] # "APPROVED"
ensure_initial_publication(p) ==
    /\ call[p].pc = "read" /\ Unpublished(call[p].body)
    /\ Store!Publish({}, {})
    /\ UNCHANGED <<turnVars, failed, aged, calls, call>>

Readable(body) ==
    /\ edition # 0
    /\ body.kind = "confirm" => Confirmable(body)
    /\ body.kind = "choose" => Acceptable(body)

(* The transaction before the model calls: the current edition, and the     *)
(* history of the session or the chosen context.                            *)
ReadContext(p) ==
    LET body == call[p].body IN
    /\ call[p].pc = "read" /\ ~Unpublished(body)
    /\ IF ~Readable(body) THEN Return(p)
       ELSE call' = [call EXCEPT ![p] =
                [@ EXCEPT !.pc = "search", !.edition = edition, !.served = served,
                          !.head = IF Free(body) THEN HistoryHead(body.session) ELSE 0,
                          !.failed_head = IF Free(body)
                                          THEN FailedHead(body.session, call[p].request) ELSE 0,
                          !.clarify_turns = IF body.kind = "choose"
                                            THEN contexts[body.ref].clarify_turns ELSE 0]]
    /\ UNCHANGED <<storeVars, turnVars, failed, aged, calls>>

Listed(edition_served) == {c \in Cards : edition_served[c] # 0}
Searches(p) == Listed(call[p].served) # {} /\ ~call[p].body.policy

(* hybrid.search_channels: the documents of the current edition whose card  *)
(* is approved at that version.                                             *)
Candidates == {c \in Listed(served) : status[c] = "APPROVED" /\ published[c] = served[c]}

(* Fault: the planner does not count the offers of a context.               *)
FaultPlans(p) ==
    IF call[p].body.kind = "confirm" THEN {[NoPlan EXCEPT !.action = "ESCALATE"]}
    ELSE IF call[p].body.policy THEN {[NoPlan EXCEPT !.action = "SAFE_ROUTE"]}
    ELSE {[NoPlan EXCEPT !.action = "ESCALATE", !.key = k] : k \in SemanticKeys \cup {NoKey}}
         \cup (IF Searches(p) /\ Candidates # {} THEN {[NoPlan EXCEPT !.action = "CLARIFY"]} ELSE {})

(* planner.decide and the semantic steps after it, by what they may plan.   *)
Plans(p) ==
    IF call[p].body.kind = "confirm" THEN {[NoPlan EXCEPT !.action = "ESCALATE"]}
    ELSE IF call[p].body.policy THEN {[NoPlan EXCEPT !.action = "SAFE_ROUTE"]}
    ELSE {[NoPlan EXCEPT !.action = "ESCALATE", !.key = k] : k \in SemanticKeys \cup {NoKey}}
         \cup (IF ~Searches(p) \/ Candidates = {} \/ call[p].clarify_turns >= 2 THEN {}
               ELSE {[NoPlan EXCEPT !.action = "CLARIFY"]})
         \cup {[NoPlan EXCEPT !.action = "ANSWER",
                              !.cited = [c \in Cards |-> IF c \in cards THEN served[c] ELSE 0]] :
                  cards \in IF Searches(p) THEN SUBSET Candidates \ {{}} ELSE {}}

(* Searching reads the current edition once more, and the plan is made on   *)
(* what it found.  An escalation planned after a stale answer is refused.   *)
Plan(p) ==
    /\ call[p].pc = "search"
    /\ \E plan \in Plans(p) :
          IF call[p].stale /\ plan.action = "ESCALATE" THEN Return(p)
          ELSE call' = [call EXCEPT ![p] =
                   [@ EXCEPT !.pc = "save", !.plan = plan,
                             !.edition = IF Searches(p) THEN edition ELSE call[p].edition,
                             !.served = IF Searches(p) THEN served ELSE call[p].served]]
    /\ UNCHANGED <<storeVars, turnVars, failed, aged, calls>>

(* The semantic check of an ordinary question fails in a recoverable way.   *)
FailSemantics(p) ==
    /\ call[p].pc = "search" /\ Searches(p) /\ Free(call[p].body)
    /\ Enter(p, "failed")
    /\ UNCHANGED <<storeVars, turnVars, failed, aged, calls>>

(* failed_user_turns.record_failed_turn: expired ones are removed first.    *)
record_failed_turn(p) ==
    /\ call[p].pc = "failed"
    /\ IF /\ SameFailedRequest(call[p].request, call[p].body)
          /\ ReceiptsOf(call[p].request) = {}
          /\ \A f \in DOMAIN failed : failed[f].request = call[p].request => f <= aged
       THEN failed' = Append(failed, [request |-> call[p].request, body |-> call[p].body])
       ELSE UNCHANGED failed
    /\ Return(p)
    /\ UNCHANGED <<storeVars, turnVars, aged, calls>>

----------------------------------------------------------------------------
(* answer_storage.save_answer *)

(* Fault: the dialogue is not looked at again.                              *)
FaultDialogueHolds(p) == SameFailedRequest(call[p].request, call[p].body)

(* The session has the turns the plan was made with.                        *)
DialogueHolds(p) ==
    LET session == call[p].body.session IN
    /\ SameFailedRequest(call[p].request, call[p].body)
    /\ FailedHead(session, call[p].request) = call[p].failed_head
    /\ HistoryHead(session) = call[p].head

(* Fault: the edition is compared, the cards are not.                       *)
FaultKnowledgeHolds(p) == call[p].edition = edition

(* The edition the plan was made on is still the public one, and the cards  *)
(* it cites are approved at the versions it cites.                          *)
KnowledgeHolds(p) ==
    /\ call[p].edition = edition
    /\ \A c \in Listed(call[p].plan.cited) :
          status[c] = "APPROVED" /\ published[c] = call[p].plan.cited[c]

LimitReached(p) ==
    LET body == call[p].body IN
    call[p].plan.action = "CLARIFY" /\ body.kind = "choose"
        /\ contexts[body.ref].clarify_turns >= 2

(* Fault: only the check before the model calls asks for an earlier reply.  *)
FaultNewRequest(p) == TRUE

NewRequest(p) == ReceiptsOf(call[p].request) = {}

Storable(p) ==
    LET body == call[p].body IN
    /\ NewRequest(p)
    /\ Free(body) => DialogueHolds(p)
    /\ body.kind = "confirm" => Confirmable(body)

(* Fault: the first offer is not counted.                                   *)
FaultNewContext(session) ==
    [session |-> session, clarify_turns |-> 0, state_revision |-> 1,
     offered |-> TRUE, edition |-> edition, expired |-> FALSE]

(* The context of the turn: the chosen one, accepted and perhaps offering   *)
(* again, or a new one for an offer (question_contexts.accept_context,      *)
(* offer_next_context, create_context).                                     *)
Accepted(x) == [x EXCEPT !.offered = FALSE, !.state_revision = @ + 1, !.edition = edition]
OfferedNext(x) == [x EXCEPT !.offered = TRUE, !.state_revision = @ + 1,
                            !.clarify_turns = @ + 1]
NewContext(session) == [session |-> session, clarify_turns |-> 1, state_revision |-> 1,
                        offered |-> TRUE, edition |-> edition, expired |-> FALSE]
ContextsAfter(p) ==
    LET body == call[p].body
        clarifies == call[p].plan.action = "CLARIFY"
    IN IF body.kind = "choose"
       THEN [contexts EXCEPT ![body.ref] = IF clarifies THEN OfferedNext(Accepted(@))
                                           ELSE Accepted(@)]
       ELSE IF clarifies THEN Append(contexts, NewContext(body.session)) ELSE contexts
ContextOf(p) ==
    IF call[p].body.kind = "choose" THEN call[p].body.ref
    ELSE IF call[p].plan.action = "CLARIFY" THEN Len(contexts) + 1 ELSE 0

(* Fault: a question the owner has answered still takes new askers.         *)
FaultWaiting(key) == {q \in DOMAIN questions : key # NoKey /\ questions[q].key = key}

Waiting(key) == {q \in DOMAIN questions : /\ key # NoKey /\ questions[q].key = key
                                          /\ questions[q].status = "WAITING"}

(* The question an escalation joins, or a new one.                          *)
PendingOf(p) ==
    IF call[p].plan.action # "ESCALATE" THEN 0
    ELSE IF Waiting(call[p].plan.key) = {} THEN Len(questions) + 1
    ELSE CHOOSE q \in Waiting(call[p].plan.key) : TRUE
QuestionsAfter(p) ==
    IF PendingOf(p) = Len(questions) + 1
    THEN Append(questions, [key |-> call[p].plan.key, status |-> "WAITING", reached |-> {}])
    ELSE questions

Receipt(p) ==
    LET x == ContextOf(p) IN
    [request |-> call[p].request, body |-> call[p].body, head |-> call[p].head,
     edition |-> call[p].edition, action |-> call[p].plan.action, cited |-> call[p].plan.cited,
     context |-> x, state_revision |-> IF x = 0 THEN 0 ELSE ContextsAfter(p)[x].state_revision,
     pending |-> PendingOf(p)]

(* Turn, context, question, citations and receipt become visible at once.   *)
save_answer(p) ==
    /\ call[p].pc = "save" /\ Storable(p) /\ KnowledgeHolds(p)
    /\ call[p].body.kind = "choose" => Acceptable(call[p].body)
    /\ ~LimitReached(p)
    /\ receipts' = Append(receipts, Receipt(p))
    /\ contexts' = ContextsAfter(p)
    /\ questions' = QuestionsAfter(p)
    /\ Return(p)
    /\ UNCHANGED <<storeVars, failed, aged, calls>>

(* The earlier reply is returned, or the turn is refused.                   *)
ReplyOrRefuse(p) ==
    /\ call[p].pc = "save"
    /\ \/ ~Storable(p)
       \/ KnowledgeHolds(p) /\ call[p].body.kind = "choose" /\ ~Acceptable(call[p].body)
       \/ KnowledgeHolds(p) /\ LimitReached(p)
    /\ Return(p)
    /\ UNCHANGED <<storeVars, turnVars, failed, aged, calls>>

(* STALE_KNOWLEDGE: the call reads and plans once more.                     *)
Requery(p) ==
    /\ call[p].pc = "save" /\ Storable(p) /\ ~KnowledgeHolds(p)
    /\ IF call[p].stale THEN Return(p)
       ELSE call' = [call EXCEPT ![p] = [@ EXCEPT !.pc = "read", !.stale = TRUE, !.edition = 0,
                                            !.served = Nothing, !.head = 0, !.failed_head = 0,
                                            !.clarify_turns = 0, !.plan = NoPlan]]
    /\ UNCHANGED <<storeVars, turnVars, failed, aged, calls>>

(* The deadline passes, the process dies, or a model or a statement fails.  *)
EndCall(p) ==
    /\ call[p].pc # "idle"
    /\ Return(p)
    /\ UNCHANGED <<storeVars, turnVars, failed, aged, calls>>

----------------------------------------------------------------------------
(* The owner, and time *)

Edit ==
    /\ \/ \E c \in Cards : \/ draft[c] < MaxVersion /\ Store!WriteDraft(c)
                           \/ Store!Exclude(c)
                           \/ Store!Restore(c)
       \/ edition < MaxEdition /\ \E taken, omitted \in SUBSET Cards : Store!Publish(taken, omitted)
    /\ UNCHANGED <<turnVars, failed, aged, calls, call>>

(* owner_delivery.submit_owner_answer, first answer: it goes to the         *)
(* sessions of all turns that asked the question.                           *)
submit_owner_answer(q) ==
    /\ questions[q].status = "WAITING"
    /\ questions' = [questions EXCEPT ![q] =
          [@ EXCEPT !.status = "ANSWERED",
                    !.reached = {i \in DOMAIN receipts : receipts[i].pending = q}]]
    /\ UNCHANGED <<storeVars, receipts, contexts, failed, aged, calls, call>>

(* Ten minutes after the last accepted choice.                              *)
ContextExpires(x) ==
    /\ Expiries /\ ~contexts[x].expired
    /\ contexts' = [contexts EXCEPT ![x].expired = TRUE]
    /\ UNCHANGED <<storeVars, receipts, questions, failed, aged, calls, call>>

(* Calls take seconds, so nobody runs when everything so far becomes old.   *)
DayPasses ==
    /\ Expiries /\ \A p \in Calls : call[p].pc = "idle"
    /\ aged' = Len(failed)
    /\ aged' # aged
    /\ UNCHANGED <<storeVars, turnVars, failed, calls, call>>

----------------------------------------------------------------------------
Step(p) ==
    \/ ensure_initial_publication(p) \/ ReadContext(p)
    \/ Plan(p) \/ FailSemantics(p) \/ record_failed_turn(p)
    \/ save_answer(p) \/ ReplyOrRefuse(p) \/ Requery(p) \/ EndCall(p)

Next ==
    \/ \E p \in Calls, r \in Requests, body \in Sendable : saved_reply(p, r, body)
    \/ \E p \in Calls : Step(p)
    \/ \E q \in DOMAIN questions : submit_owner_answer(q)
    \/ \E x \in DOMAIN contexts : ContextExpires(x)
    \/ Edit
    \/ DayPasses

Spec == Init /\ [][Next]_vars

----------------------------------------------------------------------------
(* Properties *)

Stored == DOMAIN receipts
Earlier(i) == {k \in Stored : k < i}

(* An answer is stored on public knowledge: when it becomes visible, the    *)
(* current edition lists every version it cites and the owner has not       *)
(* excluded the card since, although searching and planning happened        *)
(* earlier and without a lock.                                              *)
AnswersArePublic ==
    [][\A i \in DOMAIN receipts' \ Stored : \A c \in Listed(receipts'[i].cited) :
          status[c] = "APPROVED" /\ served[c] = receipts'[i].cited[c]]_vars

(* No request becomes two turns: calls that repeat a request while it runs  *)
(* never both store, so the unique constraint of r_answer_receipts, which   *)
(* is not modelled, never turns a repeated request into an error.           *)
OneTurnPerRequest ==
    \A i \in Stored : \A k \in Earlier(i) : receipts[k].request # receipts[i].request

(* The dialogue of a session is what its turns were planned with: between   *)
(* an ordinary turn and the turn it took for the last one, no other turn    *)
(* was stored by another device, although planning took seconds.            *)
TurnsSeeDialogue ==
    \A i \in Stored : Free(receipts[i].body) =>
        receipts[i].head =
            Last({k \in Earlier(i) : receipts[k].body.session = receipts[i].body.session})

(* Every offer is answered at most once, and by the state that made it: two *)
(* stored turns never chose the same offer, and a choice answers an offer   *)
(* that an earlier turn made.                                               *)
OffersAnsweredOnce ==
    \A i \in Stored : receipts[i].body.kind = "choose" =>
        /\ \A k \in Earlier(i) : receipts[k].body # receipts[i].body
        /\ \E k \in Earlier(i) : /\ receipts[k].action = "CLARIFY"
                                 /\ receipts[k].context = receipts[i].body.ref
                                 /\ receipts[k].state_revision = receipts[i].body.state_revision

(* A safety notice is confirmed at most once, so the owner is asked once.   *)
ConfirmedOnce ==
    \A i \in Stored : receipts[i].body.kind = "confirm" =>
        \A k \in Earlier(i) : receipts[k].body # receipts[i].body

(* Everybody whose question was handed to the owner still waits or has got  *)
(* the answer: an escalation never joins a question that the owner answered *)
(* while the turn was being stored.                                         *)
AskersAreAnswered ==
    \A i \in Stored : receipts[i].action = "ESCALATE" =>
        LET question == questions[receipts[i].pending] IN
        question.status = "WAITING" \/ i \in question.reached

(* The ClarificationLimit that offer_next_context raises and save_answer    *)
(* does not catch is never raised: a plan that would offer a third time is  *)
(* refused before, because the context it counted on has moved.             *)
LimitNeverRaised ==
    \A p \in Calls : call[p].pc = "save" /\ LimitReached(p) =>
        contexts[call[p].body.ref].state_revision # call[p].body.state_revision
=============================================================================
