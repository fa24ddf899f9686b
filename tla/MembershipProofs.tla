-------------------------- MODULE MembershipProofs --------------------------
(***************************************************************************)
(* What is proved of accounts and members, for every set of devices, stores  *)
(* and simultaneous calls: type correctness, the four properties of the run  *)
(* membership, and its action property.                                     *)
(***************************************************************************)
EXTENDS Membership, SequenceTheorems, TLAPS

(* What a call refers to exists.                                            *)
Refers(c) ==
    /\ call[c].pc \in {"refresh", "rotate", "revoke"} => call[c].item \in 1..Len(tokens)
    /\ call[c].pc \in {"payload", "answer"} => call[c].item \in 0..Len(tokens)
    /\ call[c].pc \in {"insert", "issue", "refresh", "rotate", "payload", "revoke", "answer",
                       "callback", "find", "create", "ask"} => call[c].device \in Devices
    /\ call[c].pc \in {"decided", "admit"} =>
          /\ call[c].item \in 1..Len(requests)
          /\ call[c].store = requests[call[c].item].store
    /\ call[c].pc \in {"role", "active", "existing", "request", "key", "reread"} =>
          call[c].store \in Stores /\ call[c].op = "join"
    /\ call[c].pc \in {"link", "conflict"} => call[c].store \in Stores

(* Nobody works for an account that does not exist yet.                     *)
Unknown ==
    role = "absent" =>
        /\ tokens = <<>> /\ requests = <<>>
        /\ \A d \in Devices : claims[d] = "none"
        /\ \A c \in Calls : call[c].pc \in {"idle", "insert", "callback", "find", "create", "link",
                                            "conflict"}

(* A role is chosen once, and whatever depends on it knows it.              *)
Chosen ==
    /\ \A d \in Devices : claims[d] \in {"OWNER", "STAFF"} => role = claims[d]
    /\ \A c \in Calls :
          /\ call[c].role \in {"OWNER", "STAFF"} => role = call[c].role
          /\ call[c].pc \in {"existing", "request", "key", "reread"} => role = "STAFF"
          /\ call[c].pc = "store" => role = "OWNER"
    /\ requests # <<>> => role = "STAFF"
    /\ owned > 0 => role = "OWNER"
    /\ \A s \in Stores : member[s] = "active" => role = "STAFF"

(* The row of the person is locked between two statements of a rotation, an  *)
(* approval or a Kakao sign-in, and what they read before holds until they  *)
(* commit.                                                                  *)
LockHeld ==
    \A c \in Calls :
        /\ row = c <=> call[c].pc \in {"rotate", "admit", "ask"}
        /\ call[c].pc = "rotate" /\ call[c].seen = "live" => tokens[call[c].item].status = "live"
        /\ call[c].pc = "admit" /\ call[c].seen # "other" =>
              \A s \in Stores : member[s] = "active" => s = call[c].store

(* Stores that have a request waiting.                                      *)
Waiting == {requests[i].store : i \in {j \in DOMAIN requests : IsPending(j)}}

(* What is known of a call that asks to join while it has the row locked,    *)
(* and which calls the others are.                                          *)
Signing(c) ==
    /\ call[c].pc = "insert" => call[c].op = "signup"
    /\ call[c].pc \in {"callback", "find", "create", "ask"} => call[c].op = "kakao" /\ kakao
    /\ call[c].pc = "ask" => /\ row = c /\ role \in {"unset", "STAFF"}
                            /\ call[c].store \in Stores /\ call[c].store \notin Waiting
    /\ call[c].op = "approve" => call[c].pc \in {"decided", "admit", "raised"}

(* A new family has a number of its own.                                    *)
FamiliesNumbered == \A t \in 1..Len(tokens) : tokens[t].family \in 1..Len(tokens)

(* What the loser of a race for a unique row will find.                     *)
Asked(s) == \E i \in 1..Len(requests) : requests[i].store = s

(* The unique index has turned the call away.                               *)
Loser(c) ==
    /\ call[c].seen = "again" => role # "absent" /\ call[c].pc # "create"
    /\ call[c].pc = "conflict" => call[c].store \in linked
    /\ call[c].pc = "reread" => Asked(call[c].store)

(* A call fails only where RacesAreAnswered says.                           *)
Decided(s) == \E i \in 1..Len(requests) :
                 requests[i].store = s /\ requests[i].status # "PENDING"

Answered(c) ==
    At(c, "raised") =>
        \/ call[c].op = "signup" /\ role # "absent"
        \/ call[c].op = "join" /\ Decided(call[c].store)
        \/ call[c].op \in {"join", "kakao"} /\ kakao /\ call[c].seen = "victim"

(* The inductive invariant.                                                 *)
Safe ==
    /\ TypeOK
    /\ \A c \in Calls : Refers(c)
    /\ Unknown /\ Chosen /\ LockHeld /\ OneWorkplace
    /\ FamiliesNumbered /\ FamiliesAreSound
    /\ \A c \in Calls : Signing(c) /\ Loser(c) /\ Answered(c)

----------------------------------------------------------------------------
(* What the actions with branches do, branch by branch.                     *)
Quits(c) ==
    /\ call' = [call EXCEPT ![c] = Idle]
    /\ UNCHANGED <<kakao, role, tokens, jar, claims, row, ended, memberVars>>

Goes(c, pc) ==
    /\ call' = [call EXCEPT ![c].pc = pc]
    /\ UNCHANGED <<kakao, role, tokens, jar, claims, row, ended, memberVars>>

Opens(c, r) ==
    /\ role = "absent" /\ role' = r
    /\ UNCHANGED <<kakao, tokens, jar, claims, row, ended, memberVars>>

Asks(c) ==
    /\ call[c].store # NoStore
    /\ role' = "STAFF" /\ requests' = WithRequest(call[c].store)
    /\ call' = [call EXCEPT ![c].pc = "issue"]
    /\ UNCHANGED <<kakao, tokens, jar, claims, row, ended, member, owned, linked>>

Holds(c) ==
    /\ row = NoCall /\ row' = c
    /\ call[c].store # NoStore /\ ~Pending(call[c].store)
    /\ call' = [call EXCEPT ![c].pc = "ask"]
    /\ UNCHANGED <<kakao, role, tokens, jar, claims, ended, memberVars>>

SignsUp(c) ==
    \E r \in Roles : Opens(c, r) /\ call' = [call EXCEPT ![c].pc = "issue", ![c].role = r]

Creates(c) == Opens(c, "unset") /\ call' = [call EXCEPT ![c].pc = "issue"]

Repeats(c, pc) ==
    /\ call' = [call EXCEPT ![c].seen = "again", ![c].pc = pc]
    /\ UNCHANGED <<kakao, role, tokens, jar, claims, row, ended, memberVars>>

Inserts(c) ==
    /\ ~Pending(call[c].store) /\ call' = [call EXCEPT ![c] = Idle]
    /\ requests' = Append(requests, [store |-> call[c].store, status |-> "PENDING"])
    /\ UNCHANGED <<kakao, role, tokens, jar, claims, row, ended, member, owned, linked>>

Links(c) ==
    /\ linked' = linked \cup {call[c].store} /\ call' = [call EXCEPT ![c] = Idle]
    /\ UNCHANGED <<kakao, role, tokens, jar, claims, row, ended, member, owned, requests>>

Frees(c) == row' = IF row = c THEN NoCall ELSE row

Obtains(c) ==
    /\ role' = "STAFF" /\ requests' = WithRequest(call[c].store) /\ Frees(c)
    /\ call' = [call EXCEPT ![c].pc = "issue"]
    /\ UNCHANGED <<kakao, tokens, jar, claims, ended, member, owned, linked>>

Falls(c) ==
    /\ call' = [call EXCEPT ![c].pc = "raised", ![c].seen = "victim"] /\ Frees(c)
    /\ UNCHANGED <<kakao, role, tokens, jar, claims, ended, memberVars>>

Succeeds(c) ==
    /\ call[c].seen = "live" /\ ended' = ended /\ Frees(c)
    /\ tokens' = Append([tokens EXCEPT ![call[c].item].status = "recent"],
                        [family |-> tokens[call[c].item].family, status |-> "live"])
    /\ call' = [call EXCEPT ![c].pc = "payload", ![c].item = Len(tokens) + 1]
    /\ UNCHANGED <<kakao, role, jar, claims, memberVars>>

Refuses(c, families) ==
    /\ call[c].seen \in {"stale", "recent"} /\ Frees(c)
    /\ call[c].seen = "recent" => families = {}
    /\ tokens' = WithRevoked(tokens, families)
    /\ ended' = ended \cup families
    /\ call' = [call EXCEPT ![c] = Idle]
    /\ UNCHANGED <<kakao, role, jar, claims, memberVars>>

Answers(c) ==
    /\ call' = [call EXCEPT ![c] = Idle]
    /\ jar' = jar \/ jar' = [jar EXCEPT ![call[c].device] = call[c].item]
    /\ \/ claims' = claims
       \/ claims' = [claims EXCEPT ![call[c].device] = "none"]
       \/ /\ call[c].op \notin {"logout", "kakao"}
          /\ claims' = [claims EXCEPT ![call[c].device] = call[c].role]
    /\ UNCHANGED <<kakao, role, tokens, row, ended, memberVars>>

RollsBack(c) ==
    /\ call' = [call EXCEPT ![c] = Idle] /\ Frees(c)
    /\ UNCHANGED <<kakao, role, tokens, jar, claims, ended, memberVars>>

Admits(c) ==
    /\ call[c].seen # "other" /\ call' = [call EXCEPT ![c] = Idle] /\ Frees(c)
    /\ requests' = [requests EXCEPT ![call[c].item].status = "APPROVED"]
    /\ member' = [member EXCEPT ![call[c].store] = "active"]
    /\ UNCHANGED <<kakao, role, tokens, jar, claims, ended, owned, linked>>

Founds(c) ==
    /\ owned' \in {owned, owned + 1}
    /\ call' = [call EXCEPT ![c] = Idle]
    /\ UNCHANGED <<kakao, role, tokens, jar, claims, row, ended, member, requests, linked>>

Issues(c) ==
    /\ tokens' = Append(tokens, [family |-> Len(tokens) + 1, status |-> "live"])
    /\ call' = [call EXCEPT ![c].pc = "answer", ![c].item = Len(tokens) + 1]
    /\ UNCHANGED <<kakao, role, jar, claims, row, ended, memberVars>>

Locks(c, pc, seen) ==
    /\ row = NoCall /\ row' = c
    /\ call' = [call EXCEPT ![c].pc = pc, ![c].seen = seen]
    /\ UNCHANGED <<kakao, role, tokens, jar, claims, ended, memberVars>>

Clears(c, families) ==
    /\ tokens' = WithRevoked(tokens, families)
    /\ ended' = ended \cup families
    /\ UNCHANGED <<kakao, role, jar, claims, row, memberVars>>

(* The address is taken or an account is made (SignupInsert).               *)
LEMMA SignupInsertBranches ==
    ASSUME NEW c \in Calls, SignupInsert(c), UNCHANGED memberVars
    PROVE  /\ At(c, "insert")
           /\ (role # "absent" /\ Goes(c, "raised")) \/ SignsUp(c)
  BY DEF SignupInsert, Goes, Opens, SignsUp

(* The link has been rotated in between or is looked at (kakao_callback).   *)
LEMMA CallbackBranches ==
    ASSUME NEW c \in Calls, kakao_callback(c)
    PROVE  /\ At(c, "callback")
           /\ \/ Quits(c)
              \/ Goes(c, "find")
  BY DEF kakao_callback, Return, Quits, Goes

(* Signing in, locking the row in order to ask, a request that is there     *)
(* already, or a refusal (complete_kakao_login).                            *)
LEMMA EnterBranches ==
    ASSUME NEW c \in Calls, EnterAccount(c)
    PROVE  /\ At(c, "find") /\ role # "absent" /\ row = NoCall
           /\ \/ Quits(c)
              \/ Goes(c, "issue")
              \/ Asks(c) /\ (role = "unset" \/ MayRequest(role, call[c].store))
              \/ Holds(c) /\ (role = "unset" \/ MayRequest(role, call[c].store))
<1> DEFINE s == call[c].store
           asks == s # NoStore /\ (role = "unset" \/ MayRequest(role, s))
<1>1. CASE asks /\ ~Pending(s)
  <2>1. row' = c /\ call' = [call EXCEPT ![c].pc = "ask"] /\ role' = role
    BY <1>1 DEF EnterAccount
  <2> QED BY <1>1, <2>1 DEF EnterAccount, RowFree, Holds
<1>2. CASE asks /\ Pending(s)
  <2>1. role' = "STAFF" /\ call' = [call EXCEPT ![c].pc = "issue"] /\ row' = row
    BY <1>2 DEF EnterAccount
  <2>2. requests' = WithRequest(s)
    BY <1>2 DEF EnterAccount, memberVars, WithRequest
  <2> QED BY <1>2, <2>1, <2>2 DEF EnterAccount, RowFree, Asks, memberVars
<1>3. CASE ~asks
  <2>1. /\ role' = role /\ row' = row
        /\ call' = [call EXCEPT ![c].pc = "issue"] \/ call' = [call EXCEPT ![c] = Idle]
    BY <1>3 DEF EnterAccount, Return
  <2> QED BY <2>1 DEF EnterAccount, RowFree, Goes, Quits
<1> QED BY <1>1, <1>2, <1>3

(* The request is made under the lock (RequestAtSignIn).                    *)
LEMMA ObtainEffect ==
    ASSUME NEW c \in Calls, RequestAtSignIn(c)
    PROVE  At(c, "ask") /\ Obtains(c)
  BY DEF RequestAtSignIn, Release, Frees, Obtains

(* The victim of a deadlock loses its transaction, and someone asks to join. *)
LEMMA DeadlockEffect ==
    ASSUME NEW c \in Calls, Deadlock(c)
    PROVE  Falls(c) /\ \E b \in Calls : WaitsFor(c, b) /\ WaitsFor(b, c)
  BY DEF Deadlock, Release, Frees, Falls

(* A request is waiting, or the entry is made (InsertRequest).              *)
LEMMA InsertRequestBranches ==
    ASSUME NEW c \in Calls, InsertRequest(c)
    PROVE  /\ At(c, "request")
           /\ \/ Pending(call[c].store) /\ Goes(c, "reread")
              \/ Goes(c, "key")
  BY DEF InsertRequest, Goes

(* The unique index lets one PENDING request in (ReferencePerson).          *)
LEMMA ReferenceBranches ==
    ASSUME NEW c \in Calls, ReferencePerson(c)
    PROVE  At(c, "key") /\ row = NoCall /\ (Quits(c) \/ Inserts(c))
<1>1. CASE Pending(call[c].store)
  <2>1. call' = [call EXCEPT ![c] = Idle] /\ requests' = requests
    BY <1>1 DEF ReferencePerson, WithRequest, Return
  <2> QED BY <1>1, <2>1 DEF ReferencePerson, RowFree, Quits, memberVars
<1>2. CASE ~Pending(call[c].store)
  <2>1. /\ call' = [call EXCEPT ![c] = Idle]
        /\ requests' = Append(requests, [store |-> call[c].store, status |-> "PENDING"])
    BY <1>2 DEF ReferencePerson, WithRequest, Return
  <2> QED BY <1>2, <2>1 DEF ReferencePerson, RowFree, Inserts
<1> QED BY <1>1, <1>2

(* The request that came first is found, or decided already (ReadRequest).  *)
LEMMA ReadRequestBranches ==
    ASSUME NEW c \in Calls, ReadRequest(c)
    PROVE  /\ At(c, "reread")
           /\ \/ Quits(c)
              \/ ~Pending(call[c].store) /\ Goes(c, "raised")
  BY DEF ReadRequest, Return, Quits, Goes

(* The first link of a store wins (InsertLink).                             *)
LEMMA InsertLinkBranches ==
    ASSUME NEW c \in Calls, InsertLink(c)
    PROVE  /\ At(c, "link")
           /\ \/ call[c].store \in linked /\ Goes(c, "conflict")
              \/ Links(c)
  BY DEF InsertLink, Return, Goes, Links, memberVars

(* The link that won is read (ReadLink).                                    *)
LEMMA ReadLinkBranches ==
    ASSUME NEW c \in Calls, ReadLink(c)
    PROVE  /\ At(c, "conflict")
           /\ \/ Quits(c)
              \/ call[c].store \notin linked /\ Goes(c, "raised")
<1>1. CASE call[c].store \in linked
  BY <1>1 DEF ReadLink, Quits
<1>2. CASE call[c].store \notin linked
  BY <1>2 DEF ReadLink, Goes
<1> QED BY <1>1, <1>2 DEF ReadLink, RowFree

(* A rotation issues a successor, ends the family, or gives nothing at all  *)
(* (rotate_refresh).                                                        *)
LEMMA RotateBranches ==
    ASSUME NEW c \in Calls, rotate_refresh(c), UNCHANGED memberVars
    PROVE  /\ At(c, "rotate")
           /\ \/ Succeeds(c)
              \/ \E families \in SUBSET {tokens[call[c].item].family} : Refuses(c, families)
<1>1. CASE call[c].seen = "live"
  BY <1>1 DEF rotate_refresh, Successor, Release, Frees, Succeeds
<1>2. CASE call[c].seen = "stale"
  <2>1. Refuses(c, {tokens[call[c].item].family})
    BY <1>2 DEF rotate_refresh, Reuse, Release, Return, Frees, Refuses
  <2> QED BY <2>1 DEF rotate_refresh
<1>3. CASE call[c].seen = "recent"
  <2>1. Refuses(c, {})
    BY <1>3 DEF rotate_refresh, Reuse, Release, Return, Frees, Refuses
  <2> QED BY <2>1 DEF rotate_refresh
<1> QED BY <1>1, <1>2, <1>3 DEF rotate_refresh

(* The answer sets the cookie unless it is the choice of a role, and the    *)
(* role of the access token unless it is a redirect (Answer).               *)
LEMMA AnswerEffect ==
    ASSUME TypeOK, NEW c \in Calls, Answer(c), UNCHANGED memberVars, call[c].device \in Devices
    PROVE  At(c, "answer") /\ Answers(c)
<1>1. jar' = jar \/ jar' = [jar EXCEPT ![call[c].device] = call[c].item]
  BY DEF Answer, TypeOK
<1>2. CASE call[c].op = "logout"
  BY <1>1, <1>2 DEF Answer, Return, Answers
<1>3. CASE call[c].op = "kakao"
  <2>1. claims' = claims BY <1>3 DEF Answer, TypeOK
  <2> QED BY <1>1, <2>1 DEF Answer, Return, Answers
<1>4. CASE call[c].op \notin {"logout", "kakao"}
  BY <1>1, <1>4 DEF Answer, Return, Answers
<1> QED BY <1>2, <1>3, <1>4

(* A request is approved, or the decision is rolled back (Admit).           *)
LEMMA AdmitBranches ==
    ASSUME NEW c \in Calls, Admit(c)
    PROVE  At(c, "admit") /\ (RollsBack(c) \/ Admits(c))
<1>1. CASE call[c].seen = "other"
  BY <1>1 DEF Admit, Release, Return, RollsBack, Frees, memberVars
<1>2. CASE call[c].seen # "other"
  BY <1>2 DEF Admit, Release, Return, Admits, Frees
<1> QED BY <1>1, <1>2 DEF Admit

(* A request that dies takes its transaction and its lock with it.          *)
LEMMA LoseEffect ==
    ASSUME NEW c \in Calls, Lose(c), UNCHANGED memberVars
    PROVE  RollsBack(c)
  BY DEF Lose, Return, Release, RollsBack, Frees

(* The store is inserted or its slug is taken.                              *)
LEMMA InsertStoreEffect ==
    ASSUME NEW c \in Calls, InsertStore(c)
    PROVE  At(c, "store") /\ Founds(c)
  BY DEF InsertStore, Return, Founds

(* A session starts with a family of its own.                               *)
LEMMA IssueEffect ==
    ASSUME NEW c \in Calls, issue_refresh(c), UNCHANGED memberVars
    PROVE  At(c, "issue") /\ row = NoCall /\ Issues(c)
  BY DEF issue_refresh, RowFree, Issues

(* The rotation locks the row and reads the token again.                    *)
LEMMA LockTokenEffect ==
    ASSUME NEW c \in Calls, LockToken(c), UNCHANGED memberVars
    PROVE  At(c, "refresh") /\ Locks(c, "rotate", tokens[call[c].item].status)
  BY DEF LockToken, ReadToken, RowFree, Locks

(* The approval locks the row and looks for another store.                  *)
LEMMA LockPersonBranches ==
    ASSUME NEW c \in Calls, LockPerson(c)
    PROVE  /\ At(c, "decided")
           /\ \/ Locks(c, "admit", "other")
              \/ Locks(c, "admit", "none") /\ ActiveStores \subseteq {call[c].store}
<1>1. CASE ActiveStores \subseteq {call[c].store}
  BY <1>1 DEF LockPerson, LookElsewhere, RowFree, Locks
<1>2. CASE ~(ActiveStores \subseteq {call[c].store})
  BY <1>2 DEF LockPerson, LookElsewhere, RowFree, Locks
<1> QED BY <1>1, <1>2

(* A logout ends the family of the cookie.                                  *)
LEMMA RevokeFamilyEffect ==
    ASSUME NEW c \in Calls, revoke_family_of(c), UNCHANGED memberVars
    PROVE  /\ At(c, "revoke") /\ row = NoCall
           /\ Clears(c, {tokens[call[c].item].family})
           /\ call' = [call EXCEPT ![c].pc = "answer", ![c].item = 0]
  BY DEF revoke_family_of, RowFree, Clears

(* The removal of a member ends all families.                               *)
LEMMA RevokeAllEffect ==
    ASSUME NEW c \in Calls, revoke_user_sessions(c), UNCHANGED memberVars
    PROVE  /\ At(c, "signout") /\ row = NoCall
           /\ Clears(c, Families)
           /\ call' = [call EXCEPT ![c] = Idle]
  BY DEF revoke_user_sessions, Return, RowFree, Clears

----------------------------------------------------------------------------
(* The sequences of tokens and of requests.                                 *)
Tokens == [family : Nat, status : Statuses]

(* Revoking keeps the tokens and their families, and revokes every token    *)
(* of the families that was live (WithRevoked).                             *)
LEMMA RevokedTokens ==
    ASSUME NEW ts \in Seq(Tokens), NEW families
    PROVE  /\ WithRevoked(ts, families) \in Seq(Tokens)
           /\ Len(WithRevoked(ts, families)) = Len(ts)
           /\ \A t \in 1..Len(ts) :
                 /\ WithRevoked(ts, families)[t].family = ts[t].family
                 /\ WithRevoked(ts, families)[t].status =
                       IF ts[t].family \in families /\ ts[t].status = "live" THEN "recent"
                       ELSE ts[t].status
<1> DEFINE new == WithRevoked(ts, families)
<1>1. DOMAIN ts = 1..Len(ts) /\ Len(ts) \in Nat
  BY LenProperties
<1>2. new = [t \in 1..Len(ts) |-> IF ts[t].family \in families /\ ts[t].status = "live"
                                  THEN [ts[t] EXCEPT !.status = "recent"] ELSE ts[t]]
  BY <1>1 DEF WithRevoked
<1>3. \A t \in 1..Len(ts) : ts[t] \in Tokens
  BY ElementOfSeq
<1>4. \A t \in 1..Len(ts) : new[t] \in Tokens
  BY <1>2, <1>3 DEF Tokens, Statuses, Revoked
<1>5. new \in Seq(Tokens)
  BY <1>1, <1>2, <1>4, SeqDef
<1>6. Len(new) = Len(ts)
  BY <1>1, <1>2, <1>5, LenProperties
<1>7. ASSUME NEW t \in 1..Len(ts)
      PROVE  /\ new[t].family = ts[t].family
             /\ new[t].status = IF ts[t].family \in families /\ ts[t].status = "live"
                                THEN "recent" ELSE ts[t].status
  BY <1>2, <1>3 DEF Tokens
<1> QED BY <1>5, <1>6, <1>7

(* One status changes (LockToken's successor, GraceEnds).                   *)
LEMMA StatusChanged ==
    ASSUME NEW ts \in Seq(Tokens), NEW i \in 1..Len(ts), NEW new \in Statuses
    PROVE  LET changed == [ts EXCEPT ![i].status = new] IN
           /\ changed \in Seq(Tokens) /\ Len(changed) = Len(ts)
           /\ \A t \in 1..Len(ts) :
                 /\ changed[t].family = ts[t].family
                 /\ changed[t].status = IF t = i THEN new ELSE ts[t].status
<1> DEFINE changed == [ts EXCEPT ![i].status = new]
<1>1. \A t \in 1..Len(ts) : ts[t] \in Tokens
  BY ElementOfSeq
<1>2. DOMAIN ts = 1..Len(ts) /\ Len(ts) \in Nat
  BY LenProperties
<1>3. changed = [ts EXCEPT ![i] = [ts[i] EXCEPT !.status = new]]
  OBVIOUS
<1>4. [ts[i] EXCEPT !.status = new] \in Tokens
  BY <1>1 DEF Tokens
<1>5. changed \in Seq(Tokens) /\ Len(changed) = Len(ts)
  BY <1>3, <1>4, ExceptSeq
<1>6. \A t \in 1..Len(ts) :
         /\ changed[t].family = ts[t].family
         /\ changed[t].status = IF t = i THEN new ELSE ts[t].status
  BY <1>1, <1>2 DEF Tokens
<1> QED BY <1>5, <1>6

(* Rows of store_join_requests.                                             *)
Requests == [store : Stores, status : {"PENDING", "APPROVED", "REJECTED"}]

(* Asking again changes nothing while a request is pending (WithRequest).   *)
LEMMA RequestAdded ==
    ASSUME requests \in Seq(Requests), NEW s \in Stores
    PROVE  /\ WithRequest(s) \in Seq(Requests)
           /\ Len(WithRequest(s)) \in {Len(requests), Len(requests) + 1}
           /\ \A i \in 1..Len(requests) : WithRequest(s)[i] = requests[i]
           /\ Len(WithRequest(s)) # Len(requests) =>
                 WithRequest(s)[Len(requests) + 1].store = s
           /\ \E i \in 1..Len(WithRequest(s)) :
                 WithRequest(s)[i].store = s
<1>1. CASE Pending(s)
  BY <1>1 DEF WithRequest, Pending
<1>2. CASE ~Pending(s)
  BY <1>2 DEF WithRequest, Requests
<1> QED BY <1>1, <1>2


----------------------------------------------------------------------------
(* What a step does to tokens: it issues one of a new family, one in place of *)
(* a live one, revokes families and ends them, or lets the grace end.       *)
NewFamily ==
    /\ tokens' = Append(tokens, [family |-> Len(tokens) + 1, status |-> "live"])
    /\ ended' = ended

Rotates(i) ==
    /\ tokens[i].status = "live"
    /\ tokens' = Append([tokens EXCEPT ![i].status = "recent"],
                        [family |-> tokens[i].family, status |-> "live"])
    /\ ended' = ended

Revokes(families) ==
    /\ tokens' = WithRevoked(tokens, families)
    /\ ended' = ended \cup families

(* Whoever revokes a family has presented one of its tokens late, or ends    *)
(* sessions.                                                                *)
Presented(families) ==
    families # {} =>
        \E c \in Calls :
           /\ call'[c] # call[c]
           /\ \/ call[c].pc \in {"revoke", "signout"}
              \/ /\ At(c, "rotate") /\ call[c].seen = "stale"
                 /\ families = {tokens[call[c].item].family}

Ages(i) ==
    /\ tokens[i].status = "recent"
    /\ tokens' = [tokens EXCEPT ![i].status = "stale"]
    /\ ended' = ended

TokenStep ==
    \/ UNCHANGED <<tokens, ended>>
    \/ NewFamily
    \/ \E i \in 1..Len(tokens) : Rotates(i) \/ Ages(i)
    \/ \E families \in SUBSET Families : Revokes(families) /\ Presented(families)

RequestStep ==
    \/ requests' = requests
    \/ \E s \in Stores : requests' = WithRequest(s)
    \/ \E i \in 1..Len(requests), new \in {"APPROVED", "REJECTED"} :
          requests' = [requests EXCEPT ![i].status = new]

(* Tokens and requests are only added; a token keeps its family, a request   *)
(* its store, and a decision is never undone.                               *)
TokensGrown ==
    /\ tokens' \in Seq(Tokens) /\ Len(tokens') \in Nat /\ Len(tokens') >= Len(tokens)
    /\ \A t \in 1..Len(tokens) : tokens'[t].family = tokens[t].family

RequestsGrown ==
    /\ requests' \in Seq(Requests) /\ Len(requests') \in Nat /\ Len(requests') >= Len(requests)
    /\ \A i \in 1..Len(requests) :
          /\ requests'[i].store = requests[i].store
          /\ requests[i].status # "PENDING" => requests'[i].status # "PENDING"

(* A token of a rotation and of a new session (Successor, issue_refresh).   *)
LEMMA TokenAppended ==
    ASSUME NEW ts \in Seq(Tokens), NEW r \in Tokens
    PROVE  /\ Append(ts, r) \in Seq(Tokens) /\ Len(Append(ts, r)) = Len(ts) + 1
           /\ \A t \in 1..Len(ts) : Append(ts, r)[t] = ts[t]
           /\ Append(ts, r)[Len(ts) + 1] = r
  BY AppendProperties

(* The two sequences and their indices.                                     *)
LEMMA Sequences ==
    ASSUME TypeOK
    PROVE  /\ tokens \in Seq(Tokens) /\ Len(tokens) \in Nat /\ DOMAIN tokens = 1..Len(tokens)
           /\ \A t \in 1..Len(tokens) : tokens[t] \in Tokens
           /\ requests \in Seq(Requests) /\ Len(requests) \in Nat
           /\ DOMAIN requests = 1..Len(requests)
           /\ \A i \in 1..Len(requests) : requests[i] \in Requests
<1>1. tokens \in Seq(Tokens) /\ requests \in Seq(Requests)
  BY DEF TypeOK, Tokens, Requests
<1> QED BY <1>1, LenProperties, ElementOfSeq

(* A rotation, token by token (Successor).                                  *)
LEMMA TokenRotated ==
    ASSUME tokens \in Seq(Tokens), NEW i \in 1..Len(tokens), Rotates(i)
    PROVE  /\ tokens' \in Seq(Tokens) /\ Len(tokens') = Len(tokens) + 1
           /\ \A t \in 1..Len(tokens) :
                 /\ tokens'[t].family = tokens[t].family
                 /\ tokens'[t].status = IF t = i THEN "recent" ELSE tokens[t].status
           /\ tokens'[Len(tokens) + 1].family = tokens[i].family
           /\ tokens'[Len(tokens) + 1].status = "live"
<1> DEFINE old == [tokens EXCEPT ![i].status = "recent"]
           next == [family |-> tokens[i].family, status |-> "live"]
<1>1. "recent" \in Statuses
  BY DEF Statuses, Revoked
<1>2. /\ old \in Seq(Tokens) /\ Len(old) = Len(tokens)
      /\ \A t \in 1..Len(tokens) :
            /\ old[t].family = tokens[t].family
            /\ old[t].status = IF t = i THEN "recent" ELSE tokens[t].status
  BY <1>1, StatusChanged
<1>3. next \in Tokens /\ next.family = tokens[i].family /\ next.status = "live"
  BY ElementOfSeq DEF Tokens, Statuses
<1>4. tokens' = Append(old, next)
  BY DEF Rotates
<1> HIDE DEF old, next
<1>5. /\ tokens' \in Seq(Tokens) /\ Len(tokens') = Len(old) + 1
      /\ \A t \in 1..Len(old) : tokens'[t] = old[t]
      /\ tokens'[Len(old) + 1] = next
  BY <1>2, <1>3, <1>4, TokenAppended
<1> QED BY <1>2, <1>3, <1>5

(* The decision of a request changes its status alone (Admit, reject).       *)
LEMMA RequestDecided ==
    ASSUME requests \in Seq(Requests), Len(requests) \in Nat, NEW i \in 1..Len(requests),
           NEW new \in {"APPROVED", "REJECTED"},
           requests' = [requests EXCEPT ![i].status = new]
    PROVE  RequestsGrown
<1>1. \A k \in 1..Len(requests) : requests[k] \in Requests
  BY ElementOfSeq
<1>2. DOMAIN requests = 1..Len(requests)
  BY LenProperties
<1>3. requests' = [requests EXCEPT ![i] = [requests[i] EXCEPT !.status = new]]
  OBVIOUS
<1>4. /\ [requests[i] EXCEPT !.status = new] \in Requests
      /\ [requests[i] EXCEPT !.status = new].store = requests[i].store
      /\ [requests[i] EXCEPT !.status = new].status # "PENDING"
  BY <1>1 DEF Requests
<1>5. requests' \in Seq(Requests) /\ Len(requests') = Len(requests)
  BY <1>3, <1>4, ExceptSeq
<1>6. \A k \in 1..Len(requests) :
         /\ requests'[k].store = requests[k].store
         /\ requests[k].status # "PENDING" => requests'[k].status # "PENDING"
  BY <1>2, <1>3, <1>4
<1> QED BY <1>5, <1>6 DEF RequestsGrown

(* Growth follows from what a step does to the sequences.                   *)
LEMMA StepsGrow ==
    ASSUME TypeOK, TokenStep, RequestStep
    PROVE  TokensGrown /\ RequestsGrown
<1>0. tokens \in Seq(Tokens) /\ Len(tokens) \in Nat /\ requests \in Seq(Requests) /\ Len(requests) \in Nat
  BY Sequences
<1> USE <1>0 DEF TokensGrown, RequestsGrown
<1>1. TokensGrown
  <2>1. CASE NewFamily
    <3>1. [family |-> Len(tokens) + 1, status |-> "live"] \in Tokens
      BY DEF Tokens, Statuses
    <3> QED BY <2>1, <3>1, TokenAppended DEF NewFamily
  <2>2. ASSUME NEW i \in 1..Len(tokens), Rotates(i) PROVE TokensGrown
    BY <2>2, TokenRotated
  <2>3. ASSUME NEW i \in 1..Len(tokens), Ages(i) PROVE TokensGrown
    <3>1. "stale" \in Statuses BY DEF Statuses, Revoked
    <3> QED BY <2>3, <3>1, StatusChanged DEF Ages
  <2>4. ASSUME NEW families, Revokes(families) PROVE TokensGrown
    BY <2>4, RevokedTokens DEF Revokes
  <2> QED BY <2>1, <2>2, <2>3, <2>4 DEF TokenStep
<1>2. RequestsGrown
  <2>1. ASSUME NEW s \in Stores, requests' = WithRequest(s) PROVE RequestsGrown
    BY <2>1, RequestAdded
  <2>2. ASSUME NEW i \in 1..Len(requests), NEW new \in {"APPROVED", "REJECTED"},
               requests' = [requests EXCEPT ![i].status = new]
        PROVE  RequestsGrown
    BY <2>2, RequestDecided
  <2> QED BY <2>1, <2>2 DEF RequestStep
<1> QED BY <1>1, <1>2

(* A new family has a number of its own; whatever a step does, a family that *)
(* is ended has no working token, and the others have one (FamiliesAreSound). *)
LEMMA FamiliesStaySound ==
    ASSUME TypeOK, FamiliesNumbered, FamiliesAreSound, TokenStep, TokensGrown
    PROVE  FamiliesNumbered' /\ FamiliesAreSound' /\ (ended \subseteq Families)'
<1>1. /\ tokens \in Seq(Tokens) /\ Len(tokens) \in Nat /\ DOMAIN tokens = 1..Len(tokens)
      /\ \A t \in 1..Len(tokens) : tokens[t] \in Tokens
  BY Sequences
<1>2. DOMAIN tokens' = 1..Len(tokens')
  BY LenProperties DEF TokensGrown
<1>3. ended \subseteq Families /\ Families \subseteq 1..Len(tokens)
  BY <1>1 DEF TypeOK, Families, FamiliesNumbered
<1>4. Families \subseteq Families'
  BY <1>1, <1>2 DEF Families, TokensGrown
<1>5. CASE UNCHANGED <<tokens, ended>>
  BY <1>3, <1>5 DEF FamiliesNumbered, FamiliesAreSound, Families
<1>6. CASE NewFamily
  <2>1. [family |-> Len(tokens) + 1, status |-> "live"] \in Tokens
    BY <1>1 DEF Tokens, Statuses
  <2>2. /\ Len(tokens') = Len(tokens) + 1 /\ ended' = ended
        /\ \A t \in 1..Len(tokens) : tokens'[t] = tokens[t]
        /\ tokens'[Len(tokens) + 1].family = Len(tokens) + 1
    BY <1>1, <1>6, <2>1, TokenAppended DEF NewFamily
  <2>3. FamiliesNumbered'
    BY <1>1, <2>2 DEF FamiliesNumbered
  <2>4. FamiliesAreSound'
    BY <1>1, <1>2, <1>3, <2>2 DEF FamiliesAreSound, FamiliesNumbered
  <2> QED BY <1>3, <1>4, <2>2, <2>3, <2>4
<1>7. ASSUME NEW i \in 1..Len(tokens), Rotates(i)
      PROVE  FamiliesNumbered' /\ FamiliesAreSound' /\ (ended \subseteq Families)'
  <2>1. /\ Len(tokens') = Len(tokens) + 1 /\ ended' = ended
        /\ \A t \in 1..Len(tokens) :
              /\ tokens'[t].family = tokens[t].family
              /\ tokens'[t].status = IF t = i THEN "recent" ELSE tokens[t].status
        /\ tokens'[Len(tokens) + 1].family = tokens[i].family
        /\ tokens[i].status = "live"
    BY <1>1, <1>7, TokenRotated DEF Rotates
  <2>2. FamiliesNumbered'
    BY <1>1, <2>1 DEF FamiliesNumbered
  <2>3. FamiliesAreSound'
    BY <1>1, <1>2, <2>1 DEF FamiliesAreSound
  <2> QED BY <1>3, <1>4, <2>1, <2>2, <2>3
<1>8. ASSUME NEW i \in 1..Len(tokens), Ages(i)
      PROVE  FamiliesNumbered' /\ FamiliesAreSound' /\ (ended \subseteq Families)'
  <2>1. "stale" \in Statuses
    BY DEF Statuses, Revoked
  <2>2. /\ Len(tokens') = Len(tokens) /\ ended' = ended
        /\ \A t \in 1..Len(tokens) :
              /\ tokens'[t].family = tokens[t].family
              /\ tokens'[t].status = IF t = i THEN "stale" ELSE tokens[t].status
    BY <1>1, <1>8, <2>1, StatusChanged DEF Ages
  <2>3. FamiliesNumbered' /\ FamiliesAreSound'
    BY <1>1, <1>2, <2>2 DEF FamiliesNumbered, FamiliesAreSound
  <2> QED BY <1>3, <1>4, <2>2, <2>3
<1>9. ASSUME NEW families \in SUBSET Families, Revokes(families)
      PROVE  FamiliesNumbered' /\ FamiliesAreSound' /\ (ended \subseteq Families)'
  <2>1. /\ Len(tokens') = Len(tokens) /\ ended' = ended \cup families
        /\ \A t \in 1..Len(tokens) :
              /\ tokens'[t].family = tokens[t].family
              /\ tokens'[t].status =
                    IF tokens[t].family \in families /\ tokens[t].status = "live" THEN "recent"
                    ELSE tokens[t].status
    BY <1>1, <1>9, RevokedTokens DEF Revokes
  <2>2. FamiliesNumbered' /\ FamiliesAreSound'
    BY <1>1, <1>2, <2>1 DEF FamiliesNumbered, FamiliesAreSound
  <2> QED BY <1>3, <1>4, <2>1, <2>2
<1> QED BY <1>5, <1>6, <1>7, <1>8, <1>9 DEF TokenStep

(* The step of SessionsAreKept.                                             *)
Kept ==
    \A t \in DOMAIN tokens :
       tokens[t].status = "live" /\ tokens'[t].status = "recent" =>
         \/ Len(tokens') > Len(tokens) /\ tokens'[Len(tokens')].family = tokens[t].family
         \/ \E c \in Calls :
               /\ call'[c] # call[c]
               /\ \/ call[c].pc \in {"revoke", "signout"}
                  \/ /\ At(c, "rotate") /\ call[c].seen = "stale"
                     /\ tokens[call[c].item].family = tokens[t].family

(* No other tab ends a session that works (SessionsAreKept).                *)
LEMMA StepsKeepSessions ==
    ASSUME TypeOK, TokenStep
    PROVE  Kept
<1>1. /\ tokens \in Seq(Tokens) /\ Len(tokens) \in Nat /\ DOMAIN tokens = 1..Len(tokens)
  BY Sequences
<1> SUFFICES ASSUME NEW t \in 1..Len(tokens), tokens[t].status = "live", tokens'[t].status = "recent"
             PROVE  \/ Len(tokens') > Len(tokens) /\ tokens'[Len(tokens')].family = tokens[t].family
                    \/ \E c \in Calls :
                          /\ call'[c] # call[c]
                          /\ \/ call[c].pc \in {"revoke", "signout"}
                             \/ /\ At(c, "rotate") /\ call[c].seen = "stale"
                                /\ tokens[call[c].item].family = tokens[t].family
  BY <1>1 DEF Kept
<1>2. CASE UNCHANGED <<tokens, ended>>
  BY <1>2
<1>3. CASE NewFamily
  <2>1. [family |-> Len(tokens) + 1, status |-> "live"] \in Tokens
    BY <1>1 DEF Tokens, Statuses
  <2> QED BY <1>1, <1>3, <2>1, TokenAppended DEF NewFamily
<1>4. CASE \E i \in 1..Len(tokens) : Rotates(i)
  BY <1>1, <1>4, TokenRotated
<1>5. CASE \E i \in 1..Len(tokens) : Ages(i)
  <2>1. "stale" \in Statuses
    BY DEF Statuses, Revoked
  <2> QED BY <1>1, <1>5, <2>1, StatusChanged DEF Ages
<1>6. ASSUME NEW families \in SUBSET Families, Revokes(families), Presented(families)
      PROVE  \E c \in Calls :
                /\ call'[c] # call[c]
                /\ \/ call[c].pc \in {"revoke", "signout"}
                   \/ /\ At(c, "rotate") /\ call[c].seen = "stale"
                      /\ tokens[call[c].item].family = tokens[t].family
  <2>1. tokens[t].family \in families
    BY <1>1, <1>6, RevokedTokens DEF Revokes
  <2> QED BY <1>6, <2>1 DEF Presented
<1> QED BY <1>2, <1>3, <1>4, <1>5, <1>6 DEF TokenStep

(* Types of all but the sequences and the calls.                            *)
RestTyped ==
    /\ kakao \in BOOLEAN /\ role \in Roles \cup {"absent"}
    /\ jar \in [Devices -> 0..Len(tokens)]
    /\ claims \in [Devices -> Roles \cup {"none"}]
    /\ row \in Calls \cup {NoCall}
    /\ member \in [Stores -> {"none", "active", "removed"}] /\ owned \in Nat
    /\ linked \subseteq Stores

(* Types of the calls.                                                      *)
CallsTyped == call \in [Calls -> CallRows]

(* The rows of calls: where a call goes and what it remembers.              *)
Places == {"idle", "insert", "issue", "answer", "refresh", "rotate", "payload", "revoke",
           "signout", "store", "callback", "find", "create", "raised", "role", "active",
           "existing", "request", "key", "ask", "reread", "link", "conflict", "decided", "admit"}
Sights == {"live", "recent", "stale", "none", "again", "other", "victim"}

(* A row of a call stays one when the call moves ...                        *)
LEMMA RowMoved ==
    ASSUME NEW r \in CallRows, NEW pc \in Places
    PROVE  [r EXCEPT !.pc = pc] \in CallRows
  BY DEF CallRows, Places

(* ... notes what it has seen ...                                           *)
LEMMA RowSeen ==
    ASSUME NEW r \in CallRows, NEW pc \in Places, NEW seen \in Sights
    PROVE  /\ [r EXCEPT !.pc = pc, !.seen = seen] \in CallRows
           /\ [r EXCEPT !.seen = seen, !.pc = pc] \in CallRows
<1>1. [r EXCEPT !.pc = pc] \in CallRows
  BY RowMoved
<1>2. ASSUME NEW x \in CallRows
      PROVE  [x EXCEPT !.seen = seen] \in CallRows
  BY DEF CallRows, Sights, Statuses, Revoked
<1>3. [[r EXCEPT !.pc = pc] EXCEPT !.seen = seen] \in CallRows
  BY <1>1, <1>2
<1>4. [[r EXCEPT !.seen = seen] EXCEPT !.pc = pc] \in CallRows
  BY <1>2, RowMoved
<1> QED BY <1>3, <1>4

(* ... remembers a token ...                                                *)
LEMMA RowItem ==
    ASSUME NEW r \in CallRows, NEW pc \in Places, NEW item \in Nat
    PROVE  [r EXCEPT !.pc = pc, !.item = item] \in CallRows
  BY DEF CallRows, Places

(* ... or a role, and the empty row is one.                                 *)
LEMMA RowRole ==
    ASSUME NEW r \in CallRows, NEW pc \in Places, NEW x \in Roles
    PROVE  [r EXCEPT !.pc = pc, !.role = x] \in CallRows
  BY DEF CallRows, Places

(* The row of no call.                                                      *)
LEMMA RowIdle == Idle \in CallRows
  BY DEF CallRows, Idle, Roles

(* One call changes its row.                                                *)
LEMMA RowChanged ==
    ASSUME CallsTyped, NEW c \in Calls, NEW r \in CallRows, call' = [call EXCEPT ![c] = r]
    PROVE  CallsTyped'
  BY DEF CallsTyped

(* The victim asks to join, and the one it waits for does too.              *)
LEMMA VictimAsks ==
    ASSUME SessionsAssumption, TypeOK, LockHeld, \A c \in Calls : Refers(c) /\ Signing(c),
           NEW c \in Calls, Deadlock(c)
    PROVE  /\ call[c].op \in {"join", "kakao"} /\ kakao
           /\ \E b \in Calls : call[b].pc = "ask"
<1>1. PICK b \in Calls : WaitsFor(c, b) /\ WaitsFor(b, c)
  BY DeadlockEffect
<1> DEFINE Behind(x) == call[x].pc \in {"issue", "refresh", "revoke", "signout", "store", "find",
                                       "role", "key", "decided"}
           Asking(x) == call[x].pc \in {"request", "ask"}
           Entry(x, y) == y \in EntryHolders(call[x].store)
<1>2. ASSUME NEW x \in Calls, NEW y \in Calls, WaitsFor(x, y)
      PROVE  (row = y /\ x # y /\ Behind(x)) \/ (Asking(x) /\ Entry(x, y))
  BY <1>2 DEF WaitsFor
<1>3. ASSUME NEW x \in Calls, NEW y \in Calls, Entry(x, y)
      PROVE  /\ call[y].store = call[x].store
             /\ call[y].pc = "key" \/ (call[y].op = "approve" /\ IsPending(call[y].item))
  BY <1>3 DEF EntryHolders, At
(* x waits for an entry of y, and y for the row, which x has locked.         *)
<1>4. ASSUME NEW x \in Calls, NEW y \in Calls, Asking(x), Entry(x, y), row = x, Behind(y)
      PROVE  /\ call[x].pc = "ask" /\ call[x].op = "kakao" /\ kakao
             /\ call[y].op = "join"
  <2>1. call[x].pc = "ask"
    BY <1>4 DEF LockHeld
  <2>2. /\ call[x].op = "kakao" /\ kakao
        /\ call[x].store \notin Waiting
    BY <2>1 DEF Signing
  <2>3. CASE call[y].pc = "key"
    BY <2>1, <2>2, <2>3 DEF Refers
  <2>4. CASE call[y].op = "approve" /\ IsPending(call[y].item)
    <3>1. call[y].pc = "decided"
      BY <1>4, <2>4 DEF Signing
    <3>2. call[y].item \in 1..Len(requests) /\ call[y].store = requests[call[y].item].store
      BY <3>1 DEF Refers
    <3>3. call[y].store \in Waiting
      BY <2>4, <3>2, Sequences DEF Waiting
    <3> QED BY <1>3, <1>4, <2>2, <3>3
  <2> QED BY <1>3, <1>4, <2>1, <2>2, <2>3, <2>4
<1>5. ~(Asking(c) /\ Entry(c, b) /\ Asking(b) /\ Entry(b, c))
  BY <1>3 DEF Signing, Refers
<1>6. (Asking(c) /\ Entry(c, b) /\ row = c /\ Behind(b)) \/ (Asking(b) /\ Entry(b, c) /\ row = b /\ Behind(c))
  BY <1>1, <1>2, <1>5
<1> HIDE DEF Behind, Asking, Entry
<1>7. (call[c].pc = "ask" /\ call[c].op = "kakao" /\ kakao)
      \/ (call[b].pc = "ask" /\ call[c].op = "join" /\ kakao)
  BY <1>4, <1>6
<1> QED BY <1>7

(* An account is made, with a request or without, or the unique identity    *)
(* turns the callback away, the first time or again (CreateAccount).        *)
LEMMA CreateBranches ==
    ASSUME NEW c \in Calls, CreateAccount(c)
    PROVE  /\ At(c, "create")
           /\ \/ Creates(c)
              \/ role = "absent" /\ Asks(c)
              \/ role # "absent" /\ call[c].seen = "again" /\ Repeats(c, "raised")
              \/ role # "absent" /\ call[c].seen # "again" /\ Repeats(c, "find")
<1>1. CASE role = "absent" /\ call[c].store = NoStore
  BY <1>1 DEF CreateAccount, Creates, Opens, memberVars
<1>2. CASE role = "absent" /\ call[c].store # NoStore
  BY <1>2 DEF CreateAccount, Asks
<1>3. CASE role # "absent" /\ call[c].seen = "again"
  BY <1>3 DEF CreateAccount, Repeats, memberVars
<1>4. CASE role # "absent" /\ call[c].seen # "again"
  BY <1>4 DEF CreateAccount, Repeats, memberVars
<1> QED BY <1>1, <1>2, <1>3, <1>4 DEF CreateAccount, RowFree

(* The role may join, or the request is refused (JoinActive).               *)
LEMMA JoinActiveBranches ==
    ASSUME NEW c \in Calls, JoinActive(c)
    PROVE  /\ At(c, "active")
           /\ \/ Quits(c)
              \/ Goes(c, "existing") /\ MayRequest(call[c].role, call[c].store)
  BY DEF JoinActive, Return, Quits, Goes

(* A request is there already, or one is inserted (JoinExisting).           *)
LEMMA JoinExistingBranches ==
    ASSUME NEW c \in Calls, JoinExisting(c)
    PROVE  /\ At(c, "existing")
           /\ \/ Quits(c)
              \/ Goes(c, "request")
  BY DEF JoinExisting, Return, Quits, Goes

----------------------------------------------------------------------------
(* What every step does, action by action.                                  *)
(* Every action is one of the steps above, for the tokens and the requests:  *)
(* a rotation revokes the token it read as live, and whoever revokes more    *)
(* ends sessions or was shown a stale token.                                *)
LEMMA StepsTaken ==
    ASSUME TypeOK, LockHeld, \A c \in Calls : Refers(c) /\ Signing(c), Next
    PROVE  TokenStep /\ RequestStep
<1>0. /\ DOMAIN requests = 1..Len(requests) /\ DOMAIN tokens = 1..Len(tokens)
  BY Sequences
<1> USE DEF memberVars, Free, At, Idle, TokenStep, RequestStep
<1>1. ASSUME NEW c \in Calls, NEW d \in Devices, signup(c, d), UNCHANGED memberVars
      PROVE  TokenStep /\ RequestStep
  BY <1>1, <1>0 DEF signup
<1>2. ASSUME NEW c \in Calls, NEW d \in Devices, login(c, d), UNCHANGED memberVars
      PROVE  TokenStep /\ RequestStep
  BY <1>2, <1>0 DEF login
<1>3. ASSUME NEW c \in Calls, NEW d \in Devices, choose_role(c, d), UNCHANGED memberVars
      PROVE  TokenStep /\ RequestStep
  BY <1>3, <1>0 DEF choose_role
<1>4. ASSUME NEW c \in Calls, NEW d \in Devices, refresh(c, d), UNCHANGED memberVars
      PROVE  TokenStep /\ RequestStep
  BY <1>4, <1>0 DEF refresh
<1>5. ASSUME NEW c \in Calls, NEW d \in Devices, logout(c, d), UNCHANGED memberVars
      PROVE  TokenStep /\ RequestStep
  BY <1>5, <1>0 DEF logout
<1>6. ASSUME NEW c \in Calls, SignupInsert(c), UNCHANGED memberVars
      PROVE  TokenStep /\ RequestStep
  <2>0. At(c, "insert")
    BY <1>6, SignupInsertBranches
  <2>1. CASE role # "absent" /\ Goes(c, "raised")
    BY <2>0, <2>1, <1>0 DEF Goes
  <2>2. CASE SignsUp(c)
    BY <2>0, <2>2, <1>0 DEF SignsUp, Opens
  <2> QED BY <1>6, <2>1, <2>2, SignupInsertBranches
<1>7. ASSUME NEW c \in Calls, issue_refresh(c), UNCHANGED memberVars
      PROVE  TokenStep /\ RequestStep
  <2>1. NewFamily /\ requests' = requests
    BY <1>7, IssueEffect DEF Issues, NewFamily, issue_refresh
  <2> QED BY <2>1
<1>8. ASSUME NEW c \in Calls, LockToken(c), UNCHANGED memberVars
      PROVE  TokenStep /\ RequestStep
  <2>1. At(c, "refresh") /\ Locks(c, "rotate", tokens[call[c].item].status)
    BY <1>8, LockTokenEffect
  <2> QED BY <2>1, <1>0 DEF Locks
<1>9. ASSUME NEW c \in Calls, rotate_refresh(c), UNCHANGED memberVars
      PROVE  TokenStep /\ RequestStep
  <2>0. At(c, "rotate")
    BY <1>9, RotateBranches
  <2>1. CASE Succeeds(c)
    <3>1. call[c].item \in 1..Len(tokens) /\ tokens[call[c].item].status = "live"
      BY <2>0, <2>1 DEF Refers, LockHeld, Succeeds
    <3>2. Rotates(call[c].item) /\ requests' = requests
      BY <2>1, <3>1 DEF Rotates, Succeeds
    <3> QED BY <3>1, <3>2
  <2>2. CASE \E families \in SUBSET {tokens[call[c].item].family} : Refuses(c, families)
    <3>1. call[c].item \in 1..Len(tokens)
      BY <2>0 DEF Refers
    <3>2. PICK families \in SUBSET {tokens[call[c].item].family} : Refuses(c, families)
      BY <2>2
    <3>3. families \in SUBSET Families
      BY <1>0, <3>1 DEF Families
    <3>4. Revokes(families) /\ requests' = requests
      BY <3>2 DEF Refuses, Revokes
    <3>5. Presented(families)
      <4>1. call'[c].pc = "idle" /\ call[c].pc = "rotate"
        BY <2>0, <3>2 DEF Refuses, TypeOK
      <4>2. call[c].seen # "recent" => call[c].seen = "stale"
        BY <3>2 DEF Refuses
      <4>3. families # {} => call[c].seen = "stale" /\ families = {tokens[call[c].item].family}
        BY <3>2, <4>2 DEF Refuses
      <4> QED BY <4>1, <4>3 DEF Presented
    <3> QED BY <3>3, <3>4, <3>5
  <2> QED BY <1>9, <2>1, <2>2, RotateBranches
<1>10. ASSUME NEW c \in Calls, session_payload(c), UNCHANGED memberVars
       PROVE  TokenStep /\ RequestStep
  BY <1>10, <1>0 DEF session_payload
<1>11. ASSUME NEW c \in Calls, revoke_family_of(c), UNCHANGED memberVars
       PROVE  TokenStep /\ RequestStep
  <2>0. /\ At(c, "revoke") /\ Clears(c, {tokens[call[c].item].family})
        /\ call' = [call EXCEPT ![c].pc = "answer", ![c].item = 0]
    BY <1>11, RevokeFamilyEffect
  <2>1. call[c].item \in 1..Len(tokens)
    BY <2>0 DEF Refers
  <2>2. {tokens[call[c].item].family} \in SUBSET Families
    BY <1>0, <2>1 DEF Families
  <2>3. Revokes({tokens[call[c].item].family}) /\ requests' = requests
    BY <2>0 DEF Clears, Revokes
  <2>4. call'[c].pc = "answer" /\ call[c].pc = "revoke"
    BY <2>0 DEF TypeOK, CallRows
  <2>5. Presented({tokens[call[c].item].family})
    BY <2>4 DEF Presented
  <2> QED BY <2>2, <2>3, <2>5
<1>12. ASSUME NEW c \in Calls, revoke_user_sessions(c), UNCHANGED memberVars
       PROVE  TokenStep /\ RequestStep
  <2>0. /\ At(c, "signout") /\ Clears(c, Families)
        /\ call' = [call EXCEPT ![c] = Idle]
    BY <1>12, RevokeAllEffect
  <2>1. Revokes(Families) /\ requests' = requests
    BY <2>0 DEF Clears, Revokes
  <2>2. call'[c].pc = "idle" /\ call[c].pc = "signout"
    BY <2>0 DEF TypeOK
  <2>3. Presented(Families)
    BY <2>2 DEF Presented
  <2> QED BY <2>1, <2>3
<1>13. ASSUME NEW c \in Calls, Answer(c), UNCHANGED memberVars
       PROVE  TokenStep /\ RequestStep
  <2>0. call[c].device \in Devices
    BY <1>13 DEF Answer, Refers
  <2>1. At(c, "answer") /\ Answers(c)
    BY <1>13, <2>0, AnswerEffect
  <2> QED BY <2>1, <1>0 DEF Answers
<1>14. ASSUME NEW c \in Calls, Lose(c), UNCHANGED memberVars
       PROVE  TokenStep /\ RequestStep
  <2>1. RollsBack(c)
    BY <1>14, LoseEffect
  <2> QED BY <2>1, <1>0 DEF RollsBack, Frees
<1>15. ASSUME NEW t \in DOMAIN tokens, GraceEnds(t), UNCHANGED memberVars
       PROVE  TokenStep /\ RequestStep
  <2>1. t \in 1..Len(tokens) /\ Ages(t) /\ requests' = requests
    BY <1>15, <1>0 DEF GraceEnds, Ages
  <2> QED BY <2>1
<1>16. ASSUME NEW c \in Calls, NEW d \in Devices, create_store(c, d)
       PROVE  TokenStep /\ RequestStep
  BY <1>16, <1>0 DEF create_store
<1>17. ASSUME NEW c \in Calls, NEW d \in Devices, NEW s \in Stores \cup {NoStore},
              kakao_start(c, d, s)
       PROVE  TokenStep /\ RequestStep
  BY <1>17, <1>0 DEF kakao_start
<1>18. ASSUME NEW c \in Calls, NEW d \in Devices, NEW s \in Stores, create_join_request(c,
              d, s)
       PROVE  TokenStep /\ RequestStep
  BY <1>18, <1>0 DEF create_join_request
<1>19. ASSUME NEW c \in Calls, InsertStore(c)
       PROVE  TokenStep /\ RequestStep
  <2>1. At(c, "store") /\ Founds(c)
    BY <1>19, InsertStoreEffect
  <2> QED BY <2>1, <1>0 DEF Founds
<1>20. ASSUME NEW c \in Calls, kakao_callback(c)
       PROVE  TokenStep /\ RequestStep
  <2>0. At(c, "callback")
    BY <1>20, CallbackBranches
  <2>1. CASE Quits(c)
    BY <2>0, <2>1, <1>0 DEF Quits
  <2>2. CASE Goes(c, "find")
    BY <2>0, <2>2, <1>0 DEF Goes
  <2> QED BY <1>20, <2>1, <2>2, CallbackBranches
<1>21. ASSUME NEW c \in Calls, EnterAccount(c)
       PROVE  TokenStep /\ RequestStep
  <2>0. At(c, "find") /\ role # "absent" /\ row = NoCall
    BY <1>21, EnterBranches
  <2>1. CASE Quits(c)
    BY <2>0, <2>1, <1>0 DEF Quits
  <2>2. CASE Goes(c, "issue")
    BY <2>0, <2>2, <1>0 DEF Goes
  <2>3. CASE Asks(c) /\ (role = "unset" \/ MayRequest(role, call[c].store))
    <3>1. call[c].store \in Stores
      BY <2>3 DEF Asks, TypeOK, CallRows
    <3> QED BY <2>3, <3>1 DEF Asks
  <2>4. CASE Holds(c) /\ (role = "unset" \/ MayRequest(role, call[c].store))
    BY <2>0, <2>4, <1>0 DEF Holds
  <2> QED BY <1>21, <2>1, <2>2, <2>3, <2>4, EnterBranches
<1>22. ASSUME NEW c \in Calls, FindNoAccount(c)
       PROVE  TokenStep /\ RequestStep
  BY <1>22, <1>0 DEF FindNoAccount
<1>23. ASSUME NEW c \in Calls, CreateAccount(c)
       PROVE  TokenStep /\ RequestStep
  <2>0. At(c, "create")
    BY <1>23, CreateBranches
  <2>1. CASE Creates(c)
    BY <2>0, <2>1, <1>0 DEF Creates, Opens
  <2>2. CASE role = "absent" /\ Asks(c)
    <3>1. call[c].store \in Stores
      BY <2>2 DEF Asks, TypeOK, CallRows
    <3> QED BY <2>2, <3>1 DEF Asks
  <2>3. CASE role # "absent" /\ call[c].seen = "again" /\ Repeats(c, "raised")
    BY <2>0, <2>3, <1>0 DEF Repeats
  <2>4. CASE role # "absent" /\ call[c].seen # "again" /\ Repeats(c, "find")
    BY <2>0, <2>4, <1>0 DEF Repeats
  <2> QED BY <1>23, <2>1, <2>2, <2>3, <2>4, CreateBranches
<1>24. ASSUME NEW c \in Calls, JoinRole(c)
       PROVE  TokenStep /\ RequestStep
  BY <1>24, <1>0 DEF JoinRole
<1>25. ASSUME NEW c \in Calls, JoinActive(c)
       PROVE  TokenStep /\ RequestStep
  <2>0. At(c, "active")
    BY <1>25, JoinActiveBranches
  <2>1. CASE Quits(c)
    BY <2>0, <2>1, <1>0 DEF Quits
  <2>2. CASE Goes(c, "existing") /\ MayRequest(call[c].role, call[c].store)
    BY <2>0, <2>2, <1>0 DEF Goes
  <2> QED BY <1>25, <2>1, <2>2, JoinActiveBranches
<1>26. ASSUME NEW c \in Calls, JoinExisting(c)
       PROVE  TokenStep /\ RequestStep
  <2>0. At(c, "existing")
    BY <1>26, JoinExistingBranches
  <2>1. CASE Quits(c)
    BY <2>0, <2>1, <1>0 DEF Quits
  <2>2. CASE Goes(c, "request")
    BY <2>0, <2>2, <1>0 DEF Goes
  <2> QED BY <1>26, <2>1, <2>2, JoinExistingBranches
<1>27. ASSUME NEW c \in Calls, InsertRequest(c)
       PROVE  TokenStep /\ RequestStep
  <2>0. At(c, "request")
    BY <1>27, InsertRequestBranches
  <2>1. CASE Pending(call[c].store) /\ Goes(c, "reread")
    BY <2>0, <2>1, <1>0 DEF Goes
  <2>2. CASE Goes(c, "key")
    BY <2>0, <2>2, <1>0 DEF Goes
  <2> QED BY <1>27, <2>1, <2>2, InsertRequestBranches
<1>28. ASSUME NEW c \in Calls, ReadRequest(c)
       PROVE  TokenStep /\ RequestStep
  <2>0. At(c, "reread")
    BY <1>28, ReadRequestBranches
  <2>1. CASE Quits(c)
    BY <2>0, <2>1, <1>0 DEF Quits
  <2>2. CASE ~Pending(call[c].store) /\ Goes(c, "raised")
    BY <2>0, <2>2, <1>0 DEF Goes
  <2> QED BY <1>28, <2>1, <2>2, ReadRequestBranches
<1>29. ASSUME NEW c \in Calls, InsertLink(c)
       PROVE  TokenStep /\ RequestStep
  <2>0. At(c, "link")
    BY <1>29, InsertLinkBranches
  <2>1. CASE call[c].store \in linked /\ Goes(c, "conflict")
    BY <2>0, <2>1, <1>0 DEF Goes
  <2>2. CASE Links(c)
    BY <2>0, <2>2, <1>0 DEF Links
  <2> QED BY <1>29, <2>1, <2>2, InsertLinkBranches
<1>30. ASSUME NEW c \in Calls, ReadLink(c)
       PROVE  TokenStep /\ RequestStep
  <2>0. At(c, "conflict")
    BY <1>30, ReadLinkBranches
  <2>1. CASE Quits(c)
    BY <2>0, <2>1, <1>0 DEF Quits
  <2>2. CASE call[c].store \notin linked /\ Goes(c, "raised")
    BY <2>0, <2>2, <1>0 DEF Goes
  <2> QED BY <1>30, <2>1, <2>2, ReadLinkBranches
<1>31. ASSUME NEW c \in Calls, LockPerson(c)
       PROVE  TokenStep /\ RequestStep
  <2>0. At(c, "decided")
    BY <1>31, LockPersonBranches
  <2>1. CASE Locks(c, "admit", "other")
    BY <2>0, <2>1, <1>0 DEF Locks
  <2>2. CASE Locks(c, "admit", "none") /\ ActiveStores \subseteq {call[c].store}
    BY <2>0, <2>2, <1>0 DEF Locks
  <2> QED BY <1>31, <2>1, <2>2, LockPersonBranches
<1>32. ASSUME NEW c \in Calls, Admit(c)
       PROVE  TokenStep /\ RequestStep
  <2>0. At(c, "admit")
    BY <1>32, AdmitBranches
  <2>1. CASE RollsBack(c)
    BY <2>0, <2>1, <1>0 DEF RollsBack, Frees
  <2>2. CASE Admits(c)
    <3>1. call[c].item \in 1..Len(requests)
      BY <2>0 DEF Refers
    <3> QED BY <2>2, <3>1 DEF Admits
  <2> QED BY <1>32, <2>1, <2>2, AdmitBranches
<1>33. ASSUME NEW c \in Calls, NEW s \in Stores, get_or_create(c, s)
       PROVE  TokenStep /\ RequestStep
  BY <1>33, <1>0 DEF get_or_create
<1>34. ASSUME NEW c \in Calls, NEW s \in Stores, remove(c, s)
       PROVE  TokenStep /\ RequestStep
  BY <1>34, <1>0 DEF remove
<1>35. ASSUME NEW c \in Calls, NEW i \in DOMAIN requests, approve(c, i)
       PROVE  TokenStep /\ RequestStep
  BY <1>35, <1>0 DEF approve
<1>36. ASSUME NEW s \in Stores, rotate_link(s)
       PROVE  TokenStep /\ RequestStep
  BY <1>36, <1>0 DEF rotate_link
<1>37. ASSUME NEW i \in DOMAIN requests, reject(i)
       PROVE  TokenStep /\ RequestStep
  <2>1. requests' = [requests EXCEPT ![i].status = "REJECTED"] /\ UNCHANGED <<tokens, ended>>
    BY <1>37 DEF reject, sessionVars
  <2> QED BY <1>0, <1>37, <2>1
<1>38. ASSUME NEW c \in Calls, ReferencePerson(c)
       PROVE  TokenStep /\ RequestStep
  <2>0. At(c, "key") /\ row = NoCall
    BY <1>38, ReferenceBranches
  <2>1. CASE Quits(c)
    BY <2>0, <2>1, <1>0 DEF Quits
  <2>2. CASE Inserts(c)
    <3>1. call[c].store \in Stores
      BY <2>0 DEF Refers
    <3>2. requests' = WithRequest(call[c].store)
      BY <2>2 DEF Inserts, WithRequest
    <3> QED BY <2>2, <3>1, <3>2 DEF Inserts
  <2> QED BY <1>38, <2>1, <2>2, ReferenceBranches
<1>39. ASSUME NEW c \in Calls, RequestAtSignIn(c)
       PROVE  TokenStep /\ RequestStep
  <2>1. At(c, "ask") /\ Obtains(c)
    BY <1>39, ObtainEffect
  <2>2. call[c].store \in Stores
    BY <2>1 DEF Signing
  <2> QED BY <2>1, <2>2 DEF Obtains
<1>40. ASSUME NEW c \in Calls, Deadlock(c)
       PROVE  TokenStep /\ RequestStep
  <2>1. Falls(c)
    BY <1>40, DeadlockEffect
  <2> QED BY <2>1, <1>0 DEF Falls
<1> QED BY <1>1, <1>2, <1>3, <1>4, <1>5, <1>6, <1>7, <1>8, <1>9, <1>10, <1>11, <1>12, <1>13,
           <1>14, <1>15, <1>16, <1>17, <1>18, <1>19, <1>20, <1>21, <1>22, <1>23, <1>24,
           <1>25, <1>26, <1>27, <1>28, <1>29, <1>30, <1>31, <1>32, <1>33, <1>34, <1>35,
           <1>36, <1>37, <1>38, <1>39, <1>40 DEF Next, SessionNext, MembershipNext

(* The account comes first.                                                 *)
LEMMA UnknownStays ==
    ASSUME TypeOK, Unknown, Chosen, 
           SessionsAssumption, LockHeld, \A c \in Calls : Refers(c) /\ Signing(c) /\ Loser(c), Next
    PROVE  Unknown'
<1>0. DOMAIN requests = 1..Len(requests)
  BY Sequences
<1> USE DEF memberVars, Free, At, Idle, TypeOK, Unknown, Chosen, Roles
<1>1. ASSUME NEW c \in Calls, NEW d \in Devices, signup(c, d), UNCHANGED memberVars
      PROVE  Unknown'
  BY <1>1 DEF signup
<1>2. ASSUME NEW c \in Calls, NEW d \in Devices, login(c, d), UNCHANGED memberVars
      PROVE  Unknown'
  BY <1>2 DEF login
<1>3. ASSUME NEW c \in Calls, NEW d \in Devices, choose_role(c, d), UNCHANGED memberVars
      PROVE  Unknown'
  BY <1>3 DEF choose_role
<1>4. ASSUME NEW c \in Calls, NEW d \in Devices, refresh(c, d), UNCHANGED memberVars
      PROVE  Unknown'
  BY <1>4 DEF refresh
<1>5. ASSUME NEW c \in Calls, NEW d \in Devices, logout(c, d), UNCHANGED memberVars
      PROVE  Unknown'
  BY <1>5 DEF logout
<1>6. ASSUME NEW c \in Calls, SignupInsert(c), UNCHANGED memberVars
      PROVE  Unknown'
  <2>0. At(c, "insert")
    BY <1>6, SignupInsertBranches
  <2>1. CASE role # "absent" /\ Goes(c, "raised")
    BY <2>0, <2>1 DEF Goes
  <2>2. CASE SignsUp(c)
    BY <2>0, <2>2 DEF SignsUp, Opens
  <2> QED BY <1>6, <2>1, <2>2, SignupInsertBranches
<1>7. ASSUME NEW c \in Calls, issue_refresh(c), UNCHANGED memberVars
      PROVE  Unknown'
  <2>1. At(c, "issue") /\ row = NoCall /\ Issues(c)
    BY <1>7, IssueEffect
  <2> QED BY <2>1 DEF Issues
<1>8. ASSUME NEW c \in Calls, LockToken(c), UNCHANGED memberVars
      PROVE  Unknown'
  <2>1. At(c, "refresh") /\ Locks(c, "rotate", tokens[call[c].item].status)
    BY <1>8, LockTokenEffect
  <2> QED BY <2>1 DEF Locks
<1>9. ASSUME NEW c \in Calls, rotate_refresh(c), UNCHANGED memberVars
      PROVE  Unknown'
  <2>0. At(c, "rotate")
    BY <1>9, RotateBranches
  <2>1. CASE Succeeds(c)
    BY <2>0, <2>1 DEF Succeeds, Frees
  <2>2. CASE \E families \in SUBSET {tokens[call[c].item].family} : Refuses(c, families)
    BY <2>0, <2>2 DEF Refuses, Frees
  <2> QED BY <1>9, <2>1, <2>2, RotateBranches
<1>10. ASSUME NEW c \in Calls, session_payload(c), UNCHANGED memberVars
       PROVE  Unknown'
  BY <1>10 DEF session_payload
<1>11. ASSUME NEW c \in Calls, revoke_family_of(c), UNCHANGED memberVars
       PROVE  Unknown'
  <2>1. /\ At(c, "revoke") /\ row = NoCall /\ Clears(c, {tokens[call[c].item].family})
      /\ call' = [call EXCEPT ![c].pc = "answer", ![c].item = 0]
    BY <1>11, RevokeFamilyEffect
  <2> QED BY <2>1 DEF Clears
<1>12. ASSUME NEW c \in Calls, revoke_user_sessions(c), UNCHANGED memberVars
       PROVE  Unknown'
  <2>1. /\ At(c, "signout") /\ row = NoCall /\ Clears(c, Families)
      /\ call' = [call EXCEPT ![c] = Idle]
    BY <1>12, RevokeAllEffect
  <2> QED BY <2>1 DEF Clears
<1>13. ASSUME NEW c \in Calls, Answer(c), UNCHANGED memberVars
       PROVE  Unknown'
  <2>0. call[c].device \in Devices
    BY <1>13 DEF Answer, Refers
  <2>1. At(c, "answer") /\ Answers(c)
    BY <1>13, <2>0, AnswerEffect
  <2> QED BY <2>1 DEF Answers
<1>14. ASSUME NEW c \in Calls, Lose(c), UNCHANGED memberVars
       PROVE  Unknown'
  <2>1. RollsBack(c)
    BY <1>14, LoseEffect
  <2> QED BY <2>1 DEF RollsBack, Frees
<1>15. ASSUME NEW t \in DOMAIN tokens, GraceEnds(t), UNCHANGED memberVars
       PROVE  Unknown'
  BY <1>15 DEF GraceEnds
<1>16. ASSUME NEW c \in Calls, NEW d \in Devices, create_store(c, d)
       PROVE  Unknown'
  BY <1>16 DEF create_store
<1>17. ASSUME NEW c \in Calls, NEW d \in Devices, NEW s \in Stores \cup {NoStore},
              kakao_start(c, d, s)
       PROVE  Unknown'
  BY <1>17 DEF kakao_start
<1>18. ASSUME NEW c \in Calls, NEW d \in Devices, NEW s \in Stores, create_join_request(c,
              d, s)
       PROVE  Unknown'
  BY <1>18 DEF create_join_request
<1>19. ASSUME NEW c \in Calls, InsertStore(c)
       PROVE  Unknown'
  <2>1. At(c, "store") /\ Founds(c)
    BY <1>19, InsertStoreEffect
  <2> QED BY <2>1 DEF Founds
<1>20. ASSUME NEW c \in Calls, kakao_callback(c)
       PROVE  Unknown'
  <2>0. At(c, "callback")
    BY <1>20, CallbackBranches
  <2>1. CASE Quits(c)
    BY <2>0, <2>1 DEF Quits
  <2>2. CASE Goes(c, "find")
    BY <2>0, <2>2 DEF Goes
  <2> QED BY <1>20, <2>1, <2>2, CallbackBranches
<1>21. ASSUME NEW c \in Calls, EnterAccount(c)
       PROVE  Unknown'
  <2>0. At(c, "find") /\ role # "absent" /\ row = NoCall
    BY <1>21, EnterBranches
  <2>1. CASE Quits(c)
    BY <2>0, <2>1 DEF Quits
  <2>2. CASE Goes(c, "issue")
    BY <2>0, <2>2 DEF Goes
  <2>3. CASE Asks(c) /\ (role = "unset" \/ MayRequest(role, call[c].store))
    BY <2>0, <2>3 DEF Asks
  <2>4. CASE Holds(c) /\ (role = "unset" \/ MayRequest(role, call[c].store))
    BY <2>0, <2>4 DEF Holds
  <2> QED BY <1>21, <2>1, <2>2, <2>3, <2>4, EnterBranches
<1>22. ASSUME NEW c \in Calls, FindNoAccount(c)
       PROVE  Unknown'
  BY <1>22 DEF FindNoAccount
<1>23. ASSUME NEW c \in Calls, CreateAccount(c)
       PROVE  Unknown'
  <2>0. At(c, "create")
    BY <1>23, CreateBranches
  <2>1. CASE Creates(c)
    BY <2>0, <2>1 DEF Creates, Opens
  <2>2. CASE role = "absent" /\ Asks(c)
    BY <2>0, <2>2 DEF Asks
  <2>3. CASE role # "absent" /\ call[c].seen = "again" /\ Repeats(c, "raised")
    BY <2>0, <2>3 DEF Repeats
  <2>4. CASE role # "absent" /\ call[c].seen # "again" /\ Repeats(c, "find")
    BY <2>0, <2>4 DEF Repeats
  <2> QED BY <1>23, <2>1, <2>2, <2>3, <2>4, CreateBranches
<1>24. ASSUME NEW c \in Calls, JoinRole(c)
       PROVE  Unknown'
  BY <1>24 DEF JoinRole
<1>25. ASSUME NEW c \in Calls, JoinActive(c)
       PROVE  Unknown'
  <2>0. At(c, "active")
    BY <1>25, JoinActiveBranches
  <2>1. CASE Quits(c)
    BY <2>0, <2>1 DEF Quits
  <2>2. CASE Goes(c, "existing") /\ MayRequest(call[c].role, call[c].store)
    BY <2>0, <2>2 DEF Goes
  <2> QED BY <1>25, <2>1, <2>2, JoinActiveBranches
<1>26. ASSUME NEW c \in Calls, JoinExisting(c)
       PROVE  Unknown'
  <2>0. At(c, "existing")
    BY <1>26, JoinExistingBranches
  <2>1. CASE Quits(c)
    BY <2>0, <2>1 DEF Quits
  <2>2. CASE Goes(c, "request")
    BY <2>0, <2>2 DEF Goes
  <2> QED BY <1>26, <2>1, <2>2, JoinExistingBranches
<1>27. ASSUME NEW c \in Calls, InsertRequest(c)
       PROVE  Unknown'
  <2>0. At(c, "request")
    BY <1>27, InsertRequestBranches
  <2>1. CASE Pending(call[c].store) /\ Goes(c, "reread")
    BY <2>0, <2>1 DEF Goes
  <2>2. CASE Goes(c, "key")
    BY <2>0, <2>2 DEF Goes
  <2> QED BY <1>27, <2>1, <2>2, InsertRequestBranches
<1>28. ASSUME NEW c \in Calls, ReadRequest(c)
       PROVE  Unknown'
  <2>0. At(c, "reread")
    BY <1>28, ReadRequestBranches
  <2>1. CASE Quits(c)
    BY <2>0, <2>1 DEF Quits
  <2>2. CASE ~Pending(call[c].store) /\ Goes(c, "raised")
    BY <2>0, <2>2 DEF Goes
  <2> QED BY <1>28, <2>1, <2>2, ReadRequestBranches
<1>29. ASSUME NEW c \in Calls, InsertLink(c)
       PROVE  Unknown'
  <2>0. At(c, "link")
    BY <1>29, InsertLinkBranches
  <2>1. CASE call[c].store \in linked /\ Goes(c, "conflict")
    BY <2>0, <2>1 DEF Goes
  <2>2. CASE Links(c)
    BY <2>0, <2>2 DEF Links
  <2> QED BY <1>29, <2>1, <2>2, InsertLinkBranches
<1>30. ASSUME NEW c \in Calls, ReadLink(c)
       PROVE  Unknown'
  <2>0. At(c, "conflict")
    BY <1>30, ReadLinkBranches
  <2>1. CASE Quits(c)
    BY <2>0, <2>1 DEF Quits, Loser
  <2>2. CASE call[c].store \notin linked /\ Goes(c, "raised")
    BY <2>0, <2>2 DEF Goes, Loser
  <2> QED BY <1>30, <2>1, <2>2, ReadLinkBranches
<1>31. ASSUME NEW c \in Calls, LockPerson(c)
       PROVE  Unknown'
  <2>0. At(c, "decided")
    BY <1>31, LockPersonBranches
  <2>1. CASE Locks(c, "admit", "other")
    BY <2>0, <2>1 DEF Locks
  <2>2. CASE Locks(c, "admit", "none") /\ ActiveStores \subseteq {call[c].store}
    BY <2>0, <2>2 DEF Locks
  <2> QED BY <1>31, <2>1, <2>2, LockPersonBranches
<1>32. ASSUME NEW c \in Calls, Admit(c)
       PROVE  Unknown'
  <2>0. At(c, "admit")
    BY <1>32, AdmitBranches
  <2>1. CASE RollsBack(c)
    BY <2>0, <2>1 DEF RollsBack, Frees
  <2>2. CASE Admits(c)
    BY <2>0, <2>2 DEF Admits, Frees
  <2> QED BY <1>32, <2>1, <2>2, AdmitBranches
<1>33. ASSUME NEW c \in Calls, NEW s \in Stores, get_or_create(c, s)
       PROVE  Unknown'
  BY <1>33 DEF get_or_create
<1>34. ASSUME NEW c \in Calls, NEW s \in Stores, remove(c, s)
       PROVE  Unknown'
  BY <1>34 DEF remove
<1>35. ASSUME NEW c \in Calls, NEW i \in DOMAIN requests, approve(c, i)
       PROVE  Unknown'
  BY <1>35 DEF approve
<1>36. ASSUME NEW s \in Stores, rotate_link(s)
       PROVE  Unknown'
  BY <1>36 DEF rotate_link
<1>37. ASSUME NEW i \in DOMAIN requests, reject(i)
       PROVE  Unknown'
  <2>1. requests # <<>>
    BY <1>0
  <2> QED BY <1>37, <2>1 DEF reject, sessionVars
<1>38. ASSUME NEW c \in Calls, ReferencePerson(c)
       PROVE  Unknown'
  <2>0. At(c, "key") /\ row = NoCall
    BY <1>38, ReferenceBranches
  <2>1. CASE Quits(c)
    BY <2>0, <2>1 DEF Quits
  <2>2. CASE Inserts(c)
    BY <2>0, <2>2 DEF Inserts
  <2> QED BY <1>38, <2>1, <2>2, ReferenceBranches
<1>39. ASSUME NEW c \in Calls, RequestAtSignIn(c)
       PROVE  Unknown'
  <2>1. At(c, "ask") /\ Obtains(c)
    BY <1>39, ObtainEffect
  <2> QED BY <2>1 DEF Obtains, Frees, Signing
<1>40. ASSUME NEW c \in Calls, Deadlock(c)
       PROVE  Unknown'
  <2>1. Falls(c)
    BY <1>40, DeadlockEffect
  <2>2. role # "absent"
    BY <1>40, VictimAsks
  <2> QED BY <2>1, <2>2 DEF Falls, Frees
<1> QED BY <1>1, <1>2, <1>3, <1>4, <1>5, <1>6, <1>7, <1>8, <1>9, <1>10, <1>11, <1>12, <1>13,
           <1>14, <1>15, <1>16, <1>17, <1>18, <1>19, <1>20, <1>21, <1>22, <1>23, <1>24,
           <1>25, <1>26, <1>27, <1>28, <1>29, <1>30, <1>31, <1>32, <1>33, <1>34, <1>35,
           <1>36, <1>37, <1>38, <1>39, <1>40 DEF Next, SessionNext, MembershipNext

(* Nobody else asks or decides while a sign-in has the row locked.           *)
LEMMA SigningStays ==
    ASSUME SessionsAssumption, TypeOK, Unknown, Chosen, LockHeld,
           \A c \in Calls : Refers(c) /\ Signing(c), NEW k \in Calls, Next
    PROVE  Signing(k)'
<1>0. DOMAIN requests = 1..Len(requests)
  BY Sequences
<1>a. requests' = requests => Waiting' = Waiting
  BY DEF Waiting, IsPending
<1>b. \A s : ~Pending(s) => s \notin Waiting
  BY DEF Pending, Waiting
<1> USE <1>a, <1>b DEF memberVars, Free, At, Idle, TypeOK, CallRows, Unknown, LockHeld, Signing,
            SessionsAssumption, MayRequest
<1>1. ASSUME NEW c \in Calls, NEW d \in Devices, signup(c, d), UNCHANGED memberVars
      PROVE  Signing(k)'
  BY <1>1 DEF signup
<1>2. ASSUME NEW c \in Calls, NEW d \in Devices, login(c, d), UNCHANGED memberVars
      PROVE  Signing(k)'
  BY <1>2 DEF login
<1>3. ASSUME NEW c \in Calls, NEW d \in Devices, choose_role(c, d), UNCHANGED memberVars
      PROVE  Signing(k)'
  BY <1>3 DEF choose_role, RowFree
<1>4. ASSUME NEW c \in Calls, NEW d \in Devices, refresh(c, d), UNCHANGED memberVars
      PROVE  Signing(k)'
  BY <1>4 DEF refresh
<1>5. ASSUME NEW c \in Calls, NEW d \in Devices, logout(c, d), UNCHANGED memberVars
      PROVE  Signing(k)'
  BY <1>5 DEF logout
<1>6. ASSUME NEW c \in Calls, SignupInsert(c), UNCHANGED memberVars
      PROVE  Signing(k)'
  <2>0. At(c, "insert")
    BY <1>6, SignupInsertBranches
  <2>1. CASE role # "absent" /\ Goes(c, "raised")
    BY <2>0, <2>1 DEF Goes
  <2>2. CASE SignsUp(c)
    BY <2>0, <2>2 DEF SignsUp, Opens
  <2> QED BY <1>6, <2>1, <2>2, SignupInsertBranches
<1>7. ASSUME NEW c \in Calls, issue_refresh(c), UNCHANGED memberVars
      PROVE  Signing(k)'
  <2>1. At(c, "issue") /\ row = NoCall /\ Issues(c)
    BY <1>7, IssueEffect
  <2>2. /\ call'[c].pc = "answer" /\ call'[c].op = call[c].op
        /\ \A b \in Calls : b # c => call'[b] = call[b]
    BY <2>1 DEF Issues
  <2> QED BY <2>1, <2>2 DEF Issues
<1>8. ASSUME NEW c \in Calls, LockToken(c), UNCHANGED memberVars
      PROVE  Signing(k)'
  <2>1. At(c, "refresh") /\ Locks(c, "rotate", tokens[call[c].item].status)
    BY <1>8, LockTokenEffect
  <2> QED BY <2>1 DEF Locks
<1>9. ASSUME NEW c \in Calls, rotate_refresh(c), UNCHANGED memberVars
      PROVE  Signing(k)'
  <2>0. At(c, "rotate")
    BY <1>9, RotateBranches
  <2>1. CASE Succeeds(c)
    <3>1. /\ call'[c].pc = "payload" /\ call'[c].op = call[c].op
          /\ \A b \in Calls : b # c => call'[b] = call[b]
      BY <2>1 DEF Succeeds
    <3>2. row = c /\ UNCHANGED <<kakao, role, requests>>
      BY <2>0, <2>1 DEF Succeeds
    <3>3. CASE k = c
      BY <2>0, <3>1, <3>3 DEF Signing
    <3>4. CASE k # c
      <4>1. call[k].pc # "ask"
        BY <3>2, <3>4 DEF LockHeld
      <4> QED BY <3>1, <3>2, <3>4, <4>1 DEF Signing
    <3> QED BY <3>3, <3>4
  <2>2. CASE \E families \in SUBSET {tokens[call[c].item].family} : Refuses(c, families)
    BY <2>0, <2>2 DEF Refuses, Frees
  <2> QED BY <1>9, <2>1, <2>2, RotateBranches
<1>10. ASSUME NEW c \in Calls, session_payload(c), UNCHANGED memberVars
       PROVE  Signing(k)'
  BY <1>10 DEF session_payload
<1>11. ASSUME NEW c \in Calls, revoke_family_of(c), UNCHANGED memberVars
       PROVE  Signing(k)'
  <2>1. /\ At(c, "revoke") /\ row = NoCall /\ Clears(c, {tokens[call[c].item].family})
      /\ call' = [call EXCEPT ![c].pc = "answer", ![c].item = 0]
    BY <1>11, RevokeFamilyEffect
  <2>2. /\ call'[c].pc = "answer" /\ call'[c].op = call[c].op
        /\ \A b \in Calls : b # c => call'[b] = call[b]
    BY <2>1
  <2> QED BY <2>1, <2>2 DEF Clears
<1>12. ASSUME NEW c \in Calls, revoke_user_sessions(c), UNCHANGED memberVars
       PROVE  Signing(k)'
  <2>1. /\ At(c, "signout") /\ row = NoCall /\ Clears(c, Families)
      /\ call' = [call EXCEPT ![c] = Idle]
    BY <1>12, RevokeAllEffect
  <2> QED BY <2>1 DEF Clears
<1>13. ASSUME NEW c \in Calls, Answer(c), UNCHANGED memberVars
       PROVE  Signing(k)'
  <2>0. call[c].device \in Devices
    BY <1>13 DEF Answer, Refers
  <2>1. At(c, "answer") /\ Answers(c)
    BY <1>13, <2>0, AnswerEffect
  <2> QED BY <2>1 DEF Answers
<1>14. ASSUME NEW c \in Calls, Lose(c), UNCHANGED memberVars
       PROVE  Signing(k)'
  <2>1. RollsBack(c)
    BY <1>14, LoseEffect
  <2> QED BY <2>1 DEF RollsBack, Frees
<1>15. ASSUME NEW t \in DOMAIN tokens, GraceEnds(t), UNCHANGED memberVars
       PROVE  Signing(k)'
  BY <1>15 DEF GraceEnds
<1>16. ASSUME NEW c \in Calls, NEW d \in Devices, create_store(c, d)
       PROVE  Signing(k)'
  BY <1>16 DEF create_store
<1>17. ASSUME NEW c \in Calls, NEW d \in Devices, NEW s \in Stores \cup {NoStore},
              kakao_start(c, d, s)
       PROVE  Signing(k)'
  BY <1>17 DEF kakao_start
<1>18. ASSUME NEW c \in Calls, NEW d \in Devices, NEW s \in Stores, create_join_request(c,
              d, s)
       PROVE  Signing(k)'
  BY <1>18 DEF create_join_request
<1>19. ASSUME NEW c \in Calls, InsertStore(c)
       PROVE  Signing(k)'
  <2>1. At(c, "store") /\ Founds(c)
    BY <1>19, InsertStoreEffect
  <2> QED BY <2>1 DEF Founds
<1>20. ASSUME NEW c \in Calls, kakao_callback(c)
       PROVE  Signing(k)'
  <2>0. At(c, "callback")
    BY <1>20, CallbackBranches
  <2>1. CASE Quits(c)
    BY <2>0, <2>1 DEF Quits
  <2>2. CASE Goes(c, "find")
    BY <2>0, <2>2 DEF Goes
  <2> QED BY <1>20, <2>1, <2>2, CallbackBranches
<1>21. ASSUME NEW c \in Calls, EnterAccount(c)
       PROVE  Signing(k)'
  <2>0. At(c, "find") /\ role # "absent" /\ row = NoCall
    BY <1>21, EnterBranches
  <2>1. CASE Quits(c)
    BY <2>0, <2>1 DEF Quits
  <2>2. CASE Goes(c, "issue")
    BY <2>0, <2>2 DEF Goes
  <2>3. CASE Asks(c) /\ (role = "unset" \/ MayRequest(role, call[c].store))
    BY <2>0, <2>3 DEF Asks
  <2>4. CASE Holds(c) /\ (role = "unset" \/ MayRequest(role, call[c].store))
    BY <2>0, <2>4 DEF Holds
  <2> QED BY <1>21, <2>1, <2>2, <2>3, <2>4, EnterBranches
<1>22. ASSUME NEW c \in Calls, FindNoAccount(c)
       PROVE  Signing(k)'
  BY <1>22 DEF FindNoAccount
<1>23. ASSUME NEW c \in Calls, CreateAccount(c)
       PROVE  Signing(k)'
  <2>0. At(c, "create")
    BY <1>23, CreateBranches
  <2>1. CASE Creates(c)
    BY <2>0, <2>1 DEF Creates, Opens
  <2>2. CASE role = "absent" /\ Asks(c)
    BY <2>0, <2>2 DEF Asks
  <2>3. CASE role # "absent" /\ call[c].seen = "again" /\ Repeats(c, "raised")
    BY <2>0, <2>3 DEF Repeats
  <2>4. CASE role # "absent" /\ call[c].seen # "again" /\ Repeats(c, "find")
    BY <2>0, <2>4 DEF Repeats
  <2> QED BY <1>23, <2>1, <2>2, <2>3, <2>4, CreateBranches
<1>24. ASSUME NEW c \in Calls, JoinRole(c)
       PROVE  Signing(k)'
  BY <1>24 DEF JoinRole
<1>25. ASSUME NEW c \in Calls, JoinActive(c)
       PROVE  Signing(k)'
  <2>0. At(c, "active")
    BY <1>25, JoinActiveBranches
  <2>1. CASE Quits(c)
    BY <2>0, <2>1 DEF Quits
  <2>2. CASE Goes(c, "existing") /\ MayRequest(call[c].role, call[c].store)
    BY <2>0, <2>2 DEF Goes
  <2> QED BY <1>25, <2>1, <2>2, JoinActiveBranches
<1>26. ASSUME NEW c \in Calls, JoinExisting(c)
       PROVE  Signing(k)'
  <2>0. At(c, "existing")
    BY <1>26, JoinExistingBranches
  <2>1. CASE Quits(c)
    BY <2>0, <2>1 DEF Quits
  <2>2. CASE Goes(c, "request")
    BY <2>0, <2>2 DEF Goes
  <2> QED BY <1>26, <2>1, <2>2, JoinExistingBranches
<1>27. ASSUME NEW c \in Calls, InsertRequest(c)
       PROVE  Signing(k)'
  <2>0. At(c, "request")
    BY <1>27, InsertRequestBranches
  <2>1. CASE Pending(call[c].store) /\ Goes(c, "reread")
    BY <2>0, <2>1 DEF Goes
  <2>2. CASE Goes(c, "key")
    BY <2>0, <2>2 DEF Goes
  <2> QED BY <1>27, <2>1, <2>2, InsertRequestBranches
<1>28. ASSUME NEW c \in Calls, ReadRequest(c)
       PROVE  Signing(k)'
  <2>0. At(c, "reread")
    BY <1>28, ReadRequestBranches
  <2>1. CASE Quits(c)
    BY <2>0, <2>1 DEF Quits
  <2>2. CASE ~Pending(call[c].store) /\ Goes(c, "raised")
    BY <2>0, <2>2 DEF Goes
  <2> QED BY <1>28, <2>1, <2>2, ReadRequestBranches
<1>29. ASSUME NEW c \in Calls, InsertLink(c)
       PROVE  Signing(k)'
  <2>0. At(c, "link")
    BY <1>29, InsertLinkBranches
  <2>1. CASE call[c].store \in linked /\ Goes(c, "conflict")
    BY <2>0, <2>1 DEF Goes
  <2>2. CASE Links(c)
    BY <2>0, <2>2 DEF Links
  <2> QED BY <1>29, <2>1, <2>2, InsertLinkBranches
<1>30. ASSUME NEW c \in Calls, ReadLink(c)
       PROVE  Signing(k)'
  <2>0. At(c, "conflict")
    BY <1>30, ReadLinkBranches
  <2>1. CASE Quits(c)
    BY <2>0, <2>1 DEF Quits
  <2>2. CASE call[c].store \notin linked /\ Goes(c, "raised")
    BY <2>0, <2>2 DEF Goes
  <2> QED BY <1>30, <2>1, <2>2, ReadLinkBranches
<1>31. ASSUME NEW c \in Calls, LockPerson(c)
       PROVE  Signing(k)'
  <2>0. At(c, "decided")
    BY <1>31, LockPersonBranches
  <2>1. CASE Locks(c, "admit", "other")
    BY <2>0, <2>1 DEF Locks
  <2>2. CASE Locks(c, "admit", "none") /\ ActiveStores \subseteq {call[c].store}
    BY <2>0, <2>2 DEF Locks
  <2> QED BY <1>31, <2>1, <2>2, LockPersonBranches
<1>32. ASSUME NEW c \in Calls, Admit(c)
       PROVE  Signing(k)'
  <2>0. At(c, "admit")
    BY <1>32, AdmitBranches
  <2>1. CASE RollsBack(c)
    BY <2>0, <2>1 DEF RollsBack, Frees
  <2>2. CASE Admits(c)
    BY <2>0, <2>2 DEF Admits, Frees
  <2> QED BY <1>32, <2>1, <2>2, AdmitBranches
<1>33. ASSUME NEW c \in Calls, NEW s \in Stores, get_or_create(c, s)
       PROVE  Signing(k)'
  BY <1>33 DEF get_or_create
<1>34. ASSUME NEW c \in Calls, NEW s \in Stores, remove(c, s)
       PROVE  Signing(k)'
  BY <1>34 DEF remove
<1>35. ASSUME NEW c \in Calls, NEW i \in DOMAIN requests, approve(c, i)
       PROVE  Signing(k)'
  BY <1>35 DEF approve
<1>36. ASSUME NEW s \in Stores, rotate_link(s)
       PROVE  Signing(k)'
  BY <1>36 DEF rotate_link
<1>37. ASSUME NEW i \in DOMAIN requests, reject(i)
       PROVE  Signing(k)'
  <2>1. Waiting' \subseteq Waiting
    BY <1>37 DEF reject, Waiting, IsPending
  <2> QED BY <1>37, <2>1 DEF reject, sessionVars
<1>38. ASSUME NEW c \in Calls, ReferencePerson(c)
       PROVE  Signing(k)'
  <2>0. At(c, "key") /\ row = NoCall
    BY <1>38, ReferenceBranches
  <2>1. CASE Quits(c)
    BY <2>0, <2>1 DEF Quits
  <2>2. CASE Inserts(c)
    BY <2>0, <2>2 DEF Inserts
  <2> QED BY <1>38, <2>1, <2>2, ReferenceBranches
<1>39. ASSUME NEW c \in Calls, RequestAtSignIn(c)
       PROVE  Signing(k)'
  <2>1. At(c, "ask") /\ Obtains(c)
    BY <1>39, ObtainEffect
  <2> QED BY <2>1 DEF Obtains, Frees, Signing
<1>40. ASSUME NEW c \in Calls, Deadlock(c)
       PROVE  Signing(k)'
  <2>1. Falls(c)
    BY <1>40, DeadlockEffect
  <2>2. role # "absent"
    BY <1>40, VictimAsks
  <2> QED BY <2>1, <2>2 DEF Falls, Frees
<1> QED BY <1>1, <1>2, <1>3, <1>4, <1>5, <1>6, <1>7, <1>8, <1>9, <1>10, <1>11, <1>12, <1>13,
           <1>14, <1>15, <1>16, <1>17, <1>18, <1>19, <1>20, <1>21, <1>22, <1>23, <1>24,
           <1>25, <1>26, <1>27, <1>28, <1>29, <1>30, <1>31, <1>32, <1>33, <1>34, <1>35,
           <1>36, <1>37, <1>38, <1>39, <1>40 DEF Next, SessionNext, MembershipNext

(* What a call refers to stays, as rows are never deleted.                  *)
LEMMA RefersStays ==
    ASSUME SessionsAssumption, TypeOK, TokensGrown, RequestsGrown, 
           \A c \in Calls : Refers(c) /\ Signing(c), NEW k \in Calls, Next
    PROVE  Refers(k)'
<1>0. DOMAIN requests = 1..Len(requests)
  BY Sequences
<1> USE DEF memberVars, Free, At, Idle, TypeOK, CallRows, Refers, TokensGrown, RequestsGrown
<1>1. ASSUME NEW c \in Calls, NEW d \in Devices, signup(c, d), UNCHANGED memberVars
      PROVE  Refers(k)'
  BY <1>1, <1>0 DEF signup
<1>2. ASSUME NEW c \in Calls, NEW d \in Devices, login(c, d), UNCHANGED memberVars
      PROVE  Refers(k)'
  BY <1>2, <1>0 DEF login
<1>3. ASSUME NEW c \in Calls, NEW d \in Devices, choose_role(c, d), UNCHANGED memberVars
      PROVE  Refers(k)'
  BY <1>3, <1>0 DEF choose_role
<1>4. ASSUME NEW c \in Calls, NEW d \in Devices, refresh(c, d), UNCHANGED memberVars
      PROVE  Refers(k)'
  BY <1>4, <1>0 DEF refresh
<1>5. ASSUME NEW c \in Calls, NEW d \in Devices, logout(c, d), UNCHANGED memberVars
      PROVE  Refers(k)'
  BY <1>5, <1>0 DEF logout
<1>6. ASSUME NEW c \in Calls, SignupInsert(c), UNCHANGED memberVars
      PROVE  Refers(k)'
  <2>0. At(c, "insert")
    BY <1>6, SignupInsertBranches
  <2>1. CASE role # "absent" /\ Goes(c, "raised")
    BY <2>0, <2>1, <1>0 DEF Goes
  <2>2. CASE SignsUp(c)
    BY <2>0, <2>2, <1>0 DEF SignsUp, Opens
  <2> QED BY <1>6, <2>1, <2>2, SignupInsertBranches
<1>7. ASSUME NEW c \in Calls, issue_refresh(c), UNCHANGED memberVars
      PROVE  Refers(k)'
  <2>1. At(c, "issue") /\ row = NoCall /\ Issues(c)
    BY <1>7, IssueEffect
  <2> QED BY <2>1, <1>0 DEF Issues
<1>8. ASSUME NEW c \in Calls, LockToken(c), UNCHANGED memberVars
      PROVE  Refers(k)'
  <2>1. At(c, "refresh") /\ Locks(c, "rotate", tokens[call[c].item].status)
    BY <1>8, LockTokenEffect
  <2> QED BY <2>1, <1>0 DEF Locks
<1>9. ASSUME NEW c \in Calls, rotate_refresh(c), UNCHANGED memberVars
      PROVE  Refers(k)'
  <2>0. At(c, "rotate")
    BY <1>9, RotateBranches
  <2>1. CASE Succeeds(c)
    <3>0. tokens \in Seq(Tokens) /\ call[c].item \in 1..Len(tokens)
      BY <2>0, Sequences
    <3>1. /\ call' = [call EXCEPT ![c].pc = "payload", ![c].item = Len(tokens) + 1]
          /\ tokens' = Append([tokens EXCEPT ![call[c].item].status = "recent"],
                              [family |-> tokens[call[c].item].family, status |-> "live"])
          /\ UNCHANGED memberVars
      BY <2>1 DEF Succeeds
    <3>4. Len(tokens') = Len(tokens) + 1
      <4>1. "recent" \in Statuses
        BY DEF Statuses, Revoked
      <4>2. [family |-> tokens[call[c].item].family, status |-> "live"] \in Tokens
        <5>1. tokens[call[c].item] \in Tokens
          BY <3>0, Sequences
        <5> QED BY <5>1 DEF Tokens, Statuses
      <4> QED BY <3>0, <3>1, <4>1, <4>2, StatusChanged, TokenAppended
    <3>2. CASE k # c
      <4>1. call'[k] = call[k]
        BY <3>1, <3>2
      <4> QED BY <4>1, <3>1, <1>0
    <3>3. CASE k = c
      <4>1. call'[c] = [call[c] EXCEPT !.pc = "payload", !.item = Len(tokens) + 1]
        BY <3>1
      <4>2. call'[c].pc = "payload" /\ call'[c].item \in 0..Len(tokens')
            /\ call'[c].device = call[c].device
        BY <4>1, <3>4, Sequences
      <4>3. call[c].device \in Devices
        BY <2>0
      <4> QED BY <4>2, <4>3, <3>3
    <3> QED BY <3>2, <3>3
  <2>2. CASE \E families \in SUBSET {tokens[call[c].item].family} : Refuses(c, families)
    <3>1. call' = [call EXCEPT ![c] = Idle] /\ UNCHANGED memberVars
      BY <2>2 DEF Refuses
    <3> QED BY <3>1, <1>0
  <2> QED BY <1>9, <2>1, <2>2, RotateBranches
<1>10. ASSUME NEW c \in Calls, session_payload(c), UNCHANGED memberVars
       PROVE  Refers(k)'
  BY <1>10, <1>0 DEF session_payload
<1>11. ASSUME NEW c \in Calls, revoke_family_of(c), UNCHANGED memberVars
       PROVE  Refers(k)'
  <2>1. /\ At(c, "revoke") /\ row = NoCall /\ Clears(c, {tokens[call[c].item].family})
      /\ call' = [call EXCEPT ![c].pc = "answer", ![c].item = 0]
    BY <1>11, RevokeFamilyEffect
  <2> QED BY <2>1, <1>0 DEF Clears
<1>12. ASSUME NEW c \in Calls, revoke_user_sessions(c), UNCHANGED memberVars
       PROVE  Refers(k)'
  <2>1. /\ At(c, "signout") /\ row = NoCall /\ Clears(c, Families)
      /\ call' = [call EXCEPT ![c] = Idle]
    BY <1>12, RevokeAllEffect
  <2> QED BY <2>1, <1>0 DEF Clears
<1>13. ASSUME NEW c \in Calls, Answer(c), UNCHANGED memberVars
       PROVE  Refers(k)'
  <2>0. call[c].device \in Devices
    BY <1>13 DEF Answer
  <2>1. At(c, "answer") /\ Answers(c)
    BY <1>13, <2>0, AnswerEffect
  <2> QED BY <2>1, <1>0 DEF Answers
<1>14. ASSUME NEW c \in Calls, Lose(c), UNCHANGED memberVars
       PROVE  Refers(k)'
  <2>1. RollsBack(c)
    BY <1>14, LoseEffect
  <2> QED BY <2>1, <1>0 DEF RollsBack, Frees
<1>15. ASSUME NEW t \in DOMAIN tokens, GraceEnds(t), UNCHANGED memberVars
       PROVE  Refers(k)'
  BY <1>15, <1>0 DEF GraceEnds
<1>16. ASSUME NEW c \in Calls, NEW d \in Devices, create_store(c, d)
       PROVE  Refers(k)'
  BY <1>16, <1>0 DEF create_store
<1>17. ASSUME NEW c \in Calls, NEW d \in Devices, NEW s \in Stores \cup {NoStore},
              kakao_start(c, d, s)
       PROVE  Refers(k)'
  BY <1>17, <1>0 DEF kakao_start
<1>18. ASSUME NEW c \in Calls, NEW d \in Devices, NEW s \in Stores, create_join_request(c,
              d, s)
       PROVE  Refers(k)'
  BY <1>18, <1>0 DEF create_join_request
<1>19. ASSUME NEW c \in Calls, InsertStore(c)
       PROVE  Refers(k)'
  <2>1. At(c, "store") /\ Founds(c)
    BY <1>19, InsertStoreEffect
  <2> QED BY <2>1, <1>0 DEF Founds
<1>20. ASSUME NEW c \in Calls, kakao_callback(c)
       PROVE  Refers(k)'
  <2>0. At(c, "callback")
    BY <1>20, CallbackBranches
  <2>1. CASE Quits(c)
    BY <2>0, <2>1, <1>0 DEF Quits
  <2>2. CASE Goes(c, "find")
    BY <2>0, <2>2, <1>0 DEF Goes
  <2> QED BY <1>20, <2>1, <2>2, CallbackBranches
<1>21. ASSUME NEW c \in Calls, EnterAccount(c)
       PROVE  Refers(k)'
  <2>0. At(c, "find") /\ role # "absent" /\ row = NoCall
    BY <1>21, EnterBranches
  <2>1. CASE Quits(c)
    BY <2>0, <2>1, <1>0 DEF Quits
  <2>2. CASE Goes(c, "issue")
    BY <2>0, <2>2, <1>0 DEF Goes
  <2>3. CASE Asks(c) /\ (role = "unset" \/ MayRequest(role, call[c].store))
    BY <2>0, <2>3, <1>0 DEF Asks
  <2>4. CASE Holds(c) /\ (role = "unset" \/ MayRequest(role, call[c].store))
    BY <2>0, <2>4, <1>0 DEF Holds
  <2> QED BY <1>21, <2>1, <2>2, <2>3, <2>4, EnterBranches
<1>22. ASSUME NEW c \in Calls, FindNoAccount(c)
       PROVE  Refers(k)'
  BY <1>22, <1>0 DEF FindNoAccount
<1>23. ASSUME NEW c \in Calls, CreateAccount(c)
       PROVE  Refers(k)'
  <2>0. At(c, "create")
    BY <1>23, CreateBranches
  <2>1. CASE Creates(c)
    BY <2>0, <2>1, <1>0 DEF Creates, Opens
  <2>2. CASE role = "absent" /\ Asks(c)
    BY <2>0, <2>2, <1>0 DEF Asks
  <2>3. CASE role # "absent" /\ call[c].seen = "again" /\ Repeats(c, "raised")
    BY <2>0, <2>3, <1>0 DEF Repeats
  <2>4. CASE role # "absent" /\ call[c].seen # "again" /\ Repeats(c, "find")
    BY <2>0, <2>4, <1>0 DEF Repeats
  <2> QED BY <1>23, <2>1, <2>2, <2>3, <2>4, CreateBranches
<1>24. ASSUME NEW c \in Calls, JoinRole(c)
       PROVE  Refers(k)'
  BY <1>24, <1>0 DEF JoinRole
<1>25. ASSUME NEW c \in Calls, JoinActive(c)
       PROVE  Refers(k)'
  <2>0. At(c, "active")
    BY <1>25, JoinActiveBranches
  <2>1. CASE Quits(c)
    BY <2>0, <2>1, <1>0 DEF Quits
  <2>2. CASE Goes(c, "existing") /\ MayRequest(call[c].role, call[c].store)
    BY <2>0, <2>2, <1>0 DEF Goes
  <2> QED BY <1>25, <2>1, <2>2, JoinActiveBranches
<1>26. ASSUME NEW c \in Calls, JoinExisting(c)
       PROVE  Refers(k)'
  <2>0. At(c, "existing")
    BY <1>26, JoinExistingBranches
  <2>1. CASE Quits(c)
    BY <2>0, <2>1, <1>0 DEF Quits
  <2>2. CASE Goes(c, "request")
    BY <2>0, <2>2, <1>0 DEF Goes
  <2> QED BY <1>26, <2>1, <2>2, JoinExistingBranches
<1>27. ASSUME NEW c \in Calls, InsertRequest(c)
       PROVE  Refers(k)'
  <2>0. At(c, "request")
    BY <1>27, InsertRequestBranches
  <2>1. CASE Pending(call[c].store) /\ Goes(c, "reread")
    BY <2>0, <2>1, <1>0 DEF Goes
  <2>2. CASE Goes(c, "key")
    BY <2>0, <2>2, <1>0 DEF Goes
  <2> QED BY <1>27, <2>1, <2>2, InsertRequestBranches
<1>28. ASSUME NEW c \in Calls, ReadRequest(c)
       PROVE  Refers(k)'
  <2>0. At(c, "reread")
    BY <1>28, ReadRequestBranches
  <2>1. CASE Quits(c)
    BY <2>0, <2>1, <1>0 DEF Quits
  <2>2. CASE ~Pending(call[c].store) /\ Goes(c, "raised")
    BY <2>0, <2>2, <1>0 DEF Goes
  <2> QED BY <1>28, <2>1, <2>2, ReadRequestBranches
<1>29. ASSUME NEW c \in Calls, InsertLink(c)
       PROVE  Refers(k)'
  <2>0. At(c, "link")
    BY <1>29, InsertLinkBranches
  <2>1. CASE call[c].store \in linked /\ Goes(c, "conflict")
    BY <2>0, <2>1, <1>0 DEF Goes
  <2>2. CASE Links(c)
    BY <2>0, <2>2, <1>0 DEF Links
  <2> QED BY <1>29, <2>1, <2>2, InsertLinkBranches
<1>30. ASSUME NEW c \in Calls, ReadLink(c)
       PROVE  Refers(k)'
  <2>0. At(c, "conflict")
    BY <1>30, ReadLinkBranches
  <2>1. CASE Quits(c)
    BY <2>0, <2>1, <1>0 DEF Quits
  <2>2. CASE call[c].store \notin linked /\ Goes(c, "raised")
    BY <2>0, <2>2, <1>0 DEF Goes
  <2> QED BY <1>30, <2>1, <2>2, ReadLinkBranches
<1>31. ASSUME NEW c \in Calls, LockPerson(c)
       PROVE  Refers(k)'
  <2>0. At(c, "decided")
    BY <1>31, LockPersonBranches
  <2>1. CASE Locks(c, "admit", "other")
    BY <2>0, <2>1, <1>0 DEF Locks
  <2>2. CASE Locks(c, "admit", "none") /\ ActiveStores \subseteq {call[c].store}
    BY <2>0, <2>2, <1>0 DEF Locks
  <2> QED BY <1>31, <2>1, <2>2, LockPersonBranches
<1>32. ASSUME NEW c \in Calls, Admit(c)
       PROVE  Refers(k)'
  <2>0. At(c, "admit")
    BY <1>32, AdmitBranches
  <2>1. CASE RollsBack(c)
    BY <2>0, <2>1, <1>0 DEF RollsBack, Frees
  <2>2. CASE Admits(c)
    BY <2>0, <2>2, <1>0 DEF Admits, Frees
  <2> QED BY <1>32, <2>1, <2>2, AdmitBranches
<1>33. ASSUME NEW c \in Calls, NEW s \in Stores, get_or_create(c, s)
       PROVE  Refers(k)'
  BY <1>33, <1>0 DEF get_or_create
<1>34. ASSUME NEW c \in Calls, NEW s \in Stores, remove(c, s)
       PROVE  Refers(k)'
  BY <1>34, <1>0 DEF remove
<1>35. ASSUME NEW c \in Calls, NEW i \in DOMAIN requests, approve(c, i)
       PROVE  Refers(k)'
  BY <1>35, <1>0 DEF approve
<1>36. ASSUME NEW s \in Stores, rotate_link(s)
       PROVE  Refers(k)'
  BY <1>36, <1>0 DEF rotate_link
<1>37. ASSUME NEW i \in DOMAIN requests, reject(i)
       PROVE  Refers(k)'
  <2>1. call' = call /\ UNCHANGED <<kakao, role, tokens, jar, claims, row, ended, member, owned, linked>>
    BY <1>37 DEF reject, sessionVars
  <2> QED BY <2>1, <1>0
<1>38. ASSUME NEW c \in Calls, ReferencePerson(c)
       PROVE  Refers(k)'
  <2>0. At(c, "key") /\ row = NoCall
    BY <1>38, ReferenceBranches
  <2>1. CASE Quits(c)
    BY <2>0, <2>1, <1>0 DEF Quits
  <2>2. CASE Inserts(c)
    BY <2>0, <2>2, <1>0 DEF Inserts
  <2> QED BY <1>38, <2>1, <2>2, ReferenceBranches
<1>39. ASSUME NEW c \in Calls, RequestAtSignIn(c)
       PROVE  Refers(k)'
  <2>1. At(c, "ask") /\ Obtains(c)
    BY <1>39, ObtainEffect
  <2> QED BY <2>1, <1>0 DEF Obtains, Frees, Signing
<1>40. ASSUME NEW c \in Calls, Deadlock(c)
       PROVE  Refers(k)'
  <2>1. Falls(c)
    BY <1>40, DeadlockEffect
  <2> QED BY <2>1, <1>0 DEF Falls, Frees
<1> QED BY <1>1, <1>2, <1>3, <1>4, <1>5, <1>6, <1>7, <1>8, <1>9, <1>10, <1>11, <1>12, <1>13,
           <1>14, <1>15, <1>16, <1>17, <1>18, <1>19, <1>20, <1>21, <1>22, <1>23, <1>24,
           <1>25, <1>26, <1>27, <1>28, <1>29, <1>30, <1>31, <1>32, <1>33, <1>34, <1>35,
           <1>36, <1>37, <1>38, <1>39, <1>40 DEF Next, SessionNext, MembershipNext

(* No action changes a role that is set (choose_role, JoinRole,              *)
(* complete_kakao_login), and none gives the person a store or a place       *)
(* without the role it needs.                                               *)
LEMMA ChosenStays ==
    ASSUME TypeOK, Unknown, Chosen, OneWorkplace, 
           \A c \in Calls : Refers(c) /\ Signing(c), RequestsGrown, Next
    PROVE  Chosen'
<1>0. DOMAIN requests = 1..Len(requests)
  BY Sequences
<1> USE DEF memberVars, Free, At, Idle, Chosen, TypeOK, Unknown, OneWorkplace, MayRequest,
            ActiveStores
<1>1. ASSUME NEW c \in Calls, NEW d \in Devices, signup(c, d), UNCHANGED memberVars
      PROVE  Chosen'
  BY <1>1, <1>0 DEF signup
<1>2. ASSUME NEW c \in Calls, NEW d \in Devices, login(c, d), UNCHANGED memberVars
      PROVE  Chosen'
  BY <1>2, <1>0 DEF login
<1>3. ASSUME NEW c \in Calls, NEW d \in Devices, choose_role(c, d), UNCHANGED memberVars
      PROVE  Chosen'
  BY <1>3, <1>0 DEF choose_role
<1>4. ASSUME NEW c \in Calls, NEW d \in Devices, refresh(c, d), UNCHANGED memberVars
      PROVE  Chosen'
  BY <1>4, <1>0 DEF refresh
<1>5. ASSUME NEW c \in Calls, NEW d \in Devices, logout(c, d), UNCHANGED memberVars
      PROVE  Chosen'
  BY <1>5, <1>0 DEF logout
<1>6. ASSUME NEW c \in Calls, SignupInsert(c), UNCHANGED memberVars
      PROVE  Chosen'
  <2>0. At(c, "insert")
    BY <1>6, SignupInsertBranches
  <2>1. CASE role # "absent" /\ Goes(c, "raised")
    BY <2>0, <2>1, <1>0 DEF Goes
  <2>2. CASE SignsUp(c)
    BY <2>0, <2>2, <1>0 DEF SignsUp, Opens
  <2> QED BY <1>6, <2>1, <2>2, SignupInsertBranches
<1>7. ASSUME NEW c \in Calls, issue_refresh(c), UNCHANGED memberVars
      PROVE  Chosen'
  <2>1. At(c, "issue") /\ row = NoCall /\ Issues(c)
    BY <1>7, IssueEffect
  <2> QED BY <2>1, <1>0 DEF Issues
<1>8. ASSUME NEW c \in Calls, LockToken(c), UNCHANGED memberVars
      PROVE  Chosen'
  <2>1. At(c, "refresh") /\ Locks(c, "rotate", tokens[call[c].item].status)
    BY <1>8, LockTokenEffect
  <2> QED BY <2>1, <1>0 DEF Locks
<1>9. ASSUME NEW c \in Calls, rotate_refresh(c), UNCHANGED memberVars
      PROVE  Chosen'
  <2>0. At(c, "rotate")
    BY <1>9, RotateBranches
  <2>1. CASE Succeeds(c)
    BY <2>0, <2>1, <1>0 DEF Succeeds, Frees
  <2>2. CASE \E families \in SUBSET {tokens[call[c].item].family} : Refuses(c, families)
    BY <2>0, <2>2, <1>0 DEF Refuses, Frees
  <2> QED BY <1>9, <2>1, <2>2, RotateBranches
<1>10. ASSUME NEW c \in Calls, session_payload(c), UNCHANGED memberVars
       PROVE  Chosen'
  BY <1>10, <1>0 DEF session_payload
<1>11. ASSUME NEW c \in Calls, revoke_family_of(c), UNCHANGED memberVars
       PROVE  Chosen'
  <2>1. /\ At(c, "revoke") /\ row = NoCall /\ Clears(c, {tokens[call[c].item].family})
      /\ call' = [call EXCEPT ![c].pc = "answer", ![c].item = 0]
    BY <1>11, RevokeFamilyEffect
  <2> QED BY <2>1, <1>0 DEF Clears
<1>12. ASSUME NEW c \in Calls, revoke_user_sessions(c), UNCHANGED memberVars
       PROVE  Chosen'
  <2>1. /\ At(c, "signout") /\ row = NoCall /\ Clears(c, Families)
      /\ call' = [call EXCEPT ![c] = Idle]
    BY <1>12, RevokeAllEffect
  <2> QED BY <2>1, <1>0 DEF Clears
<1>13. ASSUME NEW c \in Calls, Answer(c), UNCHANGED memberVars
       PROVE  Chosen'
  <2>0. call[c].device \in Devices
    BY <1>13 DEF Answer, Refers
  <2>1. At(c, "answer") /\ Answers(c)
    BY <1>13, <2>0, AnswerEffect
  <2> QED BY <2>1, <1>0 DEF Answers
<1>14. ASSUME NEW c \in Calls, Lose(c), UNCHANGED memberVars
       PROVE  Chosen'
  <2>1. RollsBack(c)
    BY <1>14, LoseEffect
  <2> QED BY <2>1, <1>0 DEF RollsBack, Frees
<1>15. ASSUME NEW t \in DOMAIN tokens, GraceEnds(t), UNCHANGED memberVars
       PROVE  Chosen'
  BY <1>15, <1>0 DEF GraceEnds
<1>16. ASSUME NEW c \in Calls, NEW d \in Devices, create_store(c, d)
       PROVE  Chosen'
  BY <1>16, <1>0 DEF create_store
<1>17. ASSUME NEW c \in Calls, NEW d \in Devices, NEW s \in Stores \cup {NoStore},
              kakao_start(c, d, s)
       PROVE  Chosen'
  BY <1>17, <1>0 DEF kakao_start
<1>18. ASSUME NEW c \in Calls, NEW d \in Devices, NEW s \in Stores, create_join_request(c,
              d, s)
       PROVE  Chosen'
  BY <1>18, <1>0 DEF create_join_request
<1>19. ASSUME NEW c \in Calls, InsertStore(c)
       PROVE  Chosen'
  <2>1. At(c, "store") /\ Founds(c)
    BY <1>19, InsertStoreEffect
  <2> QED BY <2>1, <1>0 DEF Founds
<1>20. ASSUME NEW c \in Calls, kakao_callback(c)
       PROVE  Chosen'
  <2>0. At(c, "callback")
    BY <1>20, CallbackBranches
  <2>1. CASE Quits(c)
    BY <2>0, <2>1, <1>0 DEF Quits
  <2>2. CASE Goes(c, "find")
    BY <2>0, <2>2, <1>0 DEF Goes
  <2> QED BY <1>20, <2>1, <2>2, CallbackBranches
<1>21. ASSUME NEW c \in Calls, EnterAccount(c)
       PROVE  Chosen'
  <2>0. At(c, "find") /\ role # "absent" /\ row = NoCall
    BY <1>21, EnterBranches
  <2>1. CASE Quits(c)
    BY <2>0, <2>1, <1>0 DEF Quits
  <2>2. CASE Goes(c, "issue")
    BY <2>0, <2>2, <1>0 DEF Goes
  <2>3. CASE Asks(c) /\ (role = "unset" \/ MayRequest(role, call[c].store))
    BY <2>0, <2>3, <1>0 DEF Asks
  <2>4. CASE Holds(c) /\ (role = "unset" \/ MayRequest(role, call[c].store))
    BY <2>0, <2>4, <1>0 DEF Holds
  <2> QED BY <1>21, <2>1, <2>2, <2>3, <2>4, EnterBranches
<1>22. ASSUME NEW c \in Calls, FindNoAccount(c)
       PROVE  Chosen'
  BY <1>22, <1>0 DEF FindNoAccount
<1>23. ASSUME NEW c \in Calls, CreateAccount(c)
       PROVE  Chosen'
  <2>0. At(c, "create")
    BY <1>23, CreateBranches
  <2>1. CASE Creates(c)
    BY <2>0, <2>1, <1>0 DEF Creates, Opens
  <2>2. CASE role = "absent" /\ Asks(c)
    BY <2>0, <2>2, <1>0 DEF Asks
  <2>3. CASE role # "absent" /\ call[c].seen = "again" /\ Repeats(c, "raised")
    BY <2>0, <2>3, <1>0 DEF Repeats
  <2>4. CASE role # "absent" /\ call[c].seen # "again" /\ Repeats(c, "find")
    BY <2>0, <2>4, <1>0 DEF Repeats
  <2> QED BY <1>23, <2>1, <2>2, <2>3, <2>4, CreateBranches
<1>24. ASSUME NEW c \in Calls, JoinRole(c)
       PROVE  Chosen'
  BY <1>24, <1>0 DEF JoinRole
<1>25. ASSUME NEW c \in Calls, JoinActive(c)
       PROVE  Chosen'
  <2>0. At(c, "active")
    BY <1>25, JoinActiveBranches
  <2>1. CASE Quits(c)
    BY <2>0, <2>1, <1>0 DEF Quits
  <2>2. CASE Goes(c, "existing") /\ MayRequest(call[c].role, call[c].store)
    BY <2>0, <2>2, <1>0 DEF Goes
  <2> QED BY <1>25, <2>1, <2>2, JoinActiveBranches
<1>26. ASSUME NEW c \in Calls, JoinExisting(c)
       PROVE  Chosen'
  <2>0. At(c, "existing")
    BY <1>26, JoinExistingBranches
  <2>1. CASE Quits(c)
    BY <2>0, <2>1, <1>0 DEF Quits
  <2>2. CASE Goes(c, "request")
    BY <2>0, <2>2, <1>0 DEF Goes
  <2> QED BY <1>26, <2>1, <2>2, JoinExistingBranches
<1>27. ASSUME NEW c \in Calls, InsertRequest(c)
       PROVE  Chosen'
  <2>0. At(c, "request")
    BY <1>27, InsertRequestBranches
  <2>1. CASE Pending(call[c].store) /\ Goes(c, "reread")
    BY <2>0, <2>1, <1>0 DEF Goes
  <2>2. CASE Goes(c, "key")
    BY <2>0, <2>2, <1>0 DEF Goes
  <2> QED BY <1>27, <2>1, <2>2, InsertRequestBranches
<1>28. ASSUME NEW c \in Calls, ReadRequest(c)
       PROVE  Chosen'
  <2>0. At(c, "reread")
    BY <1>28, ReadRequestBranches
  <2>1. CASE Quits(c)
    BY <2>0, <2>1, <1>0 DEF Quits
  <2>2. CASE ~Pending(call[c].store) /\ Goes(c, "raised")
    BY <2>0, <2>2, <1>0 DEF Goes
  <2> QED BY <1>28, <2>1, <2>2, ReadRequestBranches
<1>29. ASSUME NEW c \in Calls, InsertLink(c)
       PROVE  Chosen'
  <2>0. At(c, "link")
    BY <1>29, InsertLinkBranches
  <2>1. CASE call[c].store \in linked /\ Goes(c, "conflict")
    BY <2>0, <2>1, <1>0 DEF Goes
  <2>2. CASE Links(c)
    BY <2>0, <2>2, <1>0 DEF Links
  <2> QED BY <1>29, <2>1, <2>2, InsertLinkBranches
<1>30. ASSUME NEW c \in Calls, ReadLink(c)
       PROVE  Chosen'
  <2>0. At(c, "conflict")
    BY <1>30, ReadLinkBranches
  <2>1. CASE Quits(c)
    BY <2>0, <2>1, <1>0 DEF Quits
  <2>2. CASE call[c].store \notin linked /\ Goes(c, "raised")
    BY <2>0, <2>2, <1>0 DEF Goes
  <2> QED BY <1>30, <2>1, <2>2, ReadLinkBranches
<1>31. ASSUME NEW c \in Calls, LockPerson(c)
       PROVE  Chosen'
  <2>0. At(c, "decided")
    BY <1>31, LockPersonBranches
  <2>1. CASE Locks(c, "admit", "other")
    BY <2>0, <2>1, <1>0 DEF Locks
  <2>2. CASE Locks(c, "admit", "none") /\ ActiveStores \subseteq {call[c].store}
    BY <2>0, <2>2, <1>0 DEF Locks
  <2> QED BY <1>31, <2>1, <2>2, LockPersonBranches
<1>32. ASSUME NEW c \in Calls, Admit(c)
       PROVE  Chosen'
  <2>0. At(c, "admit")
    BY <1>32, AdmitBranches
  <2>1. CASE RollsBack(c)
    BY <2>0, <2>1, <1>0 DEF RollsBack, Frees, Refers
  <2>2. CASE Admits(c)
    BY <2>0, <2>2, <1>0 DEF Admits, Frees, Refers
  <2> QED BY <1>32, <2>1, <2>2, AdmitBranches
<1>33. ASSUME NEW c \in Calls, NEW s \in Stores, get_or_create(c, s)
       PROVE  Chosen'
  BY <1>33, <1>0 DEF get_or_create
<1>34. ASSUME NEW c \in Calls, NEW s \in Stores, remove(c, s)
       PROVE  Chosen'
  BY <1>34, <1>0 DEF remove
<1>35. ASSUME NEW c \in Calls, NEW i \in DOMAIN requests, approve(c, i)
       PROVE  Chosen'
  BY <1>35, <1>0 DEF approve
<1>36. ASSUME NEW s \in Stores, rotate_link(s)
       PROVE  Chosen'
  BY <1>36, <1>0 DEF rotate_link
<1>37. ASSUME NEW i \in DOMAIN requests, reject(i)
       PROVE  Chosen'
  <2>1. call' = call /\ UNCHANGED <<kakao, role, tokens, jar, claims, row, ended, member, owned, linked>>
    BY <1>37 DEF reject, sessionVars
  <2> QED BY <2>1, <1>0
<1>38. ASSUME NEW c \in Calls, ReferencePerson(c)
       PROVE  Chosen'
  <2>0. At(c, "key") /\ row = NoCall
    BY <1>38, ReferenceBranches
  <2>1. CASE Quits(c)
    BY <2>0, <2>1, <1>0 DEF Quits
  <2>2. CASE Inserts(c)
    BY <2>0, <2>2, <1>0 DEF Inserts
  <2> QED BY <1>38, <2>1, <2>2, ReferenceBranches
<1>39. ASSUME NEW c \in Calls, RequestAtSignIn(c)
       PROVE  Chosen'
  <2>1. At(c, "ask") /\ Obtains(c)
    BY <1>39, ObtainEffect
  <2> QED BY <2>1, <1>0 DEF Obtains, Frees, Signing
<1>40. ASSUME NEW c \in Calls, Deadlock(c)
       PROVE  Chosen'
  <2>1. Falls(c)
    BY <1>40, DeadlockEffect
  <2> QED BY <2>1, <1>0 DEF Falls, Frees
<1> QED BY <1>1, <1>2, <1>3, <1>4, <1>5, <1>6, <1>7, <1>8, <1>9, <1>10, <1>11, <1>12, <1>13,
           <1>14, <1>15, <1>16, <1>17, <1>18, <1>19, <1>20, <1>21, <1>22, <1>23, <1>24,
           <1>25, <1>26, <1>27, <1>28, <1>29, <1>30, <1>31, <1>32, <1>33, <1>34, <1>35,
           <1>36, <1>37, <1>38, <1>39, <1>40 DEF Next, SessionNext, MembershipNext

(* Nothing that a rotation or an approval has read under the lock on the     *)
(* row changes before it commits.                                           *)
LEMMA LockStays ==
    ASSUME SessionsAssumption, TypeOK, LockHeld, Chosen, \A c \in Calls : Refers(c) /\ Signing(c), Next
    PROVE  LockHeld'
<1>0. DOMAIN requests = 1..Len(requests)
  BY Sequences
<1> USE DEF memberVars, Free, At, Idle, LockHeld, TypeOK, MayRequest, ActiveStores
<1>1. ASSUME NEW c \in Calls, NEW d \in Devices, signup(c, d), UNCHANGED memberVars
      PROVE  LockHeld'
  BY <1>1, <1>0 DEF signup
<1>2. ASSUME NEW c \in Calls, NEW d \in Devices, login(c, d), UNCHANGED memberVars
      PROVE  LockHeld'
  BY <1>2, <1>0 DEF login
<1>3. ASSUME NEW c \in Calls, NEW d \in Devices, choose_role(c, d), UNCHANGED memberVars
      PROVE  LockHeld'
  BY <1>3, <1>0 DEF choose_role
<1>4. ASSUME NEW c \in Calls, NEW d \in Devices, refresh(c, d), UNCHANGED memberVars
      PROVE  LockHeld'
  BY <1>4, <1>0 DEF refresh
<1>5. ASSUME NEW c \in Calls, NEW d \in Devices, logout(c, d), UNCHANGED memberVars
      PROVE  LockHeld'
  BY <1>5, <1>0 DEF logout
<1>6. ASSUME NEW c \in Calls, SignupInsert(c), UNCHANGED memberVars
      PROVE  LockHeld'
  <2>0. At(c, "insert")
    BY <1>6, SignupInsertBranches
  <2>1. CASE role # "absent" /\ Goes(c, "raised")
    BY <2>0, <2>1, <1>0 DEF Goes
  <2>2. CASE SignsUp(c)
    BY <2>0, <2>2, <1>0 DEF SignsUp, Opens
  <2> QED BY <1>6, <2>1, <2>2, SignupInsertBranches
<1>7. ASSUME NEW c \in Calls, issue_refresh(c), UNCHANGED memberVars
      PROVE  LockHeld'
  <2>1. At(c, "issue") /\ row = NoCall /\ Issues(c)
    BY <1>7, IssueEffect
  <2> QED BY <2>1, <1>0 DEF Issues
<1>8. ASSUME NEW c \in Calls, LockToken(c), UNCHANGED memberVars
      PROVE  LockHeld'
  <2>1. At(c, "refresh") /\ Locks(c, "rotate", tokens[call[c].item].status)
    BY <1>8, LockTokenEffect
  <2> QED BY <2>1, <1>0 DEF Locks
<1>9. ASSUME NEW c \in Calls, rotate_refresh(c), UNCHANGED memberVars
      PROVE  LockHeld'
  <2>0. At(c, "rotate")
    BY <1>9, RotateBranches
  <2>1. CASE Succeeds(c)
    BY <2>0, <2>1, <1>0 DEF Succeeds, Frees
  <2>2. CASE \E families \in SUBSET {tokens[call[c].item].family} : Refuses(c, families)
    BY <2>0, <2>2, <1>0 DEF Refuses, Frees
  <2> QED BY <1>9, <2>1, <2>2, RotateBranches
<1>10. ASSUME NEW c \in Calls, session_payload(c), UNCHANGED memberVars
       PROVE  LockHeld'
  BY <1>10, <1>0 DEF session_payload
<1>11. ASSUME NEW c \in Calls, revoke_family_of(c), UNCHANGED memberVars
       PROVE  LockHeld'
  <2>1. /\ At(c, "revoke") /\ row = NoCall /\ Clears(c, {tokens[call[c].item].family})
      /\ call' = [call EXCEPT ![c].pc = "answer", ![c].item = 0]
    BY <1>11, RevokeFamilyEffect
  <2> QED BY <2>1, <1>0 DEF Clears
<1>12. ASSUME NEW c \in Calls, revoke_user_sessions(c), UNCHANGED memberVars
       PROVE  LockHeld'
  <2>1. /\ At(c, "signout") /\ row = NoCall /\ Clears(c, Families)
      /\ call' = [call EXCEPT ![c] = Idle]
    BY <1>12, RevokeAllEffect
  <2> QED BY <2>1, <1>0 DEF Clears
<1>13. ASSUME NEW c \in Calls, Answer(c), UNCHANGED memberVars
       PROVE  LockHeld'
  <2>0. call[c].device \in Devices
    BY <1>13 DEF Answer, Refers
  <2>1. At(c, "answer") /\ Answers(c)
    BY <1>13, <2>0, AnswerEffect
  <2> QED BY <2>1, <1>0 DEF Answers
<1>14. ASSUME NEW c \in Calls, Lose(c), UNCHANGED memberVars
       PROVE  LockHeld'
  <2>1. RollsBack(c)
    BY <1>14, LoseEffect
  <2> QED BY <2>1, <1>0 DEF RollsBack, Frees
<1>15. ASSUME NEW t \in DOMAIN tokens, GraceEnds(t), UNCHANGED memberVars
       PROVE  LockHeld'
  BY <1>15, <1>0 DEF GraceEnds
<1>16. ASSUME NEW c \in Calls, NEW d \in Devices, create_store(c, d)
       PROVE  LockHeld'
  BY <1>16, <1>0 DEF create_store
<1>17. ASSUME NEW c \in Calls, NEW d \in Devices, NEW s \in Stores \cup {NoStore},
              kakao_start(c, d, s)
       PROVE  LockHeld'
  BY <1>17, <1>0 DEF kakao_start
<1>18. ASSUME NEW c \in Calls, NEW d \in Devices, NEW s \in Stores, create_join_request(c,
              d, s)
       PROVE  LockHeld'
  BY <1>18, <1>0 DEF create_join_request
<1>19. ASSUME NEW c \in Calls, InsertStore(c)
       PROVE  LockHeld'
  <2>1. At(c, "store") /\ Founds(c)
    BY <1>19, InsertStoreEffect
  <2> QED BY <2>1, <1>0 DEF Founds
<1>20. ASSUME NEW c \in Calls, kakao_callback(c)
       PROVE  LockHeld'
  <2>0. At(c, "callback")
    BY <1>20, CallbackBranches
  <2>1. CASE Quits(c)
    BY <2>0, <2>1, <1>0 DEF Quits
  <2>2. CASE Goes(c, "find")
    BY <2>0, <2>2, <1>0 DEF Goes
  <2> QED BY <1>20, <2>1, <2>2, CallbackBranches
<1>21. ASSUME NEW c \in Calls, EnterAccount(c)
       PROVE  LockHeld'
  <2>0. At(c, "find") /\ role # "absent" /\ row = NoCall
    BY <1>21, EnterBranches
  <2>1. CASE Quits(c)
    BY <2>0, <2>1, <1>0 DEF Quits
  <2>2. CASE Goes(c, "issue")
    BY <2>0, <2>2, <1>0 DEF Goes
  <2>3. CASE Asks(c) /\ (role = "unset" \/ MayRequest(role, call[c].store))
    BY <2>0, <2>3, <1>0 DEF Asks
  <2>4. CASE Holds(c) /\ (role = "unset" \/ MayRequest(role, call[c].store))
    BY <2>0, <2>4, <1>0 DEF Holds
  <2> QED BY <1>21, <2>1, <2>2, <2>3, <2>4, EnterBranches
<1>22. ASSUME NEW c \in Calls, FindNoAccount(c)
       PROVE  LockHeld'
  BY <1>22, <1>0 DEF FindNoAccount
<1>23. ASSUME NEW c \in Calls, CreateAccount(c)
       PROVE  LockHeld'
  <2>0. At(c, "create")
    BY <1>23, CreateBranches
  <2>1. CASE Creates(c)
    BY <2>0, <2>1, <1>0 DEF Creates, Opens
  <2>2. CASE role = "absent" /\ Asks(c)
    BY <2>0, <2>2, <1>0 DEF Asks
  <2>3. CASE role # "absent" /\ call[c].seen = "again" /\ Repeats(c, "raised")
    BY <2>0, <2>3, <1>0 DEF Repeats
  <2>4. CASE role # "absent" /\ call[c].seen # "again" /\ Repeats(c, "find")
    BY <2>0, <2>4, <1>0 DEF Repeats
  <2> QED BY <1>23, <2>1, <2>2, <2>3, <2>4, CreateBranches
<1>24. ASSUME NEW c \in Calls, JoinRole(c)
       PROVE  LockHeld'
  BY <1>24, <1>0 DEF JoinRole
<1>25. ASSUME NEW c \in Calls, JoinActive(c)
       PROVE  LockHeld'
  <2>0. At(c, "active")
    BY <1>25, JoinActiveBranches
  <2>1. CASE Quits(c)
    BY <2>0, <2>1, <1>0 DEF Quits
  <2>2. CASE Goes(c, "existing") /\ MayRequest(call[c].role, call[c].store)
    BY <2>0, <2>2, <1>0 DEF Goes
  <2> QED BY <1>25, <2>1, <2>2, JoinActiveBranches
<1>26. ASSUME NEW c \in Calls, JoinExisting(c)
       PROVE  LockHeld'
  <2>0. At(c, "existing")
    BY <1>26, JoinExistingBranches
  <2>1. CASE Quits(c)
    BY <2>0, <2>1, <1>0 DEF Quits
  <2>2. CASE Goes(c, "request")
    BY <2>0, <2>2, <1>0 DEF Goes
  <2> QED BY <1>26, <2>1, <2>2, JoinExistingBranches
<1>27. ASSUME NEW c \in Calls, InsertRequest(c)
       PROVE  LockHeld'
  <2>0. At(c, "request")
    BY <1>27, InsertRequestBranches
  <2>1. CASE Pending(call[c].store) /\ Goes(c, "reread")
    BY <2>0, <2>1, <1>0 DEF Goes
  <2>2. CASE Goes(c, "key")
    BY <2>0, <2>2, <1>0 DEF Goes
  <2> QED BY <1>27, <2>1, <2>2, InsertRequestBranches
<1>28. ASSUME NEW c \in Calls, ReadRequest(c)
       PROVE  LockHeld'
  <2>0. At(c, "reread")
    BY <1>28, ReadRequestBranches
  <2>1. CASE Quits(c)
    BY <2>0, <2>1, <1>0 DEF Quits
  <2>2. CASE ~Pending(call[c].store) /\ Goes(c, "raised")
    BY <2>0, <2>2, <1>0 DEF Goes
  <2> QED BY <1>28, <2>1, <2>2, ReadRequestBranches
<1>29. ASSUME NEW c \in Calls, InsertLink(c)
       PROVE  LockHeld'
  <2>0. At(c, "link")
    BY <1>29, InsertLinkBranches
  <2>1. CASE call[c].store \in linked /\ Goes(c, "conflict")
    BY <2>0, <2>1, <1>0 DEF Goes
  <2>2. CASE Links(c)
    BY <2>0, <2>2, <1>0 DEF Links
  <2> QED BY <1>29, <2>1, <2>2, InsertLinkBranches
<1>30. ASSUME NEW c \in Calls, ReadLink(c)
       PROVE  LockHeld'
  <2>0. At(c, "conflict")
    BY <1>30, ReadLinkBranches
  <2>1. CASE Quits(c)
    BY <2>0, <2>1, <1>0 DEF Quits
  <2>2. CASE call[c].store \notin linked /\ Goes(c, "raised")
    BY <2>0, <2>2, <1>0 DEF Goes
  <2> QED BY <1>30, <2>1, <2>2, ReadLinkBranches
<1>31. ASSUME NEW c \in Calls, LockPerson(c)
       PROVE  LockHeld'
  <2>0. At(c, "decided")
    BY <1>31, LockPersonBranches
  <2>1. CASE Locks(c, "admit", "other")
    BY <2>0, <2>1, <1>0 DEF Locks
  <2>2. CASE Locks(c, "admit", "none") /\ ActiveStores \subseteq {call[c].store}
    BY <2>0, <2>2, <1>0 DEF Locks
  <2> QED BY <1>31, <2>1, <2>2, LockPersonBranches
<1>32. ASSUME NEW c \in Calls, Admit(c)
       PROVE  LockHeld'
  <2>0. At(c, "admit")
    BY <1>32, AdmitBranches
  <2>1. CASE RollsBack(c)
    BY <2>0, <2>1, <1>0 DEF RollsBack, Frees
  <2>2. CASE Admits(c)
    BY <2>0, <2>2, <1>0 DEF Admits, Frees
  <2> QED BY <1>32, <2>1, <2>2, AdmitBranches
<1>33. ASSUME NEW c \in Calls, NEW s \in Stores, get_or_create(c, s)
       PROVE  LockHeld'
  BY <1>33, <1>0 DEF get_or_create
<1>34. ASSUME NEW c \in Calls, NEW s \in Stores, remove(c, s)
       PROVE  LockHeld'
  BY <1>34, <1>0 DEF remove
<1>35. ASSUME NEW c \in Calls, NEW i \in DOMAIN requests, approve(c, i)
       PROVE  LockHeld'
  BY <1>35, <1>0 DEF approve
<1>36. ASSUME NEW s \in Stores, rotate_link(s)
       PROVE  LockHeld'
  BY <1>36, <1>0 DEF rotate_link
<1>37. ASSUME NEW i \in DOMAIN requests, reject(i)
       PROVE  LockHeld'
  <2>1. call' = call /\ UNCHANGED <<kakao, role, tokens, jar, claims, row, ended, member, owned, linked>>
    BY <1>37 DEF reject, sessionVars
  <2> QED BY <2>1, <1>0
<1>38. ASSUME NEW c \in Calls, ReferencePerson(c)
       PROVE  LockHeld'
  <2>0. At(c, "key") /\ row = NoCall
    BY <1>38, ReferenceBranches
  <2>1. CASE Quits(c)
    BY <2>0, <2>1, <1>0 DEF Quits
  <2>2. CASE Inserts(c)
    BY <2>0, <2>2, <1>0 DEF Inserts
  <2> QED BY <1>38, <2>1, <2>2, ReferenceBranches
<1>39. ASSUME NEW c \in Calls, RequestAtSignIn(c)
       PROVE  LockHeld'
  <2>1. At(c, "ask") /\ Obtains(c)
    BY <1>39, ObtainEffect
  <2> QED BY <2>1, <1>0 DEF Obtains, Frees, Signing
<1>40. ASSUME NEW c \in Calls, Deadlock(c)
       PROVE  LockHeld'
  <2>1. Falls(c)
    BY <1>40, DeadlockEffect
  <2> QED BY <2>1, <1>0 DEF Falls, Frees
<1> QED BY <1>1, <1>2, <1>3, <1>4, <1>5, <1>6, <1>7, <1>8, <1>9, <1>10, <1>11, <1>12, <1>13,
           <1>14, <1>15, <1>16, <1>17, <1>18, <1>19, <1>20, <1>21, <1>22, <1>23, <1>24,
           <1>25, <1>26, <1>27, <1>28, <1>29, <1>30, <1>31, <1>32, <1>33, <1>34, <1>35,
           <1>36, <1>37, <1>38, <1>39, <1>40 DEF Next, SessionNext, MembershipNext

(* The approval has seen no other store, and no other approval came between. *)
LEMMA WorkplaceStays ==
    ASSUME TypeOK, LockHeld, Unknown, Chosen, OneWorkplace, 
           \A c \in Calls : Refers(c) /\ Signing(c), Next
    PROVE  OneWorkplace'
<1>0. DOMAIN requests = 1..Len(requests)
  BY Sequences
<1> USE DEF memberVars, Free, At, Idle, LockHeld, TypeOK, Chosen, OneWorkplace, Unknown,
            ActiveStores, MayRequest
<1>1. ASSUME NEW c \in Calls, NEW d \in Devices, signup(c, d), UNCHANGED memberVars
      PROVE  OneWorkplace'
  BY <1>1, <1>0 DEF signup
<1>2. ASSUME NEW c \in Calls, NEW d \in Devices, login(c, d), UNCHANGED memberVars
      PROVE  OneWorkplace'
  BY <1>2, <1>0 DEF login
<1>3. ASSUME NEW c \in Calls, NEW d \in Devices, choose_role(c, d), UNCHANGED memberVars
      PROVE  OneWorkplace'
  BY <1>3, <1>0 DEF choose_role
<1>4. ASSUME NEW c \in Calls, NEW d \in Devices, refresh(c, d), UNCHANGED memberVars
      PROVE  OneWorkplace'
  BY <1>4, <1>0 DEF refresh
<1>5. ASSUME NEW c \in Calls, NEW d \in Devices, logout(c, d), UNCHANGED memberVars
      PROVE  OneWorkplace'
  BY <1>5, <1>0 DEF logout
<1>6. ASSUME NEW c \in Calls, SignupInsert(c), UNCHANGED memberVars
      PROVE  OneWorkplace'
  <2>0. At(c, "insert")
    BY <1>6, SignupInsertBranches
  <2>1. CASE role # "absent" /\ Goes(c, "raised")
    BY <2>0, <2>1, <1>0 DEF Goes
  <2>2. CASE SignsUp(c)
    BY <2>0, <2>2, <1>0 DEF SignsUp, Opens
  <2> QED BY <1>6, <2>1, <2>2, SignupInsertBranches
<1>7. ASSUME NEW c \in Calls, issue_refresh(c), UNCHANGED memberVars
      PROVE  OneWorkplace'
  <2>1. At(c, "issue") /\ row = NoCall /\ Issues(c)
    BY <1>7, IssueEffect
  <2> QED BY <2>1, <1>0 DEF Issues
<1>8. ASSUME NEW c \in Calls, LockToken(c), UNCHANGED memberVars
      PROVE  OneWorkplace'
  <2>1. At(c, "refresh") /\ Locks(c, "rotate", tokens[call[c].item].status)
    BY <1>8, LockTokenEffect
  <2> QED BY <2>1, <1>0 DEF Locks
<1>9. ASSUME NEW c \in Calls, rotate_refresh(c), UNCHANGED memberVars
      PROVE  OneWorkplace'
  <2>0. At(c, "rotate")
    BY <1>9, RotateBranches
  <2>1. CASE Succeeds(c)
    BY <2>0, <2>1, <1>0 DEF Succeeds, Frees
  <2>2. CASE \E families \in SUBSET {tokens[call[c].item].family} : Refuses(c, families)
    BY <2>0, <2>2, <1>0 DEF Refuses, Frees
  <2> QED BY <1>9, <2>1, <2>2, RotateBranches
<1>10. ASSUME NEW c \in Calls, session_payload(c), UNCHANGED memberVars
       PROVE  OneWorkplace'
  BY <1>10, <1>0 DEF session_payload
<1>11. ASSUME NEW c \in Calls, revoke_family_of(c), UNCHANGED memberVars
       PROVE  OneWorkplace'
  <2>1. /\ At(c, "revoke") /\ row = NoCall /\ Clears(c, {tokens[call[c].item].family})
      /\ call' = [call EXCEPT ![c].pc = "answer", ![c].item = 0]
    BY <1>11, RevokeFamilyEffect
  <2> QED BY <2>1, <1>0 DEF Clears
<1>12. ASSUME NEW c \in Calls, revoke_user_sessions(c), UNCHANGED memberVars
       PROVE  OneWorkplace'
  <2>1. /\ At(c, "signout") /\ row = NoCall /\ Clears(c, Families)
      /\ call' = [call EXCEPT ![c] = Idle]
    BY <1>12, RevokeAllEffect
  <2> QED BY <2>1, <1>0 DEF Clears
<1>13. ASSUME NEW c \in Calls, Answer(c), UNCHANGED memberVars
       PROVE  OneWorkplace'
  <2>0. call[c].device \in Devices
    BY <1>13 DEF Answer, Refers
  <2>1. At(c, "answer") /\ Answers(c)
    BY <1>13, <2>0, AnswerEffect
  <2> QED BY <2>1, <1>0 DEF Answers
<1>14. ASSUME NEW c \in Calls, Lose(c), UNCHANGED memberVars
       PROVE  OneWorkplace'
  <2>1. RollsBack(c)
    BY <1>14, LoseEffect
  <2> QED BY <2>1, <1>0 DEF RollsBack, Frees
<1>15. ASSUME NEW t \in DOMAIN tokens, GraceEnds(t), UNCHANGED memberVars
       PROVE  OneWorkplace'
  BY <1>15, <1>0 DEF GraceEnds
<1>16. ASSUME NEW c \in Calls, NEW d \in Devices, create_store(c, d)
       PROVE  OneWorkplace'
  BY <1>16, <1>0 DEF create_store
<1>17. ASSUME NEW c \in Calls, NEW d \in Devices, NEW s \in Stores \cup {NoStore},
              kakao_start(c, d, s)
       PROVE  OneWorkplace'
  BY <1>17, <1>0 DEF kakao_start
<1>18. ASSUME NEW c \in Calls, NEW d \in Devices, NEW s \in Stores, create_join_request(c,
              d, s)
       PROVE  OneWorkplace'
  BY <1>18, <1>0 DEF create_join_request
<1>19. ASSUME NEW c \in Calls, InsertStore(c)
       PROVE  OneWorkplace'
  <2>1. At(c, "store") /\ Founds(c)
    BY <1>19, InsertStoreEffect
  <2> QED BY <2>1, <1>0 DEF Founds
<1>20. ASSUME NEW c \in Calls, kakao_callback(c)
       PROVE  OneWorkplace'
  <2>0. At(c, "callback")
    BY <1>20, CallbackBranches
  <2>1. CASE Quits(c)
    BY <2>0, <2>1, <1>0 DEF Quits
  <2>2. CASE Goes(c, "find")
    BY <2>0, <2>2, <1>0 DEF Goes
  <2> QED BY <1>20, <2>1, <2>2, CallbackBranches
<1>21. ASSUME NEW c \in Calls, EnterAccount(c)
       PROVE  OneWorkplace'
  <2>0. At(c, "find") /\ role # "absent" /\ row = NoCall
    BY <1>21, EnterBranches
  <2>1. CASE Quits(c)
    BY <2>0, <2>1, <1>0 DEF Quits
  <2>2. CASE Goes(c, "issue")
    BY <2>0, <2>2, <1>0 DEF Goes
  <2>3. CASE Asks(c) /\ (role = "unset" \/ MayRequest(role, call[c].store))
    BY <2>0, <2>3, <1>0 DEF Asks
  <2>4. CASE Holds(c) /\ (role = "unset" \/ MayRequest(role, call[c].store))
    BY <2>0, <2>4, <1>0 DEF Holds
  <2> QED BY <1>21, <2>1, <2>2, <2>3, <2>4, EnterBranches
<1>22. ASSUME NEW c \in Calls, FindNoAccount(c)
       PROVE  OneWorkplace'
  BY <1>22, <1>0 DEF FindNoAccount
<1>23. ASSUME NEW c \in Calls, CreateAccount(c)
       PROVE  OneWorkplace'
  <2>0. At(c, "create")
    BY <1>23, CreateBranches
  <2>1. CASE Creates(c)
    BY <2>0, <2>1, <1>0 DEF Creates, Opens
  <2>2. CASE role = "absent" /\ Asks(c)
    BY <2>0, <2>2, <1>0 DEF Asks
  <2>3. CASE role # "absent" /\ call[c].seen = "again" /\ Repeats(c, "raised")
    BY <2>0, <2>3, <1>0 DEF Repeats
  <2>4. CASE role # "absent" /\ call[c].seen # "again" /\ Repeats(c, "find")
    BY <2>0, <2>4, <1>0 DEF Repeats
  <2> QED BY <1>23, <2>1, <2>2, <2>3, <2>4, CreateBranches
<1>24. ASSUME NEW c \in Calls, JoinRole(c)
       PROVE  OneWorkplace'
  BY <1>24, <1>0 DEF JoinRole
<1>25. ASSUME NEW c \in Calls, JoinActive(c)
       PROVE  OneWorkplace'
  <2>0. At(c, "active")
    BY <1>25, JoinActiveBranches
  <2>1. CASE Quits(c)
    BY <2>0, <2>1, <1>0 DEF Quits
  <2>2. CASE Goes(c, "existing") /\ MayRequest(call[c].role, call[c].store)
    BY <2>0, <2>2, <1>0 DEF Goes
  <2> QED BY <1>25, <2>1, <2>2, JoinActiveBranches
<1>26. ASSUME NEW c \in Calls, JoinExisting(c)
       PROVE  OneWorkplace'
  <2>0. At(c, "existing")
    BY <1>26, JoinExistingBranches
  <2>1. CASE Quits(c)
    BY <2>0, <2>1, <1>0 DEF Quits
  <2>2. CASE Goes(c, "request")
    BY <2>0, <2>2, <1>0 DEF Goes
  <2> QED BY <1>26, <2>1, <2>2, JoinExistingBranches
<1>27. ASSUME NEW c \in Calls, InsertRequest(c)
       PROVE  OneWorkplace'
  <2>0. At(c, "request")
    BY <1>27, InsertRequestBranches
  <2>1. CASE Pending(call[c].store) /\ Goes(c, "reread")
    BY <2>0, <2>1, <1>0 DEF Goes
  <2>2. CASE Goes(c, "key")
    BY <2>0, <2>2, <1>0 DEF Goes
  <2> QED BY <1>27, <2>1, <2>2, InsertRequestBranches
<1>28. ASSUME NEW c \in Calls, ReadRequest(c)
       PROVE  OneWorkplace'
  <2>0. At(c, "reread")
    BY <1>28, ReadRequestBranches
  <2>1. CASE Quits(c)
    BY <2>0, <2>1, <1>0 DEF Quits
  <2>2. CASE ~Pending(call[c].store) /\ Goes(c, "raised")
    BY <2>0, <2>2, <1>0 DEF Goes
  <2> QED BY <1>28, <2>1, <2>2, ReadRequestBranches
<1>29. ASSUME NEW c \in Calls, InsertLink(c)
       PROVE  OneWorkplace'
  <2>0. At(c, "link")
    BY <1>29, InsertLinkBranches
  <2>1. CASE call[c].store \in linked /\ Goes(c, "conflict")
    BY <2>0, <2>1, <1>0 DEF Goes
  <2>2. CASE Links(c)
    BY <2>0, <2>2, <1>0 DEF Links
  <2> QED BY <1>29, <2>1, <2>2, InsertLinkBranches
<1>30. ASSUME NEW c \in Calls, ReadLink(c)
       PROVE  OneWorkplace'
  <2>0. At(c, "conflict")
    BY <1>30, ReadLinkBranches
  <2>1. CASE Quits(c)
    BY <2>0, <2>1, <1>0 DEF Quits
  <2>2. CASE call[c].store \notin linked /\ Goes(c, "raised")
    BY <2>0, <2>2, <1>0 DEF Goes
  <2> QED BY <1>30, <2>1, <2>2, ReadLinkBranches
<1>31. ASSUME NEW c \in Calls, LockPerson(c)
       PROVE  OneWorkplace'
  <2>0. At(c, "decided")
    BY <1>31, LockPersonBranches
  <2>1. CASE Locks(c, "admit", "other")
    BY <2>0, <2>1, <1>0 DEF Locks
  <2>2. CASE Locks(c, "admit", "none") /\ ActiveStores \subseteq {call[c].store}
    BY <2>0, <2>2, <1>0 DEF Locks
  <2> QED BY <1>31, <2>1, <2>2, LockPersonBranches
<1>32. ASSUME NEW c \in Calls, Admit(c)
       PROVE  OneWorkplace'
  <2>0. At(c, "admit")
    BY <1>32, AdmitBranches
  <2>1. CASE RollsBack(c)
    BY <2>0, <2>1, <1>0 DEF RollsBack, Frees, Refers
  <2>2. CASE Admits(c)
    BY <2>0, <2>2, <1>0 DEF Admits, Frees, Refers
  <2> QED BY <1>32, <2>1, <2>2, AdmitBranches
<1>33. ASSUME NEW c \in Calls, NEW s \in Stores, get_or_create(c, s)
       PROVE  OneWorkplace'
  BY <1>33, <1>0 DEF get_or_create
<1>34. ASSUME NEW c \in Calls, NEW s \in Stores, remove(c, s)
       PROVE  OneWorkplace'
  BY <1>34, <1>0 DEF remove
<1>35. ASSUME NEW c \in Calls, NEW i \in DOMAIN requests, approve(c, i)
       PROVE  OneWorkplace'
  BY <1>35, <1>0 DEF approve
<1>36. ASSUME NEW s \in Stores, rotate_link(s)
       PROVE  OneWorkplace'
  BY <1>36, <1>0 DEF rotate_link
<1>37. ASSUME NEW i \in DOMAIN requests, reject(i)
       PROVE  OneWorkplace'
  <2>1. call' = call /\ UNCHANGED <<kakao, role, tokens, jar, claims, row, ended, member, owned, linked>>
    BY <1>37 DEF reject, sessionVars
  <2> QED BY <2>1, <1>0
<1>38. ASSUME NEW c \in Calls, ReferencePerson(c)
       PROVE  OneWorkplace'
  <2>0. At(c, "key") /\ row = NoCall
    BY <1>38, ReferenceBranches
  <2>1. CASE Quits(c)
    BY <2>0, <2>1, <1>0 DEF Quits
  <2>2. CASE Inserts(c)
    BY <2>0, <2>2, <1>0 DEF Inserts
  <2> QED BY <1>38, <2>1, <2>2, ReferenceBranches
<1>39. ASSUME NEW c \in Calls, RequestAtSignIn(c)
       PROVE  OneWorkplace'
  <2>1. At(c, "ask") /\ Obtains(c)
    BY <1>39, ObtainEffect
  <2> QED BY <2>1, <1>0 DEF Obtains, Frees, Signing
<1>40. ASSUME NEW c \in Calls, Deadlock(c)
       PROVE  OneWorkplace'
  <2>1. Falls(c)
    BY <1>40, DeadlockEffect
  <2> QED BY <2>1, <1>0 DEF Falls, Frees
<1> QED BY <1>1, <1>2, <1>3, <1>4, <1>5, <1>6, <1>7, <1>8, <1>9, <1>10, <1>11, <1>12, <1>13,
           <1>14, <1>15, <1>16, <1>17, <1>18, <1>19, <1>20, <1>21, <1>22, <1>23, <1>24,
           <1>25, <1>26, <1>27, <1>28, <1>29, <1>30, <1>31, <1>32, <1>33, <1>34, <1>35,
           <1>36, <1>37, <1>38, <1>39, <1>40 DEF Next, SessionNext, MembershipNext

(* The loser of a race finds what the winner made.                          *)
LEMMA LoserStays ==
    ASSUME TypeOK, RequestsGrown, \A c \in Calls : Refers(c), NEW k \in Calls, Loser(k), Next
    PROVE  Loser(k)'
<1>0. /\ DOMAIN requests = 1..Len(requests) /\ DOMAIN tokens = 1..Len(tokens)
      /\ \A t \in 1..Len(tokens) : tokens[t] \in Tokens
  BY Sequences
<1>a. /\ \A s : Asked(s) => Asked(s)'
      /\ \A s : Pending(s) => Asked(s)
  BY <1>0 DEF Asked, Pending, RequestsGrown
<1>b. \A t \in 1..Len(tokens) : tokens[t].status # "again"
  BY <1>0 DEF Tokens, Statuses, Revoked
<1> USE DEF memberVars, Free, At, Idle, TypeOK, Loser, Refers
<1>1. ASSUME NEW c \in Calls, NEW d \in Devices, signup(c, d), UNCHANGED memberVars
      PROVE  Loser(k)'
  BY <1>1, <1>a DEF signup
<1>2. ASSUME NEW c \in Calls, NEW d \in Devices, login(c, d), UNCHANGED memberVars
      PROVE  Loser(k)'
  BY <1>2, <1>a DEF login
<1>3. ASSUME NEW c \in Calls, NEW d \in Devices, choose_role(c, d), UNCHANGED memberVars
      PROVE  Loser(k)'
  BY <1>3, <1>a DEF choose_role
<1>4. ASSUME NEW c \in Calls, NEW d \in Devices, refresh(c, d), UNCHANGED memberVars
      PROVE  Loser(k)'
  BY <1>4, <1>a DEF refresh
<1>5. ASSUME NEW c \in Calls, NEW d \in Devices, logout(c, d), UNCHANGED memberVars
      PROVE  Loser(k)'
  BY <1>5, <1>a DEF logout
<1>6. ASSUME NEW c \in Calls, SignupInsert(c), UNCHANGED memberVars
      PROVE  Loser(k)'
  <2>0. At(c, "insert")
    BY <1>6, SignupInsertBranches
  <2>1. CASE role # "absent" /\ Goes(c, "raised")
    BY <2>0, <2>1, <1>a DEF Goes
  <2>2. CASE SignsUp(c)
    BY <2>0, <2>2, <1>a DEF SignsUp, Opens
  <2> QED BY <1>6, <2>1, <2>2, SignupInsertBranches
<1>7. ASSUME NEW c \in Calls, issue_refresh(c), UNCHANGED memberVars
      PROVE  Loser(k)'
  <2>1. At(c, "issue") /\ row = NoCall /\ Issues(c)
    BY <1>7, IssueEffect
  <2> QED BY <2>1, <1>a DEF Issues
<1>8. ASSUME NEW c \in Calls, LockToken(c), UNCHANGED memberVars
      PROVE  Loser(k)'
  <2>1. At(c, "refresh") /\ Locks(c, "rotate", tokens[call[c].item].status)
    BY <1>8, LockTokenEffect
  <2> QED BY <2>1, <1>a, <1>b DEF Locks
<1>9. ASSUME NEW c \in Calls, rotate_refresh(c), UNCHANGED memberVars
      PROVE  Loser(k)'
  <2>0. At(c, "rotate")
    BY <1>9, RotateBranches
  <2>1. CASE Succeeds(c)
    BY <2>0, <2>1, <1>a DEF Succeeds, Frees
  <2>2. CASE \E families \in SUBSET {tokens[call[c].item].family} : Refuses(c, families)
    BY <2>0, <2>2, <1>a DEF Refuses, Frees
  <2> QED BY <1>9, <2>1, <2>2, RotateBranches
<1>10. ASSUME NEW c \in Calls, session_payload(c), UNCHANGED memberVars
       PROVE  Loser(k)'
  BY <1>10, <1>a DEF session_payload
<1>11. ASSUME NEW c \in Calls, revoke_family_of(c), UNCHANGED memberVars
       PROVE  Loser(k)'
  <2>1. /\ At(c, "revoke") /\ row = NoCall /\ Clears(c, {tokens[call[c].item].family})
      /\ call' = [call EXCEPT ![c].pc = "answer", ![c].item = 0]
    BY <1>11, RevokeFamilyEffect
  <2> QED BY <2>1, <1>a DEF Clears
<1>12. ASSUME NEW c \in Calls, revoke_user_sessions(c), UNCHANGED memberVars
       PROVE  Loser(k)'
  <2>1. /\ At(c, "signout") /\ row = NoCall /\ Clears(c, Families)
      /\ call' = [call EXCEPT ![c] = Idle]
    BY <1>12, RevokeAllEffect
  <2> QED BY <2>1, <1>a DEF Clears
<1>13. ASSUME NEW c \in Calls, Answer(c), UNCHANGED memberVars
       PROVE  Loser(k)'
  <2>0. call[c].device \in Devices
    BY <1>13 DEF Answer
  <2>1. At(c, "answer") /\ Answers(c)
    BY <1>13, <2>0, AnswerEffect
  <2> QED BY <2>1, <1>a DEF Answers
<1>14. ASSUME NEW c \in Calls, Lose(c), UNCHANGED memberVars
       PROVE  Loser(k)'
  <2>1. RollsBack(c)
    BY <1>14, LoseEffect
  <2> QED BY <2>1, <1>a DEF RollsBack, Frees
<1>15. ASSUME NEW t \in DOMAIN tokens, GraceEnds(t), UNCHANGED memberVars
       PROVE  Loser(k)'
  BY <1>15, <1>a DEF GraceEnds
<1>16. ASSUME NEW c \in Calls, NEW d \in Devices, create_store(c, d)
       PROVE  Loser(k)'
  BY <1>16, <1>a DEF create_store
<1>17. ASSUME NEW c \in Calls, NEW d \in Devices, NEW s \in Stores \cup {NoStore},
              kakao_start(c, d, s)
       PROVE  Loser(k)'
  BY <1>17, <1>a DEF kakao_start
<1>18. ASSUME NEW c \in Calls, NEW d \in Devices, NEW s \in Stores, create_join_request(c,
              d, s)
       PROVE  Loser(k)'
  BY <1>18, <1>a DEF create_join_request
<1>19. ASSUME NEW c \in Calls, InsertStore(c)
       PROVE  Loser(k)'
  <2>1. At(c, "store") /\ Founds(c)
    BY <1>19, InsertStoreEffect
  <2> QED BY <2>1, <1>a DEF Founds
<1>20. ASSUME NEW c \in Calls, kakao_callback(c)
       PROVE  Loser(k)'
  <2>0. At(c, "callback")
    BY <1>20, CallbackBranches
  <2>1. CASE Quits(c)
    BY <2>0, <2>1, <1>a DEF Quits
  <2>2. CASE Goes(c, "find")
    BY <2>0, <2>2, <1>a DEF Goes
  <2> QED BY <1>20, <2>1, <2>2, CallbackBranches
<1>21. ASSUME NEW c \in Calls, EnterAccount(c)
       PROVE  Loser(k)'
  <2>0. At(c, "find") /\ role # "absent" /\ row = NoCall
    BY <1>21, EnterBranches
  <2>1. CASE Quits(c)
    BY <2>0, <2>1, <1>a DEF Quits
  <2>2. CASE Goes(c, "issue")
    BY <2>0, <2>2, <1>a DEF Goes
  <2>3. CASE Asks(c) /\ (role = "unset" \/ MayRequest(role, call[c].store))
    BY <2>0, <2>3, <1>a DEF Asks
  <2>4. CASE Holds(c) /\ (role = "unset" \/ MayRequest(role, call[c].store))
    BY <2>0, <2>4, <1>a DEF Holds
  <2> QED BY <1>21, <2>1, <2>2, <2>3, <2>4, EnterBranches
<1>22. ASSUME NEW c \in Calls, FindNoAccount(c)
       PROVE  Loser(k)'
  BY <1>22, <1>a DEF FindNoAccount
<1>23. ASSUME NEW c \in Calls, CreateAccount(c)
       PROVE  Loser(k)'
  <2>0. At(c, "create")
    BY <1>23, CreateBranches
  <2>1. CASE Creates(c)
    BY <2>0, <2>1, <1>a DEF Creates, Opens
  <2>2. CASE role = "absent" /\ Asks(c)
    BY <2>0, <2>2, <1>a DEF Asks
  <2>3. CASE role # "absent" /\ call[c].seen = "again" /\ Repeats(c, "raised")
    BY <2>0, <2>3, <1>a DEF Repeats
  <2>4. CASE role # "absent" /\ call[c].seen # "again" /\ Repeats(c, "find")
    BY <2>0, <2>4, <1>a DEF Repeats
  <2> QED BY <1>23, <2>1, <2>2, <2>3, <2>4, CreateBranches
<1>24. ASSUME NEW c \in Calls, JoinRole(c)
       PROVE  Loser(k)'
  BY <1>24, <1>a DEF JoinRole
<1>25. ASSUME NEW c \in Calls, JoinActive(c)
       PROVE  Loser(k)'
  <2>0. At(c, "active")
    BY <1>25, JoinActiveBranches
  <2>1. CASE Quits(c)
    BY <2>0, <2>1, <1>a DEF Quits
  <2>2. CASE Goes(c, "existing") /\ MayRequest(call[c].role, call[c].store)
    BY <2>0, <2>2, <1>a DEF Goes
  <2> QED BY <1>25, <2>1, <2>2, JoinActiveBranches
<1>26. ASSUME NEW c \in Calls, JoinExisting(c)
       PROVE  Loser(k)'
  <2>0. At(c, "existing")
    BY <1>26, JoinExistingBranches
  <2>1. CASE Quits(c)
    BY <2>0, <2>1, <1>a DEF Quits
  <2>2. CASE Goes(c, "request")
    BY <2>0, <2>2, <1>a DEF Goes
  <2> QED BY <1>26, <2>1, <2>2, JoinExistingBranches
<1>27. ASSUME NEW c \in Calls, InsertRequest(c)
       PROVE  Loser(k)'
  <2>0. At(c, "request")
    BY <1>27, InsertRequestBranches
  <2>1. CASE Pending(call[c].store) /\ Goes(c, "reread")
    BY <2>0, <2>1, <1>a DEF Goes
  <2>2. CASE Goes(c, "key")
    BY <2>0, <2>2, <1>a DEF Goes
  <2> QED BY <1>27, <2>1, <2>2, InsertRequestBranches
<1>28. ASSUME NEW c \in Calls, ReadRequest(c)
       PROVE  Loser(k)'
  <2>0. At(c, "reread")
    BY <1>28, ReadRequestBranches
  <2>1. CASE Quits(c)
    BY <2>0, <2>1, <1>a DEF Quits
  <2>2. CASE ~Pending(call[c].store) /\ Goes(c, "raised")
    BY <2>0, <2>2, <1>a DEF Goes
  <2> QED BY <1>28, <2>1, <2>2, ReadRequestBranches
<1>29. ASSUME NEW c \in Calls, InsertLink(c)
       PROVE  Loser(k)'
  <2>0. At(c, "link")
    BY <1>29, InsertLinkBranches
  <2>1. CASE call[c].store \in linked /\ Goes(c, "conflict")
    BY <2>0, <2>1, <1>a DEF Goes
  <2>2. CASE Links(c)
    BY <2>0, <2>2, <1>a DEF Links
  <2> QED BY <1>29, <2>1, <2>2, InsertLinkBranches
<1>30. ASSUME NEW c \in Calls, ReadLink(c)
       PROVE  Loser(k)'
  <2>0. At(c, "conflict")
    BY <1>30, ReadLinkBranches
  <2>1. CASE Quits(c)
    BY <2>0, <2>1, <1>a DEF Quits
  <2>2. CASE call[c].store \notin linked /\ Goes(c, "raised")
    BY <2>0, <2>2, <1>a DEF Goes
  <2> QED BY <1>30, <2>1, <2>2, ReadLinkBranches
<1>31. ASSUME NEW c \in Calls, LockPerson(c)
       PROVE  Loser(k)'
  <2>0. At(c, "decided")
    BY <1>31, LockPersonBranches
  <2>1. CASE Locks(c, "admit", "other")
    BY <2>0, <2>1, <1>a DEF Locks
  <2>2. CASE Locks(c, "admit", "none") /\ ActiveStores \subseteq {call[c].store}
    BY <2>0, <2>2, <1>a DEF Locks
  <2> QED BY <1>31, <2>1, <2>2, LockPersonBranches
<1>32. ASSUME NEW c \in Calls, Admit(c)
       PROVE  Loser(k)'
  <2>0. At(c, "admit")
    BY <1>32, AdmitBranches
  <2>1. CASE RollsBack(c)
    BY <2>0, <2>1, <1>a DEF RollsBack, Frees
  <2>2. CASE Admits(c)
    BY <2>0, <2>2, <1>a DEF Admits, Frees
  <2> QED BY <1>32, <2>1, <2>2, AdmitBranches
<1>33. ASSUME NEW c \in Calls, NEW s \in Stores, get_or_create(c, s)
       PROVE  Loser(k)'
  BY <1>33, <1>a DEF get_or_create
<1>34. ASSUME NEW c \in Calls, NEW s \in Stores, remove(c, s)
       PROVE  Loser(k)'
  BY <1>34, <1>a DEF remove
<1>35. ASSUME NEW c \in Calls, NEW i \in DOMAIN requests, approve(c, i)
       PROVE  Loser(k)'
  BY <1>35, <1>a DEF approve
<1>36. ASSUME NEW s \in Stores, rotate_link(s)
       PROVE  Loser(k)'
  BY <1>36, <1>a DEF rotate_link
<1>37. ASSUME NEW i \in DOMAIN requests, reject(i)
       PROVE  Loser(k)'
  <2>1. call' = call /\ UNCHANGED <<kakao, role, tokens, jar, claims, row, ended, member, owned, linked>>
    BY <1>37 DEF reject, sessionVars
  <2> QED BY <2>1, <1>a
<1>38. ASSUME NEW c \in Calls, ReferencePerson(c)
       PROVE  Loser(k)'
  <2>0. At(c, "key") /\ row = NoCall
    BY <1>38, ReferenceBranches
  <2>1. CASE Quits(c)
    BY <2>0, <2>1, <1>a DEF Quits
  <2>2. CASE Inserts(c)
    BY <2>0, <2>2, <1>a DEF Inserts
  <2> QED BY <1>38, <2>1, <2>2, ReferenceBranches
<1>39. ASSUME NEW c \in Calls, RequestAtSignIn(c)
       PROVE  Loser(k)'
  <2>1. At(c, "ask") /\ Obtains(c)
    BY <1>39, ObtainEffect
  <2> QED BY <2>1, <1>a DEF Obtains, Frees, Signing
<1>40. ASSUME NEW c \in Calls, Deadlock(c)
       PROVE  Loser(k)'
  <2>1. Falls(c)
    BY <1>40, DeadlockEffect
  <2> QED BY <2>1, <1>a DEF Falls, Frees
<1> QED BY <1>1, <1>2, <1>3, <1>4, <1>5, <1>6, <1>7, <1>8, <1>9, <1>10, <1>11, <1>12, <1>13,
           <1>14, <1>15, <1>16, <1>17, <1>18, <1>19, <1>20, <1>21, <1>22, <1>23, <1>24,
           <1>25, <1>26, <1>27, <1>28, <1>29, <1>30, <1>31, <1>32, <1>33, <1>34, <1>35,
           <1>36, <1>37, <1>38, <1>39, <1>40 DEF Next, SessionNext, MembershipNext

(* A request fails only if the other one has been decided (RacesAreAnswered). *)
LEMMA AnsweredStays ==
    ASSUME SessionsAssumption, TypeOK, RequestsGrown, Unknown, LockHeld,
           \A c \in Calls : Refers(c) /\ Signing(c), NEW k \in Calls, Loser(k), Answered(k), Next
    PROVE  Answered(k)'
<1>0. DOMAIN requests = 1..Len(requests)
  BY Sequences
<1>a. \A s : Asked(s) /\ ~Pending(s) => Decided(s)
  BY <1>0 DEF Asked, Pending, IsPending, Decided
<1>b. \A s : Decided(s) => Decided(s)'
  <2>1. Len(requests) \in Nat
    BY Sequences
  <2> QED BY <2>1 DEF RequestsGrown, Decided
<1>c. At(k, "raised") => role # "absent"
  BY DEF Unknown, At
<1> USE <1>b, <1>c DEF memberVars, Free, At, Idle, TypeOK, Answered
<1>1. ASSUME NEW c \in Calls, NEW d \in Devices, signup(c, d), UNCHANGED memberVars
      PROVE  Answered(k)'
  BY <1>1 DEF signup
<1>2. ASSUME NEW c \in Calls, NEW d \in Devices, login(c, d), UNCHANGED memberVars
      PROVE  Answered(k)'
  BY <1>2 DEF login
<1>3. ASSUME NEW c \in Calls, NEW d \in Devices, choose_role(c, d), UNCHANGED memberVars
      PROVE  Answered(k)'
  BY <1>3 DEF choose_role
<1>4. ASSUME NEW c \in Calls, NEW d \in Devices, refresh(c, d), UNCHANGED memberVars
      PROVE  Answered(k)'
  BY <1>4 DEF refresh
<1>5. ASSUME NEW c \in Calls, NEW d \in Devices, logout(c, d), UNCHANGED memberVars
      PROVE  Answered(k)'
  BY <1>5 DEF logout
<1>6. ASSUME NEW c \in Calls, SignupInsert(c), UNCHANGED memberVars
      PROVE  Answered(k)'
  <2>0. At(c, "insert")
    BY <1>6, SignupInsertBranches
  <2>1. CASE role # "absent" /\ Goes(c, "raised")
    BY <2>0, <2>1 DEF Goes, Signing
  <2>2. CASE SignsUp(c)
    BY <2>0, <2>2 DEF SignsUp, Opens
  <2> QED BY <1>6, <2>1, <2>2, SignupInsertBranches
<1>7. ASSUME NEW c \in Calls, issue_refresh(c), UNCHANGED memberVars
      PROVE  Answered(k)'
  <2>1. At(c, "issue") /\ row = NoCall /\ Issues(c)
    BY <1>7, IssueEffect
  <2> QED BY <2>1 DEF Issues
<1>8. ASSUME NEW c \in Calls, LockToken(c), UNCHANGED memberVars
      PROVE  Answered(k)'
  <2>1. At(c, "refresh") /\ Locks(c, "rotate", tokens[call[c].item].status)
    BY <1>8, LockTokenEffect
  <2> QED BY <2>1 DEF Locks
<1>9. ASSUME NEW c \in Calls, rotate_refresh(c), UNCHANGED memberVars
      PROVE  Answered(k)'
  <2>0. At(c, "rotate")
    BY <1>9, RotateBranches
  <2>1. CASE Succeeds(c)
    BY <2>0, <2>1 DEF Succeeds, Frees
  <2>2. CASE \E families \in SUBSET {tokens[call[c].item].family} : Refuses(c, families)
    BY <2>0, <2>2 DEF Refuses, Frees
  <2> QED BY <1>9, <2>1, <2>2, RotateBranches
<1>10. ASSUME NEW c \in Calls, session_payload(c), UNCHANGED memberVars
       PROVE  Answered(k)'
  BY <1>10 DEF session_payload
<1>11. ASSUME NEW c \in Calls, revoke_family_of(c), UNCHANGED memberVars
       PROVE  Answered(k)'
  <2>1. /\ At(c, "revoke") /\ row = NoCall /\ Clears(c, {tokens[call[c].item].family})
      /\ call' = [call EXCEPT ![c].pc = "answer", ![c].item = 0]
    BY <1>11, RevokeFamilyEffect
  <2> QED BY <2>1 DEF Clears
<1>12. ASSUME NEW c \in Calls, revoke_user_sessions(c), UNCHANGED memberVars
       PROVE  Answered(k)'
  <2>1. /\ At(c, "signout") /\ row = NoCall /\ Clears(c, Families)
      /\ call' = [call EXCEPT ![c] = Idle]
    BY <1>12, RevokeAllEffect
  <2> QED BY <2>1 DEF Clears
<1>13. ASSUME NEW c \in Calls, Answer(c), UNCHANGED memberVars
       PROVE  Answered(k)'
  <2>0. call[c].device \in Devices
    BY <1>13 DEF Answer, Refers
  <2>1. At(c, "answer") /\ Answers(c)
    BY <1>13, <2>0, AnswerEffect
  <2> QED BY <2>1 DEF Answers
<1>14. ASSUME NEW c \in Calls, Lose(c), UNCHANGED memberVars
       PROVE  Answered(k)'
  <2>1. RollsBack(c)
    BY <1>14, LoseEffect
  <2> QED BY <2>1 DEF RollsBack, Frees
<1>15. ASSUME NEW t \in DOMAIN tokens, GraceEnds(t), UNCHANGED memberVars
       PROVE  Answered(k)'
  BY <1>15 DEF GraceEnds
<1>16. ASSUME NEW c \in Calls, NEW d \in Devices, create_store(c, d)
       PROVE  Answered(k)'
  BY <1>16 DEF create_store
<1>17. ASSUME NEW c \in Calls, NEW d \in Devices, NEW s \in Stores \cup {NoStore},
              kakao_start(c, d, s)
       PROVE  Answered(k)'
  BY <1>17 DEF kakao_start
<1>18. ASSUME NEW c \in Calls, NEW d \in Devices, NEW s \in Stores, create_join_request(c,
              d, s)
       PROVE  Answered(k)'
  BY <1>18 DEF create_join_request
<1>19. ASSUME NEW c \in Calls, InsertStore(c)
       PROVE  Answered(k)'
  <2>1. At(c, "store") /\ Founds(c)
    BY <1>19, InsertStoreEffect
  <2> QED BY <2>1 DEF Founds
<1>20. ASSUME NEW c \in Calls, kakao_callback(c)
       PROVE  Answered(k)'
  <2>0. At(c, "callback")
    BY <1>20, CallbackBranches
  <2>1. CASE Quits(c)
    BY <2>0, <2>1 DEF Quits
  <2>2. CASE Goes(c, "find")
    BY <2>0, <2>2 DEF Goes
  <2> QED BY <1>20, <2>1, <2>2, CallbackBranches
<1>21. ASSUME NEW c \in Calls, EnterAccount(c)
       PROVE  Answered(k)'
  <2>0. At(c, "find") /\ role # "absent" /\ row = NoCall
    BY <1>21, EnterBranches
  <2>1. CASE Quits(c)
    BY <2>0, <2>1 DEF Quits
  <2>2. CASE Goes(c, "issue")
    BY <2>0, <2>2 DEF Goes
  <2>3. CASE Asks(c) /\ (role = "unset" \/ MayRequest(role, call[c].store))
    BY <2>0, <2>3 DEF Asks
  <2>4. CASE Holds(c) /\ (role = "unset" \/ MayRequest(role, call[c].store))
    BY <2>0, <2>4 DEF Holds
  <2> QED BY <1>21, <2>1, <2>2, <2>3, <2>4, EnterBranches
<1>22. ASSUME NEW c \in Calls, FindNoAccount(c)
       PROVE  Answered(k)'
  BY <1>22 DEF FindNoAccount
<1>23. ASSUME NEW c \in Calls, CreateAccount(c)
       PROVE  Answered(k)'
  <2>0. At(c, "create")
    BY <1>23, CreateBranches
  <2>1. CASE Creates(c)
    BY <2>0, <2>1 DEF Creates, Opens, Loser
  <2>2. CASE role = "absent" /\ Asks(c)
    BY <2>0, <2>2 DEF Asks, Loser
  <2>3. CASE role # "absent" /\ call[c].seen = "again" /\ Repeats(c, "raised")
    BY <2>0, <2>3 DEF Repeats, Loser
  <2>4. CASE role # "absent" /\ call[c].seen # "again" /\ Repeats(c, "find")
    BY <2>0, <2>4 DEF Repeats, Loser
  <2> QED BY <1>23, <2>1, <2>2, <2>3, <2>4, CreateBranches
<1>24. ASSUME NEW c \in Calls, JoinRole(c)
       PROVE  Answered(k)'
  BY <1>24 DEF JoinRole
<1>25. ASSUME NEW c \in Calls, JoinActive(c)
       PROVE  Answered(k)'
  <2>0. At(c, "active")
    BY <1>25, JoinActiveBranches
  <2>1. CASE Quits(c)
    BY <2>0, <2>1 DEF Quits
  <2>2. CASE Goes(c, "existing") /\ MayRequest(call[c].role, call[c].store)
    BY <2>0, <2>2 DEF Goes
  <2> QED BY <1>25, <2>1, <2>2, JoinActiveBranches
<1>26. ASSUME NEW c \in Calls, JoinExisting(c)
       PROVE  Answered(k)'
  <2>0. At(c, "existing")
    BY <1>26, JoinExistingBranches
  <2>1. CASE Quits(c)
    BY <2>0, <2>1 DEF Quits
  <2>2. CASE Goes(c, "request")
    BY <2>0, <2>2 DEF Goes
  <2> QED BY <1>26, <2>1, <2>2, JoinExistingBranches
<1>27. ASSUME NEW c \in Calls, InsertRequest(c)
       PROVE  Answered(k)'
  <2>0. At(c, "request")
    BY <1>27, InsertRequestBranches
  <2>1. CASE Pending(call[c].store) /\ Goes(c, "reread")
    BY <2>0, <2>1 DEF Goes
  <2>2. CASE Goes(c, "key")
    BY <2>0, <2>2 DEF Goes
  <2> QED BY <1>27, <2>1, <2>2, InsertRequestBranches
<1>28. ASSUME NEW c \in Calls, ReadRequest(c)
       PROVE  Answered(k)'
  <2>0. At(c, "reread")
    BY <1>28, ReadRequestBranches
  <2>1. CASE Quits(c)
    BY <2>0, <2>1 DEF Quits
  <2>2. CASE ~Pending(call[c].store) /\ Goes(c, "raised")
    <3>1. CASE k = c
      <4>1. call[c].op = "join" /\ Asked(call[c].store)
        BY <2>0, <3>1 DEF Loser, Refers
      <4>2. Decided(call[c].store)
        BY <1>a, <2>2, <4>1
      <4> QED BY <2>2, <3>1, <4>1, <4>2 DEF Goes
    <3>2. CASE k # c
      BY <1>b, <2>2, <3>2 DEF Goes
    <3> QED BY <3>1, <3>2
  <2> QED BY <1>28, <2>1, <2>2, ReadRequestBranches
<1>29. ASSUME NEW c \in Calls, InsertLink(c)
       PROVE  Answered(k)'
  <2>0. At(c, "link")
    BY <1>29, InsertLinkBranches
  <2>1. CASE call[c].store \in linked /\ Goes(c, "conflict")
    BY <2>0, <2>1 DEF Goes
  <2>2. CASE Links(c)
    BY <2>0, <2>2 DEF Links
  <2> QED BY <1>29, <2>1, <2>2, InsertLinkBranches
<1>30. ASSUME NEW c \in Calls, ReadLink(c)
       PROVE  Answered(k)'
  <2>0. At(c, "conflict")
    BY <1>30, ReadLinkBranches
  <2>1. CASE Quits(c)
    BY <2>0, <2>1 DEF Quits, Loser
  <2>2. CASE call[c].store \notin linked /\ Goes(c, "raised")
    BY <2>0, <2>2 DEF Goes, Loser
  <2> QED BY <1>30, <2>1, <2>2, ReadLinkBranches
<1>31. ASSUME NEW c \in Calls, LockPerson(c)
       PROVE  Answered(k)'
  <2>0. At(c, "decided")
    BY <1>31, LockPersonBranches
  <2>1. CASE Locks(c, "admit", "other")
    BY <2>0, <2>1 DEF Locks
  <2>2. CASE Locks(c, "admit", "none") /\ ActiveStores \subseteq {call[c].store}
    BY <2>0, <2>2 DEF Locks
  <2> QED BY <1>31, <2>1, <2>2, LockPersonBranches
<1>32. ASSUME NEW c \in Calls, Admit(c)
       PROVE  Answered(k)'
  <2>0. At(c, "admit")
    BY <1>32, AdmitBranches
  <2>1. CASE RollsBack(c)
    BY <2>0, <2>1 DEF RollsBack, Frees
  <2>2. CASE Admits(c)
    BY <2>0, <2>2 DEF Admits, Frees
  <2> QED BY <1>32, <2>1, <2>2, AdmitBranches
<1>33. ASSUME NEW c \in Calls, NEW s \in Stores, get_or_create(c, s)
       PROVE  Answered(k)'
  BY <1>33 DEF get_or_create
<1>34. ASSUME NEW c \in Calls, NEW s \in Stores, remove(c, s)
       PROVE  Answered(k)'
  BY <1>34 DEF remove
<1>35. ASSUME NEW c \in Calls, NEW i \in DOMAIN requests, approve(c, i)
       PROVE  Answered(k)'
  BY <1>35 DEF approve
<1>36. ASSUME NEW s \in Stores, rotate_link(s)
       PROVE  Answered(k)'
  BY <1>36 DEF rotate_link
<1>37. ASSUME NEW i \in DOMAIN requests, reject(i)
       PROVE  Answered(k)'
  <2>1. call' = call /\ UNCHANGED <<kakao, role, tokens, jar, claims, row, ended, member, owned, linked>>
    BY <1>37 DEF reject, sessionVars
  <2> QED BY <2>1, <1>b
<1>38. ASSUME NEW c \in Calls, ReferencePerson(c)
       PROVE  Answered(k)'
  <2>0. At(c, "key") /\ row = NoCall
    BY <1>38, ReferenceBranches
  <2>1. CASE Quits(c)
    BY <2>0, <2>1 DEF Quits
  <2>2. CASE Inserts(c)
    BY <2>0, <2>2 DEF Inserts
  <2> QED BY <1>38, <2>1, <2>2, ReferenceBranches
<1>39. ASSUME NEW c \in Calls, RequestAtSignIn(c)
       PROVE  Answered(k)'
  <2>1. At(c, "ask") /\ Obtains(c)
    BY <1>39, ObtainEffect
  <2> QED BY <2>1 DEF Obtains, Frees, Signing
<1>40. ASSUME NEW c \in Calls, Deadlock(c)
       PROVE  Answered(k)'
  <2>1. Falls(c)
    BY <1>40, DeadlockEffect
  <2>2. call[c].op \in {"join", "kakao"} /\ kakao
    BY <1>40, VictimAsks
  <2> QED BY <2>1, <2>2 DEF Falls, Frees
<1> QED BY <1>1, <1>2, <1>3, <1>4, <1>5, <1>6, <1>7, <1>8, <1>9, <1>10, <1>11, <1>12, <1>13,
           <1>14, <1>15, <1>16, <1>17, <1>18, <1>19, <1>20, <1>21, <1>22, <1>23, <1>24,
           <1>25, <1>26, <1>27, <1>28, <1>29, <1>30, <1>31, <1>32, <1>33, <1>34, <1>35,
           <1>36, <1>37, <1>38, <1>39, <1>40 DEF Next, SessionNext, MembershipNext

(* Types of everything but the calls and the sequences.                     *)
LEMMA ReturnsTyped ==
    ASSUME SessionsAssumption, TypeOK, TokensGrown, \A c \in Calls : Refers(c), Next
    PROVE  RestTyped'
<1>0. /\ RestTyped /\ Len(tokens) \in Nat
      /\ \A c \in Calls : call[c].role \in Roles /\ call[c].store \in Stores \cup {NoStore}
  <2>1. Len(tokens) \in Nat
    BY Sequences
  <2> QED BY <2>1 DEF TypeOK, CallRows, RestTyped
<1> USE DEF memberVars, Free, At, Idle, RestTyped, TokensGrown, Roles
<1>1. ASSUME NEW c \in Calls, NEW d \in Devices, signup(c, d), UNCHANGED memberVars
      PROVE  RestTyped'
  BY <1>1, <1>0 DEF signup
<1>2. ASSUME NEW c \in Calls, NEW d \in Devices, login(c, d), UNCHANGED memberVars
      PROVE  RestTyped'
  BY <1>2, <1>0 DEF login
<1>3. ASSUME NEW c \in Calls, NEW d \in Devices, choose_role(c, d), UNCHANGED memberVars
      PROVE  RestTyped'
  BY <1>3, <1>0 DEF choose_role
<1>4. ASSUME NEW c \in Calls, NEW d \in Devices, refresh(c, d), UNCHANGED memberVars
      PROVE  RestTyped'
  BY <1>4, <1>0 DEF refresh
<1>5. ASSUME NEW c \in Calls, NEW d \in Devices, logout(c, d), UNCHANGED memberVars
      PROVE  RestTyped'
  BY <1>5, <1>0 DEF logout
<1>6. ASSUME NEW c \in Calls, SignupInsert(c), UNCHANGED memberVars
      PROVE  RestTyped'
  <2>0. At(c, "insert")
    BY <1>6, SignupInsertBranches
  <2>1. CASE role # "absent" /\ Goes(c, "raised")
    BY <2>0, <2>1, <1>0 DEF Goes
  <2>2. CASE SignsUp(c)
    BY <2>0, <2>2, <1>0 DEF SignsUp, Opens
  <2> QED BY <1>6, <2>1, <2>2, SignupInsertBranches
<1>7. ASSUME NEW c \in Calls, issue_refresh(c), UNCHANGED memberVars
      PROVE  RestTyped'
  <2>1. At(c, "issue") /\ row = NoCall /\ Issues(c)
    BY <1>7, IssueEffect
  <2> QED BY <2>1, <1>0 DEF Issues
<1>8. ASSUME NEW c \in Calls, LockToken(c), UNCHANGED memberVars
      PROVE  RestTyped'
  <2>1. At(c, "refresh") /\ Locks(c, "rotate", tokens[call[c].item].status)
    BY <1>8, LockTokenEffect
  <2> QED BY <2>1, <1>0 DEF Locks
<1>9. ASSUME NEW c \in Calls, rotate_refresh(c), UNCHANGED memberVars
      PROVE  RestTyped'
  <2>0. At(c, "rotate")
    BY <1>9, RotateBranches
  <2>1. CASE Succeeds(c)
    BY <2>0, <2>1, <1>0 DEF Succeeds, Frees
  <2>2. CASE \E families \in SUBSET {tokens[call[c].item].family} : Refuses(c, families)
    BY <2>0, <2>2, <1>0 DEF Refuses, Frees
  <2> QED BY <1>9, <2>1, <2>2, RotateBranches
<1>10. ASSUME NEW c \in Calls, session_payload(c), UNCHANGED memberVars
       PROVE  RestTyped'
  BY <1>10, <1>0 DEF session_payload
<1>11. ASSUME NEW c \in Calls, revoke_family_of(c), UNCHANGED memberVars
       PROVE  RestTyped'
  <2>1. /\ At(c, "revoke") /\ row = NoCall /\ Clears(c, {tokens[call[c].item].family})
      /\ call' = [call EXCEPT ![c].pc = "answer", ![c].item = 0]
    BY <1>11, RevokeFamilyEffect
  <2> QED BY <2>1, <1>0 DEF Clears
<1>12. ASSUME NEW c \in Calls, revoke_user_sessions(c), UNCHANGED memberVars
       PROVE  RestTyped'
  <2>1. /\ At(c, "signout") /\ row = NoCall /\ Clears(c, Families)
      /\ call' = [call EXCEPT ![c] = Idle]
    BY <1>12, RevokeAllEffect
  <2> QED BY <2>1, <1>0 DEF Clears
<1>13. ASSUME NEW c \in Calls, Answer(c), UNCHANGED memberVars
       PROVE  RestTyped'
  <2>1. call[c].device \in Devices /\ call[c].item \in 0..Len(tokens)
    BY <1>13 DEF Answer, Refers
  <2>2. Answers(c)
    BY <1>13, <2>1, AnswerEffect
  <2>3. jar' \in [Devices -> 0..Len(tokens)]
    BY <1>0, <2>1, <2>2 DEF Answers
  <2>4. claims' \in [Devices -> Roles \cup {"none"}]
    <3>1. CASE claims' = claims
      BY <1>0, <3>1
    <3>2. CASE claims' = [claims EXCEPT ![call[c].device] = "none"]
      BY <1>0, <3>2
    <3>3. CASE claims' = [claims EXCEPT ![call[c].device] = call[c].role]
      BY <1>0, <3>3
    <3> QED BY <2>2, <3>1, <3>2, <3>3 DEF Answers
  <2> QED BY <1>0, <2>2, <2>3, <2>4 DEF Answers
<1>14. ASSUME NEW c \in Calls, Lose(c), UNCHANGED memberVars
       PROVE  RestTyped'
  <2>1. RollsBack(c)
    BY <1>14, LoseEffect
  <2> QED BY <2>1, <1>0 DEF RollsBack, Frees
<1>15. ASSUME NEW t \in DOMAIN tokens, GraceEnds(t), UNCHANGED memberVars
       PROVE  RestTyped'
  BY <1>15, <1>0 DEF GraceEnds
<1>16. ASSUME NEW c \in Calls, NEW d \in Devices, create_store(c, d)
       PROVE  RestTyped'
  BY <1>16, <1>0 DEF create_store
<1>17. ASSUME NEW c \in Calls, NEW d \in Devices, NEW s \in Stores \cup {NoStore},
              kakao_start(c, d, s)
       PROVE  RestTyped'
  BY <1>17, <1>0 DEF kakao_start
<1>18. ASSUME NEW c \in Calls, NEW d \in Devices, NEW s \in Stores, create_join_request(c,
              d, s)
       PROVE  RestTyped'
  BY <1>18, <1>0 DEF create_join_request
<1>19. ASSUME NEW c \in Calls, InsertStore(c)
       PROVE  RestTyped'
  <2>1. At(c, "store") /\ Founds(c)
    BY <1>19, InsertStoreEffect
  <2> QED BY <2>1, <1>0 DEF Founds
<1>20. ASSUME NEW c \in Calls, kakao_callback(c)
       PROVE  RestTyped'
  <2>0. At(c, "callback")
    BY <1>20, CallbackBranches
  <2>1. CASE Quits(c)
    BY <2>0, <2>1, <1>0 DEF Quits
  <2>2. CASE Goes(c, "find")
    BY <2>0, <2>2, <1>0 DEF Goes
  <2> QED BY <1>20, <2>1, <2>2, CallbackBranches
<1>21. ASSUME NEW c \in Calls, EnterAccount(c)
       PROVE  RestTyped'
  <2>0. At(c, "find") /\ role # "absent" /\ row = NoCall
    BY <1>21, EnterBranches
  <2>1. CASE Quits(c)
    BY <2>0, <2>1, <1>0 DEF Quits
  <2>2. CASE Goes(c, "issue")
    BY <2>0, <2>2, <1>0 DEF Goes
  <2>3. CASE Asks(c) /\ (role = "unset" \/ MayRequest(role, call[c].store))
    BY <2>0, <2>3, <1>0 DEF Asks
  <2>4. CASE Holds(c) /\ (role = "unset" \/ MayRequest(role, call[c].store))
    BY <2>0, <2>4, <1>0 DEF Holds
  <2> QED BY <1>21, <2>1, <2>2, <2>3, <2>4, EnterBranches
<1>22. ASSUME NEW c \in Calls, FindNoAccount(c)
       PROVE  RestTyped'
  BY <1>22, <1>0 DEF FindNoAccount
<1>23. ASSUME NEW c \in Calls, CreateAccount(c)
       PROVE  RestTyped'
  <2>0. At(c, "create")
    BY <1>23, CreateBranches
  <2>1. CASE Creates(c)
    BY <2>0, <2>1, <1>0 DEF Creates, Opens
  <2>2. CASE role = "absent" /\ Asks(c)
    BY <2>0, <2>2, <1>0 DEF Asks
  <2>3. CASE role # "absent" /\ call[c].seen = "again" /\ Repeats(c, "raised")
    BY <2>0, <2>3, <1>0 DEF Repeats
  <2>4. CASE role # "absent" /\ call[c].seen # "again" /\ Repeats(c, "find")
    BY <2>0, <2>4, <1>0 DEF Repeats
  <2> QED BY <1>23, <2>1, <2>2, <2>3, <2>4, CreateBranches
<1>24. ASSUME NEW c \in Calls, JoinRole(c)
       PROVE  RestTyped'
  BY <1>24, <1>0 DEF JoinRole
<1>25. ASSUME NEW c \in Calls, JoinActive(c)
       PROVE  RestTyped'
  <2>0. At(c, "active")
    BY <1>25, JoinActiveBranches
  <2>1. CASE Quits(c)
    BY <2>0, <2>1, <1>0 DEF Quits
  <2>2. CASE Goes(c, "existing") /\ MayRequest(call[c].role, call[c].store)
    BY <2>0, <2>2, <1>0 DEF Goes
  <2> QED BY <1>25, <2>1, <2>2, JoinActiveBranches
<1>26. ASSUME NEW c \in Calls, JoinExisting(c)
       PROVE  RestTyped'
  <2>0. At(c, "existing")
    BY <1>26, JoinExistingBranches
  <2>1. CASE Quits(c)
    BY <2>0, <2>1, <1>0 DEF Quits
  <2>2. CASE Goes(c, "request")
    BY <2>0, <2>2, <1>0 DEF Goes
  <2> QED BY <1>26, <2>1, <2>2, JoinExistingBranches
<1>27. ASSUME NEW c \in Calls, InsertRequest(c)
       PROVE  RestTyped'
  <2>0. At(c, "request")
    BY <1>27, InsertRequestBranches
  <2>1. CASE Pending(call[c].store) /\ Goes(c, "reread")
    BY <2>0, <2>1, <1>0 DEF Goes
  <2>2. CASE Goes(c, "key")
    BY <2>0, <2>2, <1>0 DEF Goes
  <2> QED BY <1>27, <2>1, <2>2, InsertRequestBranches
<1>28. ASSUME NEW c \in Calls, ReadRequest(c)
       PROVE  RestTyped'
  <2>0. At(c, "reread")
    BY <1>28, ReadRequestBranches
  <2>1. CASE Quits(c)
    BY <2>0, <2>1, <1>0 DEF Quits
  <2>2. CASE ~Pending(call[c].store) /\ Goes(c, "raised")
    BY <2>0, <2>2, <1>0 DEF Goes
  <2> QED BY <1>28, <2>1, <2>2, ReadRequestBranches
<1>29. ASSUME NEW c \in Calls, InsertLink(c)
       PROVE  RestTyped'
  <2>0. At(c, "link")
    BY <1>29, InsertLinkBranches
  <2>1. CASE call[c].store \in linked /\ Goes(c, "conflict")
    BY <2>0, <2>1, <1>0 DEF Goes, Refers
  <2>2. CASE Links(c)
    BY <2>0, <2>2, <1>0 DEF Links, Refers
  <2> QED BY <1>29, <2>1, <2>2, InsertLinkBranches
<1>30. ASSUME NEW c \in Calls, ReadLink(c)
       PROVE  RestTyped'
  <2>0. At(c, "conflict")
    BY <1>30, ReadLinkBranches
  <2>1. CASE Quits(c)
    BY <2>0, <2>1, <1>0 DEF Quits
  <2>2. CASE call[c].store \notin linked /\ Goes(c, "raised")
    BY <2>0, <2>2, <1>0 DEF Goes
  <2> QED BY <1>30, <2>1, <2>2, ReadLinkBranches
<1>31. ASSUME NEW c \in Calls, LockPerson(c)
       PROVE  RestTyped'
  <2>0. At(c, "decided")
    BY <1>31, LockPersonBranches
  <2>1. CASE Locks(c, "admit", "other")
    BY <2>0, <2>1, <1>0 DEF Locks
  <2>2. CASE Locks(c, "admit", "none") /\ ActiveStores \subseteq {call[c].store}
    BY <2>0, <2>2, <1>0 DEF Locks
  <2> QED BY <1>31, <2>1, <2>2, LockPersonBranches
<1>32. ASSUME NEW c \in Calls, Admit(c)
       PROVE  RestTyped'
  <2>0. At(c, "admit")
    BY <1>32, AdmitBranches
  <2>1. CASE RollsBack(c)
    BY <2>0, <2>1, <1>0 DEF RollsBack, Frees, Refers
  <2>2. CASE Admits(c)
    BY <2>0, <2>2, <1>0 DEF Admits, Frees, Refers
  <2> QED BY <1>32, <2>1, <2>2, AdmitBranches
<1>33. ASSUME NEW c \in Calls, NEW s \in Stores, get_or_create(c, s)
       PROVE  RestTyped'
  BY <1>33, <1>0 DEF get_or_create
<1>34. ASSUME NEW c \in Calls, NEW s \in Stores, remove(c, s)
       PROVE  RestTyped'
  BY <1>34, <1>0 DEF remove
<1>35. ASSUME NEW c \in Calls, NEW i \in DOMAIN requests, approve(c, i)
       PROVE  RestTyped'
  BY <1>35, <1>0 DEF approve
<1>36. ASSUME NEW s \in Stores, rotate_link(s)
       PROVE  RestTyped'
  BY <1>36, <1>0 DEF rotate_link
<1>37. ASSUME NEW i \in DOMAIN requests, reject(i)
       PROVE  RestTyped'
  <2>1. call' = call /\ UNCHANGED <<kakao, role, tokens, jar, claims, row, ended, member, owned, linked>>
    BY <1>37 DEF reject, sessionVars
  <2> QED BY <2>1, <1>0
<1>38. ASSUME NEW c \in Calls, ReferencePerson(c)
       PROVE  RestTyped'
  <2>0. At(c, "key") /\ row = NoCall
    BY <1>38, ReferenceBranches
  <2>1. CASE Quits(c)
    BY <2>0, <2>1, <1>0 DEF Quits
  <2>2. CASE Inserts(c)
    BY <2>0, <2>2, <1>0 DEF Inserts
  <2> QED BY <1>38, <2>1, <2>2, ReferenceBranches
<1>39. ASSUME NEW c \in Calls, RequestAtSignIn(c)
       PROVE  RestTyped'
  <2>1. At(c, "ask") /\ Obtains(c)
    BY <1>39, ObtainEffect
  <2> QED BY <2>1, <1>0 DEF Obtains, Frees, Signing
<1>40. ASSUME NEW c \in Calls, Deadlock(c)
       PROVE  RestTyped'
  <2>1. Falls(c)
    BY <1>40, DeadlockEffect
  <2> QED BY <2>1, <1>0 DEF Falls, Frees
<1> QED BY <1>1, <1>2, <1>3, <1>4, <1>5, <1>6, <1>7, <1>8, <1>9, <1>10, <1>11, <1>12, <1>13,
           <1>14, <1>15, <1>16, <1>17, <1>18, <1>19, <1>20, <1>21, <1>22, <1>23, <1>24,
           <1>25, <1>26, <1>27, <1>28, <1>29, <1>30, <1>31, <1>32, <1>33, <1>34, <1>35,
           <1>36, <1>37, <1>38, <1>39, <1>40 DEF Next, SessionNext, MembershipNext

(* Types of the calls.                                                      *)
LEMMA CallsStay ==
    ASSUME TypeOK, Unknown, \A c \in Calls : Refers(c), Next
    PROVE  CallsTyped'
<1>0. /\ Len(tokens) \in Nat /\ DOMAIN requests = 1..Len(requests)
      /\ \A t \in 1..Len(tokens) : tokens[t] \in Tokens
      /\ \A i \in 1..Len(requests) : requests[i] \in Requests
      /\ jar \in [Devices -> 0..Len(tokens)]
      /\ claims \in [Devices -> Roles \cup {"none"}] /\ role \in Roles \cup {"absent"}
  BY Sequences DEF TypeOK
<1> CallsTyped
  BY DEF TypeOK, CallsTyped
<1> USE DEF Free, At
<1>1. ASSUME NEW c \in Calls, NEW d \in Devices, signup(c, d), UNCHANGED memberVars
      PROVE  CallsTyped'
  <2>1. [Idle EXCEPT !.op = "signup", !.pc = "insert", !.device = d] \in CallRows
    BY <1>0 DEF CallRows, Idle, Roles
  <2>2. call' = [call EXCEPT ![c] = [Idle EXCEPT !.op = "signup", !.pc = "insert", !.device = d]]
    BY <1>1 DEF signup
  <2> QED BY <2>1, <2>2, RowChanged
<1>2. ASSUME NEW c \in Calls, NEW d \in Devices, login(c, d), UNCHANGED memberVars
      PROVE  CallsTyped'
  <2>0. role \in Roles
    BY <1>2, <1>0 DEF login
  <2>1. [Idle EXCEPT !.op = "login", !.pc = "issue", !.device = d, !.role = role] \in CallRows
    BY <2>0, <1>0 DEF CallRows, Idle, Roles
  <2>2. call' = [call EXCEPT ![c] = [Idle EXCEPT !.op = "login", !.pc = "issue", !.device = d, !.role = role]]
    BY <1>2 DEF login
  <2> QED BY <2>1, <2>2, RowChanged
<1>3. ASSUME NEW c \in Calls, NEW d \in Devices, choose_role(c, d), UNCHANGED memberVars
      PROVE  CallsTyped'
  <2>1. PICK r \in {"OWNER", "STAFF"} :
           call' = [call EXCEPT ![c] = [Idle EXCEPT !.op = "role", !.pc = "answer",
                                                    !.device = d, !.role = r]]
    BY <1>3 DEF choose_role
  <2>2. [Idle EXCEPT !.op = "role", !.pc = "answer", !.device = d, !.role = r] \in CallRows
    BY DEF CallRows, Idle, Roles
  <2> QED BY <2>1, <2>2, RowChanged
<1>4. ASSUME NEW c \in Calls, NEW d \in Devices, refresh(c, d), UNCHANGED memberVars
      PROVE  CallsTyped'
  <2>0. jar[d] \in Nat
    BY <1>0
  <2>1. [Idle EXCEPT !.op = "refresh", !.pc = "refresh", !.device = d, !.item = jar[d]] \in CallRows
    BY <2>0, <1>0 DEF CallRows, Idle, Roles
  <2>2. call' = [call EXCEPT ![c] = [Idle EXCEPT !.op = "refresh", !.pc = "refresh", !.device = d, !.item = jar[d]]]
    BY <1>4 DEF refresh
  <2> QED BY <2>1, <2>2, RowChanged
<1>5. ASSUME NEW c \in Calls, NEW d \in Devices, logout(c, d), UNCHANGED memberVars
      PROVE  CallsTyped'
  <2>0. jar[d] \in Nat
    BY <1>0
  <2>1. [Idle EXCEPT !.op = "logout", !.pc = "revoke", !.device = d, !.item = jar[d]] \in CallRows
    BY <2>0, <1>0 DEF CallRows, Idle, Roles
  <2>2. call' = [call EXCEPT ![c] = [Idle EXCEPT !.op = "logout", !.pc = "revoke", !.device = d, !.item = jar[d]]]
    BY <1>5 DEF logout
  <2> QED BY <2>1, <2>2, RowChanged
<1>6. ASSUME NEW c \in Calls, SignupInsert(c), UNCHANGED memberVars
      PROVE  CallsTyped'
  <2>0. At(c, "insert")
    BY <1>6, SignupInsertBranches
  <2>1. CASE role # "absent" /\ Goes(c, "raised")
    <3>1. [call[c] EXCEPT !.pc = "raised"] \in CallRows
      BY RowMoved DEF CallsTyped, Places, Sights
    <3>2. call' = [call EXCEPT ![c] = [call[c] EXCEPT !.pc = "raised"]]
      BY <2>1 DEF Goes, CallsTyped
    <3> QED BY <3>1, <3>2, RowChanged
  <2>2. CASE SignsUp(c)
    <3>1. PICK r \in Roles : call' = [call EXCEPT ![c].pc = "issue", ![c].role = r]
      BY <2>2 DEF SignsUp
    <3>2. [call[c] EXCEPT !.pc = "issue", !.role = r] \in CallRows
      BY RowRole DEF CallsTyped, Places
    <3>3. call' = [call EXCEPT ![c] = [call[c] EXCEPT !.pc = "issue", !.role = r]]
      BY <3>1 DEF CallsTyped
    <3> QED BY <3>2, <3>3, RowChanged
  <2> QED BY <1>6, <2>1, <2>2, SignupInsertBranches
<1>7. ASSUME NEW c \in Calls, issue_refresh(c), UNCHANGED memberVars
      PROVE  CallsTyped'
  <2>0. Len(tokens) + 1 \in Nat
    BY <1>0
  <2>1. call' = [call EXCEPT ![c].pc = "answer", ![c].item = Len(tokens) + 1]
    BY <1>7, IssueEffect DEF Issues
  <2>2. [call[c] EXCEPT !.pc = "answer", !.item = Len(tokens) + 1] \in CallRows
    BY RowItem, <2>0 DEF CallsTyped, Places, Sights
  <2>3. call' = [call EXCEPT ![c] = [call[c] EXCEPT !.pc = "answer", !.item = Len(tokens) + 1]]
    BY <2>1 DEF CallsTyped
  <2> QED BY <2>2, <2>3, RowChanged
<1>8. ASSUME NEW c \in Calls, LockToken(c), UNCHANGED memberVars
      PROVE  CallsTyped'
  <2>0. tokens[call[c].item].status \in Sights
    BY <1>8, <1>0 DEF LockToken, Refers, Tokens, Sights, Statuses, Revoked
  <2>1. call' = [call EXCEPT ![c].pc = "rotate",
                            ![c].seen = tokens[call[c].item].status]
    BY <1>8, LockTokenEffect DEF Locks
  <2>2. [call[c] EXCEPT !.pc = "rotate", !.seen = tokens[call[c].item].status] \in CallRows
    BY RowSeen, <2>0 DEF CallsTyped, Places, Sights
  <2>3. call' = [call EXCEPT ![c] = [call[c] EXCEPT !.pc = "rotate", !.seen = tokens[call[c].item].status]]
    BY <2>1 DEF CallsTyped
  <2> QED BY <2>2, <2>3, RowChanged
<1>9. ASSUME NEW c \in Calls, rotate_refresh(c), UNCHANGED memberVars
      PROVE  CallsTyped'
  <2>0. At(c, "rotate")
    BY <1>9, RotateBranches
  <2>1. CASE Succeeds(c)
    <3>0. Len(tokens) + 1 \in Nat
      BY <1>0
    <3>1. [call[c] EXCEPT !.pc = "payload", !.item = Len(tokens) + 1] \in CallRows
      BY RowItem, <3>0 DEF CallsTyped, Places, Sights
    <3>2. call' = [call EXCEPT ![c] = [call[c] EXCEPT !.pc = "payload", !.item = Len(tokens) + 1]]
      BY <2>1 DEF Succeeds, CallsTyped
    <3> QED BY <3>1, <3>2, RowChanged
  <2>2. CASE \E families \in SUBSET {tokens[call[c].item].family} : Refuses(c, families)
    BY <2>2, RowIdle, RowChanged DEF Refuses
  <2> QED BY <1>9, <2>1, <2>2, RotateBranches
<1>10. ASSUME NEW c \in Calls, session_payload(c), UNCHANGED memberVars
       PROVE  CallsTyped'
  <2>0. role \in Roles
    BY <1>10, <1>0 DEF session_payload, Unknown
  <2>1. [call[c] EXCEPT !.pc = "answer", !.role = role] \in CallRows
    BY RowRole, <2>0 DEF CallsTyped, Places, Sights
  <2>2. call' = [call EXCEPT ![c] = [call[c] EXCEPT !.pc = "answer", !.role = role]]
    BY <1>10 DEF session_payload, CallsTyped
  <2> QED BY <2>1, <2>2, RowChanged
<1>11. ASSUME NEW c \in Calls, revoke_family_of(c), UNCHANGED memberVars
       PROVE  CallsTyped'
  <2>1. call' = [call EXCEPT ![c].pc = "answer", ![c].item = 0]
    BY <1>11, RevokeFamilyEffect
  <2>2. [call[c] EXCEPT !.pc = "answer", !.item = 0] \in CallRows
    BY RowItem DEF CallsTyped, Places, Sights
  <2>3. call' = [call EXCEPT ![c] = [call[c] EXCEPT !.pc = "answer", !.item = 0]]
    BY <2>1 DEF CallsTyped
  <2> QED BY <2>2, <2>3, RowChanged
<1>12. ASSUME NEW c \in Calls, revoke_user_sessions(c), UNCHANGED memberVars
       PROVE  CallsTyped'
  BY <1>12, RevokeAllEffect, RowIdle, RowChanged
<1>13. ASSUME NEW c \in Calls, Answer(c), UNCHANGED memberVars
       PROVE  CallsTyped'
  BY <1>13, RowIdle, RowChanged DEF Answer, Return
<1>14. ASSUME NEW c \in Calls, Lose(c), UNCHANGED memberVars
       PROVE  CallsTyped'
  BY <1>14, LoseEffect, RowIdle, RowChanged DEF RollsBack
<1>15. ASSUME NEW t \in DOMAIN tokens, GraceEnds(t), UNCHANGED memberVars
       PROVE  CallsTyped'
  BY <1>15 DEF GraceEnds, CallsTyped
<1>16. ASSUME NEW c \in Calls, NEW d \in Devices, create_store(c, d)
       PROVE  CallsTyped'
  <2>1. [Idle EXCEPT !.op = "store", !.pc = "store", !.device = d] \in CallRows
    BY <1>0 DEF CallRows, Idle, Roles
  <2>2. call' = [call EXCEPT ![c] = [Idle EXCEPT !.op = "store", !.pc = "store", !.device = d]]
    BY <1>16 DEF create_store
  <2> QED BY <2>1, <2>2, RowChanged
<1>17. ASSUME NEW c \in Calls, NEW d \in Devices, NEW s \in Stores \cup {NoStore},
              kakao_start(c, d, s)
       PROVE  CallsTyped'
  <2>1. [Idle EXCEPT !.op = "kakao", !.pc = "callback", !.device = d,
                              !.store = s, !.item = 1] \in CallRows
    BY <1>0 DEF CallRows, Idle, Roles
  <2>2. call' = [call EXCEPT ![c] = [Idle EXCEPT !.op = "kakao", !.pc = "callback", !.device = d,
                              !.store = s, !.item = 1]]
    BY <1>17 DEF kakao_start
  <2> QED BY <2>1, <2>2, RowChanged
<1>18. ASSUME NEW c \in Calls, NEW d \in Devices, NEW s \in Stores, create_join_request(c,
              d, s)
       PROVE  CallsTyped'
  <2>1. PICK pc \in {"role", "active"} :
           call' = [call EXCEPT ![c] = [Idle EXCEPT !.op = "join", !.device = d, !.store = s,
                                                    !.role = claims[d], !.pc = pc]]
    <3>1. CASE claims[d] = "unset"
      BY <1>18, <3>1 DEF create_join_request
    <3>2. CASE claims[d] # "unset"
      BY <1>18, <3>2 DEF create_join_request
    <3> QED BY <3>1, <3>2
  <2>2. claims[d] \in Roles
    BY <1>18, <1>0 DEF create_join_request
  <2>3. [Idle EXCEPT !.op = "join", !.device = d, !.store = s, !.role = claims[d],
                     !.pc = pc] \in CallRows
    BY <2>2 DEF CallRows, Idle
  <2> QED BY <2>1, <2>3, RowChanged
<1>19. ASSUME NEW c \in Calls, InsertStore(c)
       PROVE  CallsTyped'
  BY <1>19, InsertStoreEffect, RowIdle, RowChanged DEF Founds
<1>20. ASSUME NEW c \in Calls, kakao_callback(c)
       PROVE  CallsTyped'
  <2>0. At(c, "callback")
    BY <1>20, CallbackBranches
  <2>1. CASE Quits(c)
    BY <2>1, RowIdle, RowChanged DEF Quits
  <2>2. CASE Goes(c, "find")
    <3>1. [call[c] EXCEPT !.pc = "find"] \in CallRows
      BY RowMoved DEF CallsTyped, Places, Sights
    <3>2. call' = [call EXCEPT ![c] = [call[c] EXCEPT !.pc = "find"]]
      BY <2>2 DEF Goes, CallsTyped
    <3> QED BY <3>1, <3>2, RowChanged
  <2> QED BY <1>20, <2>1, <2>2, CallbackBranches
<1>21. ASSUME NEW c \in Calls, EnterAccount(c)
       PROVE  CallsTyped'
  <2>0. At(c, "find") /\ role # "absent" /\ row = NoCall
    BY <1>21, EnterBranches
  <2>1. CASE Quits(c)
    BY <2>1, RowIdle, RowChanged DEF Quits
  <2>2. CASE Goes(c, "issue")
    <3>1. [call[c] EXCEPT !.pc = "issue"] \in CallRows
      BY RowMoved DEF CallsTyped, Places, Sights
    <3>2. call' = [call EXCEPT ![c] = [call[c] EXCEPT !.pc = "issue"]]
      BY <2>2 DEF Goes, CallsTyped
    <3> QED BY <3>1, <3>2, RowChanged
  <2>3. CASE Asks(c) /\ (role = "unset" \/ MayRequest(role, call[c].store))
    <3>1. [call[c] EXCEPT !.pc = "issue"] \in CallRows
      BY RowMoved DEF CallsTyped, Places, Sights
    <3>2. call' = [call EXCEPT ![c] = [call[c] EXCEPT !.pc = "issue"]]
      BY <2>3 DEF Asks, CallsTyped
    <3> QED BY <3>1, <3>2, RowChanged
  <2>4. CASE Holds(c) /\ (role = "unset" \/ MayRequest(role, call[c].store))
    <3>1. [call[c] EXCEPT !.pc = "ask"] \in CallRows
      BY RowMoved DEF CallsTyped, Places, Sights
    <3>2. call' = [call EXCEPT ![c] = [call[c] EXCEPT !.pc = "ask"]]
      BY <2>4 DEF Holds, CallsTyped
    <3> QED BY <3>1, <3>2, RowChanged
  <2> QED BY <1>21, <2>1, <2>2, <2>3, <2>4, EnterBranches
<1>22. ASSUME NEW c \in Calls, FindNoAccount(c)
       PROVE  CallsTyped'
  <2>1. [call[c] EXCEPT !.pc = "create"] \in CallRows
    BY RowMoved DEF CallsTyped, Places, Sights
  <2>2. call' = [call EXCEPT ![c] = [call[c] EXCEPT !.pc = "create"]]
    BY <1>22 DEF FindNoAccount, CallsTyped
  <2> QED BY <2>1, <2>2, RowChanged
<1>23. ASSUME NEW c \in Calls, CreateAccount(c)
       PROVE  CallsTyped'
  <2>0. At(c, "create")
    BY <1>23, CreateBranches
  <2>1. CASE Creates(c)
    <3>1. [call[c] EXCEPT !.pc = "issue"] \in CallRows
      BY RowMoved DEF CallsTyped, Places, Sights
    <3>2. call' = [call EXCEPT ![c] = [call[c] EXCEPT !.pc = "issue"]]
      BY <2>1 DEF Creates, CallsTyped
    <3> QED BY <3>1, <3>2, RowChanged
  <2>2. CASE role = "absent" /\ Asks(c)
    <3>1. [call[c] EXCEPT !.pc = "issue"] \in CallRows
      BY RowMoved DEF CallsTyped, Places, Sights
    <3>2. call' = [call EXCEPT ![c] = [call[c] EXCEPT !.pc = "issue"]]
      BY <2>2 DEF Asks, CallsTyped
    <3> QED BY <3>1, <3>2, RowChanged
  <2>3. CASE role # "absent" /\ call[c].seen = "again" /\ Repeats(c, "raised")
    <3>1. [call[c] EXCEPT !.seen = "again", !.pc = "raised"] \in CallRows
      BY RowSeen DEF CallsTyped, Places, Sights
    <3>2. call' = [call EXCEPT ![c] = [call[c] EXCEPT !.seen = "again", !.pc = "raised"]]
      BY <2>3 DEF Repeats, CallsTyped
    <3> QED BY <3>1, <3>2, RowChanged
  <2>4. CASE role # "absent" /\ call[c].seen # "again" /\ Repeats(c, "find")
    <3>1. [call[c] EXCEPT !.seen = "again", !.pc = "find"] \in CallRows
      BY RowSeen DEF CallsTyped, Places, Sights
    <3>2. call' = [call EXCEPT ![c] = [call[c] EXCEPT !.seen = "again", !.pc = "find"]]
      BY <2>4 DEF Repeats, CallsTyped
    <3> QED BY <3>1, <3>2, RowChanged
  <2> QED BY <1>23, <2>1, <2>2, <2>3, <2>4, CreateBranches
<1>24. ASSUME NEW c \in Calls, JoinRole(c)
       PROVE  CallsTyped'
  <2>0. role' \in Roles
    BY <1>24, <1>0 DEF JoinRole, Unknown, Roles
  <2>1. [call[c] EXCEPT !.pc = "active", !.role = role'] \in CallRows
    BY RowRole, <2>0 DEF CallsTyped, Places, Sights
  <2>2. call' = [call EXCEPT ![c] = [call[c] EXCEPT !.pc = "active", !.role = role']]
    BY <1>24 DEF JoinRole, CallsTyped
  <2> QED BY <2>1, <2>2, RowChanged
<1>25. ASSUME NEW c \in Calls, JoinActive(c)
       PROVE  CallsTyped'
  <2>0. At(c, "active")
    BY <1>25, JoinActiveBranches
  <2>1. CASE Quits(c)
    BY <2>1, RowIdle, RowChanged DEF Quits
  <2>2. CASE Goes(c, "existing") /\ MayRequest(call[c].role, call[c].store)
    <3>1. [call[c] EXCEPT !.pc = "existing"] \in CallRows
      BY RowMoved DEF CallsTyped, Places, Sights
    <3>2. call' = [call EXCEPT ![c] = [call[c] EXCEPT !.pc = "existing"]]
      BY <2>2 DEF Goes, CallsTyped
    <3> QED BY <3>1, <3>2, RowChanged
  <2> QED BY <1>25, <2>1, <2>2, JoinActiveBranches
<1>26. ASSUME NEW c \in Calls, JoinExisting(c)
       PROVE  CallsTyped'
  <2>0. At(c, "existing")
    BY <1>26, JoinExistingBranches
  <2>1. CASE Quits(c)
    BY <2>1, RowIdle, RowChanged DEF Quits
  <2>2. CASE Goes(c, "request")
    <3>1. [call[c] EXCEPT !.pc = "request"] \in CallRows
      BY RowMoved DEF CallsTyped, Places, Sights
    <3>2. call' = [call EXCEPT ![c] = [call[c] EXCEPT !.pc = "request"]]
      BY <2>2 DEF Goes, CallsTyped
    <3> QED BY <3>1, <3>2, RowChanged
  <2> QED BY <1>26, <2>1, <2>2, JoinExistingBranches
<1>27. ASSUME NEW c \in Calls, InsertRequest(c)
       PROVE  CallsTyped'
  <2>0. At(c, "request")
    BY <1>27, InsertRequestBranches
  <2>1. CASE Pending(call[c].store) /\ Goes(c, "reread")
    <3>1. [call[c] EXCEPT !.pc = "reread"] \in CallRows
      BY RowMoved DEF CallsTyped, Places, Sights
    <3>2. call' = [call EXCEPT ![c] = [call[c] EXCEPT !.pc = "reread"]]
      BY <2>1 DEF Goes, CallsTyped
    <3> QED BY <3>1, <3>2, RowChanged
  <2>2. CASE Goes(c, "key")
    <3>1. [call[c] EXCEPT !.pc = "key"] \in CallRows
      BY RowMoved DEF CallsTyped, Places, Sights
    <3>2. call' = [call EXCEPT ![c] = [call[c] EXCEPT !.pc = "key"]]
      BY <2>2 DEF Goes, CallsTyped
    <3> QED BY <3>1, <3>2, RowChanged
  <2> QED BY <1>27, <2>1, <2>2, InsertRequestBranches
<1>28. ASSUME NEW c \in Calls, ReadRequest(c)
       PROVE  CallsTyped'
  <2>0. At(c, "reread")
    BY <1>28, ReadRequestBranches
  <2>1. CASE Quits(c)
    BY <2>1, RowIdle, RowChanged DEF Quits
  <2>2. CASE ~Pending(call[c].store) /\ Goes(c, "raised")
    <3>1. [call[c] EXCEPT !.pc = "raised"] \in CallRows
      BY RowMoved DEF CallsTyped, Places, Sights
    <3>2. call' = [call EXCEPT ![c] = [call[c] EXCEPT !.pc = "raised"]]
      BY <2>2 DEF Goes, CallsTyped
    <3> QED BY <3>1, <3>2, RowChanged
  <2> QED BY <1>28, <2>1, <2>2, ReadRequestBranches
<1>29. ASSUME NEW c \in Calls, InsertLink(c)
       PROVE  CallsTyped'
  <2>0. At(c, "link")
    BY <1>29, InsertLinkBranches
  <2>1. CASE call[c].store \in linked /\ Goes(c, "conflict")
    <3>1. [call[c] EXCEPT !.pc = "conflict"] \in CallRows
      BY RowMoved DEF CallsTyped, Places, Sights
    <3>2. call' = [call EXCEPT ![c] = [call[c] EXCEPT !.pc = "conflict"]]
      BY <2>1 DEF Goes, CallsTyped
    <3> QED BY <3>1, <3>2, RowChanged
  <2>2. CASE Links(c)
    BY <2>2, RowIdle, RowChanged DEF Links
  <2> QED BY <1>29, <2>1, <2>2, InsertLinkBranches
<1>30. ASSUME NEW c \in Calls, ReadLink(c)
       PROVE  CallsTyped'
  <2>0. At(c, "conflict")
    BY <1>30, ReadLinkBranches
  <2>1. CASE Quits(c)
    BY <2>1, RowIdle, RowChanged DEF Quits
  <2>2. CASE call[c].store \notin linked /\ Goes(c, "raised")
    <3>1. [call[c] EXCEPT !.pc = "raised"] \in CallRows
      BY RowMoved DEF CallsTyped, Places, Sights
    <3>2. call' = [call EXCEPT ![c] = [call[c] EXCEPT !.pc = "raised"]]
      BY <2>2 DEF Goes, CallsTyped
    <3> QED BY <3>1, <3>2, RowChanged
  <2> QED BY <1>30, <2>1, <2>2, ReadLinkBranches
<1>31. ASSUME NEW c \in Calls, LockPerson(c)
       PROVE  CallsTyped'
  <2>0. At(c, "decided")
    BY <1>31, LockPersonBranches
  <2>1. CASE Locks(c, "admit", "other")
    <3>1. [call[c] EXCEPT !.pc = "admit", !.seen = "other"] \in CallRows
      BY RowSeen DEF CallsTyped, Places, Sights
    <3>2. call' = [call EXCEPT ![c] = [call[c] EXCEPT !.pc = "admit", !.seen = "other"]]
      BY <2>1 DEF Locks, CallsTyped
    <3> QED BY <3>1, <3>2, RowChanged
  <2>2. CASE Locks(c, "admit", "none") /\ ActiveStores \subseteq {call[c].store}
    <3>1. [call[c] EXCEPT !.pc = "admit", !.seen = "none"] \in CallRows
      BY RowSeen DEF CallsTyped, Places, Sights
    <3>2. call' = [call EXCEPT ![c] = [call[c] EXCEPT !.pc = "admit", !.seen = "none"]]
      BY <2>2 DEF Locks, CallsTyped
    <3> QED BY <3>1, <3>2, RowChanged
  <2> QED BY <1>31, <2>1, <2>2, LockPersonBranches
<1>32. ASSUME NEW c \in Calls, Admit(c)
       PROVE  CallsTyped'
  <2>0. At(c, "admit")
    BY <1>32, AdmitBranches
  <2>1. CASE RollsBack(c)
    BY <2>1, RowIdle, RowChanged DEF RollsBack
  <2>2. CASE Admits(c)
    BY <2>2, RowIdle, RowChanged DEF Admits
  <2> QED BY <1>32, <2>1, <2>2, AdmitBranches
<1>33. ASSUME NEW c \in Calls, NEW s \in Stores, get_or_create(c, s)
       PROVE  CallsTyped'
  <2>1. [Idle EXCEPT !.op = "link", !.pc = "link", !.store = s] \in CallRows
    BY <1>0 DEF CallRows, Idle, Roles
  <2>2. call' = [call EXCEPT ![c] = [Idle EXCEPT !.op = "link", !.pc = "link", !.store = s]]
    BY <1>33 DEF get_or_create
  <2> QED BY <2>1, <2>2, RowChanged
<1>34. ASSUME NEW c \in Calls, NEW s \in Stores, remove(c, s)
       PROVE  CallsTyped'
  <2>1. [Idle EXCEPT !.op = "remove", !.pc = "signout", !.store = s] \in CallRows
    BY <1>0 DEF CallRows, Idle, Roles
  <2>2. call' = [call EXCEPT ![c] = [Idle EXCEPT !.op = "remove", !.pc = "signout", !.store = s]]
    BY <1>34 DEF remove
  <2> QED BY <2>1, <2>2, RowChanged
<1>35. ASSUME NEW c \in Calls, NEW i \in DOMAIN requests, approve(c, i)
       PROVE  CallsTyped'
  <2>0. i \in Nat /\ requests[i].store \in Stores
    BY <1>0 DEF Requests
  <2>1. [Idle EXCEPT !.op = "approve", !.pc = "decided", !.item = i,
                              !.store = requests[i].store] \in CallRows
    BY <2>0, <1>0 DEF CallRows, Idle, Roles
  <2>2. call' = [call EXCEPT ![c] = [Idle EXCEPT !.op = "approve", !.pc = "decided", !.item = i,
                              !.store = requests[i].store]]
    BY <1>35 DEF approve
  <2> QED BY <2>1, <2>2, RowChanged
<1>36. ASSUME NEW s \in Stores, rotate_link(s)
       PROVE  CallsTyped'
  <2>1. ASSUME NEW r \in CallRows
        PROVE  [r EXCEPT !.item = 0] \in CallRows
    BY DEF CallRows
  <2>2. call' = [k \in Calls |-> IF At(k, "callback") /\ call[k].store = s
                                 THEN [call[k] EXCEPT !.item = 0] ELSE call[k]]
    BY <1>36 DEF rotate_link
  <2>3. \A k \in Calls : call[k] \in CallRows
    BY DEF CallsTyped
  <2> QED BY <2>1, <2>2, <2>3 DEF CallsTyped
<1>37. ASSUME NEW i \in DOMAIN requests, reject(i)
       PROVE  CallsTyped'
  BY <1>37 DEF reject, sessionVars, CallsTyped
<1>38. ASSUME NEW c \in Calls, ReferencePerson(c)
       PROVE  CallsTyped'
  <2>0. At(c, "key") /\ row = NoCall
    BY <1>38, ReferenceBranches
  <2>1. CASE Quits(c)
    BY <2>1, RowIdle, RowChanged DEF Quits
  <2>2. CASE Inserts(c)
    BY <2>2, RowIdle, RowChanged DEF Inserts
  <2> QED BY <1>38, <2>1, <2>2, ReferenceBranches
<1>39. ASSUME NEW c \in Calls, RequestAtSignIn(c)
       PROVE  CallsTyped'
  <2>1. At(c, "ask") /\ Obtains(c)
    BY <1>39, ObtainEffect
  <2>2. [call[c] EXCEPT !.pc = "issue"] \in CallRows
    BY RowMoved DEF CallsTyped, Places, Sights
  <2>3. call' = [call EXCEPT ![c] = [call[c] EXCEPT !.pc = "issue"]]
    BY <2>1 DEF Obtains, CallsTyped
  <2> QED BY <2>2, <2>3, RowChanged
<1>40. ASSUME NEW c \in Calls, Deadlock(c)
       PROVE  CallsTyped'
  <2>1. Falls(c)
    BY <1>40, DeadlockEffect
  <2>2. [call[c] EXCEPT !.pc = "raised", !.seen = "victim"] \in CallRows
    BY RowSeen DEF CallsTyped, Places, Sights
  <2>3. call' = [call EXCEPT ![c] = [call[c] EXCEPT !.pc = "raised", !.seen = "victim"]]
    BY <2>1 DEF Falls, CallsTyped
  <2> QED BY <2>2, <2>3, RowChanged
<1> QED BY <1>1, <1>2, <1>3, <1>4, <1>5, <1>6, <1>7, <1>8, <1>9, <1>10, <1>11, <1>12, <1>13,
           <1>14, <1>15, <1>16, <1>17, <1>18, <1>19, <1>20, <1>21, <1>22, <1>23, <1>24,
           <1>25, <1>26, <1>27, <1>28, <1>29, <1>30, <1>31, <1>32, <1>33, <1>34, <1>35,
           <1>36, <1>37, <1>38, <1>39, <1>40 DEF Next, SessionNext, MembershipNext

----------------------------------------------------------------------------
(* At the start there is no account, no token and no request.               *)
LEMMA InitIsSafe == ASSUME SessionsAssumption, Init PROVE Safe
<1> USE DEF Init, SessionInit
<1>1. /\ tokens \in Seq([family : Nat, status : Statuses])
      /\ requests \in Seq([store : Stores, status : {"PENDING", "APPROVED", "REJECTED"}])
      /\ Len(tokens) = 0 /\ Len(requests) = 0 /\ DOMAIN tokens = {} /\ DOMAIN requests = {}
  OBVIOUS
<1>2. TypeOK
  <2>1. call \in [Calls -> CallRows]
    BY RowIdle
  <2>2. jar \in [Devices -> 0..Len(tokens)]
    BY <1>1
  <2> QED BY <1>1, <2>1, <2>2 DEF TypeOK, Families
<1>3. \A c \in Calls : Refers(c) /\ Signing(c) /\ Loser(c) /\ Answered(c)
  BY DEF Refers, Signing, Loser, Answered, At, Idle
<1>4. Unknown
  BY DEF Unknown, Idle
<1>5. Chosen
  BY DEF Chosen, Idle
<1>6. LockHeld
  BY DEF LockHeld, Idle, SessionsAssumption
<1>7. OneWorkplace
  BY DEF OneWorkplace, ActiveStores
<1>8. FamiliesNumbered /\ FamiliesAreSound
  BY <1>1 DEF FamiliesNumbered, FamiliesAreSound
<1> QED BY <1>2, <1>3, <1>4, <1>5, <1>6, <1>7, <1>8 DEF Safe

(* No step leaves the invariant.                                            *)
LEMMA StepIsSafe == ASSUME SessionsAssumption, Safe, [Next]_vars PROVE Safe'
<1>0. /\ TypeOK /\ Unknown /\ Chosen /\ LockHeld /\ OneWorkplace
      /\ FamiliesNumbered /\ FamiliesAreSound
      /\ \A c \in Calls : Refers(c) /\ Signing(c) /\ Loser(c) /\ Answered(c)
  BY DEF Safe
<1>1. CASE Next
  <2>1. TokenStep /\ RequestStep
    BY <1>0, <1>1, StepsTaken
  <2>2. TokensGrown /\ RequestsGrown
    BY <1>0, <2>1, StepsGrow
  <2>3. FamiliesNumbered' /\ FamiliesAreSound' /\ (ended \subseteq Families)'
    BY <1>0, <2>1, <2>2, FamiliesStaySound
  <2>4. \A c \in Calls : Refers(c)'
    BY <1>0, <1>1, <2>2, RefersStays
  <2>5. \A c \in Calls : Loser(c)'
    BY <1>0, <1>1, <2>2, LoserStays
  <2>6. \A c \in Calls : Answered(c)'
    BY <1>0, <1>1, <2>2, AnsweredStays
  <2>11. \A c \in Calls : Signing(c)'
    BY <1>0, <1>1, SigningStays
  <2>7. Unknown' /\ Chosen' /\ LockHeld' /\ OneWorkplace'
    BY <1>0, <1>1, <2>2, UnknownStays, ChosenStays, LockStays, WorkplaceStays
  <2>8. RestTyped'
    BY <1>0, <1>1, <2>2, ReturnsTyped
  <2>9. CallsTyped'
    BY <1>0, <1>1, CallsStay
  <2>10. TypeOK'
    <3>1. /\ tokens' \in Seq([family : Nat, status : Statuses])
          /\ requests' \in Seq([store : Stores,
                                status : {"PENDING", "APPROVED", "REJECTED"}])
      BY <2>2 DEF TokensGrown, RequestsGrown, Tokens, Requests
    <3>2. jar' \in [Devices -> 0..Len(tokens')]
      BY <2>8 DEF RestTyped
    <3> QED BY <2>3, <2>8, <2>9, <3>1, <3>2 DEF TypeOK, RestTyped, CallsTyped
  <2> QED BY <2>3, <2>4, <2>5, <2>6, <2>7, <2>10, <2>11 DEF Safe
<1>2. CASE UNCHANGED vars
  <2> USE <1>0, <1>2 DEF vars, sessionVars, memberVars
  <2>1. TypeOK'
    BY DEF TypeOK, Families, CallRows
  <2>2. \A c \in Calls : Refers(c)' /\ Signing(c)' /\ Loser(c)' /\ Answered(c)'
    BY DEF Refers, Signing, Waiting, IsPending, Loser, Asked, Answered, Decided, At
  <2>3. Unknown' /\ Chosen' /\ LockHeld' /\ OneWorkplace'
    BY DEF Unknown, Chosen, LockHeld, OneWorkplace, ActiveStores
  <2>4. FamiliesNumbered' /\ FamiliesAreSound'
    BY DEF FamiliesNumbered, FamiliesAreSound
  <2> QED BY <2>1, <2>2, <2>3, <2>4 DEF Safe
<1> QED BY <1>1, <1>2

(* The inductive invariant holds in every reachable state.                  *)
THEOREM SafeAlways == Spec => []Safe
  BY InitIsSafe, StepIsSafe, SessionsAssumption, PTL DEF Spec

(* Tokens, requests, memberships and calls in progress have their types, and *)
(* the cookie of a device names a token that was issued.                    *)
THEOREM MembershipTyped == Spec => []TypeOK
<1>1. Safe => TypeOK
  BY DEF Safe
<1> QED BY <1>1, SafeAlways, PTL

(* A person works in one store, whatever owners decide at the same time, and *)
(* never owns one as well.                                                  *)
THEOREM OneWorkplaceAlways == Spec => []OneWorkplace
<1>1. Safe => OneWorkplace
  BY DEF Safe
<1> QED BY <1>1, SafeAlways, PTL

(* A family has at most one token that works, and none once it has ended.    *)
THEOREM FamiliesSound == Spec => []FamiliesAreSound
<1>1. Safe => FamiliesAreSound
  BY DEF Safe
<1> QED BY <1>1, SafeAlways, PTL

(* The second of two simultaneous requests for the same account, link or     *)
(* place is answered.                                                       *)
THEOREM RacesAnswered == Spec => []RacesAreAnswered
<1>1. Safe => RacesAreAnswered
  BY Sequences DEF Safe, Answered, Decided, RacesAreAnswered
<1> QED BY <1>1, SafeAlways, PTL

(* A working token is revoked only by its rotation, by the end of its        *)
(* sessions, or because its family was presented after the grace period.     *)
THEOREM SessionsKept == Spec => SessionsAreKept
<1>1. ASSUME Safe, [Next]_vars
      PROVE  [Kept]_sessionVars
  <2>1. CASE Next
    <3>1. TypeOK /\ LockHeld /\ \A c \in Calls : Refers(c) /\ Signing(c)
      BY <1>1 DEF Safe
    <3>2. TokenStep
      BY <2>1, <3>1, StepsTaken
    <3> QED BY <3>1, <3>2, StepsKeepSessions
  <2>2. CASE UNCHANGED vars
    BY <2>2 DEF vars
  <2> QED BY <1>1, <2>1, <2>2
<1>2. Safe /\ [Next]_vars =>
         [\A t \in DOMAIN tokens :
             tokens[t].status = "live" /\ tokens'[t].status = "recent" =>
               \/ Len(tokens') > Len(tokens) /\ tokens'[Len(tokens')].family = tokens[t].family
               \/ \E c \in Calls :
                     /\ call'[c] # call[c]
                     /\ \/ call[c].pc \in {"revoke", "signout"}
                        \/ /\ At(c, "rotate") /\ call[c].seen = "stale"
                           /\ tokens[call[c].item].family = tokens[t].family]_sessionVars
  BY <1>1 DEF Kept
<1> QED BY <1>2, SafeAlways, PTL DEF Spec, SessionsAreKept
=============================================================================
