----------------------------- MODULE Membership -----------------------------
(***************************************************************************)
(* How a person becomes the owner of a store or a member of one: the choice  *)
(* of the role, Kakao sign-in, invite links, join requests, and the owner's  *)
(* decisions (api/app/auth/kakao_accounts.py, auth/kakao_router.py, the      *)
(* store and join endpoints of auth/router.py, api/app/members).             *)
(*                                                                          *)
(* Stores belong to other people, whose requests run in the same calls as    *)
(* those of the person; Sessions has the person's account and sessions.      *)
(* Every action is a statement or a transaction that sees one state of the   *)
(* database.  The insertion of a row that references the person (a request,  *)
(* a member, a store) cannot end while the row of the person is locked; the  *)
(* entry of a request in the unique index is made before that.              *)
(***************************************************************************)
EXTENDS Sessions, FiniteSets

CONSTANTS
    MaxRequests,  \* bound on join requests
    MaxRows       \* bound on tokens, join requests and links together

ASSUME MembershipAssumption == MaxRequests \in Nat /\ MaxRows \in Nat

VARIABLES
    member,    \* store_members: the person in every store
    owned,     \* number of stores the person has created
    requests,  \* store_join_requests of the person in the order of their ids
    linked     \* stores that have an active invite link

memberVars == <<member, owned, requests, linked>>
vars == <<sessionVars, memberVars>>

----------------------------------------------------------------------------
ActiveStores == {s \in Stores : member[s] = "active"}

IsPending(i) == requests[i].status = "PENDING"
Pending(s) == \E i \in DOMAIN requests : requests[i].store = s /\ IsPending(i)

(* The owner of the store is deciding the request.                          *)
Locked(i) == \E c \in Calls : call[c].op = "approve" /\ call[c].item = i

(* request_join: the partial unique index keeps one PENDING request.        *)
WithRequest(s) ==
    IF Pending(s) THEN requests ELSE Append(requests, [store |-> s, status |-> "PENDING"])

RoomForRequest == Len(requests) < MaxRequests

(* A refresh token counts as much as two other rows.                        *)
Rows == 2 * Len(tokens) + Len(requests) + Cardinality(linked)

(* Calls that the insertion of a request for the store has to wait for: one  *)
(* with an entry in the unique index, not committed, or an owner's decision. *)
EntryHolders(s) == {c \in Calls : call[c].store = s /\
    \/ At(c, "key")
    \/ call[c].op = "approve" /\ IsPending(call[c].item)}

(* decide_join, also for Kakao                                              *)
MayRequest(r, s) == r = "STAFF" /\ ActiveStores = {}
IsMember(r, s) == r = "STAFF" /\ s \in ActiveStores

Init ==
    /\ SessionInit
    /\ member = [s \in Stores |-> "none"]
    /\ owned = 0 /\ requests = <<>>
    /\ linked = {}

----------------------------------------------------------------------------
(* create_store looks for a store of the owner before it inserts one.       *)
create_store(c, d) ==
    /\ Free(c) /\ claims[d] = "OWNER" /\ owned = 0
    /\ call' = [call EXCEPT ![c] = [Idle EXCEPT !.op = "store", !.pc = "store", !.device = d]]
    /\ UNCHANGED <<kakao, role, tokens, jar, claims, row, ended, memberVars>>

(* The slug may be taken, by the person's own first store for one.          *)
InsertStore(c) ==
    /\ At(c, "store") /\ RowFree
    /\ owned' \in {owned, owned + 1}
    /\ Return(c)
    /\ UNCHANGED <<kakao, role, tokens, jar, claims, row, ended, member, requests, linked>>

----------------------------------------------------------------------------
(* Kakao sign-in.  The link is resolved when it starts and again when the   *)
(* person comes back; item is 0 once a rotation has revoked it.             *)
kakao_start(c, d, s) ==
    /\ Free(c) /\ kakao
    /\ s \in linked \cup {NoStore}
    /\ call' = [call EXCEPT ![c] = [Idle EXCEPT !.op = "kakao", !.pc = "callback",
                                                !.device = d, !.store = s, !.item = 1]]
    /\ UNCHANGED <<kakao, role, tokens, jar, claims, row, ended, memberVars>>

kakao_callback(c) ==
    /\ At(c, "callback")
    /\ IF call[c].item = 1 THEN call' = [call EXCEPT ![c].pc = "find"] ELSE Return(c)
    /\ UNCHANGED <<kakao, role, tokens, jar, claims, row, ended, memberVars>>

(* complete_kakao_login for an account it finds: one transaction under the  *)
(* lock on the person's row.  It ends here unless it has to insert a        *)
(* request ...                                                              *)
EnterAccount(c) ==
    /\ At(c, "find") /\ role # "absent" /\ RowFree
    /\ LET s == call[c].store
           asks == s # NoStore /\ (role = "unset" \/ MayRequest(role, s))
       IN \/ /\ asks /\ ~Pending(s)
             /\ row' = c /\ call' = [call EXCEPT ![c].pc = "ask"]
             /\ UNCHANGED role
          \/ /\ asks /\ Pending(s)
             /\ role' = "STAFF" /\ call' = [call EXCEPT ![c].pc = "issue"]
             /\ UNCHANGED row
          \/ /\ ~asks
             /\ IF s = NoStore \/ IsMember(role, s)
                THEN call' = [call EXCEPT ![c].pc = "issue"] ELSE Return(c)
             /\ UNCHANGED <<role, row>>
    /\ UNCHANGED <<kakao, tokens, jar, claims, ended, memberVars>>

(* ... which it does with the row locked.                                   *)
RequestAtSignIn(c) ==
    /\ At(c, "ask") /\ EntryHolders(call[c].store) = {} /\ RoomForRequest
    /\ role' = "STAFF"
    /\ requests' = WithRequest(call[c].store)
    /\ Release(c) /\ call' = [call EXCEPT ![c].pc = "issue"]
    /\ UNCHANGED <<kakao, tokens, jar, claims, ended, member, owned, linked>>

FindNoAccount(c) ==
    /\ At(c, "find") /\ role = "absent"
    /\ call' = [call EXCEPT ![c].pc = "create"]
    /\ UNCHANGED <<kakao, role, tokens, jar, claims, row, ended, memberVars>>

FaultCreateAccount(c) ==
    /\ At(c, "create") /\ RoomForRequest
    /\ LET s == call[c].store IN
       \/ /\ role = "absent"
          /\ role' = IF s = NoStore THEN "unset" ELSE "STAFF"
          /\ requests' = IF s = NoStore THEN requests ELSE WithRequest(s)
          /\ call' = [call EXCEPT ![c].pc = "issue"]
       \/ /\ role # "absent"
          /\ call' = [call EXCEPT ![c].pc = "raised"]
          /\ UNCHANGED <<role, requests>>
    /\ UNCHANGED <<kakao, tokens, jar, claims, row, ended, member, owned, linked>>

(* A second callback of the same account violates the unique identity; the  *)
(* transaction is rolled back and tried once more.                          *)
CreateAccount(c) ==
    /\ At(c, "create") /\ RoomForRequest
    /\ LET s == call[c].store IN
       \/ /\ role = "absent"
          /\ role' = IF s = NoStore THEN "unset" ELSE "STAFF"
          /\ requests' = IF s = NoStore THEN requests ELSE WithRequest(s)
          /\ call' = [call EXCEPT ![c].pc = "issue"]
       \/ /\ role # "absent"
          /\ call' = [call EXCEPT ![c].seen = "again",
                                  ![c].pc = IF call[c].seen = "again" THEN "raised" ELSE "find"]
          /\ UNCHANGED <<role, requests>>
    /\ UNCHANGED <<kakao, tokens, jar, claims, row, ended, member, owned, linked>>

----------------------------------------------------------------------------
(* create_join_request with a link that is active when it is resolved.      *)
create_join_request(c, d, s) ==
    /\ Free(c) /\ claims[d] # "none" /\ s \in linked
    /\ call' = [call EXCEPT ![c] = [Idle EXCEPT !.op = "join", !.device = d, !.store = s,
                                                !.role = claims[d],
                                                !.pc = IF claims[d] = "unset" THEN "role"
                                                       ELSE "active"]]
    /\ UNCHANGED <<kakao, role, tokens, jar, claims, row, ended, memberVars>>

JoinRole(c) ==
    /\ At(c, "role") /\ RowFree
    /\ role' = IF role = "unset" THEN "STAFF" ELSE role
    /\ call' = [call EXCEPT ![c].pc = "active", ![c].role = role']
    /\ UNCHANGED <<kakao, tokens, jar, claims, row, ended, memberVars>>

JoinActive(c) ==
    /\ At(c, "active")
    /\ IF MayRequest(call[c].role, call[c].store)
       THEN call' = [call EXCEPT ![c].pc = "existing"] ELSE Return(c)
    /\ UNCHANGED <<kakao, role, tokens, jar, claims, row, ended, memberVars>>

JoinExisting(c) ==
    /\ At(c, "existing")
    /\ IF Pending(call[c].store) THEN Return(c)
       ELSE call' = [call EXCEPT ![c].pc = "request"]
    /\ UNCHANGED <<kakao, role, tokens, jar, claims, row, ended, memberVars>>

(* The unique index makes an insertion wait for the outcome of another one   *)
(* and of a decision, and turns it away when a request is waiting ...        *)
InsertRequest(c) ==
    /\ At(c, "request") /\ EntryHolders(call[c].store) = {}
    /\ call' = [call EXCEPT ![c].pc = IF Pending(call[c].store) THEN "reread" ELSE "key"]
    /\ UNCHANGED <<kakao, role, tokens, jar, claims, row, ended, memberVars>>

(* The end of the insertion: the foreign key takes a KEY SHARE lock on the   *)
(* person's row, which waits for whoever has the row FOR UPDATE.            *)
ReferencePerson(c) ==
    /\ At(c, "key") /\ RowFree /\ RoomForRequest
    /\ requests' = WithRequest(call[c].store)
    /\ Return(c)
    /\ UNCHANGED <<kakao, role, tokens, jar, claims, row, ended, member, owned, linked>>

(* ... whose id is read then, or nothing if the owner has decided it since.  *)
ReadRequest(c) ==
    /\ At(c, "reread")
    /\ IF Pending(call[c].store) THEN Return(c) ELSE call' = [call EXCEPT ![c].pc = "raised"]
    /\ UNCHANGED <<kakao, role, tokens, jar, claims, row, ended, memberVars>>

(* Does a call wait for another: for the person's row, or for the unique     *)
(* index?                                                                   *)
WaitsFor(c, b) ==
    \/ /\ row = b /\ c # b
       /\ call[c].pc \in {"issue", "refresh", "revoke", "signout", "store", "find", "role",
                          "key", "decided"}
    \/ call[c].pc \in {"request", "ask"} /\ b \in EntryHolders(call[c].store)

(* PostgreSQL aborts one of two calls that wait for each other, and nothing  *)
(* catches that.                                                            *)
Deadlock(c) ==
    /\ \E b \in Calls : WaitsFor(c, b) /\ WaitsFor(b, c)
    /\ call' = [call EXCEPT ![c].pc = "raised", ![c].seen = "victim"]
    /\ Release(c)
    /\ UNCHANGED <<kakao, role, tokens, jar, claims, ended, memberVars>>

----------------------------------------------------------------------------
(* Invite links: at most one active link of a store.                        *)
get_or_create(c, s) ==
    /\ Free(c) /\ s \notin linked
    /\ call' = [call EXCEPT ![c] = [Idle EXCEPT !.op = "link", !.pc = "link", !.store = s]]
    /\ UNCHANGED <<kakao, role, tokens, jar, claims, row, ended, memberVars>>

InsertLink(c) ==
    /\ At(c, "link")
    /\ LET s == call[c].store IN
       \/ s \notin linked /\ linked' = linked \cup {s} /\ Return(c)
       \/ s \in linked /\ call' = [call EXCEPT ![c].pc = "conflict"] /\ UNCHANGED linked
    /\ UNCHANGED <<kakao, role, tokens, jar, claims, row, ended, member, owned, requests>>

(* The link that won is read, or the violation is raised again.             *)
ReadLink(c) ==
    /\ At(c, "conflict")
    /\ call' = [call EXCEPT ![c] = IF call[c].store \in linked THEN Idle
                                   ELSE [@ EXCEPT !.pc = "raised"]]
    /\ UNCHANGED <<kakao, role, tokens, jar, claims, row, ended, memberVars>>

(* One transaction revokes the active link and inserts the next one.        *)
rotate_link(s) ==
    /\ linked' = linked \cup {s}
    /\ call' = [c \in Calls |-> IF At(c, "callback") /\ call[c].store = s
                                THEN [call[c] EXCEPT !.item = 0] ELSE call[c]]
    /\ UNCHANGED <<kakao, role, tokens, jar, claims, row, ended, member, owned, requests>>

----------------------------------------------------------------------------
(* The owner decides a request that some screen shows, however old.  The    *)
(* request is locked first, the person second.                              *)
approve(c, i) ==
    /\ Free(c) /\ ~Locked(i) /\ IsPending(i)
    /\ call' = [call EXCEPT ![c] = [Idle EXCEPT !.op = "approve", !.pc = "decided", !.item = i,
                                                !.store = requests[i].store]]
    /\ UNCHANGED <<kakao, role, tokens, jar, claims, row, ended, memberVars>>

LookElsewhere(c) ==
    call' = [call EXCEPT ![c].pc = "admit",
                         ![c].seen = IF ActiveStores \subseteq {call[c].store} THEN "none"
                                     ELSE "other"]

FaultLockPerson(c) ==
    /\ At(c, "decided")
    /\ row' = row /\ LookElsewhere(c)
    /\ UNCHANGED <<kakao, role, tokens, jar, claims, ended, memberVars>>

LockPerson(c) ==
    /\ At(c, "decided") /\ RowFree
    /\ row' = c /\ LookElsewhere(c)
    /\ UNCHANGED <<kakao, role, tokens, jar, claims, ended, memberVars>>

(* A member of another store is refused, and the decision rolled back.      *)
Admit(c) ==
    /\ At(c, "admit")
    /\ IF call[c].seen = "other" THEN UNCHANGED <<requests, member>>
       ELSE /\ requests' = [requests EXCEPT ![call[c].item].status = "APPROVED"]
            /\ member' = [member EXCEPT ![call[c].store] = "active"]
    /\ Release(c) /\ Return(c)
    /\ UNCHANGED <<kakao, role, tokens, jar, claims, ended, owned, linked>>

FaultReject(i) ==
    /\ ~Locked(i) /\ IsPending(i)
    /\ requests' = [requests EXCEPT ![i].status = "DENIED"]
    /\ UNCHANGED <<sessionVars, member, owned, linked>>

reject(i) ==
    /\ ~Locked(i) /\ IsPending(i)
    /\ requests' = [requests EXCEPT ![i].status = "REJECTED"]
    /\ UNCHANGED <<sessionVars, member, owned, linked>>

(* remove_member: the sessions are ended in a transaction of their own.     *)
remove(c, s) ==
    /\ Free(c) /\ member[s] = "active"
    /\ member' = [member EXCEPT ![s] = "removed"]
    /\ call' = [call EXCEPT ![c] = [Idle EXCEPT !.op = "remove", !.pc = "signout", !.store = s]]
    /\ UNCHANGED <<kakao, role, tokens, jar, claims, row, ended, owned, requests, linked>>

----------------------------------------------------------------------------
MembershipNext ==
    \/ \E c \in Calls, d \in Devices :
          \/ create_store(c, d)
          \/ \E s \in Stores \cup {NoStore} : kakao_start(c, d, s)
          \/ \E s \in Stores : create_join_request(c, d, s)
    \/ \E c \in Calls :
          \/ InsertStore(c) \/ kakao_callback(c) \/ EnterAccount(c) \/ RequestAtSignIn(c)
          \/ FindNoAccount(c) \/ CreateAccount(c) \/ JoinRole(c) \/ JoinActive(c)
          \/ JoinExisting(c) \/ InsertRequest(c) \/ ReferencePerson(c) \/ ReadRequest(c)
          \/ Deadlock(c) \/ InsertLink(c) \/ ReadLink(c) \/ LockPerson(c) \/ Admit(c)
          \/ \E s \in Stores : get_or_create(c, s) \/ remove(c, s)
          \/ \E i \in DOMAIN requests : approve(c, i)
    \/ \E s \in Stores : rotate_link(s)
    \/ \E i \in DOMAIN requests : reject(i)

Next ==
    \/ SessionNext /\ UNCHANGED memberVars /\ Rows' <= MaxRows
    \/ MembershipNext /\ Rows' <= MaxRows

Spec == Init /\ [][Next]_vars

----------------------------------------------------------------------------
CallRows == [op : {"none", "signup", "login", "role", "refresh", "logout", "store", "kakao",
                   "join", "link", "approve", "remove"},
             pc : {"idle", "insert", "issue", "answer", "refresh", "rotate", "payload", "revoke",
                   "signout", "store", "callback", "find", "create", "raised", "role", "active",
                   "existing", "request", "key", "ask", "reread", "link", "conflict", "decided",
                   "admit"},
             device : Devices \cup {NoDevice}, store : Stores \cup {NoStore}, item : Nat,
             seen : Statuses \cup {"none", "again", "other", "victim"}, role : Roles]

TypeOK ==
    /\ kakao \in BOOLEAN /\ role \in Roles \cup {"absent"}
    /\ tokens \in Seq([family : Nat, status : Statuses])
    /\ jar \in [Devices -> 0..Len(tokens)]
    /\ claims \in [Devices -> Roles \cup {"none"}]
    /\ row \in Calls \cup {NoCall} /\ ended \subseteq Families
    /\ call \in [Calls -> CallRows]
    /\ member \in [Stores -> {"none", "active", "removed"}] /\ owned \in Nat
    /\ requests \in Seq([store : Stores, status : {"PENDING", "APPROVED", "REJECTED"}])
    /\ linked \subseteq Stores

(* A member works in one store, even if owners of two stores admit the      *)
(* person at the same time (approve: "the single-store contract"), and       *)
(* nobody both owns a store and works in one, whatever old access tokens     *)
(* and Kakao sign-ins the devices of the person use.                        *)
OneWorkplace ==
    /\ \A s, t \in ActiveStores : s = t
    /\ ActiveStores # {} => role = "STAFF" /\ owned = 0
    /\ owned > 0 => role = "OWNER"

(* The second of two simultaneous requests for the same thing (a Kakao      *)
(* account, a link, a join request) finds what the first one made instead of *)
(* failing, and no decision, logout, refresh or removal is aborted because   *)
(* of another.  Three races the code lets fail: the second of two sign-ups   *)
(* with one address (auth/router.py:95); a join whose other request the      *)
(* owner decides before it is read again (members/join_requests.py:60); and  *)
(* a join request whose entry in the unique index a Kakao sign-in waits for, *)
(* while it waits for the person's row that the sign-in holds: one of the    *)
(* two is aborted.                                                          *)
RacesAreAnswered ==
    \A c \in Calls : At(c, "raised") =>
        \/ call[c].op = "signup" /\ role # "absent"
        \/ call[c].op = "join" /\ \E i \in DOMAIN requests :
              requests[i].store = call[c].store /\ requests[i].status # "PENDING"
        \/ call[c].op \in {"join", "kakao"} /\ kakao /\ call[c].seen = "victim"
=============================================================================
