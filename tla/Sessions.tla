------------------------------ MODULE Sessions ------------------------------
(***************************************************************************)
(* Signing in and refresh tokens (api/app/auth/session.py, auth/router.py).  *)
(*                                                                          *)
(* Everything here concerns one row of users, so the model has one person    *)
(* with several devices; the tabs of a browser share the cookie of a device. *)
(* A call is a request in progress.  Whoever changes sessions locks the row  *)
(* of the person first (SELECT ... FOR UPDATE), and every statement after    *)
(* the lock sees what was committed before it: row is the call that has the  *)
(* lock between two statements.  A call that dies loses its transaction and  *)
(* its answer.  A call whose statement fails with an error that nothing      *)
(* catches is raised: the answer is a 500.                                   *)
(***************************************************************************)
EXTENDS Naturals, Sequences

CONSTANTS
    Devices,     \* browsers of the person
    NoDevice,    \* a call of the owner of a store
    Stores,      \* stores the person may join
    NoStore,
    Calls,       \* requests that run at the same time
    NoCall,
    MaxTokens    \* bound on refresh tokens

ASSUME SessionsAssumption ==
    /\ NoDevice \notin Devices /\ NoStore \notin Stores /\ NoCall \notin Calls
    /\ MaxTokens \in Nat

VARIABLES
    kakao,   \* does the person sign in with Kakao (or with an email address)?
    role,    \* users.role; "absent" before the account exists, "unset" before the choice
    tokens,  \* auth_refresh_tokens in the order they were issued
    jar,     \* the refresh cookie of every device, 0 if there is none
    claims,  \* the role in the access token of every device
    row,     \* the call that holds the lock on the row of users
    call,    \* local state of every request in progress
    ended    \* history: families ended by a logout, a removal or a reuse

sessionVars == <<kakao, role, tokens, jar, claims, row, call, ended>>

----------------------------------------------------------------------------
Roles == {"unset", "OWNER", "STAFF"}

(* A revoked token is recent until REUSE_GRACE_SECONDS have passed.  The 90  *)
(* days of a token are longer than any behaviour here.                      *)
Revoked == {"recent", "stale"}
Statuses == {"live"} \cup Revoked

Idle == [op |-> "none", pc |-> "idle", device |-> NoDevice, store |-> NoStore,
         item |-> 0, seen |-> "none", role |-> "unset"]

Free(c) == call[c] = Idle
At(c, pc) == call[c].pc = pc
Return(c) == call' = [call EXCEPT ![c] = Idle]

(* The row of users can be locked, or referenced by a new row, by no one    *)
(* else while a call has it.                                                *)
RowFree == row = NoCall

Families == {tokens[t].family : t \in DOMAIN tokens}

(* Every token of the families that is not revoked yet is revoked now.      *)
WithRevoked(ts, families) ==
    [t \in DOMAIN ts |-> IF ts[t].family \in families /\ ts[t].status = "live"
                         THEN [ts[t] EXCEPT !.status = "recent"] ELSE ts[t]]

----------------------------------------------------------------------------
SessionInit ==
    /\ kakao \in BOOLEAN
    /\ role = "absent" /\ tokens = <<>> /\ ended = {}
    /\ jar = [d \in Devices |-> 0]
    /\ claims = [d \in Devices |-> "none"]
    /\ row = NoCall
    /\ call = [c \in Calls |-> Idle]

(* signup looks for the address before it inserts.  Nothing catches the     *)
(* violation of the unique index by the second of two requests.             *)
signup(c, d) ==
    /\ Free(c) /\ ~kakao /\ role = "absent"
    /\ call' = [call EXCEPT ![c] = [Idle EXCEPT !.op = "signup", !.pc = "insert", !.device = d]]
    /\ UNCHANGED <<kakao, role, tokens, jar, claims, row, ended>>

SignupInsert(c) ==
    /\ At(c, "insert")
    /\ \/ /\ role = "absent"
          /\ \E r \in Roles :
                /\ role' = r
                /\ call' = [call EXCEPT ![c].pc = "issue", ![c].role = r]
       \/ /\ role # "absent"
          /\ call' = [call EXCEPT ![c].pc = "raised"]
          /\ UNCHANGED role
    /\ UNCHANGED <<kakao, tokens, jar, claims, row, ended>>

login(c, d) ==
    /\ Free(c) /\ ~kakao /\ role # "absent"
    /\ call' = [call EXCEPT ![c] = [Idle EXCEPT !.op = "login", !.pc = "issue", !.device = d,
                                                !.role = role]]
    /\ UNCHANGED <<kakao, role, tokens, jar, claims, row, ended>>

(* start_session: a new family                                              *)
issue_refresh(c) ==
    /\ At(c, "issue") /\ RowFree /\ Len(tokens) < MaxTokens
    /\ tokens' = Append(tokens, [family |-> Len(tokens) + 1, status |-> "live"])
    /\ call' = [call EXCEPT ![c].pc = "answer", ![c].item = Len(tokens) + 1]
    /\ UNCHANGED <<kakao, role, jar, claims, row, ended>>

(* The role is chosen once.  The request is refused when it is set already.  *)
choose_role(c, d) ==
    /\ Free(c) /\ claims[d] # "none" /\ role = "unset" /\ RowFree
    /\ \E r \in {"OWNER", "STAFF"} :
          /\ role' = r
          /\ call' = [call EXCEPT ![c] = [Idle EXCEPT !.op = "role", !.pc = "answer",
                                                      !.device = d, !.role = r]]
    /\ UNCHANGED <<kakao, tokens, jar, claims, row, ended>>

----------------------------------------------------------------------------
(* rotate_refresh locks the row, reads the token again, and issues its      *)
(* successor and revokes it in the same transaction.                        *)
refresh(c, d) ==
    /\ Free(c) /\ jar[d] # 0
    /\ call' = [call EXCEPT ![c] = [Idle EXCEPT !.op = "refresh", !.pc = "refresh",
                                                !.device = d, !.item = jar[d]]]
    /\ UNCHANGED <<kakao, role, tokens, jar, claims, row, ended>>

ReadToken(c) ==
    call' = [call EXCEPT ![c].pc = "rotate", ![c].seen = tokens[call[c].item].status]

FaultLockToken(c) ==
    /\ At(c, "refresh")
    /\ row' = row
    /\ ReadToken(c)
    /\ UNCHANGED <<kakao, role, tokens, jar, claims, ended>>

LockToken(c) ==
    /\ At(c, "refresh") /\ RowFree
    /\ row' = c
    /\ ReadToken(c)
    /\ UNCHANGED <<kakao, role, tokens, jar, claims, ended>>

Release(c) == row' = IF row = c THEN NoCall ELSE row

(* Reuse within the grace period is another tab; after it, the family ends. *)
Reuse(c, families) ==
    /\ tokens' = WithRevoked(tokens, families)
    /\ ended' = ended \cup families
    /\ Return(c)

Successor(c, old) ==
    /\ Len(tokens) < MaxTokens
    /\ tokens' = Append([tokens EXCEPT ![call[c].item].status = old],
                        [family |-> tokens[call[c].item].family, status |-> "live"])
    /\ call' = [call EXCEPT ![c].pc = "payload", ![c].item = Len(tokens) + 1]
    /\ UNCHANGED ended

FaultNoGrace(c) ==
    /\ At(c, "rotate")
    /\ \/ call[c].seen = "live" /\ Successor(c, "recent")
       \/ call[c].seen \in Revoked /\ Reuse(c, {tokens[call[c].item].family})
    /\ Release(c)
    /\ UNCHANGED <<kakao, role, jar, claims>>

rotate_refresh(c) ==
    /\ At(c, "rotate")
    /\ \/ call[c].seen = "live" /\ Successor(c, "recent")
       \/ call[c].seen = "stale" /\ Reuse(c, {tokens[call[c].item].family})
       \/ call[c].seen = "recent" /\ Reuse(c, {})
    /\ Release(c)
    /\ UNCHANGED <<kakao, role, jar, claims>>

(* A rotation is committed before the rest of the answer is read.           *)
session_payload(c) ==
    /\ At(c, "payload")
    /\ call' = [call EXCEPT ![c].pc = "answer", ![c].role = role]
    /\ UNCHANGED <<kakao, role, tokens, jar, claims, row, ended>>

----------------------------------------------------------------------------
logout(c, d) ==
    /\ Free(c) /\ jar[d] # 0
    /\ call' = [call EXCEPT ![c] = [Idle EXCEPT !.op = "logout", !.pc = "revoke",
                                                !.device = d, !.item = jar[d]]]
    /\ UNCHANGED <<kakao, role, tokens, jar, claims, row, ended>>

revoke_family_of(c) ==
    /\ At(c, "revoke") /\ RowFree
    /\ LET f == tokens[call[c].item].family IN
          /\ tokens' = WithRevoked(tokens, {f})
          /\ ended' = ended \cup {f}
    /\ call' = [call EXCEPT ![c].pc = "answer", ![c].item = 0]
    /\ UNCHANGED <<kakao, role, jar, claims, row>>

(* The last step of members/router.remove_member                            *)
revoke_user_sessions(c) ==
    /\ At(c, "signout") /\ RowFree
    /\ tokens' = WithRevoked(tokens, Families)
    /\ ended' = ended \cup Families
    /\ Return(c)
    /\ UNCHANGED <<kakao, role, jar, claims, row>>

(* The answer reaches the device: its cookie, and the role of its new       *)
(* access token.  A Kakao callback is a redirect without an access token;   *)
(* the tabs keep those they have.                                           *)
Answer(c) ==
    /\ At(c, "answer")
    /\ LET d == call[c].device
           op == call[c].op
       IN /\ jar' = [jar EXCEPT ![d] = IF op = "role" THEN @ ELSE call[c].item]
          /\ claims' = [claims EXCEPT ![d] = CASE op = "logout" -> "none"
                                               [] op = "kakao"  -> @
                                               [] OTHER         -> call[c].role]
    /\ Return(c)
    /\ UNCHANGED <<kakao, role, tokens, row, ended>>

(* The process dies, the connection breaks or the device gives up.          *)
Lose(c) ==
    /\ ~Free(c)
    /\ Return(c) /\ Release(c)
    /\ UNCHANGED <<kakao, role, tokens, jar, claims, ended>>

GraceEnds(t) ==
    /\ tokens[t].status = "recent"
    /\ tokens' = [tokens EXCEPT ![t].status = "stale"]
    /\ UNCHANGED <<kakao, role, jar, claims, row, call, ended>>

SessionNext ==
    \/ \E c \in Calls, d \in Devices :
          signup(c, d) \/ login(c, d) \/ choose_role(c, d) \/ refresh(c, d) \/ logout(c, d)
    \/ \E c \in Calls :
          \/ SignupInsert(c) \/ issue_refresh(c) \/ LockToken(c) \/ rotate_refresh(c)
          \/ session_payload(c) \/ revoke_family_of(c) \/ revoke_user_sessions(c)
          \/ Answer(c) \/ Lose(c)
    \/ \E t \in DOMAIN tokens : GraceEnds(t)

----------------------------------------------------------------------------
(* A family has one token that works, however many tabs refresh with the    *)
(* same cookie, and none once a logout, the removal of the member or a reuse *)
(* has ended it, whatever rotations were under way (rotate_refresh).        *)
FamiliesAreSound ==
    \A t, u \in DOMAIN tokens :
        tokens[t].status = "live" =>
           /\ tokens[t].family \notin ended
           /\ tokens[u].status = "live" /\ tokens[u].family = tokens[t].family => t = u

(* A working token stops working only by its rotation, by a logout or a     *)
(* removal, by its age, or because a token of its family was presented      *)
(* after the grace period: another tab that was late ends no session.       *)
SessionsAreKept ==
    [][\A t \in DOMAIN tokens :
          tokens[t].status = "live" /\ tokens'[t].status = "recent" =>
            \/ Len(tokens') > Len(tokens) /\ tokens'[Len(tokens')].family = tokens[t].family
            \/ \E c \in Calls :
                  /\ call'[c] # call[c]
                  /\ \/ call[c].pc \in {"revoke", "signout"}
                     \/ /\ At(c, "rotate") /\ call[c].seen = "stale"
                        /\ tokens[call[c].item].family = tokens[t].family]_sessionVars
=============================================================================
