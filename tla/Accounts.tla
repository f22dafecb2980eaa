------------------------------ MODULE Accounts ------------------------------
(* Users and sessions: the table portal_users, the JWTs that were issued,    *)
(* and what Redis remembers of revoked tokens and of token versions. A       *)
(* password reset and the removal of a user take several steps, and two      *)
(* requests may be at them at the same time.                                 *)
EXTENDS Integers, Sequences, FiniteSets

CONSTANTS
    Users, Admins,      \* the users seeded on first use, and the admins of them
    Requests,           \* the requests that take several steps
    MaxTokens,          \* bound: tokens issued
    MaxVersion,         \* bound: token version of a user
    MaxUpsets,          \* bound: outages of Redis and users created again
    None

VARIABLES
    users,          \* the rows of portal_users
    issued,         \* the tokens, in the order they were issued
    redis,          \* is Redis reachable?
    versions,       \* tokenversion:<user> in Redis
    revoked,        \* revoked:<jti> in Redis
    expired,        \* tokens past their exp
    request,        \* what each request is at
    live,           \* history: the tokens a table of sessions would hold
    disturbed,      \* history: users for whom the versions went apart
    upsets

accounts == <<users, issued, redis, versions, revoked, expired, request, live, disturbed, upsets>>

Uses == {"access", "refresh", "pwreset"}
Roles == {"viewer", "operator", "engineer", "admin"}
Token == [sub : Users, use : Uses, tv : 0 .. MaxVersion]
User == [role : Roles, tv : 0 .. MaxVersion]
Request == [op : {"update", "delete"}, user : Users] \union [op : {"bump"}, user : Users, tv : 0 .. MaxVersion]
Ids == DOMAIN issued

AccountsAssumption ==
    /\ Admins \subseteq Users
    /\ None \notin Users /\ None \notin User \union Request /\ None \notin Nat
    /\ {MaxTokens, MaxVersion, MaxUpsets} \subseteq Nat

Init ==
    /\ users = [u \in Users |-> [role |-> IF u \in Admins THEN "admin" ELSE "viewer", tv |-> 0]]
    /\ issued = <<>> /\ redis = TRUE
    /\ versions = [u \in Users |-> None]
    /\ revoked = {} /\ expired = {}
    /\ request = [r \in Requests |-> None]
    /\ live = {} /\ disturbed = {} /\ upsets = 0

(* verify_jwt: not expired, not revoked, and of the version Redis holds, if  *)
(* it holds one. Without Redis the last two are not looked at.               *)
Verified(i) ==
    /\ i \notin expired
    /\ redis => /\ i \notin revoked
                /\ versions[issued[i].sub] \in {None, issued[i].tv}

Issue(u, uses, tv) ==
    /\ Len(issued) + Len(uses) <= MaxTokens
    /\ issued' = issued \o [k \in DOMAIN uses |-> [sub |-> u, use |-> uses[k], tv |-> tv]]
New(uses) == Len(issued) + 1 .. Len(issued) + Len(uses)

-----------------------------------------------------------------------------
Login(u) ==
    /\ users[u] # None
    /\ Issue(u, <<"access", "refresh">>, users[u].tv) /\ live' = live \union New(<<"access", "refresh">>)
    /\ UNCHANGED <<users, redis, versions, revoked, expired, request, disturbed, upsets>>

(* The new token copies the version of the refresh token; the row is not     *)
(* read. It is of the same session, and so no better than that one.          *)
RefreshToken(i) ==
    /\ issued[i].use = "refresh" /\ Verified(i)
    /\ Issue(issued[i].sub, <<"access">>, issued[i].tv)
    /\ live' = IF i \in live THEN live \union New(<<"access">>) ELSE live
    /\ UNCHANGED <<users, redis, versions, revoked, expired, request, disturbed, upsets>>

\* A slip: the client drops the token, the server does not.
LogoutQuietly(i) ==
    /\ issued[i].use = "access" /\ Verified(i) /\ redis
    /\ live' = live \ {i}
    /\ UNCHANGED <<users, issued, redis, versions, revoked, expired, request, disturbed, upsets>>

(* Without Redis nothing is revoked, and the answer says so. The refresh     *)
(* token of the session is not touched.                                      *)
Logout(i) ==
    /\ issued[i].use = "access" /\ Verified(i) /\ redis
    /\ revoked' = revoked \union {i}
    /\ live' = live \ {i}
    /\ UNCHANGED <<users, issued, redis, versions, expired, request, disturbed, upsets>>

RequestPasswordReset(u) ==
    /\ users[u] # None
    /\ Issue(u, <<"pwreset">>, users[u].tv) /\ live' = live \union New(<<"pwreset">>)
    /\ UNCHANGED <<users, redis, versions, revoked, expired, request, disturbed, upsets>>

Busy(op, u) == {r \in Requests : request[r] # None /\ request[r].op = op /\ request[r].user = u}

(* confirm_password_reset: the token is verified, the row is updated and     *)
(* committed, and then the new version is written to Redis.                  *)
ConfirmReset(r, i) ==
    /\ request[r] = None /\ issued[i].use = "pwreset" /\ Verified(i)
    /\ request' = [request EXCEPT ![r] = [op |-> "update", user |-> issued[i].sub]]
    /\ UNCHANGED <<users, issued, redis, versions, revoked, expired, live, disturbed, upsets>>

UpdatePassword(r) ==
    /\ request[r] # None /\ request[r].op = "update"
    /\ LET u == request[r].user IN
       IF users[u] = None
       THEN /\ request' = [request EXCEPT ![r] = None]
            /\ UNCHANGED <<users, live, disturbed>>
       ELSE /\ users[u].tv < MaxVersion
            /\ users' = [users EXCEPT ![u].tv = @ + 1]
            /\ request' = [request EXCEPT ![r] = [op |-> "bump", user |-> u, tv |-> users[u].tv + 1]]
            /\ live' = {i \in live : issued[i].sub # u}
            /\ disturbed' = IF Busy("bump", u) = {} THEN disturbed ELSE disturbed \union {u}
    /\ UNCHANGED <<issued, redis, versions, revoked, expired, upsets>>

BumpTokenVersion(r) ==
    /\ request[r] # None /\ request[r].op = "bump"
    /\ LET u == request[r].user IN
       IF redis
       THEN versions' = [versions EXCEPT ![u] = request[r].tv] /\ UNCHANGED disturbed
       ELSE disturbed' = disturbed \union {u} /\ UNCHANGED versions
    /\ request' = [request EXCEPT ![r] = None]
    /\ UNCHANGED <<users, issued, redis, revoked, expired, live, upsets>>

(* delete_user: the role is read and the admins are counted, then the row    *)
(* goes. The user's tokens and version stay where they are.                  *)
CheckLastAdmin(r, u) ==
    /\ request[r] = None /\ users[u] # None
    /\ users[u].role = "admin" => Cardinality({v \in Users : users[v] # None /\ users[v].role = "admin"}) > 1
    /\ request' = [request EXCEPT ![r] = [op |-> "delete", user |-> u]]
    /\ UNCHANGED <<users, issued, redis, versions, revoked, expired, live, disturbed, upsets>>

DeleteUser(r) ==
    /\ request[r] # None /\ request[r].op = "delete"
    /\ users' = [users EXCEPT ![request[r].user] = None]
    /\ request' = [request EXCEPT ![r] = None]
    /\ UNCHANGED <<issued, redis, versions, revoked, expired, live, disturbed, upsets>>

(* A new row starts at version 0, whatever Redis remembers of the name.      *)
CreateUser(u, role) ==
    /\ users[u] = None /\ upsets < MaxUpsets /\ upsets' = upsets + 1
    /\ users' = [users EXCEPT ![u] = [role |-> role, tv |-> 0]]
    /\ disturbed' = IF versions[u] = None /\ Busy("bump", u) = {} THEN disturbed ELSE disturbed \union {u}
    /\ UNCHANGED <<issued, redis, versions, revoked, expired, request, live>>

Expire(i) ==
    /\ i \notin expired
    /\ expired' = expired \union {i} /\ revoked' = revoked \ {i} /\ live' = live \ {i}
    /\ UNCHANGED <<users, issued, redis, versions, request, disturbed, upsets>>

RedisChanges ==
    /\ redis => upsets < MaxUpsets
    /\ redis' = ~redis /\ upsets' = IF redis THEN upsets + 1 ELSE upsets
    /\ UNCHANGED <<users, issued, versions, revoked, expired, request, live, disturbed>>

Next ==
    \/ \E u \in Users : Login(u) \/ RequestPasswordReset(u) \/ \E role \in {"viewer", "admin"} : CreateUser(u, role)
    \/ \E i \in Ids : RefreshToken(i) \/ Logout(i) \/ Expire(i) \/ \E r \in Requests : ConfirmReset(r, i)
    \/ \E r \in Requests : UpdatePassword(r) \/ BumpTokenVersion(r) \/ DeleteUser(r)
    \/ \E r \in Requests, u \in Users : CheckLastAdmin(r, u)
    \/ RedisChanges

Spec == Init /\ [][Next]_accounts

-----------------------------------------------------------------------------
(* The state keeps its types.                                                *)
TypeOK ==
    /\ users \in [Users -> User \union {None}]
    /\ issued \in Seq(Token) /\ Len(issued) <= MaxTokens /\ redis \in BOOLEAN
    /\ versions \in [Users -> (0 .. MaxVersion) \union {None}]
    /\ revoked \union expired \union live \subseteq Ids
    /\ request \in [Requests -> Request \union {None}]
    /\ disturbed \subseteq Users /\ upsets \in 0 .. MaxUpsets

(* Tokens that carry their own state, a list of revocations and a version    *)
(* per user do what a table of sessions would do: while Redis answers, a     *)
(* token is accepted exactly if its session began since the user's last      *)
(* reset, and it is not expired and was not logged out, also when a session  *)
(* that had ended was refreshed while nobody could know, with Redis away or  *)
(* the new version on its way. Left out are users whose version              *)
(* is on its way to Redis, never got there because Redis was away, was       *)
(* written by two resets that overlapped, or outlived their row.             *)
SessionsAreExact ==
    redis => \A i \in Ids :
        (issued[i].sub \notin disturbed /\ Busy("bump", issued[i].sub) = {}) => (Verified(i) <=> i \in live)
=============================================================================
