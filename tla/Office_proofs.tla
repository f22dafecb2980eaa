---------------------------- MODULE Office_proofs ----------------------------
(* Proofs about the parts of MCOffice whose promises hold for every number   *)
(* of users, requests, devices, reviews and callers: sessions (Accounts),    *)
(* onboarding (Onboarding), the cutover gate (Cutover), the copilot          *)
(* (Copilot), the fleet's views and dashboard (Fleet), and the CIM export    *)
(* (Cim). Each takes no step that the others see.                            *)
EXTENDS MCOffice, FiniteSetTheorems, SequenceTheorems, TLAPS

-----------------------------------------------------------------------------
(* What issuing tokens does to the list of tokens.                           *)
LEMMA Issued ==
    ASSUME OfficeAssumption, issued \in Seq(A!Token), NEW u \in Users, NEW tv \in 0 .. MaxVersion,
           NEW uses \in Seq(A!Uses), A!Issue(u, uses, tv)
    PROVE  /\ issued' \in Seq(A!Token) /\ Len(issued') <= MaxTokens
           /\ DOMAIN issued' = DOMAIN issued \union A!New(uses)
           /\ DOMAIN issued \intersect A!New(uses) = {}
           /\ \A i \in DOMAIN issued : issued'[i] = issued[i]
           /\ \A i \in A!New(uses) : /\ issued'[i].sub = u /\ issued'[i].tv = tv
                                     /\ issued'[i].use \in {uses[k] : k \in DOMAIN uses}
<1> DEFINE more == [k \in DOMAIN uses |-> [sub |-> u, use |-> uses[k], tv |-> tv]]
<1>1. /\ issued' = issued \o more
      /\ Len(issued) + Len(uses) <= MaxTokens
  BY DEF A!Issue
<1>2. DOMAIN uses = 1 .. Len(uses) /\ Len(uses) \in Nat /\ \A k \in DOMAIN uses : uses[k] \in A!Uses
  OBVIOUS
<1>3. more \in [1 .. Len(uses) -> A!Token]
  BY <1>2 DEF A!Token
<1>4. more \in Seq(A!Token) /\ Len(more) = Len(uses)
  BY <1>2, <1>3
<1>5. issued' \in Seq(A!Token) /\ Len(issued') = Len(issued) + Len(uses)
  <2> HIDE DEF more
  <2>1. issued \o more \in Seq(A!Token) /\ Len(issued \o more) = Len(issued) + Len(more)
    BY <1>4
  <2> QED  BY <1>1, <1>4, <2>1
<1>6. \A i \in 1 .. Len(issued) : issued'[i] = issued[i]
  BY <1>1, <1>4
<1>7. \A i \in Len(issued) + 1 .. Len(issued) + Len(uses) : issued'[i] = more[i - Len(issued)]
  BY <1>1, <1>4
<1>8. ASSUME NEW i \in A!New(uses)
      PROVE  issued'[i].sub = u /\ issued'[i].tv = tv /\ issued'[i].use \in {uses[k] : k \in DOMAIN uses}
  <2>1. i - Len(issued) \in DOMAIN uses
    BY <1>2, <1>8 DEF A!New
  <2>2. issued'[i] = more[i - Len(issued)]
    BY <1>7, <1>8 DEF A!New
  <2> QED  BY <2>1, <2>2
<1> HIDE DEF more
<1> QED  BY <1>1, <1>2, <1>5, <1>6, <1>8 DEF A!New

-----------------------------------------------------------------------------
(* Sessions.                                                                 *)

(* The types of Accounts are kept by every step: what is put into a table or *)
(* a request is of the kind declared for it, and no token goes past the      *)
(* bound.                                                                    *)
LEMMA AccountTypes ==
    ASSUME OfficeAssumption, A!TypeOK, A!Next
    PROVE  A!TypeOK'
<1> USE DEF A!TypeOK, A!Ids
<1>0. /\ MaxTokens \in Nat /\ MaxVersion \in Nat /\ MaxUpsets \in Nat
      /\ 0 \in 0 .. MaxVersion /\ None \notin Users
      /\ None \notin A!User /\ None \notin A!Request /\ None \notin Nat
      /\ DOMAIN issued = 1 .. Len(issued) /\ Len(issued) \in Nat
  BY DEF OfficeAssumption, A!AccountsAssumption
<1>a. \A i \in A!Ids : issued[i] \in A!Token
  BY <1>0
<1>1. ASSUME NEW u \in Users, A!Login(u) PROVE A!TypeOK'
  <2>1. users[u].tv \in 0 .. MaxVersion
    BY <1>1 DEF A!Login, A!User
  <2>2. <<"access", "refresh">> \in Seq(A!Uses)
    BY DEF A!Uses
  <2>3. A!Issue(u, <<"access", "refresh">>, users[u].tv)
    BY <1>1 DEF A!Login
  <2>4. /\ issued' \in Seq(A!Token) /\ Len(issued') <= MaxTokens
        /\ DOMAIN issued' = DOMAIN issued \union A!New(<<"access", "refresh">>)
    BY <2>1, <2>2, <2>3, Issued
  <2> QED  BY <1>1, <2>4 DEF A!Login
<1>2. ASSUME NEW u \in Users, A!RequestPasswordReset(u) PROVE A!TypeOK'
  <2>1. users[u].tv \in 0 .. MaxVersion
    BY <1>2 DEF A!RequestPasswordReset, A!User
  <2>2. <<"pwreset">> \in Seq(A!Uses)
    BY DEF A!Uses
  <2>3. A!Issue(u, <<"pwreset">>, users[u].tv)
    BY <1>2 DEF A!RequestPasswordReset
  <2>4. /\ issued' \in Seq(A!Token) /\ Len(issued') <= MaxTokens
        /\ DOMAIN issued' = DOMAIN issued \union A!New(<<"pwreset">>)
    BY <2>1, <2>2, <2>3, Issued
  <2> QED  BY <1>2, <2>4 DEF A!RequestPasswordReset
<1>3. ASSUME NEW i \in A!Ids, A!RefreshToken(i) PROVE A!TypeOK'
  <2>1. issued[i].sub \in Users /\ issued[i].tv \in 0 .. MaxVersion
    BY <1>3, <1>a DEF A!Token
  <2>2. <<"access">> \in Seq(A!Uses)
    BY DEF A!Uses
  <2>3. A!Issue(issued[i].sub, <<"access">>, issued[i].tv)
    BY <1>3 DEF A!RefreshToken
  <2>4. /\ issued' \in Seq(A!Token) /\ Len(issued') <= MaxTokens
        /\ DOMAIN issued' = DOMAIN issued \union A!New(<<"access">>)
    BY <2>1, <2>2, <2>3, Issued
  <2> QED  BY <1>3, <2>4 DEF A!RefreshToken
<1>4. ASSUME NEW u \in Users, NEW role \in {"viewer", "admin"}, A!CreateUser(u, role) PROVE A!TypeOK'
  <2>1. [role |-> role, tv |-> 0] \in A!User
    BY <1>0 DEF A!User, A!Roles
  <2>2. users' \in [Users -> A!User \union {None}]
    BY <1>4, <2>1 DEF A!CreateUser
  <2>3. disturbed' \subseteq Users /\ upsets' \in 0 .. MaxUpsets
    BY <1>0, <1>4 DEF A!CreateUser
  <2> QED  BY <1>4, <2>2, <2>3 DEF A!CreateUser
<1>5. ASSUME NEW i \in A!Ids, A!Logout(i) PROVE A!TypeOK'
  BY <1>5 DEF A!Logout
<1>6. ASSUME NEW i \in A!Ids, A!Expire(i) PROVE A!TypeOK'
  BY <1>6 DEF A!Expire
<1>7. ASSUME NEW i \in A!Ids, NEW r \in Requests, A!ConfirmReset(r, i) PROVE A!TypeOK'
  <2>1. [op |-> "update", user |-> issued[i].sub] \in A!Request
    BY <1>7, <1>a DEF A!Request, A!Token
  <2> QED  BY <1>7, <2>1 DEF A!ConfirmReset
<1>8. ASSUME NEW r \in Requests, A!UpdatePassword(r) PROVE A!TypeOK'
  <2>1. PICK u : u = session[r].user /\ u \in Users
    BY <1>8 DEF A!UpdatePassword, A!Request
  <2>2. CASE users[u] = None
    BY <1>8, <2>1, <2>2 DEF A!UpdatePassword
  <2>3. CASE users[u] # None
    <3>1. users[u] \in A!User /\ users[u].tv < MaxVersion
      BY <1>8, <2>1, <2>3 DEF A!UpdatePassword
    <3>2. users[u].tv + 1 \in 0 .. MaxVersion
      BY <1>0, <3>1 DEF A!User
    <3>3. /\ [op |-> "bump", user |-> u, tv |-> users[u].tv + 1] \in A!Request
          /\ [users[u] EXCEPT !.tv = @ + 1] \in A!User
      BY <2>1, <3>1, <3>2 DEF A!Request, A!User
    <3>4. /\ users' = [users EXCEPT ![u] = [users[u] EXCEPT !.tv = @ + 1]]
          /\ session' = [session EXCEPT ![r] = [op |-> "bump", user |-> u, tv |-> users[u].tv + 1]]
          /\ live' = {i \in live : issued[i].sub # u}
          /\ disturbed' = IF A!Busy("bump", u) = {} THEN disturbed ELSE disturbed \union {u}
          /\ UNCHANGED <<issued, redis, versions, revoked, expired, upsets>>
      BY <1>8, <2>1, <2>3 DEF A!UpdatePassword
    <3> QED  BY <2>1, <3>3, <3>4
  <2> QED  BY <2>2, <2>3
<1>9. ASSUME NEW r \in Requests, A!BumpTokenVersion(r) PROVE A!TypeOK'
  <2>1. session[r].user \in Users /\ session[r].tv \in 0 .. MaxVersion
    BY <1>9 DEF A!BumpTokenVersion, A!Request
  <2> QED  BY <1>9, <2>1 DEF A!BumpTokenVersion
<1>10. ASSUME NEW r \in Requests, A!DeleteUser(r) PROVE A!TypeOK'
  BY <1>10 DEF A!DeleteUser
<1>11. ASSUME NEW r \in Requests, NEW u \in Users, A!CheckLastAdmin(r, u) PROVE A!TypeOK'
  <2>1. [op |-> "delete", user |-> u] \in A!Request
    BY DEF A!Request
  <2> QED  BY <1>11, <2>1 DEF A!CheckLastAdmin
<1>12. ASSUME A!RedisChanges PROVE A!TypeOK'
  BY <1>0, <1>12 DEF A!RedisChanges
<1> QED
  BY <1>1, <1>2, <1>3, <1>4, <1>5, <1>6, <1>7, <1>8, <1>9, <1>10, <1>11, <1>12 DEF A!Next

(* The version that counts for a user is n: the one bump that is under way   *)
(* carries it, and when there is none Redis holds it, or holds nothing and   *)
(* it is still 0; the row has it; and the sessions that last are those of    *)
(* the tokens that carry it and are neither expired nor logged out.          *)
Follows(u, n) ==
    /\ \A r, q \in A!Busy("bump", u) : r = q
    /\ \A r \in A!Busy("bump", u) : session[r].tv = n
    /\ A!Busy("bump", u) = {} => versions[u] = n \/ (versions[u] = None /\ n = 0)
    /\ users[u] # None => users[u].tv = n
    /\ \A i \in A!Ids : issued[i].sub = u =>
          /\ issued[i].tv <= n
          /\ i \in live <=> issued[i].tv = n /\ i \notin expired /\ i \notin revoked

(* It is inductive where SessionsAreExact is not: that says nothing while    *)
(* Redis is away or a new version is on its way to it.                       *)
SessionInv ==
    /\ A!TypeOK
    /\ \A i \in revoked : issued[i].use = "access"
    /\ \A u \in Users \ disturbed : \E n \in 0 .. MaxVersion : Follows(u, n)

(* New tokens of another user do not matter, and those of this one are live  *)
(* exactly if they carry the version that counts.                            *)
LEMMA FollowsIssue ==
    ASSUME OfficeAssumption, A!TypeOK, NEW v \in Users, NEW tv \in 0 .. MaxVersion, NEW uses \in Seq(A!Uses),
           A!Issue(v, uses, tv), UNCHANGED <<users, versions, revoked, expired, session>>,
           NEW u \in Users, NEW n \in 0 .. MaxVersion, Follows(u, n),
           live' = live \/ live' = live \union A!New(uses),
           v = u => tv <= n /\ live' = (IF tv = n THEN live \union A!New(uses) ELSE live)
    PROVE  Follows(u, n)'
<1>1. /\ DOMAIN issued' = DOMAIN issued \union A!New(uses)
      /\ DOMAIN issued \intersect A!New(uses) = {}
      /\ \A i \in DOMAIN issued : issued'[i] = issued[i]
      /\ \A i \in A!New(uses) : issued'[i].sub = v /\ issued'[i].tv = tv
  BY Issued DEF A!TypeOK
<1>2. revoked \subseteq DOMAIN issued /\ expired \subseteq DOMAIN issued /\ live \subseteq DOMAIN issued
  BY DEF A!TypeOK, A!Ids
<1>3. A!Busy("bump", u)' = A!Busy("bump", u)
  BY DEF A!Busy
<1>4. ASSUME NEW i \in DOMAIN issued', issued'[i].sub = u
      PROVE  issued'[i].tv <= n /\ (i \in live' <=> issued'[i].tv = n /\ i \notin expired' /\ i \notin revoked')
  <2>1. CASE i \in DOMAIN issued
    BY <1>1, <1>4, <2>1 DEF Follows, A!Ids
  <2>2. CASE i \in A!New(uses)
    <3>1. v = u /\ issued'[i].tv = tv /\ i \notin expired' /\ i \notin revoked' /\ i \notin live
      BY <1>1, <1>2, <1>4, <2>2
    <3> QED  BY <2>2, <3>1
  <2> QED  BY <1>1, <2>1, <2>2
<1> QED  BY <1>3, <1>4 DEF Follows, A!Ids

(* A step that is at no user's versions: only what a request is at changes,  *)
(* and no bump with it, or Redis comes or goes.                              *)
LEMMA FollowsQuiet ==
    ASSUME NEW u \in Users, NEW n, Follows(u, n), A!Busy("bump", u)' = A!Busy("bump", u),
           \A r \in A!Busy("bump", u) : session'[r] = session[r],
           UNCHANGED <<users, issued, versions, revoked, expired, live>>
    PROVE  Follows(u, n)'
BY DEF Follows, A!Ids

(* Every step keeps the version that counts, or counts it up and ends the    *)
(* user's sessions, or marks the user as disturbed.                          *)
LEMMA SessionsStep ==
    ASSUME OfficeAssumption, SessionInv, A!Next
    PROVE  SessionInv'
<1>0. /\ A!TypeOK /\ A!TypeOK'
      /\ MaxVersion \in Nat /\ None \notin Users
      /\ None \notin A!User /\ None \notin A!Request /\ None \notin Nat
      /\ users \in [Users -> A!User \union {None}]
      /\ session \in [Requests -> A!Request \union {None}]
      /\ versions \in [Users -> (0 .. MaxVersion) \union {None}]
      /\ revoked \union expired \union live \subseteq A!Ids
  BY AccountTypes DEF OfficeAssumption, A!AccountsAssumption, SessionInv, A!TypeOK
<1>a. \A i \in A!Ids : /\ issued[i] \in A!Token /\ issued[i].sub \in Users
                       /\ issued[i].use \in A!Uses /\ issued[i].tv \in 0 .. MaxVersion
  <2>1. \A i \in A!Ids : issued[i] \in A!Token
    BY <1>0 DEF A!TypeOK, A!Ids
  <2> QED  BY <2>1 DEF A!Token
<1>b. \A r \in Requests : session[r] # None => session[r].user \in Users
  BY <1>0 DEF A!Request
<1>c. \A i \in revoked : issued[i].use = "access"
  BY DEF SessionInv
<1>d. \A u \in Users \ disturbed : \E n \in 0 .. MaxVersion : Follows(u, n)
  BY DEF SessionInv
<1> DEFINE Goal == /\ \A i \in revoked' : issued'[i].use = "access"
                   /\ \A u \in Users \ disturbed' : \E n \in 0 .. MaxVersion : Follows(u, n)'
<1> SUFFICES Goal
  BY <1>0 DEF SessionInv
<1>1. ASSUME NEW v \in Users, A!Login(v) \/ A!RequestPasswordReset(v) PROVE Goal
  <2>1. PICK uses \in {<<"access", "refresh">>, <<"pwreset">>} :
            /\ users[v] # None /\ A!Issue(v, uses, users[v].tv)
            /\ live' = live \union A!New(uses)
            /\ UNCHANGED <<users, redis, versions, revoked, expired, session, disturbed, upsets>>
    BY <1>1 DEF A!Login, A!RequestPasswordReset
  <2>2. uses \in Seq(A!Uses)
    <3>1. <<"access", "refresh">> \in Seq(A!Uses) /\ <<"pwreset">> \in Seq(A!Uses)
      BY DEF A!Uses
    <3> QED  BY <3>1
  <2>3. users[v].tv \in 0 .. MaxVersion
    BY <1>0, <2>1 DEF A!User
  <2>4. \A i \in DOMAIN issued : issued'[i] = issued[i]
    BY <1>0, <2>1, <2>2, <2>3, Issued DEF A!TypeOK
  <2>5. \A i \in revoked' : issued'[i].use = "access"
    BY <1>0, <1>c, <2>1, <2>4 DEF A!Ids
  <2>6. ASSUME NEW u \in Users \ disturbed' PROVE \E n \in 0 .. MaxVersion : Follows(u, n)'
    <3>1. PICK n \in 0 .. MaxVersion : Follows(u, n)
      BY <1>d, <2>1, <2>6
    <3>2. v = u => users[v].tv = n
      BY <2>1, <3>1 DEF Follows
    <3>3. v = u => /\ users[v].tv <= n
                   /\ live' = (IF users[v].tv = n THEN live \union A!New(uses) ELSE live)
      BY <2>1, <3>2
    <3>4. Follows(u, n)'
      BY <1>0, <2>1, <2>2, <2>3, <3>1, <3>3, FollowsIssue
    <3> QED  BY <3>4
  <2> QED  BY <2>5, <2>6
<1>2. ASSUME NEW k \in A!Ids, A!RefreshToken(k) PROVE Goal
  <2>1. /\ issued[k].use = "refresh" /\ k \notin expired
        /\ A!Issue(issued[k].sub, <<"access">>, issued[k].tv)
        /\ live' = IF k \in live THEN live \union A!New(<<"access">>) ELSE live
        /\ UNCHANGED <<users, redis, versions, revoked, expired, session, disturbed, upsets>>
    BY <1>2 DEF A!RefreshToken, A!Verified
  <2>2. <<"access">> \in Seq(A!Uses)
    BY DEF A!Uses
  <2>3. issued[k].sub \in Users /\ issued[k].tv \in 0 .. MaxVersion /\ k \notin revoked
    BY <1>2, <1>a, <1>c, <2>1
  <2>4. \A i \in DOMAIN issued : issued'[i] = issued[i]
    BY <1>0, <2>1, <2>2, <2>3, Issued DEF A!TypeOK
  <2>5. \A i \in revoked' : issued'[i].use = "access"
    BY <1>0, <1>c, <2>1, <2>4 DEF A!Ids
  <2>6. ASSUME NEW u \in Users \ disturbed' PROVE \E n \in 0 .. MaxVersion : Follows(u, n)'
    <3>1. PICK n \in 0 .. MaxVersion : Follows(u, n)
      BY <1>d, <2>1, <2>6
    <3>2. issued[k].sub = u => issued[k].tv <= n /\ (k \in live <=> issued[k].tv = n)
      BY <1>2, <2>1, <2>3, <3>1 DEF Follows
    <3>3. issued[k].sub = u =>
              /\ issued[k].tv <= n
              /\ live' = (IF issued[k].tv = n THEN live \union A!New(<<"access">>) ELSE live)
      BY <2>1, <3>2
    <3>4. PICK v \in Users, tv \in 0 .. MaxVersion : v = issued[k].sub /\ tv = issued[k].tv
      BY <2>3
    <3>5. /\ A!Issue(v, <<"access">>, tv)
          /\ live' = live \/ live' = live \union A!New(<<"access">>)
          /\ v = u => tv <= n /\ live' = (IF tv = n THEN live \union A!New(<<"access">>) ELSE live)
          /\ UNCHANGED <<users, versions, revoked, expired, session>>
      BY <2>1, <3>3, <3>4
    <3>6. Follows(u, n)'
      BY <1>0, <2>2, <3>1, <3>5, FollowsIssue
    <3> QED  BY <3>6
  <2> QED  BY <2>5, <2>6
<1>3. ASSUME NEW v \in Users, NEW role \in {"viewer", "admin"}, A!CreateUser(v, role) PROVE Goal
  <2>1. /\ users[v] = None /\ users' = [users EXCEPT ![v] = [role |-> role, tv |-> 0]]
        /\ disturbed' = IF versions[v] = None /\ A!Busy("bump", v) = {} THEN disturbed ELSE disturbed \union {v}
        /\ UNCHANGED <<issued, redis, versions, revoked, expired, session, live>>
    BY <1>3 DEF A!CreateUser
  <2>2. \A i \in revoked' : issued'[i].use = "access"
    BY <1>c, <2>1
  <2>3. ASSUME NEW u \in Users \ disturbed' PROVE \E n \in 0 .. MaxVersion : Follows(u, n)'
    <3>1. PICK n \in 0 .. MaxVersion : Follows(u, n)
      BY <1>d, <2>1, <2>3
    <3>2. A!Busy("bump", u)' = A!Busy("bump", u)
      BY <2>1 DEF A!Busy
    <3>3. users'[u] # None => users'[u].tv = n
      <4>1. CASE u = v
        <5>1. versions[u] = None /\ A!Busy("bump", u) = {}
          BY <2>1, <2>3, <4>1
        <5>2. n = 0
          BY <1>0, <3>1, <5>1 DEF Follows
        <5> QED  BY <1>0, <2>1, <4>1, <5>2
      <4>2. CASE u # v
        BY <1>0, <2>1, <3>1, <4>2 DEF Follows
      <4> QED  BY <4>1, <4>2
    <3>4. UNCHANGED <<issued, versions, revoked, expired, session, live>>
      BY <2>1
    <3>5. Follows(u, n)'
      BY <3>1, <3>2, <3>3, <3>4 DEF Follows, A!Ids
    <3> QED  BY <3>5
  <2> QED  BY <2>2, <2>3
<1>4. ASSUME NEW k \in A!Ids, A!Logout(k) \/ A!Expire(k) PROVE Goal
  <2>1. /\ live' = live \ {k}
        /\ \/ revoked' = revoked \union {k} /\ issued[k].use = "access" /\ expired' = expired
           \/ revoked' = revoked \ {k} /\ expired' = expired \union {k}
        /\ UNCHANGED <<users, issued, redis, versions, session, disturbed, upsets>>
    BY <1>4 DEF A!Logout, A!Expire
  <2>2. \A i \in revoked' : issued'[i].use = "access"
    BY <1>c, <2>1
  <2>3. ASSUME NEW u \in Users \ disturbed' PROVE \E n \in 0 .. MaxVersion : Follows(u, n)'
    <3>1. PICK n \in 0 .. MaxVersion : Follows(u, n)
      BY <1>d, <2>1, <2>3
    <3>2. A!Busy("bump", u)' = A!Busy("bump", u)
      BY <2>1 DEF A!Busy
    <3>3. Follows(u, n)'
      BY <2>1, <3>1, <3>2 DEF Follows, A!Ids
    <3> QED  BY <3>3
  <2> QED  BY <2>2, <2>3
<1>5. ASSUME A!RedisChanges PROVE Goal
  <2>1. UNCHANGED <<users, issued, versions, revoked, expired, session, live, disturbed>>
    BY <1>5 DEF A!RedisChanges
  <2>2. \A i \in revoked' : issued'[i].use = "access"
    BY <1>c, <2>1
  <2>3. ASSUME NEW u \in Users \ disturbed' PROVE \E n \in 0 .. MaxVersion : Follows(u, n)'
    <3>1. PICK n \in 0 .. MaxVersion : Follows(u, n)
      BY <1>d, <2>1, <2>3
    <3>2. Follows(u, n)'
      BY <2>1, <3>1, FollowsQuiet DEF A!Busy
    <3> QED  BY <3>2
  <2> QED  BY <2>2, <2>3
<1>6. ASSUME NEW r \in Requests,
             \/ \E i \in A!Ids : A!ConfirmReset(r, i)
             \/ \E v \in Users : A!CheckLastAdmin(r, v)
             \/ A!DeleteUser(r)
      PROVE Goal
  <2>1. /\ session[r] = None \/ session[r].op = "delete"
        /\ \/ session' = [session EXCEPT ![r] = None]
           \/ \E v : session' = [session EXCEPT ![r] = [op |-> "update", user |-> v]]
           \/ \E v : session' = [session EXCEPT ![r] = [op |-> "delete", user |-> v]]
        /\ users' = users \/ \E v : users' = [users EXCEPT ![v] = None]
        /\ UNCHANGED <<issued, redis, versions, revoked, expired, live, disturbed>>
    BY <1>6 DEF A!ConfirmReset, A!CheckLastAdmin, A!DeleteUser
  <2>2. session'[r] = None \/ session'[r].op \in {"update", "delete"}
    BY <1>0, <2>1
  <2>3. \A q \in Requests : q # r => session'[q] = session[q]
    BY <1>0, <2>1
  <2>4. \A i \in revoked' : issued'[i].use = "access"
    BY <1>c, <2>1
  <2>5. ASSUME NEW u \in Users \ disturbed' PROVE \E n \in 0 .. MaxVersion : Follows(u, n)'
    <3>1. PICK n \in 0 .. MaxVersion : Follows(u, n)
      BY <1>d, <2>1, <2>5
    <3>2. r \notin A!Busy("bump", u) /\ r \notin A!Busy("bump", u)'
      BY <2>1, <2>2 DEF A!Busy
    <3>3. A!Busy("bump", u)' = A!Busy("bump", u)
      BY <2>3, <3>2 DEF A!Busy
    <3>4. \A q \in A!Busy("bump", u) : session'[q] = session[q]
      BY <2>3, <3>2 DEF A!Busy
    <3>5. users'[u] = None \/ users'[u] = users[u]
      BY <1>0, <2>1
    <3>6. Follows(u, n)'
      BY <2>1, <3>1, <3>3, <3>4, <3>5 DEF Follows, A!Ids
    <3> QED  BY <3>6
  <2> QED  BY <2>4, <2>5
<1>7. ASSUME NEW r \in Requests, A!UpdatePassword(r) PROVE Goal
  <2>1. PICK v \in Users : v = session[r].user
    BY <1>7, <1>b DEF A!UpdatePassword
  <2>2. /\ session[r] # None /\ session[r].op = "update"
        /\ UNCHANGED <<issued, redis, versions, revoked, expired, upsets>>
    BY <1>7 DEF A!UpdatePassword
  <2>3. \A i \in revoked' : issued'[i].use = "access"
    BY <1>c, <2>2
  <2>4. ASSUME NEW u \in Users \ disturbed' PROVE \E n \in 0 .. MaxVersion : Follows(u, n)'
    <3>1. u \notin disturbed
      BY <1>7, <2>4 DEF A!UpdatePassword
    <3>2. PICK n \in 0 .. MaxVersion : Follows(u, n)
      BY <1>d, <2>4, <3>1
    <3>3. r \notin A!Busy("bump", u)
      BY <2>2 DEF A!Busy
    <3>4. CASE users[v] = None
      <4>1. session' = [session EXCEPT ![r] = None] /\ UNCHANGED <<users, live>>
        BY <1>7, <2>1, <3>4 DEF A!UpdatePassword
      <4>2. A!Busy("bump", u)' = A!Busy("bump", u)
        BY <1>0, <3>3, <4>1 DEF A!Busy
      <4>3. \A q \in A!Busy("bump", u) : session'[q] = session[q]
        BY <1>0, <3>3, <4>1 DEF A!Busy
      <4>4. Follows(u, n)'
        BY <2>2, <3>2, <4>1, <4>2, <4>3, FollowsQuiet
      <4> QED  BY <4>4
    <3>5. CASE users[v] # None
      <4>1. /\ users[v].tv < MaxVersion
            /\ users' = [users EXCEPT ![v].tv = @ + 1]
            /\ session' = [session EXCEPT ![r] = [op |-> "bump", user |-> v, tv |-> users[v].tv + 1]]
            /\ live' = {i \in live : issued[i].sub # v}
            /\ disturbed' = IF A!Busy("bump", v) = {} THEN disturbed ELSE disturbed \union {v}
        BY <1>7, <2>1, <3>5 DEF A!UpdatePassword
      <4>2. users[v].tv \in 0 .. MaxVersion /\ users'[v].tv = users[v].tv + 1
        BY <1>0, <3>5, <4>1 DEF A!User
      <4>3. session'[r] = [op |-> "bump", user |-> v, tv |-> users[v].tv + 1]
        BY <1>0, <4>1
      <4>4. \A q \in Requests : q # r => session'[q] = session[q]
        BY <1>0, <4>1
      <4>5. CASE u = v
        <5>1. A!Busy("bump", v) = {}
          BY <2>4, <4>1, <4>5
        <5>2. n = users[v].tv
          BY <3>2, <3>5, <4>5 DEF Follows
        <5>3. PICK m \in 0 .. MaxVersion : m = n + 1
          BY <1>0, <4>1, <4>2, <5>2
        <5>4. session'[r] # None
          <6>1. session'[r] \in A!Request
            BY <4>2, <4>3, <5>2, <5>3 DEF A!Request
          <6> QED  BY <1>0, <6>1
        <5>5. A!Busy("bump", u)' = {r}
          BY <4>3, <4>4, <4>5, <5>1, <5>4 DEF A!Busy
        <5>6. \A i \in A!Ids : issued[i].sub = u => issued[i].tv <= m /\ issued[i].tv # m /\ i \notin live'
          BY <1>a, <3>2, <4>1, <4>5, <5>3 DEF Follows
        <5>7. users'[u].tv = m /\ session'[r].tv = m /\ issued' = issued
          BY <2>2, <4>2, <4>3, <4>5, <5>2, <5>3
        <5>8. Follows(u, m)'
          BY <5>5, <5>6, <5>7 DEF Follows, A!Ids
        <5> QED  BY <5>8
      <4>6. CASE u # v
        <5>1. r \notin A!Busy("bump", u)'
          BY <4>3, <4>6 DEF A!Busy
        <5>2. A!Busy("bump", u)' = A!Busy("bump", u)
          BY <3>3, <4>4, <5>1 DEF A!Busy
        <5>3. \A q \in A!Busy("bump", u) : session'[q] = session[q]
          BY <3>3, <4>4 DEF A!Busy
        <5>4. users'[u] = users[u] /\ \A i \in A!Ids : issued[i].sub = u => (i \in live' <=> i \in live)
          BY <1>0, <4>1, <4>6
        <5>5. Follows(u, n)'
          BY <2>2, <3>2, <5>2, <5>3, <5>4 DEF Follows, A!Ids
        <5> QED  BY <5>5
      <4> QED  BY <4>5, <4>6
    <3> QED  BY <3>4, <3>5
  <2> QED  BY <2>3, <2>4
<1>8. ASSUME NEW r \in Requests, A!BumpTokenVersion(r) PROVE Goal
  <2>1. PICK v \in Users : v = session[r].user
    BY <1>8, <1>b DEF A!BumpTokenVersion
  <2>2. /\ session[r] # None /\ session[r].op = "bump"
        /\ session' = [session EXCEPT ![r] = None]
        /\ UNCHANGED <<users, issued, redis, revoked, expired, live, upsets>>
        /\ \/ versions' = [versions EXCEPT ![v] = session[r].tv] /\ disturbed' = disturbed
           \/ versions' = versions /\ disturbed' = disturbed \union {v}
    BY <1>8, <2>1 DEF A!BumpTokenVersion
  <2>3. \A i \in revoked' : issued'[i].use = "access"
    BY <1>c, <2>2
  <2>4. session'[r] = None /\ \A q \in Requests : q # r => session'[q] = session[q]
    BY <1>0, <2>2
  <2>5. ASSUME NEW u \in Users \ disturbed' PROVE \E n \in 0 .. MaxVersion : Follows(u, n)'
    <3>1. PICK n \in 0 .. MaxVersion : Follows(u, n)
      BY <1>d, <2>2, <2>5
    <3>2. CASE u = v
      <4>1. versions' = [versions EXCEPT ![v] = session[r].tv] /\ r \in A!Busy("bump", u)
        BY <2>1, <2>2, <2>5, <3>2 DEF A!Busy
      <4>2. session[r].tv = n /\ A!Busy("bump", u) = {r}
        BY <3>1, <4>1 DEF Follows
      <4>3. A!Busy("bump", u)' = {}
        BY <2>4, <4>2 DEF A!Busy
      <4>4. versions'[u] = n
        BY <1>0, <3>2, <4>1, <4>2
      <4>5. Follows(u, n)'
        BY <2>2, <3>1, <4>3, <4>4 DEF Follows, A!Ids
      <4> QED  BY <4>5
    <3>3. CASE u # v
      <4>1. r \notin A!Busy("bump", u)
        BY <2>1, <3>3 DEF A!Busy
      <4>2. A!Busy("bump", u)' = A!Busy("bump", u)
        BY <2>4, <4>1 DEF A!Busy
      <4>3. \A q \in A!Busy("bump", u) : session'[q] = session[q]
        BY <2>4, <4>1 DEF A!Busy
      <4>4. versions'[u] = versions[u]
        BY <1>0, <2>2, <3>3
      <4>5. Follows(u, n)'
        BY <2>2, <3>1, <4>2, <4>3, <4>4 DEF Follows, A!Ids
      <4> QED  BY <4>5
    <3> QED  BY <3>2, <3>3
  <2> QED  BY <2>3, <2>5
<1> HIDE DEF Goal
<1> QED
  BY <1>1, <1>2, <1>3, <1>4, <1>5, <1>6, <1>7, <1>8 DEF A!Next

(* Where no bump is under way, what the invariant says is what is promised:  *)
(* a token is accepted exactly if its session lasts.                         *)
LEMMA SessionsFollow ==
    ASSUME OfficeAssumption, SessionInv
    PROVE  A!SessionsAreExact
<1> SUFFICES ASSUME redis, NEW i \in A!Ids, issued[i].sub \notin disturbed, A!Busy("bump", issued[i].sub) = {}
             PROVE  A!Verified(i) <=> i \in live
  BY DEF A!SessionsAreExact
<1>1. issued[i] \in A!Token
  BY DEF SessionInv, A!TypeOK, A!Ids
<1>2. issued[i].sub \in Users /\ issued[i].tv \in 0 .. MaxVersion /\ None \notin 0 .. MaxVersion
  BY <1>1 DEF A!Token, OfficeAssumption, A!AccountsAssumption
<1>3. PICK n \in 0 .. MaxVersion : Follows(issued[i].sub, n)
  BY <1>2 DEF SessionInv
<1>4. /\ issued[i].tv <= n
      /\ i \in live <=> issued[i].tv = n /\ i \notin expired /\ i \notin revoked
      /\ versions[issued[i].sub] = n \/ (versions[issued[i].sub] = None /\ n = 0)
  BY <1>3 DEF Follows
<1>5. versions[issued[i].sub] \in {None, issued[i].tv} <=> issued[i].tv = n
  BY <1>2, <1>4
<1> QED  BY <1>4, <1>5 DEF A!Verified

-----------------------------------------------------------------------------
(* Onboarding.                                                               *)

(* What a request read when it started still justifies what it will write:   *)
(* nothing that was earned is taken away, and a certification that is about  *)
(* to move its device has passed the six tests.                              *)
ReviewIsSound(r) ==
    /\ onboarding[review[r].device] # None
    /\ review[r].saw \in O!StartsFrom(review[r].kind)
    /\ O!Deserves(review[r].device, review[r].saw)
    /\ review[r].kind = "certify" /\ review[r].step = "advance" =>
          review[r].saw = "VALIDATED" /\ "certificate" \in earned[review[r].device]

(* StageIsEarned is not inductive by itself: what is written next depends on *)
(* what the requests have read, and on a device that only one is at that is  *)
(* still what the row says.                                                  *)
StageInv ==
    /\ O!TypeOK
    /\ O!StageIsEarned
    /\ \A r \in Reviews : review[r] # None => ReviewIsSound(r)
    /\ \A d \in Devices \ overlapped : \A r \in O!At(d) :
          /\ review[r].saw = onboarding[d].status
          /\ \A q \in O!At(d) : q = r

(* The four statuses in the order of the pipeline.                           *)
LEMMA Ranks ==
    /\ O!States = {"REGISTERED", "VALIDATED", "CERTIFIED", "PRODUCTION_READY"}
    /\ O!Rank("REGISTERED") = 1 /\ O!Rank("VALIDATED") = 2
    /\ O!Rank("CERTIFIED") = 3 /\ O!Rank("PRODUCTION_READY") = 4
<1>1. \A k \in 1 .. 4 : k = 1 \/ k = 2 \/ k = 3 \/ k = 4
  OBVIOUS
<1>2. /\ O!ONBOARDING_STATES[1] = "REGISTERED" /\ O!ONBOARDING_STATES[2] = "VALIDATED"
      /\ O!ONBOARDING_STATES[3] = "CERTIFIED" /\ O!ONBOARDING_STATES[4] = "PRODUCTION_READY"
  BY DEF O!ONBOARDING_STATES
<1>3. O!States = {"REGISTERED", "VALIDATED", "CERTIFIED", "PRODUCTION_READY"}
  BY <1>1, <1>2 DEF O!States
<1>4. /\ O!Rank("REGISTERED") = 1 /\ O!Rank("VALIDATED") = 2
      /\ O!Rank("CERTIFIED") = 3 /\ O!Rank("PRODUCTION_READY") = 4
  BY <1>1, <1>2 DEF O!Rank
<1> QED  BY <1>3, <1>4

(* Six tests none of which failed or is pending have passed.                 *)
LEMMA CertifiedPassed ==
    ASSUME NEW d, NEW f
    PROVE  /\ O!CertificationTests(d, f) \in [O!CERTIFICATION_TESTS -> O!Results]
           /\ O!Certified(O!CertificationTests(d, f)) =>
                 \A t \in O!CERTIFICATION_TESTS : O!CertificationTests(d, f)[t] = "PASS"
<1> DEFINE results == O!CertificationTests(d, f)
<1>1. \A t \in O!CERTIFICATION_TESTS : results[t] \in {"PASS", "FAIL", "PENDING"}
  BY DEF O!CertificationTests, O!CERTIFICATION_TESTS, O!Mark
<1>2. results \in [O!CERTIFICATION_TESTS -> O!Results]
  BY <1>1 DEF O!CertificationTests, O!Results
<1> QED  BY <1>1, <1>2 DEF O!Certified

(* The conjuncts of StageInv about requests.                                 *)
ReviewsAreSound == \A r \in Reviews : review[r] # None => ReviewIsSound(r)
RowsAreAsRead ==
    \A d \in Devices \ overlapped : \A r \in O!At(d) :
        /\ review[r].saw = onboarding[d].status
        /\ \A q \in O!At(d) : q = r

(* Nothing that was earned is taken away, so a request stays sound.          *)
LEMMA SoundStays ==
    ASSUME NEW r \in Reviews, ReviewIsSound(r), review'[r] = review[r],
           onboarding'[review[r].device] # None,
           earned[review[r].device] \subseteq earned'[review[r].device]
    PROVE  ReviewIsSound(r)'
BY DEF ReviewIsSound, O!Deserves

(* A request that ends leaves the others as they were; if nobody else was at *)
(* its device, then nobody is at it now.                                     *)
LEMMA ReviewFinished ==
    ASSUME OfficeAssumption, StageInv, NEW r \in Reviews, review[r] # None,
           review' = [review EXCEPT ![r] = None], overlapped' = overlapped,
           \A d \in Devices : d # review[r].device => onboarding'[d] = onboarding[d],
           onboarding'[review[r].device] # None,
           \A d \in Devices : earned[d] \subseteq earned'[d]
    PROVE  ReviewsAreSound' /\ RowsAreAsRead'
<1>0. /\ review \in [Reviews -> O!Review \union {None}]
      /\ review'[r] = None /\ \A q \in Reviews : q # r => review'[q] = review[q]
      /\ \A q \in Reviews : review[q] # None => review[q].device \in Devices
  BY DEF StageInv, O!TypeOK, O!Review
<1>1. ASSUME NEW q \in Reviews, review'[q] # None PROVE ReviewIsSound(q)'
  <2>1. q # r /\ review'[q] = review[q] /\ ReviewIsSound(q) /\ review[q].device \in Devices
    BY <1>0, <1>1 DEF StageInv
  <2>2. onboarding'[review[q].device] # None
    BY <2>1 DEF ReviewIsSound
  <2> QED  BY <2>1, <2>2, SoundStays
<1>2. ASSUME NEW d \in Devices \ overlapped', NEW q \in O!At(d)'
      PROVE  /\ review'[q].saw = onboarding'[d].status
             /\ \A p \in O!At(d)' : p = q
  <2>1. O!At(d)' = O!At(d) \ {r}
    BY <1>0 DEF O!At
  <2>2. /\ q \in O!At(d) /\ q # r /\ q \in Reviews /\ review'[q] = review[q]
        /\ review[q].saw = onboarding[d].status
        /\ \A p \in O!At(d) : p = q
    BY <1>0, <1>2, <2>1 DEF StageInv, O!At
  <2>3. d # review[r].device
    BY <2>2 DEF O!At
  <2>4. onboarding'[d] = onboarding[d]
    BY <2>3
  <2> QED  BY <2>1, <2>2, <2>4
<1> QED  BY <1>1, <1>2 DEF ReviewsAreSound, RowsAreAsRead

(* The row of the device moves to a status that is deserved, and which is    *)
(* not below the furthest one when nobody else was at it.                    *)
LEMMA DeviceAdvances ==
    ASSUME OfficeAssumption, StageInv, NEW d \in Devices, onboarding[d] # None,
           NEW status \in O!States, NEW passed \in BOOLEAN,
           O!AdvanceOnboarding(d, status, passed), overlapped' = overlapped,
           \A e \in Devices : earned[e] \subseteq earned'[e],
           O!Deserves(d, status)',
           d \notin overlapped => peak[d] <= O!Rank(status)
    PROVE  /\ O!StageIsEarned'
           /\ onboarding' \in [Devices -> O!OnboardingRow \union {None}]
           /\ peak' \in [Devices -> 0 .. 4]
           /\ onboarding'[d] # None
           /\ \A e \in Devices : e # d => onboarding'[e] = onboarding[e]
<1>0. /\ onboarding \in [Devices -> O!OnboardingRow \union {None}]
      /\ peak \in [Devices -> 0 .. 4] /\ onboarding[d] \in O!OnboardingRow
      /\ O!Rank(status) \in 1 .. 4
  BY Ranks DEF StageInv, O!TypeOK
<1>1. /\ onboarding' = [onboarding EXCEPT ![d] = [onboarding[d] EXCEPT !.status = status, !.passed = passed]]
      /\ peak' = [peak EXCEPT ![d] = IF O!Rank(status) > peak[d] THEN O!Rank(status) ELSE peak[d]]
  BY <1>0 DEF O!AdvanceOnboarding
<1>2. [onboarding[d] EXCEPT !.status = status, !.passed = passed] \in O!OnboardingRow
  BY <1>0 DEF O!OnboardingRow
<1>3. /\ onboarding'[d] \in O!OnboardingRow /\ onboarding'[d].status = status
      /\ \A e \in Devices : e # d => onboarding'[e] = onboarding[e] /\ peak'[e] = peak[e]
      /\ peak'[d] = IF O!Rank(status) > peak[d] THEN O!Rank(status) ELSE peak[d]
  <2>1. onboarding'[d] = [onboarding[d] EXCEPT !.status = status, !.passed = passed]
    BY <1>0, <1>1
  <2>2. [onboarding[d] EXCEPT !.status = status, !.passed = passed].status = status
    BY <1>0 DEF O!OnboardingRow
  <2> QED  BY <1>0, <1>1, <1>2, <2>1, <2>2
<1>4. onboarding'[d] # None
  BY <1>3 DEF OfficeAssumption, O!OnboardingAssumption
<1>5. ASSUME NEW e \in Devices, onboarding'[e] # None
      PROVE  /\ O!Deserves(e, onboarding[e].status)'
             /\ e \notin overlapped' => O!Rank(onboarding'[e].status) = peak'[e]
  <2>1. CASE e = d
    BY <1>0, <1>3, <2>1
  <2>2. CASE e # d
    <3>1. onboarding[e] # None /\ onboarding'[e] = onboarding[e] /\ peak'[e] = peak[e]
      BY <1>3, <1>5, <2>2
    <3>2. /\ O!Deserves(e, onboarding[e].status)
          /\ e \notin overlapped => O!Rank(onboarding[e].status) = peak[e]
      BY <3>1 DEF StageInv, O!StageIsEarned
    <3>3. earned[e] \subseteq earned'[e]
      OBVIOUS
    <3> QED  BY <3>1, <3>2, <3>3 DEF O!Deserves
  <2> QED  BY <2>1, <2>2
<1>6. onboarding' \in [Devices -> O!OnboardingRow \union {None}]
  BY <1>0, <1>1, <1>2
<1>7. peak' \in [Devices -> 0 .. 4]
  BY <1>0, <1>1
<1> QED  BY <1>3, <1>4, <1>5, <1>6, <1>7 DEF O!StageIsEarned

(* Every step of a request keeps the row and what the requests know in step. *)
LEMMA StagesStep ==
    ASSUME OfficeAssumption, StageInv, O!Next
    PROVE  StageInv'
<1> USE DEF O!TypeOK
<1>0. /\ asset \in [Devices -> O!AssetRow \union {None}]
      /\ onboarding \in [Devices -> O!OnboardingRow \union {None}]
      /\ certificates \in [Devices -> [O!CERTIFICATION_TESTS -> O!Results \union {None}]]
      /\ review \in [Reviews -> O!Review \union {None}]
      /\ earned \in [Devices -> SUBSET {"valid", "certificate", "approval"}]
      /\ peak \in [Devices -> 0 .. 4] /\ overlapped \subseteq Devices
      /\ None \notin O!AssetRow /\ None \notin O!OnboardingRow /\ None \notin O!Review
      /\ "default" \in Tenants /\ None \notin Tenants
  BY DEF StageInv, OfficeAssumption, O!OnboardingAssumption
<1>s. O!StageIsEarned /\ ReviewsAreSound /\ RowsAreAsRead
  BY DEF StageInv, ReviewsAreSound, RowsAreAsRead
<1>r. \A r \in Reviews : review[r] # None =>
         /\ review[r].device \in Devices /\ review[r].saw \in O!States
         /\ review[r].kind \in {"validate", "certify", "approve"}
         /\ onboarding[review[r].device] # None
  BY <1>0, <1>s DEF O!Review, ReviewsAreSound, ReviewIsSound
<1> SUFFICES O!TypeOK' /\ O!StageIsEarned' /\ ReviewsAreSound' /\ RowsAreAsRead'
  BY DEF StageInv, ReviewsAreSound, RowsAreAsRead
<1>1. ASSUME NEW d \in Devices, NEW asked \in Tenants \union {None}, NEW caller \in Tenants \union {None},
             NEW status \in {"ONLINE", "OFFLINE"}, O!RegisterAsset(d, asked, caller, status)
      PROVE  O!TypeOK' /\ O!StageIsEarned' /\ ReviewsAreSound' /\ RowsAreAsRead'
  <2>1. [tenant |-> IF asked # None THEN asked ELSE IF caller # None THEN caller ELSE "default",
         status |-> status] \in O!AssetRow
    BY <1>0 DEF O!AssetRow
  <2>2. asset' \in [Devices -> O!AssetRow \union {None}]
    BY <1>0, <1>1, <2>1 DEF O!RegisterAsset
  <2>3. UNCHANGED <<onboarding, certificates, review, earned, peak, overlapped>>
    BY <1>1 DEF O!RegisterAsset
  <2>4. O!StageIsEarned' /\ ReviewsAreSound' /\ RowsAreAsRead'
    BY <1>s, <2>3 DEF O!StageIsEarned, O!Deserves, ReviewsAreSound, ReviewIsSound, RowsAreAsRead, O!At
  <2> QED  BY <1>0, <2>2, <2>3, <2>4
<1>2. ASSUME NEW d \in Devices, NEW protocol \in BOOLEAN, NEW site \in BOOLEAN,
             O!EnrollDevice(d, protocol, site)
      PROVE  O!TypeOK' /\ O!StageIsEarned' /\ ReviewsAreSound' /\ RowsAreAsRead'
  <2> DEFINE row == [status |-> "REGISTERED", protocol |-> protocol, site |-> site, passed |-> FALSE]
  <2>1. row \in O!OnboardingRow /\ row.status = "REGISTERED"
    BY Ranks DEF O!OnboardingRow
  <2>2. /\ onboarding[d] = None /\ onboarding' = [onboarding EXCEPT ![d] = row] /\ peak' = [peak EXCEPT ![d] = 1]
        /\ UNCHANGED <<asset, certificates, review, earned, overlapped>>
    BY <1>2 DEF O!EnrollDevice
  <2> HIDE DEF row
  <2>3. O!TypeOK'
    BY <1>0, <2>1, <2>2
  <2>4. /\ onboarding'[d] = row /\ peak'[d] = 1
        /\ \A e \in Devices : e # d => onboarding'[e] = onboarding[e] /\ peak'[e] = peak[e]
    BY <1>0, <2>2
  <2>5. ASSUME NEW e \in Devices, onboarding'[e] # None
        PROVE  /\ O!Deserves(e, onboarding[e].status)'
               /\ e \notin overlapped' => O!Rank(onboarding'[e].status) = peak'[e]
    <3>1. CASE e = d
      BY <2>1, <2>4, <3>1, Ranks DEF O!Deserves
    <3>2. CASE e # d
      BY <1>s, <2>2, <2>4, <2>5, <3>2 DEF O!StageIsEarned, O!Deserves
    <3> QED  BY <3>1, <3>2
  <2>6. ReviewsAreSound'
    <3>1. ASSUME NEW r \in Reviews, review'[r] # None PROVE ReviewIsSound(r)'
      <4>1. review[r] # None /\ review'[r] = review[r] /\ review[r].device \in Devices /\ review[r].device # d
        BY <1>r, <2>2, <3>1
      <4>2. onboarding'[review[r].device] # None
        BY <1>r, <2>4, <4>1
      <4> QED  BY <1>s, <2>2, <4>1, <4>2, SoundStays DEF ReviewsAreSound
    <3> QED  BY <3>1 DEF ReviewsAreSound
  <2>7. RowsAreAsRead'
    <3>1. ASSUME NEW e \in Devices \ overlapped', NEW r \in O!At(e)'
          PROVE  /\ review'[r].saw = onboarding'[e].status
                 /\ \A q \in O!At(e)' : q = r
      <4>1. O!At(e)' = O!At(e) /\ review' = review
        BY <2>2 DEF O!At
      <4>2. e # d
        BY <1>r, <2>2, <3>1, <4>1 DEF O!At
      <4> QED  BY <1>s, <2>2, <2>4, <3>1, <4>1, <4>2 DEF RowsAreAsRead
    <3> QED  BY <3>1 DEF RowsAreAsRead
  <2> QED  BY <2>3, <2>5, <2>6, <2>7 DEF O!StageIsEarned
<1>3. ASSUME NEW r \in Reviews, NEW d \in Devices, NEW kind \in {"validate", "certify", "approve"},
             O!ReadRow(r, d, kind)
      PROVE  O!TypeOK' /\ O!StageIsEarned' /\ ReviewsAreSound' /\ RowsAreAsRead'
  <2> DEFINE new == [device |-> d, kind |-> kind, saw |-> onboarding[d].status,
                     step |-> IF kind = "approve" THEN "advance" ELSE "look"]
  <2>1. /\ review[r] = None /\ onboarding[d] # None /\ onboarding[d].status \in O!StartsFrom(kind)
        /\ review' = [review EXCEPT ![r] = new]
        /\ overlapped' = IF O!At(d) = {} THEN overlapped ELSE overlapped \union {d}
        /\ UNCHANGED <<asset, onboarding, certificates, earned, peak>>
    BY <1>3 DEF O!ReadRow
  <2>2. onboarding[d].status \in O!States
    BY <1>0, <2>1 DEF O!OnboardingRow
  <2>3. new \in O!Review /\ new # None
    BY <1>0, <2>2 DEF O!Review
  <2>4. new.device = d /\ new.kind = kind /\ new.saw = onboarding[d].status
        /\ (new.kind = "certify" => new.step = "look")
    OBVIOUS
  <2> HIDE DEF new
  <2>5. O!TypeOK'
    BY <1>0, <2>1, <2>3
  <2>6. review'[r] = new /\ \A q \in Reviews : q # r => review'[q] = review[q]
    BY <1>0, <2>1
  <2>7. O!StageIsEarned'
    BY <1>s, <2>1 DEF O!StageIsEarned, O!Deserves
  <2>8. ASSUME NEW q \in Reviews, review'[q] # None PROVE ReviewIsSound(q)'
    <3>1. CASE q = r
      <4>1. O!Deserves(d, onboarding[d].status)
        BY <1>s, <2>1 DEF O!StageIsEarned
      <4>2. O!Deserves(d, onboarding[d].status)'
        BY <2>1, <4>1 DEF O!Deserves
      <4>3. /\ onboarding'[review'[q].device] # None
            /\ review'[q].saw \in O!StartsFrom(review'[q].kind)
            /\ ~(review'[q].kind = "certify" /\ review'[q].step = "advance")
            /\ review'[q].device = d /\ review'[q].saw = onboarding'[d].status
        BY <2>1, <2>4, <2>6, <3>1
      <4>4. O!Deserves(review[q].device, review[q].saw)'
        BY <4>2, <4>3 DEF O!Deserves
      <4> QED  BY <4>3, <4>4 DEF ReviewIsSound, O!Deserves, O!StartsFrom
    <3>2. CASE q # r
      <4>1. review'[q] = review[q] /\ review[q] # None /\ review[q].device \in Devices
        BY <1>r, <2>6, <2>8, <3>2
      <4> QED  BY <1>r, <1>s, <2>1, <4>1, SoundStays DEF ReviewsAreSound
    <3> QED  BY <3>1, <3>2
  <2>9. ASSUME NEW e \in Devices \ overlapped', NEW q \in O!At(e)'
        PROVE  /\ review'[q].saw = onboarding'[e].status
               /\ \A p \in O!At(e)' : p = q
    <3>1. CASE e = d
      <4>1. O!At(d) = {}
        BY <2>1, <2>9, <3>1
      <4>2. O!At(d)' = {r}
        BY <2>3, <2>4, <2>6, <4>1 DEF O!At
      <4> QED  BY <2>1, <2>4, <2>6, <2>9, <3>1, <4>2
    <3>2. CASE e # d
      <4>1. O!At(e)' = O!At(e) /\ r \notin O!At(e)
        BY <2>1, <2>4, <2>6, <3>2 DEF O!At
      <4>2. q \in O!At(e) /\ e \notin overlapped /\ review'[q] = review[q]
        BY <2>1, <2>6, <2>9, <4>1 DEF O!At
      <4> QED  BY <1>s, <2>1, <4>1, <4>2 DEF RowsAreAsRead
    <3> QED  BY <3>1, <3>2
  <2> QED  BY <2>5, <2>7, <2>8, <2>9 DEF ReviewsAreSound, RowsAreAsRead
<1>4. ASSUME NEW r \in Reviews, NEW seen \in BOOLEAN, O!ValidateOnboarding(r, seen)
      PROVE  O!TypeOK' /\ O!StageIsEarned' /\ ReviewsAreSound' /\ RowsAreAsRead'
  <2>1. PICK d \in Devices : d = review[r].device
    BY <1>4, <1>r DEF O!ValidateOnboarding
  <2>2. /\ review[r] # None /\ review[r].kind = "validate" /\ onboarding[d] # None
        /\ review' = [review EXCEPT ![r] = None]
        /\ UNCHANGED <<asset, certificates, overlapped>>
    BY <1>4, <1>r, <2>1 DEF O!ValidateOnboarding
  <2>3. review[r].saw \in {"REGISTERED", "VALIDATED"}
    BY <1>s, <2>2 DEF ReviewsAreSound, ReviewIsSound, O!StartsFrom
  <2>4. CASE O!Passed(d, seen)
    <3>1. /\ O!AdvanceOnboarding(d, "VALIDATED", TRUE)
          /\ earned' = [earned EXCEPT ![d] = @ \union {"valid"}]
      BY <1>4, <2>1, <2>4 DEF O!ValidateOnboarding
    <3>2. \A e \in Devices : earned[e] \subseteq earned'[e]
      BY <1>0, <3>1
    <3>3. O!Deserves(d, "VALIDATED")'
      BY <1>0, <3>1, Ranks DEF O!Deserves
    <3>4. d \notin overlapped => peak[d] <= O!Rank("VALIDATED")
      <4>1. SUFFICES ASSUME d \notin overlapped PROVE peak[d] <= 2
        BY Ranks
      <4>2. onboarding[d].status = review[r].saw
        BY <1>s, <2>1, <2>2, <4>1 DEF RowsAreAsRead, O!At
      <4>3. peak[d] = O!Rank(onboarding[d].status)
        BY <1>s, <2>2, <4>1 DEF O!StageIsEarned
      <4> QED  BY <2>3, <4>2, <4>3, Ranks
    <3>5. /\ O!StageIsEarned'
          /\ onboarding' \in [Devices -> O!OnboardingRow \union {None}] /\ peak' \in [Devices -> 0 .. 4]
          /\ onboarding'[d] # None /\ \A e \in Devices : e # d => onboarding'[e] = onboarding[e]
      BY <2>2, <3>1, <3>2, <3>3, <3>4, DeviceAdvances, Ranks
    <3>6. ReviewsAreSound' /\ RowsAreAsRead'
      BY <2>1, <2>2, <3>2, <3>5, ReviewFinished
    <3>7. O!TypeOK'
      BY <1>0, <2>2, <3>1, <3>5
    <3> QED  BY <3>5, <3>6, <3>7
  <2>5. CASE ~O!Passed(d, seen)
    <3>1. /\ onboarding' = [onboarding EXCEPT ![d].passed = FALSE] /\ UNCHANGED <<peak, earned>>
      BY <1>4, <2>1, <2>5 DEF O!ValidateOnboarding
    <3>2. onboarding[d] \in O!OnboardingRow
      BY <1>0, <2>2
    <3>3. /\ [onboarding[d] EXCEPT !.passed = FALSE] \in O!OnboardingRow
          /\ [onboarding[d] EXCEPT !.passed = FALSE].status = onboarding[d].status
      BY <3>2 DEF O!OnboardingRow
    <3>4. /\ onboarding'[d] \in O!OnboardingRow /\ onboarding'[d].status = onboarding[d].status
          /\ onboarding'[d] # None
          /\ \A e \in Devices : e # d => onboarding'[e] = onboarding[e]
      BY <1>0, <3>1, <3>3
    <3>5. onboarding' \in [Devices -> O!OnboardingRow \union {None}]
      BY <1>0, <3>1, <3>3
    <3>6. O!TypeOK'
      BY <1>0, <2>2, <3>1, <3>5
    <3>7. O!StageIsEarned'
      BY <1>s, <2>2, <3>1, <3>4 DEF O!StageIsEarned, O!Deserves
    <3>8. ReviewsAreSound' /\ RowsAreAsRead'
      BY <2>1, <2>2, <3>1, <3>4, ReviewFinished
    <3> QED  BY <3>6, <3>7, <3>8
  <2> QED  BY <2>4, <2>5
<1>5. ASSUME NEW r \in Reviews, NEW f \in O!Findings, O!RunCertificationTests(r, f)
      PROVE  O!TypeOK' /\ O!StageIsEarned' /\ ReviewsAreSound' /\ RowsAreAsRead'
  <2>1. PICK d \in Devices : d = review[r].device
    BY <1>5, <1>r DEF O!RunCertificationTests
  <2>2. PICK results : results = O!CertificationTests(d, f)
    OBVIOUS
  <2>3. /\ review[r] # None /\ review[r].kind = "certify" /\ review[r].step = "look"
        /\ certificates' = [certificates EXCEPT ![d] = results]
        /\ earned' = [earned EXCEPT ![d] =
               IF \A t \in O!CERTIFICATION_TESTS : results[t] = "PASS" THEN @ \union {"certificate"} ELSE @]
        /\ review' = [review EXCEPT ![r] =
               IF O!Certified(results) /\ @.saw = "VALIDATED" THEN [@ EXCEPT !.step = "advance"] ELSE None]
        /\ UNCHANGED <<asset, onboarding, peak, overlapped>>
    BY <1>5, <2>1, <2>2 DEF O!RunCertificationTests
  <2>4. /\ results \in [O!CERTIFICATION_TESTS -> O!Results]
        /\ O!Certified(results) => \A t \in O!CERTIFICATION_TESTS : results[t] = "PASS"
    BY <2>2, CertifiedPassed
  <2>5. \A e \in Devices : earned[e] \subseteq earned'[e]
    BY <1>0, <2>3
  <2>6. O!StageIsEarned'
    BY <1>s, <2>3, <2>5 DEF O!StageIsEarned, O!Deserves
  <2>7. /\ certificates' \in [Devices -> [O!CERTIFICATION_TESTS -> O!Results \union {None}]]
        /\ earned' \in [Devices -> SUBSET {"valid", "certificate", "approval"}]
    <3>1. results \in [O!CERTIFICATION_TESTS -> O!Results \union {None}]
      BY <2>4
    <3>2. certificates' \in [Devices -> [O!CERTIFICATION_TESTS -> O!Results \union {None}]]
      BY <1>0, <2>3, <3>1
    <3>3. earned' \in [Devices -> SUBSET {"valid", "certificate", "approval"}]
      BY <1>0, <2>3
    <3> QED  BY <3>2, <3>3
  <2>8. CASE O!Certified(results) /\ review[r].saw = "VALIDATED"
    <3> DEFINE new == [review[r] EXCEPT !.step = "advance"]
    <3>1. /\ new \in O!Review /\ new.device = d /\ new.kind = "certify" /\ new.saw = "VALIDATED"
          /\ new.step = "advance" /\ new # None
      <4>1. review[r] \in O!Review
        BY <1>0, <2>3
      <4>2. new \in O!Review
        BY <4>1 DEF O!Review
      <4> QED  BY <1>0, <2>1, <2>3, <2>8, <4>1, <4>2 DEF O!Review
    <3>2. review' = [review EXCEPT ![r] = new]
      BY <1>0, <2>3, <2>8
    <3> HIDE DEF new
    <3>3. review'[r] = new /\ \A q \in Reviews : q # r => review'[q] = review[q]
      BY <1>0, <3>2
    <3>4. O!TypeOK'
      BY <1>0, <2>3, <2>7, <3>1, <3>2, SMTT(30)
    <3>5. ASSUME NEW q \in Reviews, review'[q] # None PROVE ReviewIsSound(q)'
      <4>1. CASE q = r
        <5>1. "certificate" \in earned'[d]
          BY <1>0, <2>3, <2>4, <2>8
        <5>2. onboarding[d] # None /\ "VALIDATED" \in O!StartsFrom("certify") /\ O!Deserves(d, "VALIDATED")
          BY <1>s, <2>1, <2>3, <2>8 DEF ReviewsAreSound, ReviewIsSound
        <5>3. O!Deserves(d, "VALIDATED")'
          BY <2>5, <5>2 DEF O!Deserves
        <5>4. review'[q].device = d /\ review'[q].kind = "certify" /\ review'[q].saw = "VALIDATED"
          BY <3>1, <3>3, <4>1
        <5>5. O!Deserves(review[q].device, review[q].saw)'
          BY <5>3, <5>4 DEF O!Deserves
        <5>6. review'[q].saw \in O!StartsFrom(review'[q].kind) /\ onboarding'[review'[q].device] # None
          BY <2>3, <5>2, <5>4
        <5> QED  BY <5>1, <5>4, <5>5, <5>6 DEF ReviewIsSound, O!Deserves, O!StartsFrom
      <4>2. CASE q # r
        <5>1. review'[q] = review[q] /\ review[q] # None /\ review[q].device \in Devices
          BY <1>r, <3>3, <3>5, <4>2
        <5> QED  BY <1>r, <1>s, <2>3, <2>5, <5>1, SoundStays DEF ReviewsAreSound
      <4> QED  BY <4>1, <4>2
    <3>6. ASSUME NEW e \in Devices \ overlapped', NEW q \in O!At(e)'
          PROVE  /\ review'[q].saw = onboarding'[e].status
                 /\ \A p \in O!At(e)' : p = q
      <4>1. O!At(e)' = O!At(e)
        BY <2>1, <2>3, <3>1, <3>3 DEF O!At
      <4>2. q \in O!At(e) /\ q \in Reviews /\ review'[q].saw = review[q].saw
        BY <2>8, <3>1, <3>3, <3>6, <4>1 DEF O!At
      <4> QED  BY <1>s, <2>3, <3>6, <4>1, <4>2 DEF RowsAreAsRead
    <3> QED  BY <2>6, <3>4, <3>5, <3>6 DEF ReviewsAreSound, RowsAreAsRead
  <2>9. CASE ~(O!Certified(results) /\ review[r].saw = "VALIDATED")
    <3>1. review' = [review EXCEPT ![r] = None]
      BY <1>0, <2>3, <2>9
    <3>2. ReviewsAreSound' /\ RowsAreAsRead'
      BY <1>r, <2>3, <2>5, <3>1, ReviewFinished
    <3>3. O!TypeOK'
      BY <1>0, <2>3, <2>7, <3>1
    <3> QED  BY <2>6, <3>2, <3>3
  <2> QED  BY <2>8, <2>9
<1>6. ASSUME NEW r \in Reviews, O!CertifyOnboarding(r) \/ O!ApproveOnboarding(r)
      PROVE  O!TypeOK' /\ O!StageIsEarned' /\ ReviewsAreSound' /\ RowsAreAsRead'
  <2>1. PICK d \in Devices : d = review[r].device
    BY <1>6, <1>r DEF O!CertifyOnboarding, O!ApproveOnboarding
  <2>2. PICK status \in {"CERTIFIED", "PRODUCTION_READY"} :
        /\ review[r] # None
        /\ O!AdvanceOnboarding(d, status, onboarding[d].passed)
        /\ review' = [review EXCEPT ![r] = None]
        /\ UNCHANGED <<asset, certificates, overlapped>>
        /\ \/ /\ status = "CERTIFIED" /\ review[r].kind = "certify" /\ review[r].step = "advance"
              /\ earned' = earned
           \/ /\ status = "PRODUCTION_READY" /\ review[r].kind = "approve"
              /\ earned' = [earned EXCEPT ![d] = @ \union {"approval"}]
    BY <1>6, <2>1 DEF O!CertifyOnboarding, O!ApproveOnboarding
  <2>3. /\ onboarding[d] # None /\ onboarding[d].passed \in BOOLEAN /\ status \in O!States
    BY <1>0, <1>r, <2>1, <2>2, Ranks DEF O!OnboardingRow
  <2>4. /\ earned' \in [Devices -> SUBSET {"valid", "certificate", "approval"}]
        /\ \A e \in Devices : earned[e] \subseteq earned'[e]
        /\ status = "PRODUCTION_READY" => "approval" \in earned'[d]
    <3>1. CASE earned' = earned /\ status = "CERTIFIED"
      BY <1>0, <3>1
    <3>2. CASE earned' = [earned EXCEPT ![d] = @ \union {"approval"}] /\ status = "PRODUCTION_READY"
      <4>1. earned[d] \union {"approval"} \in SUBSET {"valid", "certificate", "approval"}
        BY <1>0
      <4>2. earned' \in [Devices -> SUBSET {"valid", "certificate", "approval"}]
        BY <1>0, <3>2, <4>1
      <4> QED  BY <1>0, <3>2, <4>2
    <3> QED  BY <2>2, <3>1, <3>2
  <2>5. /\ O!Deserves(d, review[r].saw)
        /\ status = "CERTIFIED" => review[r].saw = "VALIDATED" /\ "certificate" \in earned[d]
        /\ status = "PRODUCTION_READY" => review[r].saw = "CERTIFIED"
    BY <1>s, <2>1, <2>2 DEF ReviewsAreSound, ReviewIsSound, O!StartsFrom
  <2>6. "valid" \in earned'[d] /\ "certificate" \in earned'[d]
    BY <2>2, <2>4, <2>5, Ranks DEF O!Deserves
  <2>7. O!Deserves(d, status)'
    BY <2>2, <2>4, <2>6, Ranks DEF O!Deserves
  <2>8. d \notin overlapped => peak[d] <= O!Rank(status)
    <3>1. SUFFICES ASSUME d \notin overlapped PROVE peak[d] <= O!Rank(status)
      OBVIOUS
    <3>2. onboarding[d].status = review[r].saw
      BY <1>s, <2>1, <2>2, <3>1 DEF RowsAreAsRead, O!At
    <3>3. peak[d] = O!Rank(onboarding[d].status)
      BY <1>s, <2>3, <3>1 DEF O!StageIsEarned
    <3> QED  BY <2>2, <2>5, <3>2, <3>3, Ranks
  <2>9. /\ O!StageIsEarned'
        /\ onboarding' \in [Devices -> O!OnboardingRow \union {None}] /\ peak' \in [Devices -> 0 .. 4]
        /\ onboarding'[d] # None /\ \A e \in Devices : e # d => onboarding'[e] = onboarding[e]
    BY <2>2, <2>3, <2>4, <2>7, <2>8, DeviceAdvances
  <2>10. ReviewsAreSound' /\ RowsAreAsRead'
    BY <2>1, <2>2, <2>4, <2>9, ReviewFinished
  <2>11. O!TypeOK'
    BY <1>0, <2>2, <2>4, <2>9
  <2> QED  BY <2>9, <2>10, <2>11
<1>7. ASSUME NEW r \in Reviews, O!ReviewEnds(r)
      PROVE  O!TypeOK' /\ O!StageIsEarned' /\ ReviewsAreSound' /\ RowsAreAsRead'
  <2>1. /\ review[r] # None /\ review' = [review EXCEPT ![r] = None]
        /\ UNCHANGED <<asset, onboarding, certificates, earned, peak, overlapped>>
    BY <1>7 DEF O!ReviewEnds
  <2>2. ReviewsAreSound' /\ RowsAreAsRead'
    BY <1>r, <2>1, ReviewFinished
  <2>3. O!StageIsEarned'
    BY <1>s, <2>1 DEF O!StageIsEarned, O!Deserves
  <2>4. O!TypeOK'
    BY <1>0, <2>1
  <2> QED  BY <2>2, <2>3, <2>4
<1> QED
  BY <1>1, <1>2, <1>3, <1>4, <1>5, <1>6, <1>7 DEF O!Next

-----------------------------------------------------------------------------
(* Together. Of the parts only one takes steps, so that a step of MCOffice   *)
(* is a step of Accounts, one of Onboarding, or leaves both alone.           *)
LEMMA OfficeInit ==
    ASSUME OfficeAssumption, Init
    PROVE  SessionInv /\ StageInv
<1>1. SessionInv
  <2>1. A!Init /\ MaxVersion \in Nat /\ MaxTokens \in Nat /\ MaxUpsets \in Nat
    BY DEF Init, OfficeAssumption, A!AccountsAssumption
  <2>2. A!TypeOK
    <3>1. users \in [Users -> A!User \union {None}]
      BY <2>1 DEF A!Init, A!User, A!Roles
    <3>2. issued \in Seq(A!Token) /\ Len(issued) = 0 /\ DOMAIN issued = {}
      BY <2>1 DEF A!Init
    <3> QED  BY <2>1, <3>1, <3>2 DEF A!Init, A!TypeOK, A!Ids
  <2>3. ASSUME NEW u \in Users PROVE Follows(u, 0)
    <3>1. A!Busy("bump", u) = {}
      BY <2>1 DEF A!Init, A!Busy
    <3>2. A!Ids = {}
      BY <2>1 DEF A!Init, A!Ids
    <3>3. versions[u] = None /\ users[u].tv = 0
      BY <2>1, <2>3 DEF A!Init
    <3> QED  BY <3>1, <3>2, <3>3 DEF Follows
  <2>4. 0 \in 0 .. MaxVersion /\ revoked = {}
    BY <2>1 DEF A!Init
  <2> QED  BY <2>2, <2>3, <2>4 DEF SessionInv
<1>2. StageInv
  <2>1. O!Init
    BY DEF Init
  <2>2. \A d \in Devices : O!At(d) = {}
    BY <2>1 DEF O!Init, O!At
  <2> QED  BY <2>1, <2>2 DEF O!Init, O!TypeOK, O!StageIsEarned, StageInv
<1> QED  BY <1>1, <1>2

LEMMA OfficeStep ==
    ASSUME OfficeAssumption, SessionInv /\ StageInv,
           [Next]_<<part, accounts, devices, cutover, cim, fleet, copilot, voltvar>>
    PROVE  (SessionInv /\ StageInv)'
<1>1. CASE A!Next /\ UNCHANGED devices
  <2>1. SessionInv'
    BY <1>1, SessionsStep
  <2>2. StageInv'
    BY <1>1 DEF devices, StageInv, O!TypeOK, O!StageIsEarned, O!Deserves, ReviewIsSound, O!At
  <2> QED  BY <2>1, <2>2
<1>2. CASE O!Next /\ UNCHANGED accounts
  <2>1. StageInv'
    BY <1>2, StagesStep
  <2>2. SessionInv'
    BY <1>2 DEF accounts, SessionInv, A!TypeOK, A!Ids, Follows, A!Busy
  <2> QED  BY <2>1, <2>2
<1>3. CASE UNCHANGED <<accounts, devices>>
  <2>1. StageInv'
    BY <1>3 DEF devices, StageInv, O!TypeOK, O!StageIsEarned, O!Deserves, ReviewIsSound, O!At
  <2>2. SessionInv'
    BY <1>3 DEF accounts, SessionInv, A!TypeOK, A!Ids, Follows, A!Busy
  <2> QED  BY <2>1, <2>2
<1> QED
  BY <1>1, <1>2, <1>3 DEF Next, Accounts, Onboarding, Cutover, Cim, Fleet, Copilot, VoltVar

(* What a table of sessions would hold and how far every version has got     *)
(* stay in step, and so do the rows of devices and what requests read of     *)
(* them.                                                                     *)
THEOREM OfficeInvariance == Spec => [](SessionInv /\ StageInv)
<1>1. Init => SessionInv /\ StageInv
  BY OfficeAssumption, OfficeInit
<1>2. (SessionInv /\ StageInv) /\ [Next]_<<part, accounts, devices, cutover, cim, fleet, copilot, voltvar>> => (SessionInv /\ StageInv)'
  BY OfficeAssumption, OfficeStep
<1> QED  BY <1>1, <1>2, PTL DEF Spec

(* While Redis answers, verify_jwt accepts a token exactly if its session    *)
(* lasts, for any number of users, tokens and requests.                      *)
THEOREM SessionsAreExactHolds == Spec => []SessionsAreExact
<1>1. SessionInv => SessionsAreExact
  BY OfficeAssumption, SessionsFollow DEF SessionsAreExact, SessionInv
<1> QED  BY <1>1, OfficeInvariance, PTL

(* However many requests overlap or die, a device stands at a stage it has   *)
(* earned, and never below one it had unless requests overlapped.            *)
THEOREM StageIsEarnedHolds == Spec => []StageIsEarned
<1>1. StageInv => StageIsEarned
  BY DEF StageInv, StageIsEarned
<1> QED  BY <1>1, OfficeInvariance, PTL

-----------------------------------------------------------------------------
(* The cutover. First, facts on numbers and sequences that it needs.         *)

(* Sets of natural numbers that are bounded have a largest element. *)
LEMMA Smallest ==
    ASSUME NEW S \in SUBSET Nat, S # {}
    PROVE  \E x \in S : \A y \in S : x <= y
<1>1. PICK k \in S : TRUE
  OBVIOUS
<1> DEFINE all == 1 .. k
           upto == {1 .. x : x \in {y \in S : y <= k}}
<1>2. IsFiniteSet(all)
  BY FS_Interval
<1>3. IsWellFoundedOn(StrictSubsetOrdering(all), SUBSET all)
  BY <1>2, FS_StrictSubsetOrderingWellFounded, FS_FiniteSubsetsOfFinite
<1>4. upto \subseteq SUBSET all /\ upto # {}
  <2>1. \A x \in S : x <= k => 1 .. x \subseteq 1 .. k
    BY <1>1
  <2>2. 1 .. k \in upto
    BY <1>1
  <2> QED  BY <2>1, <2>2
<1> HIDE DEF upto, all
<1>5. PICK m \in upto : \A y \in upto : ~ (<<y, m>> \in StrictSubsetOrdering(all))
  BY <1>3, <1>4, WFMin
<1>6. \A y \in upto : ~ (y \subseteq m /\ y # m)
  BY <1>4, <1>5 DEF StrictSubsetOrdering
<1>7. PICK x \in S : m = 1 .. x /\ x <= k
  BY <1>5 DEF upto
<1>8. ASSUME NEW y \in S, y < x PROVE FALSE
  <2>1. 1 .. y \in upto
    BY <1>7, <1>8 DEF upto
  <2>2. 1 .. y \subseteq m /\ x \in 1 .. x /\ x \notin 1 .. y
    BY <1>7, <1>8
  <2> QED  BY <1>6, <1>7, <2>1, <2>2
<1> QED  BY <1>8

LEMMA Largest ==
    ASSUME NEW D, D # {}, NEW f, NEW k \in Nat, \A i \in D : f[i] \in Nat /\ f[i] <= k
    PROVE  \E i \in D : \A j \in D : f[i] >= f[j]
<1> DEFINE S == {k - f[i] : i \in D}
<1>1. S \in SUBSET Nat /\ S # {}
  OBVIOUS
<1> HIDE DEF S
<1>2. PICK x \in S : \A y \in S : x <= y
  BY <1>1, Smallest
<1>3. PICK i \in D : x = k - f[i]
  BY <1>2 DEF S
<1>4. \A j \in D : k - f[i] <= k - f[j]
  BY <1>2, <1>3 DEF S
<1> QED  BY <1>4

LEMMA ReadyIs ==
    ASSUME NEW previous
    PROVE  /\ C!Ready(previous) \in BOOLEAN
           /\ C!Ready(previous) => ~C!Offends(previous, restarts)
<1>1. C!Ready(previous) \in BOOLEAN
  BY DEF C!Ready
<1>2. C!Check("container_restart_counts", 10, TRUE, C!Offends(previous, restarts), FALSE) \in C!ReadinessChecks(previous)
  BY DEF C!ReadinessChecks, C!HostChecks
<1>3. C!Check("container_restart_counts", 10, TRUE, C!Offends(previous, restarts), FALSE).fails = C!Offends(previous, restarts)
  BY DEF C!Check
<1> QED  BY <1>1, <1>2, <1>3 DEF C!Ready

LEMMA PassesIs == ASSUME NEW checks PROVE C!Passes(checks) \in BOOLEAN
  BY DEF C!Passes

-----------------------------------------------------------------------------
(* The cutover: types, what each request owes, and the runs of the script.   *)

Fields == {"at", "id", "left", "passed", "previous"}
IsCall(q) == q = [field \in Fields |-> q[field]]

LEMMA IdleIs ==
    /\ IsCall(C!Idle)
    /\ C!Idle.at = "new" /\ C!Idle.id = None /\ C!Idle.left = << >>
    /\ C!Idle.passed = FALSE /\ C!Idle.previous = None
  BY DEF IsCall, C!Idle, Fields

Started == {"CUTOVER_STARTED", "PRE_CUTOVER_VALIDATED"}
Verdicts == {"POST_CUTOVER_VALIDATED", "GO", "NO_GO"}
Names == Started \union Verdicts \union {"BASELINE_CAPTURED"}

GateTypes ==
    /\ C!TypeOK
    /\ clock \in Nat /\ together \in BOOLEAN
    /\ runs \in Seq(C!Assessment)
    /\ \A i \in DOMAIN runs : runs[i].at <= clock
    /\ deployment \in [C!Turns -> C!Deployment \union {None}]
    /\ \A d \in C!Recorded : deployment[d].at <= clock
    /\ trail \in [C!Turns -> Seq(Names)]
    /\ request = [r \in C!Turns |-> request[r]] /\ \A r \in C!Turns : IsCall(request[r])

Says(told) == {told[i] : i \in DOMAIN told}
Verdict(passed) == {"POST_CUTOVER_VALIDATED", IF passed THEN "GO" ELSE "NO_GO"}

\* What a request must have read, and what it has left to record, where it is.
CallOK(r) ==
    LET q == request[r] IN
    /\ q.at = "new" => deployment[r] = None /\ trail[r] = << >>
    /\ q.at = "insert" =>
          /\ q.id = r /\ deployment[r] = None /\ trail[r] = << >>
          /\ Started \subseteq Says(q.left) /\ Says(q.left) \cap Verdicts = {}
    /\ q.at \in {"probe", "update", "record"} => q.id \in C!Recorded
    /\ q.at = "update" => Verdict(q.passed) \subseteq Says(q.left)
    /\ q.at \in {"insert", "update", "record"} => q.left \in Seq(Names) /\ q.left # << >>
    /\ q.at \in {"insert", "update"} => q.passed \in BOOLEAN
    /\ q.at = "record" /\ deployment[q.id].gate = "IN_PROGRESS" => Says(q.left) \cap Verdicts = {}
    /\ q.at = "refresh" => C!Recorded # {}
    /\ q.at = "assess" => q.id \in Nat /\ q.id <= clock
    /\ q.at = "persist" => q.left \in Seq(C!Assessment) /\ Len(q.left) = 1 /\ q.left[1].at <= clock

\* What was told is in the trail, or a request has it left to record or died with it.
Owes(r, d, told) ==
    /\ request[r].id = d
    /\ \/ request[r].at = "died"
       \/ request[r].at = "record" /\ told \subseteq Says(trail[d]) \union Says(request[r].left)
Audited(d, told) == told \subseteq Says(trail[d]) \/ \E r \in C!Turns : Owes(r, d, told)

RecordOK(d) ==
    /\ deployment[d].gate = "IN_PROGRESS" => Says(trail[d]) \cap Verdicts = {}
    /\ Audited(d, Started)
    /\ deployment[d].gate # "IN_PROGRESS" => Audited(d, {"POST_CUTOVER_VALIDATED", deployment[d].gate})

GateInv ==
    /\ GateTypes
    /\ \A r \in C!Turns : CallOK(r)
    /\ \A d \in C!Recorded : RecordOK(d)

LEMMA SaysAppend ==
    ASSUME NEW S, NEW s \in Seq(S), NEW e \in S
    PROVE  Append(s, e) \in Seq(S) /\ Says(Append(s, e)) = Says(s) \union {e}
<1> DEFINE t == Append(s, e)
<1>1. /\ t \in Seq(S) /\ Len(t) = Len(s) + 1 /\ t[Len(s) + 1] = e
      /\ \A i \in 1 .. Len(s) : t[i] = s[i]
  BY AppendProperties
<1> HIDE DEF t
<1>0. DOMAIN s = 1 .. Len(s) /\ DOMAIN t = 1 .. Len(s) + 1 /\ Len(s) \in Nat
  BY <1>1, LenProperties
<1>2. \A i \in DOMAIN t : i \in DOMAIN s \/ i = Len(s) + 1
  BY <1>0
<1>3. DOMAIN s \subseteq DOMAIN t /\ Len(s) + 1 \in DOMAIN t
  BY <1>0
<1>4. Says(t) \subseteq Says(s) \union {e}
  BY <1>0, <1>1, <1>2 DEF Says
<1>5. Says(s) \union {e} \subseteq Says(t)
  BY <1>0, <1>1, <1>3 DEF Says
<1> QED  BY <1>1, <1>4, <1>5 DEF t

LEMMA SaysTail ==
    ASSUME NEW S, NEW s \in Seq(S), s # << >>
    PROVE  /\ Tail(s) \in Seq(S) /\ Head(s) \in S
           /\ Says(s) = Says(Tail(s)) \union {Head(s)}
           /\ Len(s) > 1 => Tail(s) # << >>
           /\ ~(Len(s) > 1) => Says(s) = {Head(s)}
<1> DEFINE t == Tail(s)
<1>1. /\ t \in Seq(S) /\ Head(s) = s[1] /\ s[1] \in S
      /\ DOMAIN s = 1 .. Len(s) /\ DOMAIN t = 1 .. Len(s) - 1 /\ Len(s) \in Nat /\ Len(s) >= 1
      /\ Len(t) = Len(s) - 1
      /\ \A i \in 1 .. Len(s) - 1 : t[i] = s[i + 1]
  OBVIOUS
<1> HIDE DEF t
<1>2. ASSUME NEW i \in DOMAIN s PROVE s[i] = s[1] \/ \E j \in DOMAIN t : s[i] = t[j]
  <2>1. CASE i = 1
    BY <2>1
  <2>2. CASE i # 1
    <3>1. i - 1 \in DOMAIN t /\ s[i] = t[i - 1]
      BY <1>1, <1>2, <2>2
    <3> QED  BY <3>1
  <2> QED  BY <2>1, <2>2
<1>3. ASSUME NEW j \in DOMAIN t PROVE \E i \in DOMAIN s : s[i] = t[j]
  <2>1. j + 1 \in DOMAIN s /\ s[j + 1] = t[j]
    BY <1>1, <1>3
  <2> QED  BY <2>1
<1>4. Says(s) \subseteq Says(t) \union {s[1]}
  BY <1>2 DEF Says
<1>5. Says(t) \subseteq Says(s) /\ s[1] \in Says(s)
  BY <1>1, <1>3 DEF Says
<1>6. ~(Len(s) > 1) => Says(t) = {}
  BY <1>1 DEF Says
<1>7. Len(s) > 1 => t # << >>
  BY <1>1
<1> QED  BY <1>1, <1>4, <1>5, <1>6, <1>7 DEF t

LEMMA RunsAt == ASSUME GateInv PROVE \A i \in DOMAIN runs : runs[i].at \in Nat /\ runs[i].at <= clock
<1>1. \A i \in DOMAIN runs : runs[i] \in C!Assessment /\ runs[i].at <= clock
  BY DEF GateInv, GateTypes, C!TypeOK
<1> QED  BY <1>1 DEF C!Assessment

(* A call that records nothing leaves what others owe as it is. *)
LEMMA OthersOwe ==
    ASSUME GateInv, NEW r \in C!Turns, NEW q, request' = [request EXCEPT ![r] = q],
           UNCHANGED <<deployment, trail>>,
           request[r].at # "record",
           request[r].at # "died"
    PROVE  \A d \in C!Recorded : RecordOK(d)'
<1>1. TAKE d \in C!Recorded
<1>2. \A e, s \in C!Turns : Owes(s, d, e) => Owes(s, d, e)'
  BY DEF Owes, GateInv, GateTypes
<1>3. ASSUME NEW told, Audited(d, told) PROVE Audited(d, told)'
  <2>1. CASE told \subseteq Says(trail[d])
    BY <2>1 DEF Audited
  <2>2. ASSUME NEW s \in C!Turns, Owes(s, d, told) PROVE Owes(s, d, told)'
    BY <2>2 DEF Owes, GateInv, GateTypes
  <2> QED  BY <1>3, <2>1, <2>2 DEF Audited
<1> QED  BY <1>3 DEF RecordOK, GateInv

LEMMA TheOnly == ASSUME NEW S, NEW s \in Seq(S), Len(s) = 1 PROVE s[1] \in S
<1>1. 1 \in 1 .. Len(s)
  OBVIOUS
<1> QED  BY <1>1, ElementOfSeq

LEMMA OneMore ==
    ASSUME NEW S, NEW s \in Seq(S), NEW t \in Seq(S), Len(t) = 1
    PROVE  /\ s \o t \in Seq(S) /\ Len(s \o t) = Len(s) + 1 /\ (s \o t)[Len(s) + 1] = t[1]
           /\ \A i \in 1 .. Len(s) : (s \o t)[i] = s[i]
<1>1. Len(s) \in Nat
  BY LenProperties
<1>2. /\ s \o t \in Seq(S) /\ Len(s \o t) = Len(s) + Len(t)
      /\ \A i \in 1 .. Len(s) + Len(t) : (s \o t)[i] = IF i <= Len(s) THEN s[i] ELSE t[i - Len(s)]
  BY ConcatProperties
<1>3. Len(s) + 1 \in 1 .. Len(s) + Len(t) /\ Len(s) + 1 - Len(s) = 1
  BY <1>1
<1> QED  BY <1>1, <1>2, <1>3

LEMMA OthersCall ==
    ASSUME GateInv, NEW r \in C!Turns, NEW q, request' = [request EXCEPT ![r] = q],
           UNCHANGED <<deployment, trail>>, clock' \in Nat, clock' >= clock,
           CallOK(r)'
    PROVE  (\A s \in C!Turns : CallOK(s))'
<1>1. ASSUME NEW s \in C!Turns, s # r PROVE CallOK(s)'
  <2>1. request'[s] = request[s] /\ CallOK(s) /\ clock \in Nat
    BY <1>1 DEF GateInv, GateTypes
  <2>2. request[s].at = "assess" => request[s].id <= clock'
    BY <2>1 DEF CallOK
  <2>3. request[s].at = "persist" => request[s].left \in Seq(C!Assessment) /\ Len(request[s].left) = 1 /\ request[s].left[1].at <= clock'
    <3>1. CASE request[s].at = "persist"
      <4>1. request[s].left \in Seq(C!Assessment) /\ Len(request[s].left) = 1 /\ request[s].left[1].at <= clock
        BY <2>1, <3>1 DEF CallOK
      <4>2. request[s].left[1].at \in Nat
        <5>1. request[s].left[1] \in C!Assessment
          BY <4>1, TheOnly
        <5> QED  BY <5>1 DEF C!Assessment
      <4> QED  BY <2>1, <4>1, <4>2
    <3> QED  BY <3>1
  <2> QED  BY <2>1, <2>2, <2>3 DEF CallOK, C!Recorded
<1> QED  BY <1>1 DEF C!Turns

LEMMA GateInit == ASSUME ServicesAssumption, C!Init PROVE GateInv
<1> USE DEF C!Init
<1>1. Calls \in Nat /\ None \notin C!Gate /\ None \notin C!Deployment
  BY DEF ServicesAssumption, C!CutoverAssumption
<1>2. IsCall(C!Idle) /\ C!Idle.at = "new"
  BY IdleIs
<1>3. C!Recorded = {} /\ << >> \in Seq(Names) /\ << >> \in Seq(C!Assessment) /\ DOMAIN << >> = {}
  BY DEF C!Recorded
<1>4. C!TypeOK
  BY <1>1, <1>2, <1>3 DEF C!TypeOK
<1>5. GateTypes
  BY <1>1, <1>2, <1>3, <1>4 DEF GateTypes
<1>6. \A r \in C!Turns : CallOK(r)
  BY <1>2 DEF CallOK
<1> QED  BY <1>3, <1>5, <1>6 DEF GateInv

(* The platform's own changes. *)
LEMMA PlatformGate ==
    ASSUME ServicesAssumption, GateInv, C!Worsen \/ C!DayPasses \/ \E recreated \in BOOLEAN : C!Restart(recreated)
    PROVE  GateInv'
<1>1. UNCHANGED <<runs, deployment, trail, request, together, gauge, clock>>
  BY DEF C!Worsen, C!DayPasses, C!Restart
<1>0. condition \subseteq C!Parts /\ restarts \in Nat /\ young \in BOOLEAN
  BY DEF GateInv, GateTypes, C!TypeOK
<1>a. \A c \in Conditions : c \subseteq C!Parts
  BY DEF ServicesAssumption, C!CutoverAssumption
<1>2. condition' \subseteq C!Parts
  BY <1>0, <1>a DEF C!Worsen, C!DayPasses, C!Restart
<1>b. restarts' \in Nat /\ young' \in BOOLEAN
  <2>1. CASE C!Worsen \/ C!DayPasses
    BY <1>0, <2>1 DEF C!Worsen, C!DayPasses
  <2>2. ASSUME NEW recreated \in BOOLEAN, C!Restart(recreated) PROVE restarts' \in Nat /\ young' \in BOOLEAN
    BY <1>0, <2>2 DEF C!Restart
  <2> QED  BY <2>1, <2>2
<1>3. C!TypeOK'
  BY <1>1, <1>2, <1>b DEF GateInv, GateTypes, C!TypeOK, C!Recorded
<1>4. GateTypes'
  BY <1>1, <1>3 DEF GateInv, GateTypes, C!Recorded
<1>5. (\A r \in C!Turns : CallOK(r))'
  BY <1>1 DEF GateInv, CallOK, C!Recorded
<1>6. (\A d \in C!Recorded : RecordOK(d))'
  BY <1>1 DEF GateInv, RecordOK, C!Recorded, Audited, Owes
<1> QED  BY <1>4, <1>5, <1>6 DEF GateInv

(* A step that gives one request a new record and leaves the rest of the gate alone. *)
LEMMA CallMoves ==
    ASSUME GateInv, NEW r \in C!Turns, NEW q, IsCall(q), request' = [request EXCEPT ![r] = q],
           UNCHANGED <<deployment, trail, condition, restarts, young>>,
           clock' \in Nat, clock' >= clock, together' \in BOOLEAN,
           gauge' \in C!Gate \union {None},
           runs' \in Seq(C!Assessment), \A i \in DOMAIN runs' : runs'[i].at <= clock',
           request[r].at # "record", request[r].at # "died",
           q.at \in {"new", "assess", "persist", "insert", "probe", "update", "record", "refresh", "done", "died"},
           CallOK(r)'
    PROVE  GateInv'
<1>1. C!TypeOK'
  <2>1. \A i \in DOMAIN runs' : runs'[i] \in C!Assessment
    OBVIOUS
  <2>2. \A s \in C!Turns : request'[s] = IF s = r THEN q ELSE request[s]
    BY DEF GateInv, GateTypes
  <2> QED  BY <2>1, <2>2 DEF GateInv, GateTypes, C!TypeOK, C!Recorded
<1>2. \A d \in C!Recorded' : deployment'[d].at <= clock'
  <2>1. \A d \in C!Recorded : deployment[d].at <= clock
    BY DEF GateInv, GateTypes
  <2>2. TAKE d \in C!Recorded'
  <2>3. d \in C!Recorded /\ deployment'[d] = deployment[d] /\ deployment[d] \in C!Deployment /\ clock \in Nat
    BY DEF GateInv, GateTypes, C!Recorded
  <2> QED  BY <2>1, <2>3 DEF C!Deployment
<1>3. GateTypes'
  BY <1>1, <1>2 DEF GateInv, GateTypes
<1>4. (\A s \in C!Turns : CallOK(s))'
  BY OthersCall
<1>5. (\A d \in C!Recorded : RecordOK(d))'
  BY OthersOwe DEF C!Recorded
<1> QED  BY <1>3, <1>4, <1>5 DEF GateInv

(* The script, and the starts of requests. *)
LEMMA LatestIs ==
    ASSUME GateInv
    PROVE  C!Latest \in C!Assessment \union {None} /\ (C!Latest # None => runs # << >>)
<1>1. CASE runs = << >>
  BY <1>1 DEF C!Latest
<1>2. CASE runs # << >>
  <2> DEFINE all == {runs[i] : i \in DOMAIN runs}
             f == [x \in all |-> x.at]
  <2>1. runs \in Seq(C!Assessment) /\ clock \in Nat /\ \A i \in DOMAIN runs : runs[i].at <= clock
    BY DEF GateInv, GateTypes
  <2>2. all \subseteq C!Assessment /\ all # {}
    <3>1. 1 \in DOMAIN runs
      BY <1>2, <2>1
    <3> QED  BY <2>1, <3>1
  <2>3. \A x \in all : f[x] \in Nat /\ f[x] <= clock
    BY <2>1, <2>2 DEF C!Assessment
  <2>4. \E x \in all : \A y \in all : f[x] >= f[y]
    <3> HIDE DEF all, f
    <3> QED  BY <2>1, <2>2, <2>3, Largest
  <2>5. \E x \in all : \A y \in all : x.at >= y.at
    BY <2>4
  <2>6. C!Latest = CHOOSE x \in all : \A y \in all : x.at >= y.at
    BY <1>2 DEF C!Latest
  <2> HIDE DEF all
  <2>7. C!Latest \in all
    BY <2>5, <2>6
  <2> QED  BY <1>2, <2>2, <2>7
<1> QED  BY <1>1, <1>2

LEMMA AssessGate ==
    ASSUME ServicesAssumption, GateInv, NEW r \in C!Turns,
           (\E fails \in BOOLEAN : C!BeginAssessment(r, fails)) \/ C!Assess(r) \/ C!PersistAssessment(r)
    PROVE  GateInv'
<1>0. /\ clock \in Nat /\ restarts \in Nat /\ together \in BOOLEAN
      /\ runs \in Seq(C!Assessment) /\ gauge \in C!Gate \union {None}
      /\ \A i \in DOMAIN runs : runs[i].at <= clock
      /\ IsCall(request[r])
      /\ request = [s \in C!Turns |-> request[s]]
  BY DEF GateInv, GateTypes, C!TypeOK
<1>1. ASSUME NEW fails \in BOOLEAN, C!BeginAssessment(r, fails) PROVE GateInv'
  <2> DEFINE q == [C!Idle EXCEPT !.at = "assess", !.id = clock + 1, !.previous = IF fails THEN None ELSE C!Latest]
  <2>1. IsCall(q) /\ q.at = "assess" /\ q.id = clock + 1
    <3> DEFINE p == IF fails THEN None ELSE C!Latest
    <3> HIDE DEF p
    <3> QED  BY IdleIs DEF IsCall, Fields
  <2>2. request' = [request EXCEPT ![r] = q] /\ request[r].at = "new"
    BY <1>1 DEF C!BeginAssessment, C!Comes
  <2> HIDE DEF q
  <2>3. /\ UNCHANGED <<deployment, trail, condition, restarts, young, runs, gauge>>
        /\ clock' = clock + 1 /\ together' \in BOOLEAN
    BY <1>1, <1>0 DEF C!BeginAssessment, C!platform
  <2>4. CallOK(r)'
    BY <1>0, <2>1, <2>2, <2>3 DEF CallOK
  <2>5. \A i \in DOMAIN runs' : runs'[i].at <= clock'
    BY <1>0, <2>3, RunsAt
  <2>6. clock' \in Nat /\ clock' >= clock /\ runs' \in Seq(C!Assessment) /\ gauge' \in C!Gate \union {None}
    BY <1>0, <2>3
  <2> QED  BY <2>1, <2>2, <2>3, <2>4, <2>5, <2>6, CallMoves
<1>2. CASE C!Assess(r)
  <2> DEFINE found == [at |-> request[r].id, passed |-> C!Ready(request[r].previous), count |-> restarts,
                       blind |-> request[r].previous = None]
             q == IF C!Assessed THEN [C!Idle EXCEPT !.at = "persist", !.left = <<found>>] ELSE [C!Idle EXCEPT !.at = "done"]
  <2>1. request[r].at = "assess" /\ request' = [request EXCEPT ![r] = q]
    BY <1>2 DEF C!Assess
  <2>2. found \in C!Assessment
    <3>1. request[r].id \in Nat
      BY <2>1 DEF GateInv, CallOK
    <3> QED  BY <1>0, <3>1, ReadyIs DEF C!Assessment
  <2>3. <<found>> \in Seq(C!Assessment) /\ Len(<<found>>) = 1 /\ <<found>>[1] = found
    <3> HIDE DEF found
    <3> QED  BY <2>2
  <2>a. found.at <= clock
    BY <2>1 DEF GateInv, CallOK
  <2>4. IsCall(q) /\ q.at \in {"persist", "done"} /\ (q.at = "persist" => q.left = <<found>>)
    <3> DEFINE list == <<found>>
    <3> HIDE DEF list
    <3> QED  BY IdleIs DEF IsCall, Fields
  <2> HIDE DEF found, q
  <2>6. UNCHANGED <<deployment, trail, condition, restarts, young, runs, gauge, clock, together>>
    BY <1>2 DEF C!Assess, C!platform
  <2>5. CallOK(r)'
    BY <1>0, <2>1, <2>3, <2>4, <2>6, <2>a DEF CallOK
  <2>7. /\ clock' \in Nat /\ clock' >= clock /\ runs' \in Seq(C!Assessment) /\ gauge' \in C!Gate \union {None}
        /\ together' \in BOOLEAN /\ \A i \in DOMAIN runs' : runs'[i].at <= clock'
    BY <1>0, <2>6
  <2> QED  BY <2>1, <2>4, <2>5, <2>6, <2>7, CallMoves
<1>3. CASE C!PersistAssessment(r)
  <2> DEFINE q == [C!Idle EXCEPT !.at = "done"]
             left == request[r].left
  <2>1. request[r].at = "persist" /\ request' = [request EXCEPT ![r] = q] /\ runs' = runs \o left
    BY <1>3 DEF C!PersistAssessment, C!Ends
  <2>2. IsCall(q) /\ q.at = "done"
    BY IdleIs DEF IsCall, Fields
  <2> HIDE DEF q
  <2>3. left \in Seq(C!Assessment) /\ Len(left) = 1 /\ left[1].at <= clock
    BY <2>1 DEF GateInv, CallOK
  <2> HIDE DEF left
  <2>4. /\ runs' \in Seq(C!Assessment) /\ Len(runs') = Len(runs) + 1 /\ runs'[Len(runs) + 1] = left[1]
        /\ \A i \in 1 .. Len(runs) : runs'[i] = runs[i]
    BY <1>0, <2>1, <2>3, OneMore
  <2>5. UNCHANGED <<deployment, trail, condition, restarts, young, gauge, clock, together>>
    BY <1>3 DEF C!PersistAssessment, C!platform
  <2>6. \A i \in DOMAIN runs' : runs'[i].at <= clock'
    BY <1>0, <2>3, <2>4, <2>5
  <2>7. CallOK(r)'
    BY <1>0, <2>1, <2>2, <2>5 DEF CallOK
  <2>8. /\ clock' \in Nat /\ clock' >= clock /\ gauge' \in C!Gate \union {None} /\ together' \in BOOLEAN
    BY <1>0, <2>5
  <2> QED  BY <2>1, <2>2, <2>4, <2>5, <2>6, <2>7, <2>8, CallMoves
<1> QED  BY <1>1, <1>2, <1>3

LEMMA Lists ==
    /\ \A S : \A a, b, c \in S : <<a, b, c>> \in Seq(S) /\ <<a, b, c>> # << >>
    /\ \A S : \A a, b \in S : <<a, b>> \in Seq(S) /\ <<a, b>> # << >>
  OBVIOUS

LEMMA StartsGate ==
    ASSUME GateInv, NEW r \in C!Turns,
           C!StartCutover(r) \/ C!ValidateCutover(r) \/ C!RunPostCutoverValidation(r)
    PROVE  GateInv'
<1>0. /\ clock \in Nat /\ together \in BOOLEAN
      /\ runs \in Seq(C!Assessment) /\ gauge \in C!Gate \union {None}
      /\ \A i \in DOMAIN runs : runs[i].at \in Nat /\ runs[i].at <= clock
      /\ IsCall(request[r])
      /\ request = [s \in C!Turns |-> request[s]]
  BY RunsAt DEF GateInv, GateTypes, C!TypeOK
<1>1. CASE C!StartCutover(r)
  <2> DEFINE left == <<"CUTOVER_STARTED", "BASELINE_CAPTURED", "PRE_CUTOVER_VALIDATED">>
             ok == C!Passes(C!PreChecks(C!Latest))
             q == [C!Idle EXCEPT !.at = "insert", !.id = r, !.passed = ok, !.left = left]
  <2>1. left \in Seq(Names) /\ left # << >>
    <3>1. "CUTOVER_STARTED" \in Names /\ "BASELINE_CAPTURED" \in Names /\ "PRE_CUTOVER_VALIDATED" \in Names
      BY DEF Names, Started
    <3> QED  BY <3>1, Lists
  <2>2. Started \subseteq Says(left) /\ Says(left) \cap Verdicts = {}
    <3>1. DOMAIN left = 1 .. 3 /\ left[1] = "CUTOVER_STARTED" /\ left[2] = "BASELINE_CAPTURED" /\ left[3] = "PRE_CUTOVER_VALIDATED"
      OBVIOUS
    <3> HIDE DEF left
    <3>2. \A i \in 1 .. 3 : i = 1 \/ i = 2 \/ i = 3
      OBVIOUS
    <3> QED  BY <3>1, <3>2 DEF Started, Says, Verdicts
  <2> HIDE DEF left
  <2>o. ok \in BOOLEAN
    BY PassesIs
  <2> HIDE DEF ok
  <2>3. IsCall(q) /\ q.at = "insert" /\ q.id = r /\ q.left = left /\ q.passed = ok
    <3> QED  BY IdleIs DEF IsCall, Fields
  <2>4. request[r].at = "new" /\ request' = [request EXCEPT ![r] = q]
    BY <1>1 DEF C!StartCutover, C!Comes, left, ok
  <2> HIDE DEF q
  <2>5. UNCHANGED <<deployment, trail, condition, restarts, young, runs, gauge, together>> /\ clock' = clock + 1
    BY <1>1 DEF C!StartCutover, C!platform
  <2>6. CallOK(r)'
    <3>1. deployment[r] = None /\ trail[r] = << >>
      BY <2>4 DEF GateInv, CallOK
    <3> QED  BY <1>0, <2>o, <2>1, <2>2, <2>3, <2>4, <2>5, <3>1 DEF CallOK
  <2>7. /\ clock' \in Nat /\ clock' >= clock /\ runs' \in Seq(C!Assessment) /\ gauge' \in C!Gate \union {None}
        /\ together' \in BOOLEAN /\ \A i \in DOMAIN runs' : runs'[i].at <= clock'
    BY <1>0, <2>5
  <2> QED  BY <2>3, <2>4, <2>5, <2>6, <2>7, CallMoves
<1>2. CASE C!ValidateCutover(r)
  <2>1. PICK d \in C!Recorded : request' = [request EXCEPT ![r] = [C!Idle EXCEPT !.at = "probe", !.id = d]]
    BY <1>2 DEF C!ValidateCutover
  <2> DEFINE q == [C!Idle EXCEPT !.at = "probe", !.id = d]
  <2>3. IsCall(q) /\ q.at = "probe" /\ q.id = d
    BY IdleIs DEF IsCall, Fields
  <2>4. request[r].at = "new" /\ request' = [request EXCEPT ![r] = q]
    BY <1>2, <2>1 DEF C!ValidateCutover, C!Comes
  <2> HIDE DEF q
  <2>5. UNCHANGED <<deployment, trail, condition, restarts, young, runs, gauge, together, clock>>
    BY <1>2 DEF C!ValidateCutover, C!platform
  <2>6. CallOK(r)'
    BY <1>0, <2>3, <2>4, <2>5 DEF CallOK, C!Recorded
  <2>7. /\ clock' \in Nat /\ clock' >= clock /\ runs' \in Seq(C!Assessment) /\ gauge' \in C!Gate \union {None}
        /\ together' \in BOOLEAN /\ \A i \in DOMAIN runs' : runs'[i].at <= clock'
    BY <1>0, <2>5
  <2> QED  BY <2>3, <2>4, <2>5, <2>6, <2>7, CallMoves
<1>3. CASE C!RunPostCutoverValidation(r)
  <2> DEFINE ok == C!Passes(C!PostChecks)
             left == C!VerdictEvents(ok)
             q == [request[r] EXCEPT !.at = "update", !.passed = ok, !.left = left]
  <2>1. left \in Seq(Names) /\ left # << >> /\ Verdict(ok) \subseteq Says(left)
    <3>1. left = <<"POST_CUTOVER_VALIDATED", IF ok THEN "GO" ELSE "NO_GO">>
      BY DEF C!VerdictEvents
    <3>2. ok \in BOOLEAN
      BY PassesIs
    <3> HIDE DEF ok, left
    <3>3. left \in Seq(Names) /\ left # << >>
      <4>1. "POST_CUTOVER_VALIDATED" \in Names /\ (IF ok THEN "GO" ELSE "NO_GO") \in Names
        BY DEF Names, Verdicts
      <4> QED  BY <3>1, <4>1, Lists
    <3>4. DOMAIN left = 1 .. 2 /\ left[1] = "POST_CUTOVER_VALIDATED" /\ left[2] = (IF ok THEN "GO" ELSE "NO_GO")
      BY <3>1
    <3>5. 1 \in 1 .. 2 /\ 2 \in 1 .. 2
      OBVIOUS
    <3> QED  BY <3>3, <3>4, <3>5 DEF Verdict, Says
  <2>2. request[r].at = "probe" /\ request' = [request EXCEPT ![r] = q]
    BY <1>3, <1>0 DEF C!RunPostCutoverValidation
  <2>o. ok \in BOOLEAN
    BY PassesIs
  <2> HIDE DEF left, ok
  <2>3. IsCall(q) /\ q.at = "update" /\ q.id = request[r].id /\ q.left = left /\ q.passed = ok
    BY <1>0 DEF IsCall, Fields
  <2> HIDE DEF q
  <2>5. UNCHANGED <<deployment, trail, condition, restarts, young, runs, gauge, together, clock>>
    BY <1>3 DEF C!RunPostCutoverValidation, C!platform
  <2>6. CallOK(r)'
    <3>1. request[r].id \in C!Recorded
      BY <2>2 DEF GateInv, CallOK
    <3> QED  BY <1>0, <2>o, <2>1, <2>2, <2>3, <2>5, <3>1 DEF CallOK, C!Recorded
  <2>7. /\ clock' \in Nat /\ clock' >= clock /\ runs' \in Seq(C!Assessment) /\ gauge' \in C!Gate \union {None}
        /\ together' \in BOOLEAN /\ \A i \in DOMAIN runs' : runs'[i].at <= clock'
    BY <1>0, <2>5
  <2> QED  BY <2>2, <2>3, <2>5, <2>6, <2>7, CallMoves
<1> QED  BY <1>1, <1>2, <1>3

LEMMA NewestIs ==
    ASSUME GateInv, C!Recorded # {} PROVE C!Newest(C!Recorded) \in C!Recorded
<1> DEFINE ds == C!Recorded
           f == [d \in ds |-> deployment[d].at]
<1>1. \A d \in ds : deployment[d].at \in Nat /\ deployment[d].at <= clock
  BY DEF GateInv, GateTypes, C!Recorded, C!Deployment
<1>2. clock \in Nat
  BY DEF GateInv, GateTypes
<1>3. \E d \in ds : \A e \in ds : f[d] >= f[e]
  <2>1. \A d \in ds : f[d] \in Nat /\ f[d] <= clock
    BY <1>1
  <2> HIDE DEF ds, f
  <2> QED  BY <1>2, <2>1, Largest DEF ds
<1>4. \E d \in ds : \A e \in ds : deployment[d].at >= deployment[e].at
  BY <1>3
<1> HIDE DEF ds
<1>5. C!Newest(ds) \in ds
  BY <1>4 DEF C!Newest
<1> QED  BY <1>5 DEF ds

LEMMA EndsGate ==
    ASSUME GateInv, NEW r \in C!Turns, C!RefreshMetrics(r)
    PROVE  GateInv'
<1> DEFINE q == [C!Idle EXCEPT !.at = "done"]
<1>0. /\ clock \in Nat /\ together \in BOOLEAN
      /\ runs \in Seq(C!Assessment) /\ \A i \in DOMAIN runs : runs[i].at \in Nat /\ runs[i].at <= clock
  BY RunsAt DEF GateInv, GateTypes, C!TypeOK
<1>1. IsCall(q) /\ q.at = "done"
  BY IdleIs DEF IsCall, Fields
<1>2. request[r].at = "refresh" /\ request' = [request EXCEPT ![r] = q]
  BY DEF C!RefreshMetrics, C!Ends
<1> HIDE DEF q
<1>3. UNCHANGED <<deployment, trail, condition, restarts, young, runs, together, clock>>
  BY DEF C!RefreshMetrics, C!platform
<1>4. gauge' \in C!Gate
  <2>1. C!Newest(C!Recorded) \in C!Recorded
    BY <1>2, NewestIs DEF GateInv, CallOK
  <2> QED  BY <2>1 DEF C!RefreshMetrics, GateInv, GateTypes, C!TypeOK
<1>5. CallOK(r)'
  <2>1. request'[r] = q
    BY <1>2 DEF GateInv, GateTypes
  <2> QED  BY <1>1, <2>1 DEF CallOK
<1>7. /\ clock' \in Nat /\ clock' >= clock /\ runs' \in Seq(C!Assessment) /\ gauge' \in C!Gate \union {None}
      /\ together' \in BOOLEAN /\ \A i \in DOMAIN runs' : runs'[i].at <= clock'
  BY <1>0, <1>3, <1>4
<1> QED  BY <1>1, <1>2, <1>3, <1>5, <1>7, CallMoves

(* The steps on a record and its trail: what a request owes only shrinks. *)
LEMMA CallsStay ==
    ASSUME GateInv, NEW s \in C!Turns, request'[s] = request[s], clock' = clock,
           deployment'[s] = deployment[s], trail'[s] = trail[s] \/ (request[s].at # "new" /\ request[s].at # "insert"),
           C!Recorded \subseteq C!Recorded', C!Recorded' # {},
           \A d \in C!Recorded : deployment'[d].gate = "IN_PROGRESS" => deployment[d].gate = "IN_PROGRESS"
    PROVE  CallOK(s)'
<1>1. CallOK(s)
  BY DEF GateInv
<1>2. request[s].at = "record" => request[s].id \in C!Recorded
  BY <1>1 DEF CallOK
<1> QED  BY <1>1, <1>2 DEF CallOK

LEMMA InsertGate ==
    ASSUME ServicesAssumption, GateInv, NEW r \in C!Turns, C!PersistDeployment(r)
    PROVE  GateInv'
<1> DEFINE row == [gate |-> "IN_PROGRESS", status |-> "STARTED", at |-> clock, ready |-> request[r].passed]
<1>0. /\ clock \in Nat
      /\ request = [s \in C!Turns |-> request[s]] /\ \A s \in C!Turns : IsCall(request[s])
      /\ deployment \in [C!Turns -> C!Deployment \union {None}]
      /\ None \notin C!Deployment
  BY DEF GateInv, GateTypes, C!TypeOK, ServicesAssumption, C!CutoverAssumption
<1>1. /\ request[r].at = "insert" /\ request[r].passed \in BOOLEAN /\ request[r].id = r
      /\ deployment[r] = None /\ trail[r] = << >>
      /\ request[r].left \in Seq(Names) /\ request[r].left # << >>
      /\ Started \subseteq Says(request[r].left) /\ Says(request[r].left) \cap Verdicts = {}
  BY DEF C!PersistDeployment, GateInv, CallOK
<1>2. row \in C!Deployment /\ row.gate = "IN_PROGRESS" /\ row.at = clock /\ row.ready = request[r].passed
  BY <1>0, <1>1 DEF C!Deployment, C!Gate
<1>3. deployment' = [deployment EXCEPT ![r] = row] /\ request' = [request EXCEPT ![r] = [request[r] EXCEPT !.at = "record"]]
  BY <1>0 DEF C!PersistDeployment, C!Goes
<1> HIDE DEF row
<1>4. UNCHANGED <<condition, restarts, young, runs, trail, gauge, clock, together>>
  BY DEF C!PersistDeployment, C!platform
<1>5. /\ IsCall(request'[r]) /\ request'[r].at = "record" /\ request'[r].id = r
      /\ request'[r].left = request[r].left
      /\ \A s \in C!Turns : s # r => request'[s] = request[s]
      /\ request' = [s \in C!Turns |-> request'[s]]
  BY <1>0, <1>1, <1>3 DEF IsCall, Fields
<1>6. /\ r \notin C!Recorded /\ C!Recorded' = C!Recorded \union {r} /\ deployment'[r] = row
      /\ \A d \in C!Recorded : deployment'[d] = deployment[d] /\ d # r /\ d \in C!Turns
      /\ \A s \in C!Turns : s # r => deployment'[s] = deployment[s]
      /\ deployment' \in [C!Turns -> C!Deployment \union {None}]
  BY <1>0, <1>1, <1>2, <1>3 DEF C!Recorded
<1>7. C!TypeOK'
  BY <1>1, <1>2, <1>4, <1>5, <1>6 DEF GateInv, GateTypes, C!TypeOK, C!Gate
<1>8. GateTypes'
  BY <1>0, <1>2, <1>4, <1>5, <1>6, <1>7 DEF GateInv, GateTypes
<1>9. ASSUME NEW s \in C!Turns PROVE CallOK(s)'
  <2>1. CASE s = r
    BY <1>1, <1>2, <1>5, <1>6, <2>1, <1>4 DEF CallOK
  <2>2. CASE s # r
    <3>1. request'[s] = request[s] /\ deployment'[s] = deployment[s] /\ trail' = trail /\ clock' = clock
      BY <1>5, <1>6, <1>4, <2>2
    <3>2. C!Recorded \subseteq C!Recorded' /\ C!Recorded' # {}
      BY <1>6
    <3> QED  BY <1>6, <3>1, <3>2, CallsStay
  <2> QED  BY <2>1, <2>2
<1>10. ASSUME NEW d \in C!Recorded' PROVE RecordOK(d)'
  <2>1. CASE d = r
    <3>1. Says(trail'[r]) = {}
      BY <1>1, <1>4 DEF Says
    <3>2. Audited(r, Started)'
      BY <1>1, <1>5 DEF Audited, Owes
    <3> QED  BY <1>2, <1>6, <2>1, <3>1, <3>2 DEF RecordOK
  <2>2. CASE d # r
    <3>1. d \in C!Recorded /\ deployment'[d] = deployment[d] /\ trail'[d] = trail[d] /\ RecordOK(d)
      BY <1>6, <1>4, <2>2 DEF GateInv
    <3>2. ASSUME NEW told, Audited(d, told) PROVE Audited(d, told)'
      <4>1. CASE told \subseteq Says(trail[d])
        BY <3>1, <4>1 DEF Audited
      <4>2. ASSUME NEW s \in C!Turns, Owes(s, d, told) PROVE Owes(s, d, told)'
        <5>1. s # r
          BY <1>1, <4>2 DEF Owes
        <5> QED  BY <1>5, <3>1, <4>2, <5>1 DEF Owes
      <4> QED  BY <3>2, <4>1, <4>2 DEF Audited
    <3> QED  BY <3>1, <3>2 DEF RecordOK
  <2> QED  BY <2>1, <2>2
<1>11. (\A s \in C!Turns : CallOK(s))' /\ (\A d \in C!Recorded : RecordOK(d))'
  BY <1>9, <1>10 DEF C!Turns
<1> QED  BY <1>8, <1>11 DEF GateInv

LEMMA UpdateGate ==
    ASSUME ServicesAssumption, GateInv, NEW r \in C!Turns, C!UpdateDeployment(r)
    PROVE  GateInv'
<1> DEFINE e == request[r].id
           verdict == IF request[r].passed THEN "GO" ELSE "NO_GO"
           row == [deployment[e] EXCEPT !.gate = verdict,
                                        !.status = IF request[r].passed THEN "VALIDATED" ELSE "FAILED"]
<1>0. /\ clock \in Nat
      /\ request = [s \in C!Turns |-> request[s]] /\ \A s \in C!Turns : IsCall(request[s])
      /\ deployment \in [C!Turns -> C!Deployment \union {None}]
      /\ None \notin C!Deployment
  BY DEF GateInv, GateTypes, C!TypeOK, ServicesAssumption, C!CutoverAssumption
<1>1. /\ request[r].at = "update" /\ request[r].passed \in BOOLEAN
      /\ e \in C!Recorded /\ e \in C!Turns /\ deployment[e] \in C!Deployment
      /\ request[r].left \in Seq(Names) /\ request[r].left # << >>
      /\ Verdict(request[r].passed) \subseteq Says(request[r].left)
  BY <1>0 DEF C!UpdateDeployment, GateInv, CallOK, C!Recorded
<1>2. row \in C!Deployment /\ row.gate = verdict /\ row.at = deployment[e].at /\ row.ready = deployment[e].ready /\ verdict # "IN_PROGRESS"
  <2>1. verdict \in C!Gate
    BY DEF C!Gate
  <2>2. verdict # "IN_PROGRESS"
    OBVIOUS
  <2> HIDE DEF verdict
  <2> QED  BY <1>1, <2>1, <2>2 DEF C!Deployment
<1>3. deployment' = [deployment EXCEPT ![e] = row] /\ request' = [request EXCEPT ![r] = [request[r] EXCEPT !.at = "record"]]
  BY <1>0, <1>1 DEF C!UpdateDeployment, C!Goes
<1>a. {"POST_CUTOVER_VALIDATED", verdict} \subseteq Says(request[r].left)
  BY <1>1 DEF Verdict
<1> HIDE DEF row, verdict
<1>4. UNCHANGED <<condition, restarts, young, runs, trail, gauge, clock, together>>
  BY DEF C!UpdateDeployment, C!platform
<1>5. /\ IsCall(request'[r]) /\ request'[r].at = "record" /\ request'[r].id = e
      /\ request'[r].left = request[r].left
      /\ \A s \in C!Turns : s # r => request'[s] = request[s]
      /\ request' = [s \in C!Turns |-> request'[s]]
  BY <1>0, <1>1, <1>3 DEF IsCall, Fields
<1> HIDE DEF e
<1>6. /\ C!Recorded' = C!Recorded /\ deployment'[e] = row
      /\ \A d \in C!Turns : d # e => deployment'[d] = deployment[d]
      /\ deployment' \in [C!Turns -> C!Deployment \union {None}]
  BY <1>0, <1>1, <1>2, <1>3 DEF C!Recorded
<1>7. C!TypeOK'
  <2>1. \A d \in C!Recorded : deployment'[d].gate \in C!Gate /\ deployment'[d].ready \in BOOLEAN
    BY <1>1, <1>2, <1>6 DEF GateInv, GateTypes, C!TypeOK, C!Deployment, C!Recorded
  <2>2. \A s \in C!Turns : request'[s].at \in {"new", "assess", "persist", "insert", "probe", "update", "record", "refresh", "done", "died"}
    BY <1>5 DEF GateInv, GateTypes, C!TypeOK
  <2> QED  BY <1>4, <1>6, <2>1, <2>2 DEF GateInv, GateTypes, C!TypeOK
<1>8. GateTypes'
  <2>1. \A d \in C!Recorded : deployment'[d].at <= clock
    BY <1>1, <1>2, <1>6 DEF GateInv, GateTypes, C!Recorded
  <2> QED  BY <1>0, <1>4, <1>5, <1>6, <1>7, <2>1 DEF GateInv, GateTypes
<1>9. ASSUME NEW s \in C!Turns PROVE CallOK(s)'
  <2>1. CASE s = r
    BY <1>1, <1>2, <1>5, <1>6, <2>1, <1>4 DEF CallOK
  <2>2. CASE s # r
    <3>1. CASE s # e
      BY <1>1, <1>2, <1>4, <1>5, <1>6, <2>2, <3>1, CallsStay DEF C!Recorded
    <3>2. CASE s = e
      <4>1. CallOK(s) /\ request'[s] = request[s] /\ deployment[s] # None
        BY <1>1, <1>5, <2>2, <3>2 DEF GateInv, C!Recorded
      <4>2. request[s].at \notin {"new", "insert"}
        BY <4>1 DEF CallOK
      <4>3. request[s].at = "record" => request[s].id \in C!Recorded
        BY <4>1 DEF CallOK
      <4> QED  BY <1>1, <1>2, <1>4, <1>6, <4>1, <4>2, <4>3 DEF CallOK, C!Recorded
    <3> QED  BY <3>1, <3>2
  <2> QED  BY <2>1, <2>2
<1>10. ASSUME NEW d \in C!Recorded PROVE RecordOK(d)'
  <2>0. RecordOK(d) /\ trail' = trail /\ d \in C!Turns
    BY <1>4 DEF GateInv, C!Recorded
  <2>2. ASSUME NEW told, Audited(d, told) PROVE Audited(d, told)'
    <3>1. CASE told \subseteq Says(trail[d])
      BY <2>0, <3>1 DEF Audited
    <3>2. ASSUME NEW s \in C!Turns, Owes(s, d, told) PROVE Owes(s, d, told)'
      <4>1. s # r
        BY <1>1, <3>2 DEF Owes
      <4> QED  BY <1>5, <2>0, <3>2, <4>1 DEF Owes
    <3> QED  BY <2>2, <3>1, <3>2 DEF Audited
  <2>3. CASE d = e
    <3>1. request'[r].id = d /\ request'[r].at = "record" /\ trail'[d] = trail[d]
          /\ {"POST_CUTOVER_VALIDATED", deployment'[d].gate} \subseteq Says(request'[r].left)
          /\ deployment'[d].gate # "IN_PROGRESS"
      BY <1>a, <1>2, <1>5, <1>6, <2>0, <2>3
    <3>2. Audited(d, {"POST_CUTOVER_VALIDATED", deployment[d].gate})'
      BY <3>1 DEF Audited, Owes
    <3>3. Audited(d, Started)'
      BY <2>0, <2>2 DEF RecordOK
    <3> QED  BY <3>1, <3>2, <3>3 DEF RecordOK
  <2>4. CASE d # e
    BY <1>6, <2>0, <2>2, <2>4 DEF RecordOK
  <2> QED  BY <2>3, <2>4
<1>11. (\A s \in C!Turns : CallOK(s))' /\ (\A d \in C!Recorded : RecordOK(d))'
  BY <1>6, <1>9, <1>10 DEF C!Turns
<1> QED  BY <1>8, <1>11 DEF GateInv

LEMMA RecordGate ==
    ASSUME GateInv, NEW r \in C!Turns, C!RecordEvent(r)
    PROVE  GateInv'
<1> DEFINE e == request[r].id
           left == request[r].left
<1>0. /\ clock \in Nat
      /\ request = [s \in C!Turns |-> request[s]] /\ \A s \in C!Turns : IsCall(request[s])
      /\ trail \in [C!Turns -> Seq(Names)]
  BY DEF GateInv, GateTypes, C!TypeOK
<1>1. /\ request[r].at = "record" /\ e \in C!Recorded /\ e \in C!Turns
      /\ left \in Seq(Names) /\ left # << >>
      /\ deployment[e].gate = "IN_PROGRESS" => Says(left) \cap Verdicts = {}
  BY DEF C!RecordEvent, GateInv, CallOK, C!Recorded
<1>2. /\ UNCHANGED <<condition, restarts, young, runs, deployment, gauge, clock, together>>
      /\ trail' = [trail EXCEPT ![e] = Append(trail[e], Head(left))]
  BY DEF C!RecordEvent, C!platform
<1>3. /\ Tail(left) \in Seq(Names) /\ Head(left) \in Names /\ Says(left) = Says(Tail(left)) \union {Head(left)}
      /\ Len(left) > 1 => Tail(left) # << >>
      /\ ~(Len(left) > 1) => Says(left) = {Head(left)}
  <2> HIDE DEF left, e
  <2> QED  BY <1>1, SaysTail
<1>4. trail'[e] \in Seq(Names) /\ Says(trail'[e]) = Says(trail[e]) \union {Head(left)}
  <2> HIDE DEF left, e
  <2>1. trail[e] \in Seq(Names)
    BY <1>0, <1>1
  <2>2. trail'[e] = Append(trail[e], Head(left))
    BY <1>0, <1>1, <1>2
  <2> QED  BY <1>3, <2>1, <2>2, SaysAppend
<1>5. /\ \A d \in C!Turns : d # e => trail'[d] = trail[d]
      /\ trail' \in [C!Turns -> Seq(Names)]
  <2> HIDE DEF left, e
  <2> QED  BY <1>0, <1>1, <1>2, <1>4
<1>6. PICK q : /\ request' = [request EXCEPT ![r] = q] /\ IsCall(q)
               /\ \/ Len(left) > 1 /\ q.at = "record" /\ q.id = e /\ q.left = Tail(left)
                  \/ ~(Len(left) > 1) /\ q.at \in {"done", "refresh"}
  <2>1. CASE Len(left) > 1
    <3> DEFINE x == [request[r] EXCEPT !.left = Tail(left)]
    <3>1. request' = [request EXCEPT ![r] = x]
      BY <1>0, <2>1 DEF C!RecordEvent
    <3>2. IsCall(x) /\ x.at = "record" /\ x.id = e /\ x.left = Tail(left)
      BY <1>0, <1>1 DEF IsCall, Fields
    <3> HIDE DEF x, left, e
    <3> QED  BY <2>1, <3>1, <3>2
  <2>2. CASE ~(Len(left) > 1)
    <3> DEFINE x == [C!Idle EXCEPT !.at = "done"]
               y == [C!Idle EXCEPT !.at = "refresh"]
    <3>1. request' = [request EXCEPT ![r] = x] \/ request' = [request EXCEPT ![r] = y]
      BY <2>2 DEF C!RecordEvent, C!Ends
    <3>2. IsCall(x) /\ x.at = "done" /\ IsCall(y) /\ y.at = "refresh"
      BY IdleIs DEF IsCall, Fields
    <3> HIDE DEF x, y, left, e
    <3> QED  BY <2>2, <3>1, <3>2
  <2> QED  BY <2>1, <2>2
<1>7. /\ request'[r] = q /\ \A s \in C!Turns : s # r => request'[s] = request[s]
      /\ request' = [s \in C!Turns |-> request'[s]]
  BY <1>0, <1>6
<1>8. C!Recorded' = C!Recorded /\ C!Recorded # {}
  BY <1>1, <1>2 DEF C!Recorded
<1>9. C!TypeOK'
  BY <1>2, <1>6, <1>7, <1>8 DEF GateInv, GateTypes, C!TypeOK
<1>10. GateTypes'
  BY <1>0, <1>2, <1>5, <1>6, <1>7, <1>8, <1>9 DEF GateInv, GateTypes
<1>11. ASSUME NEW s \in C!Turns PROVE CallOK(s)'
  <2>1. CASE s = r
    <3>1. q.at = "record" => q.id \in C!Recorded /\ q.left \in Seq(Names) /\ q.left # << >>
      BY <1>1, <1>3, <1>6
    <3>2. q.at = "record" /\ deployment[q.id].gate = "IN_PROGRESS" => Says(q.left) \cap Verdicts = {}
      BY <1>1, <1>3, <1>6
    <3>3. q.at \in {"record", "done", "refresh"}
      BY <1>6
    <3> QED  BY <1>2, <1>7, <1>8, <2>1, <3>1, <3>2, <3>3 DEF CallOK
  <2>2. CASE s # r
    <3>1. CASE s # e
      BY <1>2, <1>5, <1>7, <1>8, <2>2, <3>1, CallsStay
    <3>2. CASE s = e
      <4>1. request[s].at \notin {"new", "insert"}
        BY <1>1, <3>2 DEF GateInv, CallOK, C!Recorded
      <4> QED  BY <1>2, <1>7, <1>8, <2>2, <4>1, CallsStay
    <3> QED  BY <3>1, <3>2
  <2> QED  BY <2>1, <2>2
<1>12. ASSUME NEW d \in C!Recorded PROVE RecordOK(d)'
  <2>0. RecordOK(d) /\ deployment' = deployment /\ d \in C!Turns
    BY <1>2 DEF GateInv, C!Recorded
  <2>1. Says(trail[d]) \subseteq Says(trail'[d])
    BY <1>4, <1>5, <2>0
  <2>2. ASSUME NEW told, Audited(d, told) PROVE Audited(d, told)'
    <3>1. CASE told \subseteq Says(trail[d])
      BY <2>1, <3>1 DEF Audited
    <3>2. ASSUME NEW s \in C!Turns, s # r, Owes(s, d, told) PROVE Audited(d, told)'
      <4>1. request'[s] = request[s]
        BY <1>7, <3>2
      <4> QED  BY <2>1, <3>2, <4>1 DEF Owes, Audited
    <3>3. CASE Owes(r, d, told)
      <4>1. d = e /\ told \subseteq Says(trail[e]) \union Says(left)
        BY <1>1, <3>3 DEF Owes
      <4>2. told \subseteq Says(trail'[e]) \/ (q.at = "record" /\ q.id = e /\ told \subseteq Says(trail'[e]) \union Says(q.left))
        BY <1>3, <1>4, <1>6, <4>1
      <4>3. trail'[d] = trail'[e]
        BY <4>1
      <4> QED  BY <1>7, <4>1, <4>2, <4>3 DEF Owes, Audited
    <3> QED  BY <2>2, <3>1, <3>2, <3>3 DEF Audited
  <2>3. deployment[d].gate = "IN_PROGRESS" => Says(trail'[d]) \cap Verdicts = {}
    BY <1>1, <1>3, <1>4, <1>5, <2>0 DEF RecordOK
  <2> QED  BY <2>0, <2>2, <2>3 DEF RecordOK
<1>13. (\A s \in C!Turns : CallOK(s))' /\ (\A d \in C!Recorded : RecordOK(d))'
  BY <1>8, <1>11, <1>12 DEF C!Turns
<1> QED  BY <1>10, <1>13 DEF GateInv

LEMMA DiesGate ==
    ASSUME GateInv, NEW r \in C!Turns, C!RequestDies(r)
    PROVE  GateInv'
<1> DEFINE q == [request[r] EXCEPT !.at = "died"]
<1>0. /\ request = [s \in C!Turns |-> request[s]] /\ \A s \in C!Turns : IsCall(request[s])
  BY DEF GateInv, GateTypes
<1>1. request' = [request EXCEPT ![r] = q] /\ request[r].at # "new"
  BY <1>0 DEF C!RequestDies, C!Goes
<1>2. IsCall(q) /\ q.at = "died" /\ q.id = request[r].id
  BY <1>0 DEF IsCall, Fields
<1> HIDE DEF q
<1>3. UNCHANGED <<condition, restarts, young, runs, deployment, trail, gauge, clock, together>>
  BY DEF C!RequestDies, C!platform
<1>4. /\ request'[r] = q /\ \A s \in C!Turns : s # r => request'[s] = request[s]
      /\ request' = [s \in C!Turns |-> request'[s]]
  BY <1>0, <1>1
<1>5. C!Recorded' = C!Recorded
  BY <1>3 DEF C!Recorded
<1>6. C!TypeOK'
  BY <1>2, <1>3, <1>4, <1>5 DEF GateInv, GateTypes, C!TypeOK
<1>7. GateTypes'
  BY <1>0, <1>2, <1>3, <1>4, <1>5, <1>6 DEF GateInv, GateTypes
<1>8. ASSUME NEW s \in C!Turns PROVE CallOK(s)'
  BY <1>2, <1>3, <1>4, <1>5 DEF GateInv, CallOK
<1>9. ASSUME NEW d \in C!Recorded PROVE RecordOK(d)'
  <2>1. ASSUME NEW s \in C!Turns, NEW told, Owes(s, d, told) PROVE Owes(s, d, told)'
    BY <1>2, <1>3, <1>4, <2>1 DEF Owes
  <2>2. ASSUME NEW told, Audited(d, told) PROVE Audited(d, told)'
    BY <1>3, <2>1, <2>2 DEF Audited
  <2> QED  BY <1>3, <2>2 DEF RecordOK, GateInv
<1>10. (\A s \in C!Turns : CallOK(s))' /\ (\A d \in C!Recorded : RecordOK(d))'
  BY <1>5, <1>8, <1>9 DEF C!Turns
<1> QED  BY <1>7, <1>10 DEF GateInv

-----------------------------------------------------------------------------
(* The runs of the script, while they do not overlap. *)
Assesses(s) == request[s].at \in {"assess", "persist"}
RunsOK ==
    /\ \A r, s \in C!Turns : Assesses(r) /\ Assesses(s) => r = s
    /\ \A i, j \in DOMAIN runs : i < j => runs[i].at < runs[j].at
    /\ \A r \in C!Turns : request[r].at = "assess" =>
          /\ \A i \in DOMAIN runs : runs[i].at < request[r].id
          /\ request[r].previous = None \/ (runs # << >> /\ request[r].previous = runs[Len(runs)])
    /\ \A r \in C!Turns : request[r].at = "persist" =>
          LET found == request[r].left[1] IN
          /\ \A i \in DOMAIN runs : runs[i].at < found.at
          /\ found.passed /\ ~found.blind => runs # << >> /\ found.count <= runs[Len(runs)].count
RunsInv == C!RestartsAreCaught /\ (~together => RunsOK)

LEMMA RunsStay ==
    ASSUME RunsInv, UNCHANGED <<runs, together>>,
           \A s \in C!Turns : Assesses(s)' => request'[s] = request[s]
    PROVE  RunsInv'
  BY DEF RunsInv, RunsOK, C!RestartsAreCaught, Assesses

LEMMA OthersAside ==
    ASSUME GateInv, NEW r \in C!Turns,
           \/ C!StartCutover(r) \/ C!PersistDeployment(r) \/ C!ValidateCutover(r)
           \/ C!RunPostCutoverValidation(r) \/ C!UpdateDeployment(r)
           \/ C!RecordEvent(r) \/ C!RefreshMetrics(r) \/ C!RequestDies(r)
    PROVE  UNCHANGED <<runs, together>> /\ \A s \in C!Turns : Assesses(s)' => request'[s] = request[s]
<1>0. request = [s \in C!Turns |-> request[s]] /\ \A s \in C!Turns : IsCall(request[s])
  BY DEF GateInv, GateTypes
<1>1. UNCHANGED <<runs, together>>
  BY DEF C!StartCutover, C!PersistDeployment, C!ValidateCutover, C!RunPostCutoverValidation, C!UpdateDeployment,
         C!RecordEvent, C!RefreshMetrics, C!RequestDies
<1>2. ASSUME NEW q, request' = [request EXCEPT ![r] = q], q.at \notin {"assess", "persist"}
      PROVE  \A s \in C!Turns : Assesses(s)' => request'[s] = request[s]
  BY <1>0, <1>2 DEF Assesses
<1>3. CASE C!StartCutover(r)
  <2> DEFINE left == <<"CUTOVER_STARTED", "BASELINE_CAPTURED", "PRE_CUTOVER_VALIDATED">>
             ok == C!Passes(C!PreChecks(C!Latest))
             q == [C!Idle EXCEPT !.at = "insert", !.id = r, !.passed = ok, !.left = left]
  <2>1. request' = [request EXCEPT ![r] = q]
    BY <1>3 DEF C!StartCutover
  <2> HIDE DEF left, ok
  <2>2. q.at = "insert"
    BY IdleIs DEF IsCall, Fields
  <2> HIDE DEF q
  <2> QED  BY <1>1, <1>2, <2>1, <2>2
<1>4. CASE C!PersistDeployment(r) \/ C!UpdateDeployment(r)
  <2> DEFINE q == [request[r] EXCEPT !.at = "record"]
  <2>1. request' = [request EXCEPT ![r] = q]
    BY <1>0, <1>4 DEF C!PersistDeployment, C!UpdateDeployment, C!Goes
  <2>2. q.at = "record"
    BY <1>0 DEF IsCall, Fields
  <2> HIDE DEF q
  <2> QED  BY <1>1, <1>2, <2>1, <2>2
<1>5. CASE C!ValidateCutover(r)
  <2>1. PICK d \in C!Recorded : request' = [request EXCEPT ![r] = [C!Idle EXCEPT !.at = "probe", !.id = d]]
    BY <1>5 DEF C!ValidateCutover
  <2> DEFINE q == [C!Idle EXCEPT !.at = "probe", !.id = d]
  <2>2. q.at = "probe"
    BY IdleIs DEF IsCall, Fields
  <2> QED  BY <1>1, <1>2, <2>1, <2>2
<1>6. CASE C!RunPostCutoverValidation(r)
  <2> DEFINE ok == C!Passes(C!PostChecks)
             left == C!VerdictEvents(ok)
             q == [request[r] EXCEPT !.at = "update", !.passed = ok, !.left = left]
  <2>1. request' = [request EXCEPT ![r] = q]
    BY <1>0, <1>6 DEF C!RunPostCutoverValidation
  <2> HIDE DEF left, ok
  <2>2. q.at = "update"
    BY <1>0 DEF IsCall, Fields
  <2> HIDE DEF q
  <2> QED  BY <1>1, <1>2, <2>1, <2>2
<1>7. CASE C!RecordEvent(r)
  <2> DEFINE left == request[r].left
             x == [request[r] EXCEPT !.left = Tail(left)]
             y == [C!Idle EXCEPT !.at = "done"]
             z == [C!Idle EXCEPT !.at = "refresh"]
  <2>1. \/ request' = [request EXCEPT ![r] = x] \/ request' = [request EXCEPT ![r] = y] \/ request' = [request EXCEPT ![r] = z]
    BY <1>0, <1>7 DEF C!RecordEvent, C!Ends
  <2>2. x.at = "record" /\ y.at = "done" /\ z.at = "refresh"
    <3>1. request[r].at = "record"
      BY <1>7 DEF C!RecordEvent
    <3> HIDE DEF left
    <3> QED  BY <1>0, <3>1, IdleIs DEF IsCall, Fields
  <2> HIDE DEF x, y, z
  <2> QED  BY <1>1, <1>2, <2>1, <2>2
<1>8. CASE C!RefreshMetrics(r)
  <2> DEFINE y == [C!Idle EXCEPT !.at = "done"]
  <2>1. request' = [request EXCEPT ![r] = y]
    BY <1>8 DEF C!RefreshMetrics, C!Ends
  <2>2. y.at = "done"
    BY IdleIs DEF IsCall, Fields
  <2> HIDE DEF y
  <2> QED  BY <1>1, <1>2, <2>1, <2>2
<1>9. CASE C!RequestDies(r)
  <2> DEFINE y == [request[r] EXCEPT !.at = "died"]
  <2>1. request' = [request EXCEPT ![r] = y]
    BY <1>0, <1>9 DEF C!RequestDies, C!Goes
  <2>2. y.at = "died"
    BY <1>0 DEF IsCall, Fields
  <2> HIDE DEF y
  <2> QED  BY <1>1, <1>2, <2>1, <2>2
<1> QED  BY <1>3, <1>4, <1>5, <1>6, <1>7, <1>8, <1>9

LEMMA RunsBegin ==
    ASSUME ServicesAssumption, GateInv, RunsInv, NEW r \in C!Turns, NEW fails \in BOOLEAN, C!BeginAssessment(r, fails)
    PROVE  RunsInv'
<1> DEFINE p == IF fails THEN None ELSE C!Latest
           q == [C!Idle EXCEPT !.at = "assess", !.id = clock + 1, !.previous = p]
<1>0. /\ clock \in Nat /\ runs \in Seq(C!Assessment) /\ request = [s \in C!Turns |-> request[s]]
      /\ \A i \in DOMAIN runs : runs[i].at \in Nat /\ runs[i].at <= clock
  BY RunsAt DEF GateInv, GateTypes
<1>1. request' = [request EXCEPT ![r] = q] /\ request[r].at = "new" /\ runs' = runs
      /\ together' = (together \/ \E s \in C!Turns : Assesses(s))
  BY DEF C!BeginAssessment, C!Comes, Assesses
<1>2. q.at = "assess" /\ q.id = clock + 1 /\ q.previous = p
  <2> HIDE DEF p
  <2> QED  BY IdleIs DEF IsCall, Fields
<1> HIDE DEF q
<1>3. C!RestartsAreCaught'
  BY <1>1 DEF RunsInv, C!RestartsAreCaught
<1>4. ASSUME ~together' PROVE RunsOK'
  <2>1. ~together /\ RunsOK /\ \A s \in C!Turns : ~Assesses(s)
    BY <1>1, <1>4 DEF RunsInv
  <2>2. \A s \in C!Turns : Assesses(s)' => s = r /\ request'[s] = q
    BY <1>0, <1>1, <2>1 DEF Assesses
  <2>3. p = None \/ (runs # << >> /\ p = runs[Len(runs)])
    <3>1. CASE runs = << >> \/ fails
      BY <3>1 DEF C!Latest
    <3>2. CASE runs # << >>
      <4> DEFINE all == {runs[i] : i \in DOMAIN runs}
      <4>1. C!Latest = CHOOSE x \in all : \A y \in all : x.at >= y.at
        BY <3>2 DEF C!Latest
      <4>2. Len(runs) \in DOMAIN runs /\ \A i \in DOMAIN runs : i # Len(runs) => i < Len(runs)
        BY <1>0, <3>2
      <4>3. \A i \in DOMAIN runs : i # Len(runs) => runs[i].at < runs[Len(runs)].at
        BY <2>1, <4>2 DEF RunsOK
      <4>4. \A y \in all : runs[Len(runs)].at >= y.at
        BY <1>0, <4>2, <4>3
      <4>5. \A x \in all : (\A y \in all : x.at >= y.at) => x = runs[Len(runs)]
        BY <1>0, <4>2, <4>3
      <4>6. runs[Len(runs)] \in all
        BY <4>2
      <4> HIDE DEF all
      <4>7. C!Latest = runs[Len(runs)]
        BY <4>1, <4>4, <4>5, <4>6
      <4> QED  BY <3>2, <4>7
    <3> QED  BY <3>1, <3>2
  <2>4. \A i \in DOMAIN runs : runs[i].at < clock + 1
    BY <1>0
  <2> HIDE DEF p
  <2>5. \A i, j \in DOMAIN runs : i < j => runs[i].at < runs[j].at
    BY <2>1 DEF RunsOK
  <2> QED  BY <1>1, <1>2, <2>2, <2>3, <2>4, <2>5 DEF RunsOK, Assesses
<1> QED  BY <1>3, <1>4 DEF RunsInv

LEMMA RunsAssess ==
    ASSUME ServicesAssumption, GateInv, RunsInv, NEW r \in C!Turns, C!Assess(r)
    PROVE  RunsInv'
<1> DEFINE found == [at |-> request[r].id, passed |-> C!Ready(request[r].previous), count |-> restarts,
                       blind |-> request[r].previous = None]
           q == IF C!Assessed THEN [C!Idle EXCEPT !.at = "persist", !.left = <<found>>] ELSE [C!Idle EXCEPT !.at = "done"]
<1>0. /\ clock \in Nat /\ restarts \in Nat /\ runs \in Seq(C!Assessment) /\ request = [s \in C!Turns |-> request[s]]
      /\ \A i \in DOMAIN runs : runs[i].count \in Nat
  BY DEF GateInv, GateTypes, C!TypeOK, C!Assessment
<1>1. request[r].at = "assess" /\ request' = [request EXCEPT ![r] = q] /\ runs' = runs /\ together' = together
  BY DEF C!Assess
<1>2. q.at \in {"persist", "done"} /\ (q.at = "persist" => q.left = <<found>>)
  <2> DEFINE list == <<found>>
  <2> HIDE DEF list
  <2> QED  BY IdleIs DEF IsCall, Fields
<1> HIDE DEF q
<1>a. <<found>>[1] = found
  <2> HIDE DEF found
  <2> QED  OBVIOUS
<1>b. found.at = request[r].id /\ found.passed = C!Ready(request[r].previous) /\ found.count = restarts
      /\ (found.blind <=> request[r].previous = None)
  BY ReadyIs
<1> HIDE DEF found
<1>3. C!RestartsAreCaught'
  BY <1>1 DEF RunsInv, C!RestartsAreCaught
<1>4. ASSUME ~together PROVE RunsOK'
  <2>1. RunsOK
    BY <1>4 DEF RunsInv
  <2>2. \A s \in C!Turns : Assesses(s)' => s = r /\ request'[s] = q
    BY <1>0, <1>1, <2>1 DEF Assesses, RunsOK
  <2>3. \A i \in DOMAIN runs : runs[i].at < found.at
    BY <1>1, <1>b, <2>1 DEF RunsOK
  <2>4. found.passed /\ ~found.blind => runs # << >> /\ found.count <= runs[Len(runs)].count
    <3>1. ASSUME found.passed, ~found.blind PROVE runs # << >> /\ found.count <= runs[Len(runs)].count
      <4>1. request[r].previous # None /\ ~C!Offends(request[r].previous, restarts)
        BY <1>b, <3>1, ReadyIs
      <4>2. runs # << >> /\ request[r].previous = runs[Len(runs)]
        BY <1>1, <2>1, <4>1 DEF RunsOK
      <4>3. Len(runs) \in DOMAIN runs
        BY <1>0, <4>2
      <4>4. ~(restarts - runs[Len(runs)].count > 0)
        BY <4>1, <4>2 DEF C!Offends
      <4> QED  BY <1>0, <1>b, <4>2, <4>3, <4>4
    <3> QED  BY <3>1
  <2>5. \A i, j \in DOMAIN runs : i < j => runs[i].at < runs[j].at
    BY <2>1 DEF RunsOK
  <2> QED  BY <1>1, <1>2, <1>a, <2>2, <2>3, <2>4, <2>5 DEF RunsOK, Assesses
<1> QED  BY <1>1, <1>3, <1>4 DEF RunsInv

LEMMA RunsPersist ==
    ASSUME ServicesAssumption, GateInv, RunsInv, NEW r \in C!Turns, C!PersistAssessment(r)
    PROVE  RunsInv'
<1> DEFINE q == [C!Idle EXCEPT !.at = "done"]
           found == request[r].left[1]
           n == Len(runs)
<1>0. /\ runs \in Seq(C!Assessment) /\ request = [s \in C!Turns |-> request[s]]
      /\ \A i \in DOMAIN runs : runs[i].count \in Nat /\ runs[i].at \in Nat
      /\ n \in Nat /\ DOMAIN runs = 1 .. n
  BY DEF GateInv, GateTypes, C!TypeOK, C!Assessment
<1>1. /\ request[r].at = "persist" /\ request' = [request EXCEPT ![r] = q] /\ together' = together
      /\ runs' = runs \o request[r].left
      /\ request[r].left \in Seq(C!Assessment) /\ Len(request[r].left) = 1
  BY DEF C!PersistAssessment, C!Ends, GateInv, CallOK
<1>2. q.at = "done"
  BY IdleIs DEF IsCall, Fields
<1> HIDE DEF q
<1>3. /\ runs' \in Seq(C!Assessment) /\ Len(runs') = n + 1 /\ runs'[n + 1] = found
      /\ \A i \in 1 .. n : runs'[i] = runs[i]
  BY <1>0, <1>1, OneMore
<1>a. found \in C!Assessment
  BY <1>1, TheOnly
<1>b. DOMAIN runs' = 1 .. n + 1 /\ found.count \in Nat /\ found.at \in Nat
  BY <1>0, <1>3, <1>a DEF C!Assessment
<1> HIDE DEF found
<1>4. ASSUME ~together PROVE RunsOK' /\ C!RestartsAreCaught'
  <2>1. RunsOK /\ C!RestartsAreCaught
    BY <1>4 DEF RunsInv
  <2>2. \A s \in C!Turns : ~Assesses(s)'
    BY <1>0, <1>1, <1>2, <2>1 DEF Assesses, RunsOK
  <2>3. \A i \in 1 .. n : runs[i].at < found.at
    BY <1>0, <1>1, <2>1 DEF RunsOK, found
  <2>4. found.passed /\ ~found.blind => runs # << >> /\ found.count <= runs[n].count
    BY <1>0, <1>1, <2>1 DEF RunsOK, found
  <2>5. \A i, j \in 1 .. n : i < j => runs[i].at < runs[j].at
    BY <1>0, <2>1 DEF RunsOK
  <2> HIDE DEF n
  <2>6. \A i, j \in 1 .. n + 1 : i < j => runs'[i].at < runs'[j].at
    <3>1. TAKE i, j \in 1 .. n + 1
    <3>2. HAVE i < j
    <3>3. i \in 1 .. n /\ (j \in 1 .. n \/ j = n + 1)
      BY <1>0, <3>2
    <3> QED  BY <1>3, <2>3, <2>5, <3>2, <3>3
  <2>7. RunsOK'
    BY <1>b, <2>2, <2>6 DEF RunsOK, Assesses
  <2>8. \A i, j \in 1 .. n : i < j /\ runs[j].count > runs[i].count
           => \E k \in i + 1 .. j : ~runs[k].passed \/ runs[k].blind
    <3>1. \A i \in 1 .. n : runs[i].count + 0 = runs[i].count
      BY <1>0
    <3> QED  BY <1>0, <1>4, <2>1, <3>1 DEF C!RestartsAreCaught
  <2>9. ASSUME NEW i \in 1 .. n + 1, NEW j \in 1 .. n + 1, i < j, runs'[j].count > runs'[i].count
        PROVE  \E k \in i + 1 .. j : ~runs'[k].passed \/ runs'[k].blind
    <3>0. i \in 1 .. n /\ runs'[i] = runs[i]
      BY <1>0, <1>3, <2>9
    <3>1. CASE j \in 1 .. n
      <4>1. PICK k \in i + 1 .. j : ~runs[k].passed \/ runs[k].blind
        BY <1>3, <2>8, <2>9, <3>0, <3>1
      <4>2. k \in 1 .. n
        BY <1>0, <3>0, <3>1, <4>1
      <4> QED  BY <1>3, <4>1, <4>2
    <3>2. CASE j = n + 1
      <4>1. CASE ~found.passed \/ found.blind
        <5>1. n + 1 \in i + 1 .. j
          BY <1>0, <3>0, <3>2
        <5> QED  BY <1>3, <4>1, <5>1
      <4>2. CASE found.passed /\ ~found.blind
        <5>1. found.count <= runs[n].count /\ found.count > runs[i].count
          BY <1>3, <2>4, <2>9, <3>0, <3>2, <4>2
        <5>2. n \in 1 .. n /\ i # n
          BY <1>0, <1>b, <3>0, <5>1
        <5>3. i < n /\ runs[n].count > runs[i].count
          BY <1>0, <1>b, <3>0, <5>1, <5>2
        <5>4. PICK k \in i + 1 .. n : ~runs[k].passed \/ runs[k].blind
          BY <2>8, <3>0, <5>2, <5>3
        <5>5. k \in 1 .. n /\ k \in i + 1 .. j
          BY <1>0, <3>0, <3>2, <5>4
        <5> QED  BY <1>3, <5>4, <5>5
      <4> QED  BY <4>1, <4>2
    <3> QED  BY <1>0, <3>1, <3>2
  <2>10. \A i \in 1 .. n + 1 : runs'[i].count \in Nat
    <3>1. \A i \in 1 .. n + 1 : i \in 1 .. n \/ i = n + 1
      BY <1>0
    <3> QED  BY <1>0, <1>3, <1>b, <3>1
  <2>11. C!RestartsAreCaught'
    <3>1. \A i \in 1 .. n + 1 : runs'[i].count + 0 = runs'[i].count
      BY <2>10
    <3> QED  BY <1>b, <2>9, <3>1 DEF C!RestartsAreCaught
  <2> QED  BY <2>7, <2>11
<1>5. together => C!RestartsAreCaught'
  BY <1>1 DEF C!RestartsAreCaught
<1> QED  BY <1>1, <1>4, <1>5 DEF RunsInv

LEMMA CutoverStep ==
    ASSUME ServicesAssumption, GateInv /\ RunsInv, C!Next \/ UNCHANGED cutover
    PROVE  (GateInv /\ RunsInv)'
<1>1. CASE UNCHANGED cutover
  <2>1. UNCHANGED <<condition, restarts, young, runs, deployment, trail, request, together, gauge, clock>>
    BY <1>1 DEF cutover
  <2>2. GateInv'
    <3>1. GateTypes' /\ C!Recorded' = C!Recorded
      BY <2>1 DEF GateInv, GateTypes, C!TypeOK, C!Recorded
    <3>2. \A s \in C!Turns : CallOK(s)'
      BY <2>1, <3>1 DEF GateInv, CallOK
    <3>3. \A d \in C!Recorded : RecordOK(d)'
      BY <2>1 DEF GateInv, RecordOK, Audited, Owes
    <3>4. (\A s \in C!Turns : CallOK(s))' /\ (\A d \in C!Recorded : RecordOK(d))'
      BY <3>1, <3>2, <3>3 DEF C!Turns
    <3> QED  BY <3>1, <3>4 DEF GateInv
  <2> QED  BY <2>1, <2>2, RunsStay DEF Assesses
<1>2. CASE C!Worsen \/ C!DayPasses \/ \E recreated \in BOOLEAN : C!Restart(recreated)
  <2>1. UNCHANGED <<runs, together, request>>
    BY <1>2 DEF C!Worsen, C!DayPasses, C!Restart
  <2> QED  BY <1>2, <2>1, PlatformGate, RunsStay DEF Assesses
<1>3. ASSUME NEW r \in C!Turns,
             (\E fails \in BOOLEAN : C!BeginAssessment(r, fails)) \/ C!Assess(r) \/ C!PersistAssessment(r)
      PROVE  (GateInv /\ RunsInv)'
  BY <1>3, AssessGate, RunsBegin, RunsAssess, RunsPersist
<1>4. ASSUME NEW r \in C!Turns,
             \/ C!StartCutover(r) \/ C!PersistDeployment(r) \/ C!ValidateCutover(r)
             \/ C!RunPostCutoverValidation(r) \/ C!UpdateDeployment(r)
             \/ C!RecordEvent(r) \/ C!RefreshMetrics(r) \/ C!RequestDies(r)
      PROVE  (GateInv /\ RunsInv)'
  <2>1. GateInv'
    BY <1>4, StartsGate, InsertGate, UpdateGate, RecordGate, EndsGate, DiesGate
  <2>2. RunsInv'
    BY <1>4, OthersAside, RunsStay
  <2> QED  BY <2>1, <2>2
<1> QED  BY <1>1, <1>2, <1>3, <1>4 DEF C!Next

LEMMA GateInvShows ==
    ASSUME GateInv, RunsInv
    PROVE  C!TypeOK /\ C!VerdictIsAudited /\ C!RestartsAreCaught
<1>1. ASSUME NEW d \in C!Recorded, C!AtWork(d) = {}, NEW told, Audited(d, told) PROVE told \subseteq C!Events(d)
  <2>1. \A s \in C!Turns : ~Owes(s, d, told)
    BY <1>1 DEF C!AtWork, Owes
  <2> QED  BY <1>1, <2>1 DEF Audited, C!Events, Says
<1>2. ASSUME NEW d \in C!Recorded PROVE C!Events(d) = Says(trail[d]) /\ RecordOK(d)
  BY DEF C!Events, Says, GateInv
<1>3. C!VerdictIsAudited
  BY <1>1, <1>2 DEF C!VerdictIsAudited, RecordOK, Started, Verdicts
<1> QED  BY <1>3 DEF GateInv, GateTypes, RunsInv

(* The gate, the trail and the assessments, with what requests read of them. *)
THEOREM CutoverInvariance == Spec => [](GateInv /\ RunsInv)
<1>1. Init => GateInv /\ RunsInv
  <2>1. C!Init => RunsInv
    <3>1. ASSUME C!Init PROVE RunsInv
      <4>1. runs = << >> /\ DOMAIN runs = {} /\ \A r \in C!Turns : request[r].at = "new"
        BY <3>1, IdleIs DEF C!Init
      <4> QED  BY <4>1 DEF RunsInv, RunsOK, C!RestartsAreCaught, Assesses
    <3> QED  BY <3>1
  <2> QED  BY <2>1, ServicesAssumption, GateInit DEF Init
<1>2. (GateInv /\ RunsInv) /\ [Next]_<<part, accounts, devices, cutover, cim, fleet, copilot, voltvar>> => (GateInv /\ RunsInv)'
  BY ServicesAssumption, CutoverStep DEF Next, Accounts, Onboarding, Cutover, Cim, Fleet, Copilot, VoltVar
<1> QED  BY <1>1, <1>2, PTL DEF Spec

(* However requests and runs of the script interleave and die, the gate of   *)
(* a cutover and its audit trail agree, and no restart of a container is     *)
(* passed over by runs that do not overlap.                                  *)
THEOREM GateIsTrueHolds == Spec => []GateIsTrue
<1>1. GateInv /\ RunsInv => GateIsTrue
  BY GateInvShows DEF GateIsTrue
<1> QED  BY <1>1, CutoverInvariance, PTL

-----------------------------------------------------------------------------
(* The copilot: answers, cached or on their way, and whose devices they are  *)
(* about.                                                                    *)

Own(t, found) == DOMAIN found = Q!Visible(t)
CopilotInv ==
    /\ signals \in [Watched -> MCSignals]
    /\ tenant \in [Callers -> Principals \union {None}]
    /\ at \in [Callers -> {"idle", "miss", "store"} \union Q!Tiers]
    /\ about = [c \in Callers |-> about[c]]
    /\ answer = [c \in Callers |-> answer[c]]
    /\ cache = [k \in {Q!KeyOf(t) : t \in Principals \union {None}} |-> cache[k]]
    /\ \A t \in Principals \union {None} : cache[Q!KeyOf(t)] # None => Own(t, cache[Q!KeyOf(t)].answer.about)
    /\ \A c \in Callers :
          /\ at[c] \in {"store"} \union Q!Tiers => Own(tenant[c], about[c])
          /\ at[c] = "store" => Own(tenant[c], answer[c].about)
          /\ at[c] = "idle" /\ answer[c] # None => Own(tenant[c], answer[c].about)

\* Two principals never share a key.
LEMMA KeysDiffer ==
    ASSUME ServicesAssumption, NEW t \in Principals \union {None}, NEW u \in Principals \union {None}, Q!KeyOf(t) = Q!KeyOf(u)
    PROVE  t = u
  BY DEF ServicesAssumption, Q!CopilotAssumption, Q!KeyOf

LEMMA TiersAre == /\ Q!Tiers = {"openrouter", "ollama_local", "ollama_cloud"}
                  /\ \A tier \in Q!Tiers : Q!NextTier[tier] # None => Q!NextTier[tier] \in Q!Tiers
  BY DEF Q!Tiers, Q!NextTier

\* What a tenant finds is what it may see: every device has a status.
LEMMA FoundIsOwn ==
    ASSUME ServicesAssumption, CopilotInv, NEW t
    PROVE  Own(t, Q!Found(t))
<1>1. \A d \in Watched : signals[d].status # None
  <2>1. \A s \in MCSignals : s.status # None
    BY DEF MCSignals, ServicesAssumption, Q!CopilotAssumption, Q!AllSignals
  <2> QED  BY <2>1 DEF CopilotInv
<1>2. \A d \in Watched : Q!get_device_row(d, t) # None <=> d \in Q!Visible(t)
  BY <1>1 DEF Q!get_device_row
<1>3. Q!Visible(t) \subseteq Watched
  BY DEF Q!Visible
<1>4. {e \in Watched : Q!get_device_row(e, t) # None} = Q!Visible(t)
  BY <1>2, <1>3
<1> QED  BY <1>4 DEF Own, Q!Found

LEMMA CopilotStep ==
    ASSUME ServicesAssumption, CopilotInv, Q!Next \/ UNCHANGED copilot
    PROVE  CopilotInv'
<1> USE DEF Own
<1>0. /\ at \in [Callers -> {"idle", "miss", "store"} \union Q!Tiers]
      /\ tenant \in [Callers -> Principals \union {None}]
      /\ about = [c \in Callers |-> about[c]] /\ answer = [c \in Callers |-> answer[c]]
  BY DEF CopilotInv
<1>1. ASSUME NEW c \in Callers, Q!Ask(c) PROVE CopilotInv'
  <2>0. PICK t \in Principals \union {None} : \E found \in Q!CacheGets(Q!KeyOf(t)) :
           /\ tenant' = [tenant EXCEPT ![c] = t]
           /\ at' = [at EXCEPT ![c] = IF found = None THEN "miss" ELSE "idle"]
           /\ answer' = [answer EXCEPT ![c] = found]
    BY <1>1 DEF Q!Ask
  <2>1. PICK found \in Q!CacheGets(Q!KeyOf(t)) :
           /\ tenant' = [tenant EXCEPT ![c] = t]
           /\ at' = [at EXCEPT ![c] = IF found = None THEN "miss" ELSE "idle"]
           /\ answer' = [answer EXCEPT ![c] = found]
    BY <2>0
  <2>2. found # None => Own(t, found.about)
    BY <2>1 DEF Q!CacheGets, CopilotInv
  <2>3. UNCHANGED <<signals, cache, about>> /\ at[c] = "idle"
    BY <1>1 DEF Q!Ask
  <2>4. /\ at'[c] \in {"miss", "idle"} /\ (at'[c] = "idle" => found # None)
        /\ answer'[c] = found /\ tenant'[c] = t
        /\ \A x \in Callers : x # c => at'[x] = at[x] /\ answer'[x] = answer[x] /\ tenant'[x] = tenant[x]
    BY <1>0, <2>1
  <2>5. ASSUME NEW x \in Callers
        PROVE  /\ at'[x] \in {"store"} \union Q!Tiers => Own(tenant'[x], about'[x])
               /\ at'[x] = "store" => Own(tenant'[x], answer'[x].about)
               /\ at'[x] = "idle" /\ answer'[x] # None => Own(tenant'[x], answer'[x].about)
    BY <2>2, <2>3, <2>4, TiersAre DEF CopilotInv
  <2> QED  BY <1>0, <2>1, <2>3, <2>5 DEF CopilotInv, Q!Visible
<1>2. ASSUME NEW c \in Callers, Q!Read(c) PROVE CopilotInv'
  <2>1. /\ at[c] = "miss" /\ about' = [about EXCEPT ![c] = Q!Found(tenant[c])] /\ at' = [at EXCEPT ![c] = "openrouter"]
        /\ UNCHANGED <<signals, cache, tenant, answer>>
    BY <1>2 DEF Q!Read
  <2>2. Own(tenant[c], about'[c])
    BY <1>0, <2>1, FoundIsOwn
  <2> QED  BY <1>0, <2>1, <2>2, TiersAre DEF CopilotInv, Q!Visible
<1>3. ASSUME NEW c \in Callers, Q!Answers(c) PROVE CopilotInv'
  <2>1. PICK text : answer' = [answer EXCEPT ![c] = [text |-> text, about |-> about[c]]]
    BY <1>3 DEF Q!Answers
  <2>2. at[c] \in Q!Tiers /\ at' = [at EXCEPT ![c] = "store"] /\ UNCHANGED <<signals, cache, tenant, about>>
    BY <1>3 DEF Q!Answers
  <2>3. answer'[c].about = about[c] /\ Own(tenant[c], about[c])
    BY <1>0, <2>1, <2>2 DEF CopilotInv
  <2> QED  BY <1>0, <2>1, <2>2, <2>3, TiersAre DEF CopilotInv, Q!Visible
<1>4. ASSUME NEW c \in Callers, Q!Fails(c) PROVE CopilotInv'
  <2>1. at[c] \in Q!Tiers /\ UNCHANGED <<signals, cache, tenant, about>> /\ Own(tenant[c], about[c])
    BY <1>4 DEF Q!Fails, CopilotInv
  <2>2. CASE answer' = Q!Fallback(c) /\ at' = [at EXCEPT ![c] = "store"]
    <3>1. answer' = [answer EXCEPT ![c] = [text |-> "fallback", about |-> about[c]]]
      BY <2>2 DEF Q!Fallback
    <3>2. answer'[c].about = about[c]
      BY <1>0, <3>1
    <3> QED  BY <1>0, <2>1, <2>2, <3>1, <3>2, TiersAre DEF CopilotInv, Q!Visible
  <2>3. CASE answer' = answer /\ Q!NextTier[at[c]] # None /\ at' = [at EXCEPT ![c] = Q!NextTier[at[c]]]
    <3>1. Q!NextTier[at[c]] \in Q!Tiers
      BY <2>1, <2>3, TiersAre
    <3> QED  BY <1>0, <2>1, <2>3, <3>1, TiersAre DEF CopilotInv, Q!Visible
  <2> QED  BY <1>4, <1>0, <2>2, <2>3 DEF Q!Fails
<1>5. ASSUME NEW c \in Callers, Q!Breaks(c) PROVE CopilotInv'
  <2>1. /\ at' = [at EXCEPT ![c] = "idle"] /\ answer' = [answer EXCEPT ![c] = None]
        /\ about' = [about EXCEPT ![c] = None]
        /\ UNCHANGED <<signals, cache, tenant>>
    BY <1>5 DEF Q!Breaks
  <2> QED  BY <1>0, <2>1, TiersAre DEF CopilotInv, Q!Visible
<1>6. ASSUME NEW c \in Callers, Q!Store(c) PROVE CopilotInv'
  <2>1. /\ at[c] = "store" /\ at' = [at EXCEPT ![c] = "idle"] /\ about' = [about EXCEPT ![c] = None]
        /\ UNCHANGED <<signals, tenant, answer>> /\ Own(tenant[c], answer[c].about) /\ tenant[c] \in Principals \union {None}
    BY <1>6 DEF Q!Store, CopilotInv
  <2>2. /\ cache' = [k \in {Q!KeyOf(t) : t \in Principals \union {None}} |-> cache'[k]]
        /\ \A t \in Principals \union {None} : cache'[Q!KeyOf(t)] # None => Own(t, cache'[Q!KeyOf(t)].answer.about)
    <3>1. CASE cache' = cache
      BY <3>1 DEF CopilotInv
    <3>2. CASE cache' = [cache EXCEPT ![Q!KeyOf(tenant[c])] = [answer |-> answer[c], expires |-> now + TTL]]
      <4> DEFINE Keys == {Q!KeyOf(t) : t \in Principals \union {None}}
                 row == [answer |-> answer[c], expires |-> now + TTL]
      <4>1. row.answer = answer[c]
        OBVIOUS
      <4> HIDE DEF row
      <4>2. Q!KeyOf(tenant[c]) \in Keys /\ cache = [k \in Keys |-> cache[k]]
        BY <2>1 DEF CopilotInv
      <4>3. cache' = [k \in Keys |-> IF k = Q!KeyOf(tenant[c]) THEN row ELSE cache[k]]
        BY <3>2, <4>2 DEF row
      <4>4. ASSUME NEW t \in Principals \union {None}, cache'[Q!KeyOf(t)] # None
            PROVE  Own(t, cache'[Q!KeyOf(t)].answer.about)
        <5>1. CASE t = tenant[c]
          BY <2>1, <4>1, <4>3, <5>1
        <5>2. CASE t # tenant[c]
          <6>1. cache'[Q!KeyOf(t)] = cache[Q!KeyOf(t)]
            BY <2>1, <4>3, <5>2, KeysDiffer
          <6> QED  BY <4>4, <6>1 DEF CopilotInv
        <5> QED  BY <5>1, <5>2
      <4> QED  BY <4>3, <4>4
    <3> QED  BY <1>6, <3>1, <3>2 DEF Q!Store
  <2> QED  BY <1>0, <2>1, <2>2, TiersAre DEF CopilotInv, Q!Visible, Q!KeyOf
<1>7. CASE (\E d \in Watched : Q!Change(d)) \/ Q!Tick \/ UNCHANGED copilot
  <2>1. UNCHANGED <<cache, at, tenant, about, answer>> /\ signals' \in [Watched -> MCSignals]
    BY <1>7 DEF Q!Change, Q!Tick, copilot, CopilotInv
  <2> QED  BY <2>1 DEF CopilotInv, Q!Visible
<1> QED  BY <1>1, <1>2, <1>3, <1>4, <1>5, <1>6, <1>7 DEF Q!Next

(* What is cached for a tenant, and what a request of it carries, is about   *)
(* the devices of that tenant.                                               *)
THEOREM CopilotInvariance == Spec => []CopilotInv
<1>1. Init => CopilotInv
  <2>1. ASSUME Init PROVE CopilotInv
    <3>1. Q!Init
      BY <2>1 DEF Init
    <3> QED  BY <3>1, TiersAre DEF Q!Init, CopilotInv, Own
  <2> QED  BY <2>1
<1>2. CopilotInv /\ [Next]_<<part, accounts, devices, cutover, cim, fleet, copilot, voltvar>> => CopilotInv'
  BY ServicesAssumption, CopilotStep DEF Next, Accounts, Onboarding, Cutover, Cim, Fleet, Copilot, VoltVar
<1> QED  BY <1>1, <1>2, PTL DEF Spec

(* Nobody is answered about the devices of another tenant, whoever filled    *)
(* the cache, for any number of callers, tenants and devices.                *)
THEOREM AnswersAreOwnHolds == Spec => []AnswersAreOwn
<1>1. CopilotInv => AnswersAreOwn
  BY DEF CopilotInv, AnswersAreOwn, Q!AnswersStayInTenant, Own
<1> QED  BY <1>1, CopilotInvariance, PTL

-----------------------------------------------------------------------------
(* The dashboard.                                                            *)

Site == {"battery", "meter"}
Row == [time : Nat, power : Nat, frequency : Nat, soc : 0 .. 100]
CommandRow == [device : Site, status : {"ACKED", "FAILED"}]
AlarmRow == [device : Site, severity : {"HIGH", "OK"}]
IsState(v) == v \in [last_seen : {v.last_seen}, battery_soc : {v.battery_soc}]
IsTwin(v) == v \in [asset : {v.asset}, health : {v.health}, command : {v.command}]

(* The last row of a device, as a state.                                     *)
Newest(d) ==
    IF telemetry[d] = << >> THEN F!NoState
    ELSE [last_seen |-> telemetry[d][Len(telemetry[d])].time, battery_soc |-> telemetry[d][Len(telemetry[d])].soc]

(* The state of a device is its last row unless it was lost, and was seen *)
(* when a row was written; a twin has no health before it is read, and no    *)
(* command.                                                                  *)
FleetInv ==
    /\ time \in Nat
    /\ telemetry \in [Site -> Seq(Row)]
    /\ commands \in Seq(CommandRow)
    /\ alarms \in Seq(AlarmRow)
    /\ state = [d \in Site |-> state[d]]
    /\ \A d \in Site :
          /\ IsState(state[d])
          /\ state[d].last_seen # None =>
                \E i \in DOMAIN telemetry[d] : telemetry[d][i].time = state[d].last_seen
    /\ ~lost => \A d \in Site : state[d] = Newest(d)
    /\ pc \in {"assets", "health", "commands"}
    /\ DOMAIN twin \subseteq Site /\ twin = [d \in DOMAIN twin |-> twin[d]]
    /\ \A d \in DOMAIN twin :
          /\ IsTwin(twin[d])
          /\ pc \in {"health", "commands"} => twin[d].command = None
          /\ pc = "health" => twin[d].health = "UNKNOWN"

(* The last of some rows of a table.                                         *)
LEMMA LastIs ==
    ASSUME NEW n \in Nat, NEW S \in SUBSET (1 .. n), S # {}
    PROVE  F!Max(S) \in S /\ \A i \in S : i <= F!Max(S)
<1> DEFINE id == [i \in S |-> i]
<1>1. \A i \in S : id[i] \in Nat /\ id[i] <= n
  OBVIOUS
<1>2. \E i \in S : \A j \in S : id[i] >= id[j]
  <2> HIDE DEF id
  <2> QED  BY <1>1, Largest
<1>3. \E i \in S : \A j \in S : i >= j
  BY <1>2
<1>4. /\ F!Max(S) \in S
      /\ \A j \in S : F!Max(S) >= j
  BY <1>3 DEF F!Max
<1>5. \A i \in S : i \in Nat
  OBVIOUS
<1> QED  BY <1>4, <1>5

(* A device that is called OK had a reading while a state is fresh, and its  *)
(* last alarm, if any, was the one that cleared it.                          *)
LEMMA HealthIs ==
    ASSUME ServicesAssumption, FleetInv, NEW d \in Site, F!_evaluate_health(d) = "OK"
    PROVE  /\ \E i \in DOMAIN telemetry[d] : telemetry[d][i].time >= time - 1
           /\ \A i \in DOMAIN alarms :
                 alarms[i].device = d => \E j \in DOMAIN alarms : j >= i /\ alarms[j] = [device |-> d, severity |-> "OK"]
<1> DEFINE alarm == F!LatestOf(alarms, d)
<1>1. state[d].last_seen # None /\ ~(time - state[d].last_seen > 1) /\ ~(alarm # None /\ alarm.severity # "OK")
  BY DEF F!_evaluate_health
<1> HIDE DEF alarm
<1>2. PICK i \in DOMAIN telemetry[d] : telemetry[d][i].time = state[d].last_seen
  BY <1>1 DEF FleetInv
<1>3. telemetry[d][i].time \in Nat
  <2>1. telemetry[d] \in Seq(Row)
    BY DEF FleetInv
  <2>2. telemetry[d][i] \in Row
    BY <1>2, <2>1
  <2> QED  BY <2>2 DEF Row
<1>4. telemetry[d][i].time >= time - 1
  BY <1>1, <1>2, <1>3 DEF FleetInv
<1>5. ASSUME NEW k \in DOMAIN alarms, alarms[k].device = d
      PROVE  \E j \in DOMAIN alarms : j >= k /\ alarms[j] = [device |-> d, severity |-> "OK"]
  <2> DEFINE of == {j \in DOMAIN alarms : alarms[j].device = d}
  <2>1. DOMAIN alarms = 1 .. Len(alarms) /\ Len(alarms) \in Nat /\ \A j \in DOMAIN alarms : alarms[j] \in AlarmRow
    BY DEF FleetInv
  <2>2. of \in SUBSET (1 .. Len(alarms)) /\ k \in of
    BY <1>5, <2>1
  <2>3. alarm = alarms[F!Max(of)]
    BY <2>2 DEF alarm, F!LatestOf
  <2> HIDE DEF of
  <2>4. F!Max(of) \in of /\ k <= F!Max(of)
    BY <2>1, <2>2, LastIs
  <2>5. F!Max(of) \in DOMAIN alarms /\ alarms[F!Max(of)].device = d
    BY <2>4 DEF of
  <2>6. alarm \in AlarmRow /\ alarm.device = d
    BY <2>1, <2>3, <2>5
  <2>7. alarm # None
    BY <2>6 DEF ServicesAssumption, F!FleetAssumption, AlarmRow, Site
  <2>8. alarm = [device |-> d, severity |-> "OK"]
    BY <1>1, <2>6, <2>7 DEF AlarmRow
  <2>9. F!Max(of) >= k
    BY <2>1, <2>4, <2>5
  <2> QED  BY <2>3, <2>5, <2>8, <2>9
<1> QED  BY <1>2, <1>4, <1>5

(* The command that is shown is the last of its device.                      *)
LEMMA CommandIs ==
    ASSUME FleetInv, NEW d \in Site, F!LastCommand(d) # None, NEW i \in DOMAIN commands, commands[i].device = d
    PROVE  i <= F!LastCommand(d)
<1> DEFINE shown == {k \in F!list_commands(2) : commands[k].device = d}
<1>1. DOMAIN commands = 1 .. Len(commands) /\ Len(commands) \in Nat
  BY DEF FleetInv
<1>2. \A k \in F!list_commands(2) : k \in 1 .. Len(commands) /\ k > Len(commands) - 2
  BY <1>1 DEF F!list_commands
<1>3. shown \in SUBSET (1 .. Len(commands)) /\ \A k \in shown : k > Len(commands) - 2
  BY <1>2
<1>4. i > Len(commands) - 2 => i \in shown
  BY <1>1 DEF F!list_commands
<1>5. shown # {} /\ F!LastCommand(d) = F!Max(shown)
  BY DEF F!LastCommand
<1> HIDE DEF shown
<1>6. F!Max(shown) \in shown /\ \A k \in shown : k <= F!Max(shown)
  BY <1>1, <1>3, <1>5, LastIs
<1> DEFINE last == F!Max(shown)
<1>7. last \in 1 .. Len(commands) /\ last > Len(commands) - 2 /\ (i \in shown => i <= last)
  BY <1>3, <1>6
<1> HIDE DEF last
<1>8. i <= last
  BY <1>1, <1>4, <1>7
<1> QED  BY <1>5, <1>8 DEF last

LEMMA Appended ==
    ASSUME NEW S, NEW rows \in Seq(S), NEW row \in S
    PROVE  Append(rows, row) \in Seq(S)
OBVIOUS

LEMMA FleetStep ==
    ASSUME ServicesAssumption, FleetInv, F!Next \/ UNCHANGED fleet
    PROVE  FleetInv'
<1>0. telemetry \in [Site -> Seq(Row)] /\ time \in Nat /\ state = [d \in Site |-> state[d]]
  BY DEF FleetInv
<1>1. ASSUME NEW d \in Site, F!Ingest(d) PROVE FleetInv'
  <2>1. PICK r \in MCReadings :
          /\ telemetry' = [telemetry EXCEPT ![d] =
                 Append(@, [time |-> time, power |-> r.power, frequency |-> r.frequency, soc |-> r.soc])]
          /\ state' = [state EXCEPT ![d] = [last_seen |-> time, battery_soc |-> r.soc]]
    BY <1>1 DEF F!Ingest
  <2>2. UNCHANGED <<time, commands, alarms, pc, twin>>
    BY <1>1 DEF F!Ingest
  <2> DEFINE row == [time |-> time, power |-> r.power, frequency |-> r.frequency, soc |-> r.soc]
  <2>3. row \in Row
    <3>1. r \in [power : Nat, frequency : Nat, soc : 0 .. 100]
      BY DEF ServicesAssumption, F!FleetAssumption
    <3> QED  BY <1>0, <3>1 DEF Row
  <2>4. telemetry' = [telemetry EXCEPT ![d] = Append(@, row)] /\ row.time = time
    BY <2>1
  <2> HIDE DEF row
  <2>5. telemetry[d] \in Seq(Row)
    BY <1>0
  <2>6. /\ Append(telemetry[d], row) \in Seq(Row) /\ Len(telemetry[d]) \in Nat
        /\ Append(telemetry[d], row)[Len(telemetry[d]) + 1] = row
        /\ Len(telemetry[d]) + 1 \in DOMAIN Append(telemetry[d], row)
    BY <2>3, <2>5
  <2>7. telemetry' \in [Site -> Seq(Row)] /\ telemetry'[d] = Append(telemetry[d], row)
    BY <1>0, <2>4, <2>6
  <2>8. /\ state' = [x \in Site |-> state'[x]] /\ IsState(state'[d]) /\ state'[d].last_seen = time
        /\ \A x \in Site : x # d => state'[x] = state[x] /\ telemetry'[x] = telemetry[x]
    BY <1>0, <2>1, <2>4 DEF IsState
  <2>9. \E i \in DOMAIN telemetry'[d] : telemetry'[d][i].time = state'[d].last_seen
    BY <2>4, <2>6, <2>7, <2>8
  <2>10. ~lost' => \A x \in Site : state'[x] = Newest(x)'
    <3>1. lost' = lost
      BY <1>1 DEF F!Ingest
    <3>2. \A x \in Site : x # d => Newest(x)' = Newest(x)
      BY <2>8 DEF Newest
    <3>3. /\ telemetry'[d] # << >> /\ Len(telemetry'[d]) = Len(telemetry[d]) + 1
          /\ telemetry'[d][Len(telemetry'[d])] = row
      BY <2>3, <2>5, <2>6, <2>7
    <3>4. Newest(d)' = [last_seen |-> row.time, battery_soc |-> row.soc]
      BY <3>3 DEF Newest
    <3>5. state'[d] = [last_seen |-> row.time, battery_soc |-> row.soc]
      BY <1>0, <2>1 DEF row
    <3> QED  BY <2>8, <3>1, <3>2, <3>4, <3>5 DEF FleetInv
  <2> QED  BY <2>2, <2>7, <2>8, <2>9, <2>10 DEF FleetInv
<1>2. ASSUME NEW d \in Site, F!Register(d) \/ F!Command(d) \/ F!Alarm(d) \/ F!Loses(d) PROVE FleetInv'
  <2>1. UNCHANGED <<time, telemetry, pc, twin>>
    BY <1>2 DEF F!Register, F!Command, F!Alarm, F!Loses
  <2>2. commands' \in Seq(CommandRow)
    <3>1. commands' = commands \/ \E status \in {"ACKED", "FAILED"} :
             commands' = Append(commands, [device |-> d, status |-> status])
      BY <1>2 DEF F!Register, F!Command, F!Alarm, F!Loses
    <3>2. \A status \in {"ACKED", "FAILED"} : [device |-> d, status |-> status] \in CommandRow
      BY DEF CommandRow
    <3> QED  BY <3>1, <3>2, Appended DEF FleetInv
  <2>3. alarms' \in Seq(AlarmRow)
    <3>1. alarms' = alarms \/ \E severity \in {"HIGH", "OK"} :
             alarms' = Append(alarms, [device |-> d, severity |-> severity])
      BY <1>2 DEF F!Register, F!Command, F!Alarm, F!Loses
    <3>2. \A severity \in {"HIGH", "OK"} : [device |-> d, severity |-> severity] \in AlarmRow
      BY DEF AlarmRow
    <3> QED  BY <3>1, <3>2, Appended DEF FleetInv
  <2>4. state' = state \/ state' = [state EXCEPT ![d] = F!NoState]
    BY <1>2 DEF F!Register, F!Command, F!Alarm, F!Loses
  <2>5. IsState(F!NoState) /\ F!NoState.last_seen = None
    BY DEF F!NoState, IsState
  <2>6. /\ state' = [x \in Site |-> state'[x]]
        /\ \A x \in Site : state'[x] = state[x] \/ state'[x] = F!NoState
    BY <1>0, <2>4
  <2>7. ASSUME NEW x \in Site
        PROVE  /\ IsState(state'[x])
               /\ state'[x].last_seen # None =>
                     \E i \in DOMAIN telemetry'[x] : telemetry'[x][i].time = state'[x].last_seen
    BY <2>1, <2>5, <2>6 DEF FleetInv
  <2>8. ~lost' => state' = state /\ ~lost
    BY <1>2 DEF F!Register, F!Command, F!Alarm, F!Loses
  <2>9. \A x \in Site : Newest(x)' = Newest(x)
    BY <2>1 DEF Newest
  <2> QED  BY <2>1, <2>2, <2>3, <2>6, <2>7, <2>8, <2>9 DEF FleetInv
<1>3. CASE F!BuildTwins
  <2>1. UNCHANGED <<time, telemetry, commands, alarms, state, lost>>
    BY <1>3 DEF F!BuildTwins
  <2>3. \A x \in Site : Newest(x)' = Newest(x)
    BY <2>1 DEF Newest
  <2>2. /\ pc' \in {"assets", "health", "commands"}
        /\ DOMAIN twin' \subseteq Site /\ twin' = [d \in DOMAIN twin' |-> twin'[d]]
        /\ \A d \in DOMAIN twin' :
              /\ IsTwin(twin'[d])
              /\ pc' \in {"health", "commands"} => twin'[d].command = None
              /\ pc' = "health" => twin'[d].health = "UNKNOWN"
    <3>1. CASE F!ReadAssets
      BY <3>1 DEF F!ReadAssets, F!Registered, IsTwin, Site
    <3>2. CASE F!ReadHealth
      BY <3>2 DEF F!ReadHealth, IsTwin, FleetInv
    <3>3. CASE F!HealthFails
      BY <3>3 DEF F!HealthFails, FleetInv
    <3>4. CASE F!ReadCommands
      BY <3>4 DEF F!ReadCommands, IsTwin, FleetInv
    <3> QED  BY <1>3, <3>1, <3>2, <3>3, <3>4 DEF F!BuildTwins
  <2> QED  BY <2>1, <2>2, <2>3 DEF FleetInv
<1>4. CASE F!Tick \/ UNCHANGED fleet
  <2>1. UNCHANGED <<telemetry, commands, alarms, state, lost, pc, twin>> /\ time' \in Nat
    BY <1>0, <1>4 DEF F!Tick, fleet
  <2>2. \A x \in Site : Newest(x)' = Newest(x)
    BY <2>1 DEF Newest
  <2> QED  BY <2>1, <2>2 DEF FleetInv
<1> QED  BY <1>1, <1>2, <1>3, <1>4 DEF F!Next, Site

(* What the dashboard reads was so when it read it.                          *)
THEOREM FleetInvariance == Spec => []FleetInv
<1>1. Init => FleetInv
  <2>1. ASSUME Init PROVE FleetInv
    <3>1. F!Init
      BY <2>1 DEF Init
    <3> QED  BY <3>1 DEF F!Init, F!NoState, Newest, FleetInv, IsState, IsTwin, Site, Row, AlarmRow
  <2> QED  BY <2>1
<1>2. FleetInv /\ [Next]_<<part, accounts, devices, cutover, cim, fleet, copilot, voltvar>> => FleetInv'
  BY ServicesAssumption, FleetStep DEF Next, Accounts, Onboarding, Cutover, Cim, Fleet, Copilot, VoltVar
<1> QED  BY <1>1, <1>2, PTL DEF Spec

(* The dashboard, put together from three calls while the fleet goes on,     *)
(* shows the last command there is at that time, and calls no device OK that *)
(* had no reading while a state is fresh or has an alarm not cleared.        *)
THEOREM DashboardGoesForwardHolds == Spec => DashboardGoesForward
<1>1. ASSUME FleetInv, F!Next PROVE F!GoesForward
  <2>1. ASSUME NEW d \in DOMAIN twin \cap DOMAIN twin', pc = "commands", twin'[d].command # None,
               NEW i \in DOMAIN commands, commands[i].device = d
        PROVE  i <= twin'[d].command
    <3>1. d \in Site /\ twin[d].command = None /\ IsTwin(twin[d])
      BY <1>1, <2>1 DEF FleetInv
    <3>2. twin' # twin
      BY <2>1, <3>1
    <3>3. F!ReadCommands
      BY <1>1, <2>1, <3>2 DEF F!Next, F!Register, F!Ingest, F!Command, F!Alarm, F!Loses, F!Tick, F!BuildTwins,
                              F!ReadAssets, F!ReadHealth, F!HealthFails
    <3>4. twin'[d].command = F!LastCommand(d)
      BY <2>1, <3>1, <3>3 DEF F!ReadCommands, IsTwin
    <3> QED  BY <1>1, <2>1, <3>1, <3>4, CommandIs
  <2>2. ASSUME NEW d \in DOMAIN twin \cap DOMAIN twin', pc = "health", twin'[d].health = "OK"
        PROVE  /\ \E i \in DOMAIN telemetry[d] : telemetry[d][i].time >= time - 1
               /\ \A i \in DOMAIN alarms : alarms[i].device = d =>
                     \E j \in DOMAIN alarms : j >= i /\ alarms[j] = [device |-> d, severity |-> "OK"]
    <3>1. d \in Site /\ twin[d].health = "UNKNOWN" /\ IsTwin(twin[d])
      BY <1>1, <2>2 DEF FleetInv
    <3>2. twin' # twin
      BY <2>2, <3>1
    <3>3. F!ReadHealth
      BY <1>1, <2>2, <3>2 DEF F!Next, F!Register, F!Ingest, F!Command, F!Alarm, F!Loses, F!Tick, F!BuildTwins,
                              F!ReadAssets, F!ReadCommands, F!HealthFails
    <3>4. twin'[d].health = F!_evaluate_health(d)
      BY <2>2, <3>1, <3>3 DEF F!ReadHealth, IsTwin
    <3> QED  BY <1>1, <2>2, <3>1, <3>4, ServicesAssumption, HealthIs
  <2> QED  BY <2>1, <2>2 DEF F!GoesForward
<1>2. FleetInv /\ [Next]_<<part, accounts, devices, cutover, cim, fleet, copilot, voltvar>>
         => [part = "fleet" => F!GoesForward]_fleet
  BY <1>1 DEF Next, Accounts, Onboarding, Cutover, Cim, Fleet, Copilot, VoltVar
<1> QED  BY <1>2, FleetInvariance, PTL DEF Spec, DashboardGoesForward

(* The state in Redis and the rows in Postgres tell the same of a device, as *)
(* long as no state was lost: what the recommendations say of its charge,    *)
(* and when it was seen.                                                     *)
THEOREM StateIsNewestHolds == Spec => [](part = "fleet" => F!StateIsNewest)
<1>1. ASSUME FleetInv PROVE F!StateIsNewest
  <2>1. SUFFICES ASSUME ~lost PROVE F!StateIsNewest
    BY DEF F!StateIsNewest
  <2>2. \A d \in F!Registered : d \in Site
    BY DEF F!Registered, Site
  <2>3. ASSUME NEW d \in Site
        PROVE  /\ state[d].last_seen = IF telemetry[d] = << >> THEN None ELSE F!Last(telemetry[d]).time
               /\ F!ChargeOf(d) = IF telemetry[d] = << >> THEN None ELSE F!Last(telemetry[d]).soc
    <3>1. state[d] = Newest(d)
      BY <1>1, <2>1 DEF FleetInv
    <3> QED  BY <3>1 DEF Newest, F!NoState, F!ChargeOf, F!Last
  <2>4. ASSUME NEW d \in F!Registered \cap {"battery"}
        PROVE  (<<d, "soc_low">> \in F!recommendations) <=> telemetry[d] # << >> /\ F!Last(telemetry[d]).soc < 30
    <3>1. (<<d, "soc_low">> \in F!recommendations) <=> F!LowCharge(d)
      BY DEF F!recommendations
    <3>2. F!LowCharge(d) <=> F!ChargeOf(d) # None /\ F!ChargeOf(d) < 30
      BY DEF F!LowCharge
    <3>3. telemetry[d] # << >> => F!Last(telemetry[d]).soc # None
      <4>1. telemetry[d] \in Seq(Row)
        BY <1>1, <2>2, <2>4 DEF FleetInv
      <4>2. telemetry[d] # << >> => telemetry[d][Len(telemetry[d])] \in Row
        BY <4>1
      <4>3. None \notin 0 .. 100
        BY <1>1, ServicesAssumption DEF ServicesAssumption, F!FleetAssumption
      <4> QED  BY <4>2, <4>3 DEF Row, F!Last
    <3> QED  BY <2>2, <2>3, <2>4, <3>1, <3>2, <3>3
  <2>5. ASSUME NEW d \in F!Registered PROVE F!reports_summary.latest[d] = state[d].last_seen
    <3>1. F!reports_summary.latest[d] = IF telemetry[d] = << >> THEN None ELSE F!Last(telemetry[d]).time
      BY DEF F!reports_summary
    <3> QED  BY <2>2, <2>3, <2>5, <3>1
  <2> QED  BY <2>4, <2>5 DEF F!StateIsNewest
<1> QED  BY <1>1, FleetInvariance, PTL

-----------------------------------------------------------------------------
(* The views of the fleet.  They count and add up; so first, induction over  *)
(* numbers and over finite sets, and sums.                                   *)

LEMMA Induction ==
    ASSUME NEW S, 0 \in S, \A n \in Nat : n \in S => n + 1 \in S
    PROVE  \A n \in Nat : n \in S
<1> DEFINE others == Nat \ S
<1>1. SUFFICES ASSUME others # {} PROVE FALSE
  OBVIOUS
<1>2. PICK m \in others : \A y \in others : m <= y
  BY <1>1, Smallest
<1>3. m # 0 /\ m - 1 \in Nat /\ m - 1 \in S
  BY <1>2
<1>4. (m - 1) + 1 \in S
  BY <1>3
<1> QED  BY <1>2, <1>4

(* What holds of a set when it holds of every set with fewer members.        *)
LEMMA SizeInduction ==
    ASSUME NEW S, IsFiniteSet(S), NEW Good,
           \A s \in SUBSET S : (\A t \in SUBSET S : Cardinality(t) < Cardinality(s) => t \in Good) => s \in Good
    PROVE  \A s \in SUBSET S : s \in Good
<1> DEFINE sizes == {k \in Nat : \A s \in SUBSET S : Cardinality(s) < k => s \in Good}
<1>1. \A s \in SUBSET S : Cardinality(s) \in Nat
  BY FS_Subset, FS_CardinalityType
<1>2. 0 \in sizes
  BY <1>1
<1>3. ASSUME NEW k \in Nat, k \in sizes PROVE k + 1 \in sizes
  <2>1. SUFFICES ASSUME NEW s \in SUBSET S, Cardinality(s) < k + 1 PROVE s \in Good
    OBVIOUS
  <2>2. \A t \in SUBSET S : Cardinality(t) < Cardinality(s) => t \in Good
    BY <1>1, <1>3, <2>1
  <2> QED  BY <2>2
<1>4. \A k \in Nat : k \in sizes
  <2> HIDE DEF sizes
  <2> QED  BY <1>2, <1>3, Induction
<1>5. ASSUME NEW s \in SUBSET S PROVE s \in Good
  <2>1. Cardinality(s) + 1 \in sizes /\ Cardinality(s) < Cardinality(s) + 1
    BY <1>1, <1>4
  <2> QED  BY <2>1
<1> QED  BY <1>5

(* What holds of the empty set, and of a set when it holds of the set        *)
(* without some member of it.                                                *)
LEMMA SetInduction ==
    ASSUME NEW S, IsFiniteSet(S), NEW Good, {} \in Good,
           \A s \in SUBSET S : s # {} => \E x \in s : s \ {x} \in Good => s \in Good
    PROVE  S \in Good
<1>1. ASSUME NEW s \in SUBSET S, \A t \in SUBSET S : Cardinality(t) < Cardinality(s) => t \in Good
      PROVE  s \in Good
  <2>1. CASE s = {}
    BY <2>1
  <2>2. CASE s # {}
    <3>1. PICK x \in s : s \ {x} \in Good => s \in Good
      BY <2>2
    <3>2. IsFiniteSet(s) /\ Cardinality(s) \in Nat
      BY FS_Subset, FS_CardinalityType
    <3>3. s \ {x} \in SUBSET S /\ Cardinality(s \ {x}) < Cardinality(s)
      <4>1. x \in s
        BY <3>1
      <4>2. Cardinality(s \ {x}) = Cardinality(s) - 1
        BY <3>2, <4>1, FS_RemoveElement
      <4> QED  BY <3>2, <4>2
    <3>4. s \ {x} \in Good
      BY <1>1, <3>3
    <3> QED  BY <3>1, <3>4
  <2> QED  BY <2>1, <2>2
<1>2. \A s \in SUBSET S : s \in Good
  BY <1>1, SizeInduction
<1> QED  BY <1>2

(* The sum of what val gives for the members of S.                           *)
Sum(val, S) == F!SumFunctionOnSet(val, S)

\* The member of a set with which its sum goes on.
One(S) == CHOOSE x \in S : TRUE

\* Adds up what val gives for S and its subsets.
Adds(iter, val, S) ==
    iter = [s \in SUBSET S |-> IF s = {} THEN 0 ELSE val[One(s)] + iter[s \ {One(s)}]]

LEMMA SumAdds ==
    ASSUME NEW S, NEW val, \E iter : Adds(iter, val, S)
    PROVE  \E iter : Adds(iter, val, S) /\ Sum(val, S) = iter[S]
<1> DEFINE g == CHOOSE iter : Adds(iter, val, S)
<1>1. Adds(g, val, S)
  OBVIOUS
<1>2. Sum(val, S) = g[S]
  BY DEF Sum, F!SumFunctionOnSet, F!FoldFunctionOnSet, F!MapThenFoldSet, Adds, One
<1> QED  BY <1>1, <1>2

LEMMA SumExists ==
    ASSUME NEW S, IsFiniteSet(S), NEW val, \A x \in S : val[x] \in Int
    PROVE  \E iter : iter \in [SUBSET S -> Int] /\ Adds(iter, val, S)
<1> DEFINE upto(k) == {s \in SUBSET S : Cardinality(s) <= k}
           Is(g, k) == /\ g \in [upto(k) -> Int]
                       /\ \A s \in upto(k) : g[s] = IF s = {} THEN 0 ELSE val[One(s)] + g[s \ {One(s)}]
           known == {k \in Nat : \E g : Is(g, k)}
<1>1. \A s \in SUBSET S : IsFiniteSet(s) /\ Cardinality(s) \in Nat
  BY FS_Subset, FS_CardinalityType
<1>2. \A s \in SUBSET S : s # {} => One(s) \in s /\ val[One(s)] \in Int
  BY DEF One
<1>3. ASSUME NEW k \in Nat, NEW s \in upto(k + 1), s # {}
      PROVE  s \ {One(s)} \in upto(k)
  <2>1. Cardinality(s \ {One(s)}) = Cardinality(s) - 1
    BY <1>1, <1>2, <1>3, FS_RemoveElement
  <2> QED  BY <1>1, <1>3, <2>1
<1>4. \A s \in upto(0) : s = {}
  BY <1>1, FS_EmptySet
<1>5. 0 \in known
  <2> DEFINE g == [s \in upto(0) |-> 0]
  <2>1. g \in [upto(0) -> Int]
    OBVIOUS
  <2>2. \A s \in upto(0) : g[s] = 0
    OBVIOUS
  <2>3. Is(g, 0)
    <3> HIDE DEF g, upto
    <3> QED  BY <1>4, <2>1, <2>2
  <2> QED  BY <2>3
<1>6. \A k \in Nat : \A s \in upto(k) : s \in upto(k + 1) /\ s \in SUBSET S
  BY <1>1
<1> HIDE DEF upto
<1>7. ASSUME NEW k \in Nat, k \in known PROVE k + 1 \in known
  <2>1. PICK g : Is(g, k)
    BY <1>7
  <2> DEFINE h == [s \in upto(k + 1) |-> IF s = {} THEN 0 ELSE val[One(s)] + g[s \ {One(s)}]]
  <2>2. ASSUME NEW s \in upto(k + 1), s # {} PROVE s \ {One(s)} \in upto(k) /\ g[s \ {One(s)}] \in Int /\ val[One(s)] \in Int
    <3>1. s \in SUBSET S
      BY DEF upto
    <3> QED  BY <1>2, <1>3, <2>1, <2>2, <3>1
  <2>3. h \in [upto(k + 1) -> Int]
    BY <2>2
  <2>4. \A s \in upto(k) : h[s] = g[s]
    BY <1>6, <2>1
  <2>5. \A s \in upto(k + 1) : h[s] = IF s = {} THEN 0 ELSE val[One(s)] + g[s \ {One(s)}]
    OBVIOUS
  <2> HIDE DEF h
  <2>6. Is(h, k + 1)
    BY <2>2, <2>3, <2>4, <2>5
  <2> QED  BY <2>6
<1>8. \A k \in Nat : k \in known
  <2> HIDE DEF known
  <2> QED  BY <1>5, <1>7, Induction
<1>9. Cardinality(S) \in Nat /\ upto(Cardinality(S)) = SUBSET S
  <2>1. \A s \in SUBSET S : Cardinality(s) <= Cardinality(S)
    BY FS_Subset
  <2>2. Cardinality(S) \in Nat
    BY FS_CardinalityType
  <2> QED  BY <2>1, <2>2 DEF upto
<1>10. PICK g : Is(g, Cardinality(S))
  BY <1>8, <1>9
<1>11. g \in [SUBSET S -> Int] /\ \A s \in SUBSET S : g[s] = IF s = {} THEN 0 ELSE val[One(s)] + g[s \ {One(s)}]
  BY <1>9, <1>10
<1>12. Adds(g, val, S)
  BY <1>11 DEF Adds
<1> QED  BY <1>11, <1>12

(* A sum may be taken in any order.                                          *)
LEMMA SumAnyOrder ==
    ASSUME NEW S, IsFiniteSet(S), NEW val, \A x \in S : val[x] \in Int
    PROVE  /\ Sum(val, {}) = 0
           /\ Sum(val, S) \in Int
           /\ \A x \in S : Sum(val, S) = val[x] + Sum(val, S \ {x})
<1>1. PICK iter : iter \in [SUBSET S -> Int] /\ Adds(iter, val, S)
  BY SumExists
<1>2. \A s \in SUBSET S : iter[s] \in Int /\ iter[s] = IF s = {} THEN 0 ELSE val[One(s)] + iter[s \ {One(s)}]
  BY <1>1 DEF Adds
<1>3. \A s \in SUBSET S : s # {} => One(s) \in s
  BY DEF One
<1>4. \A s \in SUBSET S : IsFiniteSet(s) /\ Cardinality(s) \in Nat
  BY FS_Subset, FS_CardinalityType
<1> DEFINE Good == {s \in SUBSET S : \A x \in s : iter[s] = val[x] + iter[s \ {x}]}
<1>5. ASSUME NEW s \in SUBSET S, \A t \in SUBSET S : Cardinality(t) < Cardinality(s) => t \in Good
      PROVE  s \in Good
  <2>1. SUFFICES ASSUME NEW x \in s PROVE iter[s] = val[x] + iter[s \ {x}]
    OBVIOUS
  <2> DEFINE o == One(s)
  <2>2. o \in s /\ iter[s] = val[o] + iter[s \ {o}]
    BY <1>2, <1>3
  <2> HIDE DEF o
  <2>3. CASE x = o
    BY <2>2, <2>3
  <2>4. CASE x # o
    <3>1. Cardinality(s \ {x}) < Cardinality(s) /\ Cardinality(s \ {o}) < Cardinality(s)
      BY <1>4, <2>2, FS_RemoveElement
    <3>2. s \ {x} \in Good /\ s \ {o} \in Good
      BY <1>5, <3>1
    <3>3. (s \ {x}) \ {o} = (s \ {o}) \ {x}
      OBVIOUS
    <3>4. iter[s \ {x}] = val[o] + iter[(s \ {o}) \ {x}] /\ iter[s \ {o}] = val[x] + iter[(s \ {o}) \ {x}]
      BY <2>2, <2>4, <3>2, <3>3
    <3>5. val[x] \in Int /\ val[o] \in Int /\ iter[(s \ {o}) \ {x}] \in Int
      BY <1>2, <2>2
    <3> QED  BY <2>2, <3>4, <3>5
  <2> QED  BY <2>3, <2>4
<1>6. \A s \in SUBSET S : s \in Good
  <2> HIDE DEF Good
  <2> QED  BY <1>5, SizeInduction
<1>7. ASSUME NEW T \in SUBSET S PROVE Sum(val, T) = iter[T]
  <2>1. IsFiniteSet(T) /\ \A x \in T : val[x] \in Int
    BY <1>4
  <2>2. PICK other : Adds(other, val, T) /\ Sum(val, T) = other[T]
    BY <2>1, SumExists, SumAdds
  <2>3. \A s \in SUBSET T : other[s] = IF s = {} THEN 0 ELSE val[One(s)] + other[s \ {One(s)}]
    BY <2>2 DEF Adds
  <2> DEFINE Same == {s \in SUBSET T : other[s] = iter[s]}
  <2>4. {} \in Same
    BY <1>2, <2>3
  <2>5. ASSUME NEW s \in SUBSET T, s # {} PROVE \E x \in s : s \ {x} \in Same => s \in Same
    <3>1. s \in SUBSET S /\ One(s) \in s
      BY <1>3, <2>5
    <3>2. s \ {One(s)} \in Same => s \in Same
      BY <1>2, <2>3, <2>5, <3>1
    <3> QED  BY <3>1, <3>2
  <2>6. T \in Same
    <3> HIDE DEF Same
    <3> QED  BY <2>1, <2>4, <2>5, SetInduction
  <2> QED  BY <2>2, <2>6
<1>8. Sum(val, {}) = 0 /\ Sum(val, S) \in Int
  BY <1>2, <1>7
<1>9. ASSUME NEW x \in S PROVE Sum(val, S) = val[x] + Sum(val, S \ {x})
  BY <1>6, <1>7
<1> QED  BY <1>8, <1>9

(* The sum of f + c * g is the sum of f and c times that of g.               *)
LEMMA SumIsLinear ==
    ASSUME NEW S, IsFiniteSet(S), NEW f, NEW g, NEW h, NEW c \in Int,
           \A x \in S : f[x] \in Int /\ g[x] \in Int /\ h[x] = f[x] + c * g[x]
    PROVE  Sum(f, S) \in Int /\ Sum(g, S) \in Int /\ Sum(h, S) = Sum(f, S) + c * Sum(g, S)
<1> DEFINE Good == {s \in SUBSET S : Sum(h, s) = Sum(f, s) + c * Sum(g, s)}
<1>1. \A s \in SUBSET S : IsFiniteSet(s)
  BY FS_Subset
<1>2. \A x \in S : h[x] \in Int
  OBVIOUS
<1>3. {} \in Good
  BY <1>1, SumAnyOrder
<1>4. ASSUME NEW s \in SUBSET S, s # {} PROVE \E x \in s : s \ {x} \in Good => s \in Good
  <2>1. PICK x \in s : TRUE
    BY <1>4
  <2>2. /\ Sum(f, s) = f[x] + Sum(f, s \ {x})
        /\ Sum(g, s) = g[x] + Sum(g, s \ {x})
        /\ Sum(h, s) = h[x] + Sum(h, s \ {x})
    BY <1>1, <1>2, <2>1, SumAnyOrder
  <2>3. Sum(f, s \ {x}) \in Int /\ Sum(g, s \ {x}) \in Int /\ f[x] \in Int /\ g[x] \in Int
    <3>1. IsFiniteSet(s \ {x}) /\ \A y \in s \ {x} : f[y] \in Int /\ g[y] \in Int
      BY <1>1
    <3> QED  BY <2>1, <3>1, SumAnyOrder
  <2>4. ASSUME s \ {x} \in Good PROVE s \in Good
    <3> DEFINE a == Sum(f, s \ {x})
               b == Sum(g, s \ {x})
    <3>1. Sum(h, s) = (f[x] + c * g[x]) + (a + c * b)
      BY <2>1, <2>2, <2>4
    <3>2. a \in Int /\ b \in Int
      BY <2>3
    <3> HIDE DEF a, b
    <3>3. (f[x] + c * g[x]) + (a + c * b) = (f[x] + a) + c * (g[x] + b)
      BY <2>3, <3>2
    <3> QED  BY <2>2, <3>1, <3>3 DEF a, b
  <2> QED  BY <2>1, <2>4
<1>5. S \in Good
  <2> HIDE DEF Good
  <2> QED  BY <1>3, <1>4, SetInduction
<1> QED  BY <1>5, SumAnyOrder

(* Of functions that agree, the sums do.                                     *)
LEMMA SumIsSame ==
    ASSUME NEW S, IsFiniteSet(S), NEW f, NEW h, \A x \in S : f[x] \in Int /\ h[x] = f[x]
    PROVE  Sum(h, S) = Sum(f, S) /\ Sum(f, S) \in Int
<1>1. \A x \in S : h[x] = f[x] + 0 * f[x]
  OBVIOUS
<1>2. Sum(f, S) \in Int /\ Sum(h, S) = Sum(f, S) + 0 * Sum(f, S)
  <2>1. \A c \in Int : (\A x \in S : f[x] \in Int /\ h[x] = f[x] + c * f[x])
                       => Sum(f, S) \in Int /\ Sum(h, S) = Sum(f, S) + c * Sum(f, S)
    BY SumIsLinear
  <2>2. 0 \in Int
    OBVIOUS
  <2> QED  BY <1>1, <2>1, <2>2
<1> QED  BY <1>2

(* As often as there are members, when all give the same.                    *)
LEMMA SumOfConstant ==
    ASSUME NEW S, IsFiniteSet(S), NEW c \in Int, NEW f, \A x \in S : f[x] = c
    PROVE  Sum(f, S) = c * Cardinality(S)
<1> DEFINE Good == {s \in SUBSET S : Sum(f, s) = c * Cardinality(s)}
<1>1. \A s \in SUBSET S : IsFiniteSet(s) /\ Cardinality(s) \in Nat
  BY FS_Subset, FS_CardinalityType
<1>2. {} \in Good
  BY FS_EmptySet, SumAnyOrder
<1>3. ASSUME NEW s \in SUBSET S, s # {} PROVE \E x \in s : s \ {x} \in Good => s \in Good
  <2>1. PICK x \in s : TRUE
    BY <1>3
  <2>2. Sum(f, s) = c + Sum(f, s \ {x})
    <3>1. IsFiniteSet(s) /\ \A y \in s : f[y] \in Int
      BY <1>1
    <3>2. Sum(f, s) = f[x] + Sum(f, s \ {x})
      BY <2>1, <3>1, SumAnyOrder
    <3> QED  BY <2>1, <3>2
  <2>3. Cardinality(s \ {x}) = Cardinality(s) - 1
    BY <1>1, <2>1, FS_RemoveElement
  <2>4. ASSUME s \ {x} \in Good PROVE s \in Good
    <3> DEFINE k == Cardinality(s)
    <3>1. Sum(f, s) = c + c * (k - 1) /\ k \in Nat
      BY <1>1, <2>2, <2>3, <2>4
    <3> HIDE DEF k
    <3>2. Sum(f, s) = c * k
      BY <3>1
    <3> QED  BY <3>2 DEF k
  <2> QED  BY <2>1, <2>4
<1>4. S \in Good
  <2> HIDE DEF Good
  <2> QED  BY <1>2, <1>3, SetInduction
<1> QED  BY <1>4

(* The inequality of Cauchy: with n members, the square of a sum is no more  *)
(* than n times the sum of the squares.                                      *)
LEMMA CauchyStep ==
    ASSUME NEW n \in Nat, NEW a \in Int, NEW s \in Int, NEW q \in Int, s * s <= n * q, n = 0 => q = 0
    PROVE  (a + s) * (a + s) <= (n + 1) * (a * a + q)
<1>1. CASE n = 0
  <2>1. s * s <= 0 /\ q = 0
    BY <1>1
  <2>2. s = 0
    BY <2>1
  <2> QED  BY <1>1, <2>1, <2>2
<1>2. CASE n # 0
  <2>1. (n * a - s) * (n * a - s) >= 0
    <3> DEFINE d == n * a - s
    <3>1. d \in Int
      OBVIOUS
    <3> HIDE DEF d
    <3>2. d * d >= 0
      BY <3>1
    <3> QED  BY <3>2 DEF d
  <2>2. (n * a - s) * (n * a - s) = n * (n * (a * a)) - n * (2 * (a * s)) + s * s
    OBVIOUS
  <2>3. n * (2 * (a * s)) <= n * (n * (a * a)) + n * q
    BY <2>1, <2>2
  <2>4. n * (n * (a * a)) + n * q = n * (n * (a * a) + q)
    OBVIOUS
  <2> DEFINE l == 2 * (a * s)
             r == n * (a * a) + q
  <2>5. l \in Int /\ r \in Int /\ n * l <= n * r
    BY <2>3, <2>4
  <2>6. l <= r
    <3> HIDE DEF l, r
    <3> QED  BY <1>2, <2>5
  <2>7. (a + s) * (a + s) = a * a + l + s * s
    OBVIOUS
  <2>8. (n + 1) * (a * a + q) = a * a + r + n * q
    OBVIOUS
  <2> QED  BY <2>5, <2>6, <2>7, <2>8
<1> QED  BY <1>1, <1>2

LEMMA Cauchy ==
    ASSUME NEW S, IsFiniteSet(S), NEW f, NEW sq, \A x \in S : f[x] \in Int /\ sq[x] = f[x] * f[x]
    PROVE  Sum(f, S) * Sum(f, S) <= Cardinality(S) * Sum(sq, S)
<1> DEFINE Good == {s \in SUBSET S : Sum(f, s) * Sum(f, s) <= Cardinality(s) * Sum(sq, s)}
<1>1. \A s \in SUBSET S : IsFiniteSet(s) /\ Cardinality(s) \in Nat
  BY FS_Subset, FS_CardinalityType
<1>2. \A x \in S : sq[x] \in Int
  OBVIOUS
<1>3. {} \in Good
  BY FS_EmptySet, SumAnyOrder
<1>4. ASSUME NEW s \in SUBSET S, s # {} PROVE \E x \in s : s \ {x} \in Good => s \in Good
  <2>1. PICK x \in s : TRUE
    BY <1>4
  <2> DEFINE t == s \ {x}
  <2>2. Sum(f, s) = f[x] + Sum(f, t) /\ Sum(sq, s) = f[x] * f[x] + Sum(sq, t)
    <3>1. IsFiniteSet(s) /\ \A y \in s : f[y] \in Int /\ sq[y] \in Int
      BY <1>1, <1>2
    <3>2. Sum(f, s) = f[x] + Sum(f, s \ {x}) /\ Sum(sq, s) = sq[x] + Sum(sq, s \ {x})
      BY <2>1, <3>1, SumAnyOrder
    <3> QED  BY <2>1, <3>2
  <2>3. IsFiniteSet(t) /\ Cardinality(t) \in Nat /\ Cardinality(s) = Cardinality(t) + 1
    BY <1>1, <2>1, FS_RemoveElement
  <2>4. Sum(f, t) \in Int /\ Sum(sq, t) \in Int /\ f[x] \in Int
    BY <1>2, <2>1, <2>3, SumAnyOrder
  <2>5. Cardinality(t) = 0 => Sum(sq, t) = 0
    BY <1>2, <2>3, FS_EmptySet, SumAnyOrder
  <2>6. t \in Good => s \in Good
    <3> HIDE DEF t
    <3>1. ASSUME t \in Good PROVE Sum(f, t) * Sum(f, t) <= Cardinality(t) * Sum(sq, t)
      BY <3>1
    <3>2. ASSUME t \in Good PROVE (f[x] + Sum(f, t)) * (f[x] + Sum(f, t)) <= (Cardinality(t) + 1) * (f[x] * f[x] + Sum(sq, t))
      BY <2>3, <2>4, <2>5, <3>1, <3>2, CauchyStep
    <3> QED  BY <2>2, <2>3, <3>2
  <2> QED  BY <2>1, <2>6
<1>5. S \in Good
  <2> HIDE DEF Good
  <2> QED  BY <1>3, <1>4, SetInduction
<1> QED  BY <1>5

\* The members of D for which g is v.
Having(D, g, v) == {i \in D : g[i] = v}

(* What is counted apart adds up to the whole.                               *)
LEMMA CountsAddUp ==
    ASSUME NEW D, IsFiniteSet(D), NEW g,
           NEW Found, \A v : v \in Found <=> \E i \in D : g[i] = v,
           NEW counts, \A v \in Found : counts[v] = Cardinality(Having(D, g, v))
    PROVE  Sum(counts, Found) = Cardinality(D)
<1> DEFINE Part(W) == {i \in D : g[i] \in W}
           Good == {W \in SUBSET Found : Sum(counts, W) = Cardinality(Part(W))}
<1>1. IsFiniteSet(Found)
  <2> DEFINE all == [i \in D |-> g[i]]
  <2>1. all \in Surjection(D, Found)
    BY DEF Surjection
  <2> QED  BY <2>1, FS_Surjection
<1>2. \A W : IsFiniteSet(Part(W)) /\ Cardinality(Part(W)) \in Nat
  BY FS_Subset, FS_CardinalityType
<1>3. \A v \in Found : counts[v] \in Int /\ counts[v] = Cardinality(Part({v}))
  <2>1. ASSUME NEW v \in Found PROVE counts[v] \in Int /\ counts[v] = Cardinality(Part({v}))
    <3>1. Part({v}) = Having(D, g, v)
      BY DEF Having
    <3>2. counts[v] = Cardinality(Part({v}))
      BY <3>1
    <3>3. Cardinality(Part({v})) \in Nat
      BY <1>2
    <3> QED  BY <3>2, <3>3
  <2> QED  BY <2>1
<1>4. {} \in Good
  <2>1. Part({}) = {}
    OBVIOUS
  <2> QED  BY <1>1, <1>3, <2>1, FS_EmptySet, SumAnyOrder
<1>5. ASSUME NEW W \in SUBSET Found, W # {} PROVE \E v \in W : W \ {v} \in Good => W \in Good
  <2>1. PICK v \in W : TRUE
    BY <1>5
  <2>2. Sum(counts, W) = counts[v] + Sum(counts, W \ {v})
    <3>1. IsFiniteSet(W) /\ \A w \in W : counts[w] \in Int
      BY <1>1, <1>3, FS_Subset
    <3> QED  BY <2>1, <3>1, SumAnyOrder
  <2>3. Cardinality(Part(W)) = Cardinality(Part({v})) + Cardinality(Part(W \ {v}))
    <3>1. Part(W) = Part({v}) \cup Part(W \ {v}) /\ Part({v}) \cap Part(W \ {v}) = {}
      BY <2>1
    <3> DEFINE here == Part({v})
               rest == Part(W \ {v})
    <3>2. IsFiniteSet(here) /\ IsFiniteSet(rest) /\ Cardinality(here) \in Nat /\ Cardinality(rest) \in Nat
      BY <1>2
    <3>3. Part(W) = here \cup rest /\ here \cap rest = {}
      BY <3>1
    <3> HIDE DEF here, rest
    <3>4. Cardinality(here \cup rest) = Cardinality(here) + Cardinality(rest)
      <4>1. Cardinality(here \cap rest) = 0
        BY <3>3, FS_EmptySet
      <4>2. Cardinality(here \cup rest) = Cardinality(here) + Cardinality(rest) - Cardinality(here \cap rest)
        BY <3>2, FS_Union
      <4> QED  BY <3>2, <4>1, <4>2
    <3> QED  BY <3>3, <3>4 DEF here, rest
  <2>4. counts[v] = Cardinality(Part({v}))
    BY <1>3, <2>1
  <2> HIDE DEF Part
  <2> QED  BY <1>5, <2>1, <2>2, <2>3, <2>4
<1>6. Found \in Good
  <2> HIDE DEF Good
  <2> QED  BY <1>1, <1>4, <1>5, SetInduction
<1>7. Part(Found) = D
  OBVIOUS
<1> HIDE DEF Part
<1> QED  BY <1>6, <1>7

(* A value that differs from all the others, which are the same, is (n - 1)  *)
(* times their difference off, and the spread is (n - 1) of its squares.     *)
LEMMA OddOneOut ==
    ASSUME NEW n \in Nat, n >= 6, NEW v \in Int, NEW e \in Int, e # 0,
           NEW s \in Int, s = (v + e) + v * (n - 1),
           NEW q \in Int, q = (v + e) * (v + e) + (v * v) * (n - 1)
    PROVE  LET spread == n * q - s * s
               off == n * (v + e) - s
           IN  spread > 0 /\ off * off * (n - 1) > 4 * n * spread
<1> DEFINE m == n - 1
           z == e * e
<1>1. s = n * v + e /\ q = n * (v * v) + 2 * (v * e) + e * e
  OBVIOUS
<1>2. n * (v + e) - s = m * e
  BY <1>1
<1>3. n * q - s * s = m * z
  <2>1. n * q = n * (n * (v * v)) + 2 * (n * (v * e)) + n * (e * e)
    BY <1>1
  <2>2. s * s = n * (n * (v * v)) + 2 * (n * (v * e)) + e * e
    BY <1>1
  <2> QED  BY <2>1, <2>2
<1>4. z \in Int /\ z > 0
  <2>1. e * e > 0
    OBVIOUS
  <2> QED  BY <2>1
<1>5. (m * e) * (m * e) * m = z * (m * m * m)
  OBVIOUS
<1>6. 4 * n * (m * z) = z * (4 * n * m)
  OBVIOUS
<1>7. m * m * m > 4 * n * m
  <2>1. n = m + 1 /\ m \in Nat /\ m >= 5
    OBVIOUS
  <2> HIDE DEF m
  <2>2. m * m >= 5 * m
    BY <2>1
  <2>3. m * m > 4 * n
    BY <2>1, <2>2
  <2>4. m * (m * m - 4 * n) > 0
    <3> DEFINE d == m * m - 4 * n
    <3>1. d \in Int /\ d > 0
      BY <2>1, <2>3
    <3> HIDE DEF d
    <3>2. m * d > 0
      BY <2>1, <3>1
    <3> QED  BY <3>2 DEF d
  <2> QED  BY <2>1, <2>4
<1>8. m * z > 0
  <2>1. m \in Nat /\ m > 0
    OBVIOUS
  <2> HIDE DEF m, z
  <2> QED  BY <1>4, <2>1
<1>9. z * (m * m * m) > z * (4 * n * m)
  <2> DEFINE a == m * m * m
             b == 4 * n * m
  <2>1. a \in Int /\ b \in Int /\ a > b
    BY <1>7
  <2> HIDE DEF a, b, z
  <2>2. z * a > z * b
    BY <1>4, <2>1
  <2> QED  BY <2>2 DEF a, b
<1> QED  BY <1>2, <1>3, <1>5, <1>6, <1>8, <1>9

(* No value is further off than n - 1 times the others spread.               *)
LEMMA NotThatFarOff ==
    ASSUME NEW n \in 1 .. 5, NEW p \in Int, NEW t \in Int, NEW r \in Int, t * t <= (n - 1) * r
    PROVE  LET s == p + t
               q == p * p + r
               spread == n * q - s * s
               off == n * p - s
           IN  ~ (n > 1 /\ spread > 0 /\ off * off * (n - 1) > 4 * n * spread)
<1> DEFINE s == p + t
           q == p * p + r
           spread == n * q - s * s
           off == n * p - s
<1>1. CASE n = 1
  BY <1>1
<1>2. CASE n = 2
  <2>1. off * off = p * p - 2 * (p * t) + t * t /\ spread = p * p - 2 * (p * t) - t * t + 2 * r /\ t * t <= r
    BY <1>2
  <2> QED  BY <1>2, <2>1
<1>3. CASE n = 3
  <2>1. off * off = 4 * (p * p) - 4 * (p * t) + t * t /\ spread = 2 * (p * p) - 2 * (p * t) - t * t + 3 * r /\ t * t <= 2 * r
    BY <1>3
  <2> QED  BY <1>3, <2>1
<1>4. CASE n = 4
  <2>1. off * off = 9 * (p * p) - 6 * (p * t) + t * t /\ spread = 3 * (p * p) - 2 * (p * t) - t * t + 4 * r /\ t * t <= 3 * r
    BY <1>4
  <2> QED  BY <1>4, <2>1
<1>5. CASE n = 5
  <2>1. off * off = 16 * (p * p) - 8 * (p * t) + t * t /\ spread = 4 * (p * p) - 2 * (p * t) - t * t + 5 * r /\ t * t <= 4 * r
    BY <1>5
  <2> QED  BY <1>5, <2>1
<1> QED  BY <1>1, <1>2, <1>3, <1>4, <1>5

(* From the sixth reading on an outlier is told, and none before.            *)
LEMMA Outliers ==
    ASSUME FleetInv, NEW d \in Site
    PROVE  F!OutlierIsTold(d)
<1> DEFINE series == telemetry[d]
           n == Len(series)
           D == 1 .. n
           powers == F!Powers(series)
           squares == [i \in DOMAIN powers |-> powers[i] * powers[i]]
<1>1. series \in Seq(Row)
  BY DEF FleetInv
<1>2. n \in Nat /\ DOMAIN series = D /\ \A i \in D : series[i].power \in Nat
  <2>1. \A i \in DOMAIN series : series[i] \in Row
    BY <1>1
  <2> QED  BY <1>1, <2>1 DEF Row
<1>3. powers = [i \in D |-> series[i].power]
  BY <1>2 DEF F!Powers
<1>4. squares = [i \in D |-> series[i].power * series[i].power]
  BY <1>3
<1>5. \A i \in D : powers[i] = series[i].power /\ powers[i] \in Int /\ squares[i] = powers[i] * powers[i] /\ squares[i] \in Int
  BY <1>2, <1>3, <1>4
<1>6. F!SumFunction(powers) = Sum(powers, D) /\ F!SumFunction(squares) = Sum(squares, D)
  BY <1>3, <1>4 DEF F!SumFunction, Sum
<1>7. Len(powers) = n
  BY <1>2, <1>3
<1>8. ASSUME NEW row
      PROVE  F!Deviates(series, row) <=>
                LET spread == n * Sum(squares, D) - Sum(powers, D) * Sum(powers, D)
                    off == n * row.power - Sum(powers, D)
                IN n > 1 /\ spread > 0 /\ off * off * (n - 1) > 4 * n * spread
  BY <1>6, <1>7 DEF F!Deviates, F!Spread, F!Off
<1> HIDE DEF powers, squares
<1>9. IsFiniteSet(D) /\ Cardinality(D) = n
  BY <1>2, FS_Interval
<1>10. ASSUME NEW i \in D
       PROVE  LET others == D \ {i} IN
              /\ IsFiniteSet(others) /\ Cardinality(others) = n - 1
              /\ Sum(powers, others) \in Int /\ Sum(squares, others) \in Int
              /\ Sum(powers, D) = series[i].power + Sum(powers, others)
              /\ Sum(squares, D) = series[i].power * series[i].power + Sum(squares, others)
  <2>1. IsFiniteSet(D \ {i}) /\ Cardinality(D \ {i}) = n - 1
    BY <1>9, FS_RemoveElement
  <2>2. Sum(powers, D \ {i}) \in Int /\ Sum(squares, D \ {i}) \in Int
    BY <1>5, <2>1, SumAnyOrder
  <2>3. Sum(powers, D) = powers[i] + Sum(powers, D \ {i}) /\ Sum(squares, D) = squares[i] + Sum(squares, D \ {i})
    BY <1>5, <1>9, SumAnyOrder
  <2> QED  BY <1>5, <2>1, <2>2, <2>3
<1>11. ASSUME NEW i \in D, n >= 6,
              \A j, k \in D \ {i} : series[j].power = series[k].power /\ series[i].power # series[j].power
       PROVE  F!Deviates(series, series[i])
  <2> DEFINE others == D \ {i}
             p == series[i].power
  <2>1. PICK j \in D : j # i
    <3>1. 1 \in D /\ 2 \in D
      BY <1>2, <1>11
    <3> QED  BY <3>1
  <2> DEFINE v == series[j].power
             e == p - v
  <2>2. \A k \in others : powers[k] = v /\ squares[k] = v * v
    BY <1>5, <1>11, <2>1
  <2>3. v \in Int /\ p \in Int /\ e \in Int /\ e # 0 /\ p = v + e
    BY <1>2, <1>11, <2>1
  <2> HIDE DEF v, p, e, others
  <2>4. v * v \in Int
    BY <2>3
  <2>5. IsFiniteSet(others) /\ Cardinality(others) = n - 1
    BY <1>10 DEF others
  <2>6. Sum(powers, others) = v * (n - 1)
    BY <2>2, <2>3, <2>5, SumOfConstant
  <2>7. Sum(squares, others) = (v * v) * (n - 1)
    BY <2>2, <2>4, <2>5, SumOfConstant
  <2>8. Sum(powers, D) = (v + e) + v * (n - 1) /\ Sum(squares, D) = (v + e) * (v + e) + (v * v) * (n - 1)
    BY <1>10, <2>3, <2>6, <2>7 DEF others, p
  <2> DEFINE s == Sum(powers, D)
             q == Sum(squares, D)
  <2>9. s \in Int /\ q \in Int
    BY <1>5, <1>9, SumAnyOrder
  <2> HIDE DEF s, q
  <2>10. s = (v + e) + v * (n - 1) /\ q = (v + e) * (v + e) + (v * v) * (n - 1)
    BY <2>8 DEF s, q
  <2>11. n * q - s * s > 0 /\ (n * (v + e) - s) * (n * (v + e) - s) * (n - 1) > 4 * n * (n * q - s * s)
    <3> HIDE DEF n
    <3> QED  BY <1>2, <1>11, <2>3, <2>9, <2>10, OddOneOut
  <2>12. series[i].power = v + e /\ n > 1
    BY <1>2, <1>11, <2>3 DEF p
  <2> HIDE DEF n
  <2> QED  BY <1>8, <2>11, <2>12 DEF s, q
<1>12. ASSUME NEW i \in D, n < 6 PROVE ~F!Deviates(series, series[i])
  <2> DEFINE others == D \ {i}
             p == series[i].power
             t == Sum(powers, others)
             r == Sum(squares, others)
  <2>1. IsFiniteSet(others) /\ Cardinality(others) = n - 1 /\ t \in Int /\ r \in Int
        /\ Sum(powers, D) = p + t /\ Sum(squares, D) = p * p + r
    BY <1>10
  <2>2. p \in Int /\ n \in 1 .. 5
    <3>1. p \in Nat
      BY <1>2
    <3>2. n \in Nat /\ i \in 1 .. n /\ n < 6
      BY <1>2, <1>12
    <3> HIDE DEF n, p
    <3> QED  BY <3>1, <3>2
  <2>3. t * t <= (n - 1) * r
    <3>1. \A j \in others : powers[j] \in Int /\ squares[j] = powers[j] * powers[j]
      BY <1>5
    <3> HIDE DEF others
    <3> QED  BY <2>1, <3>1, Cauchy
  <2> HIDE DEF t, r, p, n
  <2>4. LET s == p + t
            q == p * p + r
            spread == n * q - s * s
            off == n * p - s
        IN  ~ (n > 1 /\ spread > 0 /\ off * off * (n - 1) > 4 * n * spread)
    BY <2>1, <2>2, <2>3, NotThatFarOff
  <2> QED  BY <1>8, <2>1, <2>4 DEF p
<1> QED  BY <1>2, <1>11, <1>12 DEF F!OutlierIsTold

(* Values on a line: their trend is the line's.                              *)
LEMMA TrendOfLine ==
    ASSUME NEW n \in Nat, NEW values \in [1 .. n -> Int], NEW a \in Int, NEW step \in Int,
           \A i \in 1 .. n : values[i] = a + step * i
    PROVE  /\ F!_compute_trend(values).run \in Int
           /\ F!_compute_trend(values).run >= 0
           /\ F!_compute_trend(values).rise = step * F!_compute_trend(values).run
<1> DEFINE D == 1 .. n
           xs == [i \in D |-> i]
           squares == [i \in D |-> xs[i] * xs[i]]
           products == [i \in D |-> i * values[i]]
           level == [i \in D |-> a]
           none == [i \in D |-> 0]
           scaled == [i \in D |-> a * i]
           X == Sum(xs, D)
           Squares == Sum(squares, D)
<1>1. DOMAIN values = D /\ Len(values) = n /\ Len(xs) = n
  OBVIOUS
<1>2. F!_compute_trend(values) = [rise |-> n * Sum(products, D) - X * Sum(values, D), run |-> n * Squares - X * X]
  BY <1>1 DEF F!_compute_trend, F!Spread, F!SumFunction, Sum
<1>3. IsFiniteSet(D) /\ Cardinality(D) = n
  BY FS_Interval
<1>4. \A i \in D : /\ xs[i] = i /\ xs[i] \in Int /\ squares[i] = i * i /\ squares[i] \in Int
                   /\ squares[i] = xs[i] * xs[i]
                   /\ level[i] = a /\ none[i] = 0 /\ scaled[i] = a * i
                   /\ level[i] \in Int /\ none[i] \in Int /\ scaled[i] \in Int
  OBVIOUS
<1>5. \A i \in D : values[i] = level[i] + step * xs[i] /\ scaled[i] = none[i] + a * xs[i]
  BY <1>4
<1>6. \A i \in D : products[i] = scaled[i] + step * squares[i]
  <2>1. ASSUME NEW i \in D PROVE i * values[i] = a * i + step * (i * i)
    <3>1. i \in Int /\ values[i] = a + step * i
      OBVIOUS
    <3>2. i * (a + step * i) = a * i + step * (i * i)
      BY <3>1
    <3> QED  BY <3>1, <3>2
  <2> QED  BY <1>4, <2>1
<1> HIDE DEF D, xs, squares, products, level, none, scaled
<1>7. Sum(values, D) = Sum(level, D) + step * X /\ X \in Int
  <2>1. \A i \in D : level[i] \in Int /\ xs[i] \in Int /\ values[i] = level[i] + step * xs[i]
    BY <1>4, <1>5
  <2> QED  BY <1>3, <2>1, SumIsLinear
<1>8. Sum(level, D) = a * n
  BY <1>3, <1>4, SumOfConstant
<1>9. Sum(scaled, D) = Sum(none, D) + a * X /\ Sum(none, D) \in Int
  <2>1. \A i \in D : none[i] \in Int /\ xs[i] \in Int /\ scaled[i] = none[i] + a * xs[i]
    BY <1>4, <1>5
  <2> QED  BY <1>3, <2>1, SumIsLinear
<1>10. Sum(none, D) = 0
  <2>1. 0 \in Int
    OBVIOUS
  <2>2. Sum(none, D) = 0 * Cardinality(D)
    BY <1>3, <1>4, <2>1, SumOfConstant
  <2> QED  BY <1>3, <2>2
<1>11. Sum(products, D) = Sum(scaled, D) + step * Squares /\ Squares \in Int
  BY <1>3, <1>4, <1>6, SumIsLinear
<1>12. X * X <= n * Squares
  BY <1>3, <1>4, Cauchy
<1> HIDE DEF X, Squares
<1>13. Sum(products, D) = a * X + step * Squares /\ Sum(values, D) = a * n + step * X
  BY <1>7, <1>8, <1>9, <1>10, <1>11
<1>14. n * (a * X + step * Squares) - X * (a * n + step * X) = step * (n * Squares - X * X)
  BY <1>7, <1>11
<1>15. n * Squares - X * X \in Int /\ n * Squares - X * X >= 0
  BY <1>7, <1>11, <1>12
<1> QED  BY <1>2, <1>13, <1>14, <1>15

LEMMA Lines ==
    ASSUME FleetInv, NEW d \in Site
    PROVE  F!LineIsForecast(d)
<1> DEFINE powers == F!Powers(telemetry[d])
           n == Len(telemetry[d])
           step == IF Len(powers) < 2 THEN 0 ELSE powers[2] - powers[1]
           next == F!Last(powers) + step
           point == F!_forecast_series(powers, 1)
<1>1. SUFFICES ASSUME powers # << >>, \A i \in 2 .. Len(powers) : powers[i] - powers[i - 1] = step
               PROVE  point[1] = point[2] * (IF next < 0 THEN 0 ELSE next)
  BY DEF F!LineIsForecast
<1>2. n \in Nat /\ powers \in [1 .. n -> Nat] /\ Len(powers) = n
  <2>1. telemetry[d] \in Seq(Row)
    BY DEF FleetInv
  <2>2. \A i \in DOMAIN telemetry[d] : telemetry[d][i] \in Row
    BY <2>1
  <2>3. DOMAIN telemetry[d] = 1 .. n /\ n \in Nat
    BY <2>1
  <2> QED  BY <2>2, <2>3 DEF F!Powers, Row
<1> HIDE DEF powers, n
<1>3. n > 0
  <2>1. powers \in Seq(Nat)
    BY <1>2
  <2> QED  BY <1>1, <1>2, <2>1
<1>4. F!Last(powers) = powers[n] /\ powers[n] \in Nat
  BY <1>2, <1>3 DEF F!Last
<1>5. CASE n = 1
  <2>1. point = <<F!Last(powers), 1>> /\ step = 0
    BY <1>1, <1>2, <1>5 DEF F!_forecast_series
  <2> QED  BY <1>4, <2>1
<1>6. CASE n >= 2
  <2> DEFINE a == powers[1] - step
             trend == F!_compute_trend(powers)
  <2>1. step = powers[2] - powers[1] /\ powers[1] \in Nat /\ powers[2] \in Nat
    BY <1>2, <1>6
  <2>2. step \in Int /\ a \in Int
    BY <2>1
  <2>3. \A i \in 2 .. n : powers[i] = powers[i - 1] + step
    <3>1. ASSUME NEW i \in 2 .. n PROVE powers[i] = powers[i - 1] + step
      <4>1. powers[i] - powers[i - 1] = step
        BY <1>1, <1>2
      <4>2. powers[i] \in Nat /\ powers[i - 1] \in Nat
        BY <1>2
      <4> HIDE DEF step
      <4> QED  BY <2>2, <4>1, <4>2
    <3> QED  BY <3>1
  <2> HIDE DEF step
  <2> DEFINE known == {k \in Nat : k + 1 <= n => powers[k + 1] = powers[1] + step * k}
  <2>4. 0 \in known
    BY <2>1, <2>2
  <2>5. ASSUME NEW k \in Nat, k \in known PROVE k + 1 \in known
    <3>1. SUFFICES ASSUME (k + 1) + 1 <= n PROVE powers[(k + 1) + 1] = powers[1] + step * (k + 1)
      OBVIOUS
    <3>2. powers[k + 1] = powers[1] + step * k
      BY <1>2, <2>5, <3>1
    <3>3. powers[(k + 1) + 1] = powers[k + 1] + step
      <4>1. k + 2 \in 2 .. n /\ (k + 2) - 1 = k + 1 /\ (k + 1) + 1 = k + 2
        BY <1>2, <3>1
      <4>2. powers[k + 2] = powers[(k + 2) - 1] + step
        BY <2>3, <4>1
      <4> QED  BY <4>1, <4>2
    <3> QED  BY <2>1, <2>2, <3>2, <3>3
  <2>6. \A k \in Nat : k \in known
    <3> HIDE DEF known
    <3> QED  BY <2>4, <2>5, Induction
  <2>7. \A i \in 1 .. n : powers[i] = a + step * i
    <3>1. ASSUME NEW i \in 1 .. n PROVE powers[i] = a + step * i
      <4>1. i - 1 \in Nat /\ (i - 1) + 1 = i /\ i <= n
        BY <1>2
      <4>2. i - 1 \in known
        BY <2>6, <4>1
      <4>3. powers[i] = powers[1] + step * (i - 1)
        BY <4>1, <4>2
      <4> QED  BY <2>1, <2>2, <4>3
    <3> QED  BY <3>1
  <2>8. trend.run \in Int /\ trend.run >= 0 /\ trend.rise = step * trend.run
    <3>1. powers \in [1 .. n -> Int]
      BY <1>2
    <3> HIDE DEF a
    <3> QED  BY <1>2, <2>2, <2>7, <3>1, TrendOfLine
  <2> DEFINE top == trend.run * F!Last(powers) + trend.rise * 1
  <2>9. point = <<IF top < 0 THEN 0 ELSE top, trend.run>>
    BY <1>1, <1>2, <1>6 DEF F!_forecast_series
  <2> DEFINE r == trend.run
  <2>10. r \in Int /\ r >= 0 /\ top = r * powers[n] + step * r * 1 /\ next = powers[n] + step
    BY <1>4, <2>8
  <2>11. point[1] = (IF top < 0 THEN 0 ELSE top) /\ point[2] = r
    BY <2>9
  <2> HIDE DEF r, point, next, top
  <2>12. next \in Int /\ top = r * next
    BY <1>4, <2>2, <2>10
  <2>13. CASE next < 0
    <3>1. r * next <= 0
      BY <2>10, <2>12, <2>13
    <3> QED  BY <2>10, <2>11, <2>12, <2>13, <3>1
  <2>14. CASE next >= 0
    <3>1. r * next >= 0
      BY <2>10, <2>12, <2>14
    <3> QED  BY <2>10, <2>11, <2>12, <2>14, <3>1
  <2> QED  BY <2>12, <2>13, <2>14
<1> QED  BY <1>2, <1>3, <1>5, <1>6

LEMMA FSizeIs == \A S : F!Cardinality(S) = Cardinality(S)
  BY Zenon DEF F!Cardinality, Cardinality

(* Everything that is counted for the report and the overviews adds up.      *)
LEMMA ViewsAddUp ==
    ASSUME ServicesAssumption, FleetInv
    PROVE  /\ F!SumFunction(F!reports_summary.commands) = Len(commands)
           /\ LET view == F!fleet_overview IN
              /\ view.total = F!Cardinality({d \in F!Registered : registry[d].site = None}) + F!SumFunction(view.by_site)
              /\ \A s \in {"site"} :
                    F!sites_overview[s].asset_count = IF s \in DOMAIN view.by_site THEN view.by_site[s] ELSE 0
<1>1. F!SumFunction(F!reports_summary.commands) = Len(commands)
  <2> DEFINE D == 1 .. Len(commands)
             g == [i \in D |-> commands[i].status]
             Found == {g[i] : i \in D}
             counts == F!reports_summary.commands
  <2>1. DOMAIN commands = D /\ Len(commands) \in Nat
    BY DEF FleetInv
  <2>2. counts = [s \in {commands[i].status : i \in DOMAIN commands} |-> Cardinality({i \in DOMAIN commands : commands[i].status = s})]
    BY FSizeIs DEF F!reports_summary
  <2>3. Found = {commands[i].status : i \in DOMAIN commands}
    BY <2>1
  <2>4. DOMAIN counts = Found
    BY <2>2, <2>3
  <2>5. ASSUME NEW v \in Found PROVE counts[v] = Cardinality(Having(D, g, v))
    <3>1. Having(D, g, v) = {i \in DOMAIN commands : commands[i].status = v}
      BY <2>1 DEF Having
    <3> QED  BY <2>2, <2>3, <2>5, <3>1
  <2>6. IsFiniteSet(D) /\ Cardinality(D) = Len(commands)
    <3> DEFINE n == Len(commands)
    <3>1. n \in Nat
      BY <2>1
    <3> HIDE DEF n
    <3>2. IsFiniteSet(1 .. n) /\ Cardinality(1 .. n) = n
      BY <3>1, FS_Interval
    <3> QED  BY <3>2 DEF n
  <2> HIDE DEF D, g, counts
  <2>7. Sum(counts, Found) = Cardinality(D)
    <3>1. \A v : v \in Found <=> \E i \in D : g[i] = v
      OBVIOUS
    <3>2. IsFiniteSet(D)
      BY <2>6
    <3>3. \A v \in Found : counts[v] = Cardinality(Having(D, g, v))
      BY <2>5
    <3> HIDE DEF Found
    <3> QED  BY <3>1, <3>2, <3>3, CountsAddUp
  <2> QED  BY <2>4, <2>6, <2>7 DEF F!SumFunction, Sum, counts
<1> DEFINE view == F!fleet_overview
           D == {d \in F!Registered : registry[d].site # None}
           g == [d \in D |-> registry[d].site]
           Found == {g[d] : d \in D}
           counts == view.by_site
           nowhere == {d \in F!Registered : registry[d].site = None}
<1>2. IsFiniteSet(F!Registered) /\ IsFiniteSet(D) /\ IsFiniteSet(nowhere)
  <2>1. IsFiniteSet({"battery", "meter"})
    <3>1. IsFiniteSet({"battery"} \cup {"meter"})
      BY FS_Singleton, FS_Union
    <3>2. {"battery"} \cup {"meter"} = {"battery", "meter"}
      OBVIOUS
    <3> QED  BY <3>1, <3>2
  <2>2. F!Registered \in SUBSET {"battery", "meter"}
    BY DEF F!Registered
  <2>3. IsFiniteSet(F!Registered)
    BY <2>1, <2>2, FS_Subset
  <2>4. D \in SUBSET F!Registered /\ nowhere \in SUBSET F!Registered
    OBVIOUS
  <2> QED  BY <2>3, <2>4, FS_Subset
<1>3. view.total = Cardinality(F!Registered)
      /\ counts = [s \in {registry[d].site : d \in F!Registered} \ {None} |->
                     Cardinality({d \in F!Registered : registry[d].site = s})]
  BY FSizeIs DEF F!fleet_overview
<1>4. Found = {registry[d].site : d \in F!Registered} \ {None}
  OBVIOUS
<1>5. DOMAIN counts = Found
  BY <1>3, <1>4
<1>6. ASSUME NEW v \in Found PROVE counts[v] = Cardinality(Having(D, g, v))
  <2>1. Having(D, g, v) = {d \in F!Registered : registry[d].site = v}
    BY DEF Having
  <2> QED  BY <1>3, <1>4, <1>6, <2>1
<1>7. F!SumFunction(counts) = Cardinality(D)
  <2> HIDE DEF D, g, counts
  <2>1. Sum(counts, Found) = Cardinality(D)
    <3>1. \A v : v \in Found <=> \E d \in D : g[d] = v
      OBVIOUS
    <3>2. IsFiniteSet(D)
      BY <1>2
    <3>3. \A v \in Found : counts[v] = Cardinality(Having(D, g, v))
      BY <1>6
    <3> HIDE DEF Found
    <3> QED  BY <3>1, <3>2, <3>3, CountsAddUp
  <2> QED  BY <1>5, <2>1 DEF F!SumFunction, Sum
<1>8. Cardinality(F!Registered) = Cardinality(nowhere) + Cardinality(D)
  <2>1. F!Registered = nowhere \cup D /\ nowhere \cap D = {}
    OBVIOUS
  <2> HIDE DEF nowhere, D
  <2>2. Cardinality(nowhere) \in Nat /\ Cardinality(D) \in Nat /\ Cardinality(nowhere \cap D) = 0
    BY <1>2, <2>1, FS_CardinalityType, FS_EmptySet
  <2>3. Cardinality(nowhere \cup D) = Cardinality(nowhere) + Cardinality(D) - Cardinality(nowhere \cap D)
    BY <1>2, FS_Union
  <2> QED  BY <2>1, <2>2, <2>3
<1>9. ASSUME NEW s \in {"site"}
      PROVE  F!sites_overview[s].asset_count = IF s \in DOMAIN counts THEN counts[s] ELSE 0
  <2> DEFINE here == {d \in F!Registered : registry[d].site = s}
  <2>1. F!sites_overview[s].asset_count = Cardinality(here)
    BY <1>9, FSizeIs DEF F!sites_overview
  <2>2. s # None
    BY <1>9 DEF ServicesAssumption, F!FleetAssumption
  <2>3. CASE here = {}
    <3>1. s \notin DOMAIN counts
      BY <1>4, <1>5, <2>3
    <3> QED  BY <2>1, <2>3, <3>1, FS_EmptySet
  <2>4. CASE here # {}
    <3>1. s \in Found
      BY <1>4, <2>2, <2>4
    <3> QED  BY <1>3, <1>4, <1>5, <2>1, <3>1
  <2> QED  BY <2>3, <2>4
<1>10. view.total = Cardinality(nowhere) + F!SumFunction(counts)
  BY <1>3, <1>7, <1>8
<1> QED  BY <1>1, <1>9, <1>10, FSizeIs

-----------------------------------------------------------------------------
(* What to worry about first.                                                *)

LEMMA QSizeIs == \A S : Q!Cardinality(S) = Cardinality(S)
  BY Zenon DEF Q!Cardinality, Cardinality

LEMMA QFiniteIs == \A S : Q!IsFiniteSet(S) <=> IsFiniteSet(S)
  BY Zenon DEF Q!IsFiniteSet, IsFiniteSet

(* R puts the members of S in a row.                                         *)
Orders(R, S) ==
    /\ \A x \in S : <<x, x>> \notin R
    /\ \A x, y \in S : x # y => <<x, y>> \in R \/ <<y, x>> \in R
    /\ \A x, y, z \in S : <<x, y>> \in R /\ <<y, z>> \in R => <<x, z>> \in R

Sorted(f, n, R) == \A i, j \in 1 .. n : i < j => <<f[i], f[j]>> \in R

LEMMA LastInRow ==
    ASSUME NEW S, IsFiniteSet(S), NEW R, Orders(R, S), S # {}
    PROVE  \E m \in S : \A x \in S \ {m} : <<x, m>> \in R
<1> DEFINE HasLast(s) == s = {} \/ \E m \in s : \A x \in s \ {m} : <<x, m>> \in R
           Good == {s \in SUBSET S : HasLast(s)}
<1>1. {} \in Good
  OBVIOUS
<1>2. ASSUME NEW s \in SUBSET S, s # {} PROVE \E x \in s : s \ {x} \in Good => s \in Good
  <2>1. PICK x \in s : TRUE
    BY <1>2
  <2>2. ASSUME HasLast(s \ {x}) PROVE HasLast(s)
    <3>1. CASE s \ {x} = {}
      <4>1. \A y \in s \ {x} : <<y, x>> \in R
        BY <3>1
      <4> QED  BY <2>1, <4>1
    <3>2. CASE s \ {x} # {}
      <4>1. PICK m \in s \ {x} : \A y \in (s \ {x}) \ {m} : <<y, m>> \in R
        BY <2>2, <3>2
      <4>2. m \in S /\ x \in S /\ m # x
        BY <2>1, <4>1
      <4>3. <<m, x>> \in R \/ <<x, m>> \in R
        BY <4>2 DEF Orders
      <4>4. CASE <<x, m>> \in R
        <5>1. \A y \in s \ {m} : <<y, m>> \in R
          BY <4>1, <4>4
        <5> QED  BY <4>1, <5>1
      <4>5. CASE <<m, x>> \in R
        <5>1. ASSUME NEW y \in s \ {x} PROVE <<y, x>> \in R
          <6>1. CASE y = m
            BY <4>5, <6>1
          <6>2. CASE y # m
            <7>1. <<y, m>> \in R /\ y \in S
              BY <4>1, <6>2
            <7> QED  BY <4>2, <4>5, <7>1 DEF Orders
          <6> QED  BY <6>1, <6>2
        <5> QED  BY <2>1, <5>1
      <4> QED  BY <4>3, <4>4, <4>5
    <3> QED  BY <3>1, <3>2
  <2> HIDE DEF HasLast
  <2> QED  BY <1>2, <2>1, <2>2
<1>3. S \in Good
  <2> HIDE DEF Good
  <2> QED  BY <1>1, <1>2, SetInduction
<1> QED  BY <1>3

(* There is such a row, and every one has all members.                       *)
LEMMA RowExists ==
    ASSUME NEW S, IsFiniteSet(S), NEW R, Orders(R, S)
    PROVE  \E f \in [1 .. Cardinality(S) -> S] : Sorted(f, Cardinality(S), R)
<1> DEFINE HasRow(s) == \E f \in [1 .. Cardinality(s) -> s] : Sorted(f, Cardinality(s), R)
           Good == {s \in SUBSET S : HasRow(s)}
<1>1. {} \in Good
  <2> DEFINE f == [i \in 1 .. 0 |-> 0]
  <2>1. Cardinality({}) = 0
    BY FS_EmptySet
  <2>2. f \in [1 .. 0 -> {}] /\ Sorted(f, 0, R)
    BY DEF Sorted
  <2> QED  BY <2>1, <2>2
<1>2. ASSUME NEW s \in SUBSET S, s # {} PROVE \E x \in s : s \ {x} \in Good => s \in Good
  <2>1. IsFiniteSet(s) /\ Orders(R, s)
    BY FS_Subset DEF Orders
  <2>2. PICK m \in s : \A x \in s \ {m} : <<x, m>> \in R
    BY <1>2, <2>1, LastInRow
  <2> DEFINE t == s \ {m}
             n == Cardinality(t)
  <2>3. n \in Nat /\ Cardinality(s) = n + 1
    <3>1. IsFiniteSet(t) /\ Cardinality(t) = Cardinality(s) - 1
      BY <2>1, <2>2, FS_RemoveElement
    <3>2. Cardinality(t) \in Nat /\ Cardinality(s) \in Nat
      BY <2>1, <3>1, FS_CardinalityType
    <3> QED  BY <3>1, <3>2
  <2>4. ASSUME HasRow(t) PROVE HasRow(s)
    <3>1. PICK f \in [1 .. n -> t] : Sorted(f, n, R)
      BY <2>4
    <3> DEFINE g == [i \in 1 .. n + 1 |-> IF i = n + 1 THEN m ELSE f[i]]
    <3> HIDE DEF n
    <3>2. \A i \in 1 .. n + 1 : i # n + 1 => i \in 1 .. n
      BY <2>3
    <3>3. g \in [1 .. n + 1 -> s]
      BY <2>2, <3>1, <3>2
    <3>4. ASSUME NEW i \in 1 .. n + 1, NEW j \in 1 .. n + 1, i < j PROVE <<g[i], g[j]>> \in R
      <4>1. i # n + 1 /\ i \in 1 .. n
        BY <2>3, <3>4
      <4>2. g[i] = f[i] /\ f[i] \in t
        BY <3>1, <4>1
      <4>3. CASE j = n + 1
        BY <2>2, <4>2, <4>3
      <4>4. CASE j # n + 1
        <5>1. j \in 1 .. n /\ g[j] = f[j]
          BY <3>2, <4>4
        <5> QED  BY <3>1, <3>4, <4>1, <4>2, <5>1 DEF Sorted
      <4> QED  BY <4>3, <4>4
    <3>5. Sorted(g, n + 1, R)
      BY <3>4 DEF Sorted
    <3> HIDE DEF g
    <3> QED  BY <2>3, <3>3, <3>5
  <2> HIDE DEF HasRow
  <2> QED  BY <1>2, <2>2, <2>4
<1>3. S \in Good
  <2> HIDE DEF Good
  <2> QED  BY <1>1, <1>2, SetInduction
<1> QED  BY <1>3

LEMMA RowHasAll ==
    ASSUME NEW S, IsFiniteSet(S), NEW R, Orders(R, S),
           NEW f \in [1 .. Cardinality(S) -> S], Sorted(f, Cardinality(S), R)
    PROVE  \A x \in S : \E i \in 1 .. Cardinality(S) : f[i] = x
<1> DEFINE n == Cardinality(S)
<1>1. n \in Nat
  BY FS_CardinalityType
<1> HIDE DEF n
<1>2. f \in [1 .. n -> S] /\ Sorted(f, n, R)
  BY DEF n
<1>3. ASSUME NEW i \in 1 .. n, NEW j \in 1 .. n, f[i] = f[j] PROVE i = j
  <2>1. f[i] \in S /\ <<f[i], f[i]>> \notin R
    BY <1>2 DEF Orders
  <2>2. ~ (i < j) /\ ~ (j < i)
    BY <1>2, <1>3, <2>1 DEF Sorted
  <2> QED  BY <1>1, <2>2
<1>4. f \in Injection(1 .. n, S)
  BY <1>2, <1>3 DEF Injection, IsInjective
<1>5. IsFiniteSet(1 .. n) /\ Cardinality(1 .. n) = n
  BY <1>1, FS_Interval
<1>6. f \in Surjection(1 .. n, S)
  BY <1>4, <1>5, FS_Injection DEF n
<1> QED  BY <1>6 DEF Surjection, n

-----------------------------------------------------------------------------

Health == [health : {"OFFLINE", "DEGRADED", "OK", "UNKNOWN"}, critical : BOOLEAN, fresh : {"yes", "no", "unknown"}]

Rank(x) == << ~x.critical, x.health # "OFFLINE", x.health # "DEGRADED", x.fresh # "no" >>

\* One is worse than the other by the first thing in which they differ, or by its name.
WorseThan(x, y, d, e) ==
    LET differ == {k \in 1 .. 4 : Rank(x)[k] # Rank(y)[k]}
    IN IF differ = {} THEN d < e ELSE ~Rank(x)[CHOOSE k \in differ : \A j \in differ : k <= j]

(* The scores put first what is worse.                                       *)
LEMMA ScoresRank ==
    ASSUME NEW x \in Health, NEW y \in Health, NEW d, NEW e
    PROVE  WorseThan(x, y, d, e) <=> (Q!Score(x) > Q!Score(y) \/ (Q!Score(x) = Q!Score(y) /\ d < e))
<1> DEFINE differ == {k \in 1 .. 4 : Rank(x)[k] # Rank(y)[k]}
           first == CHOOSE k \in differ : \A j \in differ : k <= j
<1>1. /\ x.critical \in BOOLEAN /\ x.health \in {"OFFLINE", "DEGRADED", "OK", "UNKNOWN"}
      /\ y.critical \in BOOLEAN /\ y.health \in {"OFFLINE", "DEGRADED", "OK", "UNKNOWN"}
  BY DEF Health
<1>2. /\ Rank(x)[1] = ~x.critical /\ Rank(x)[2] = (x.health # "OFFLINE")
      /\ Rank(x)[3] = (x.health # "DEGRADED") /\ Rank(x)[4] = (x.fresh # "no")
      /\ Rank(y)[1] = ~y.critical /\ Rank(y)[2] = (y.health # "OFFLINE")
      /\ Rank(y)[3] = (y.health # "DEGRADED") /\ Rank(y)[4] = (y.fresh # "no")
  BY DEF Rank
<1>3. /\ Q!Score(x) = (IF x.critical THEN 1000 ELSE 0)
                      + (IF x.health = "OFFLINE" THEN 500 ELSE IF x.health = "DEGRADED" THEN 200 ELSE 0)
                      + (IF x.fresh = "no" THEN 50 ELSE 0)
      /\ Q!Score(y) = (IF y.critical THEN 1000 ELSE 0)
                      + (IF y.health = "OFFLINE" THEN 500 ELSE IF y.health = "DEGRADED" THEN 200 ELSE 0)
                      + (IF y.fresh = "no" THEN 50 ELSE 0)
  BY <1>1 DEF Q!Score
<1> HIDE DEF differ
<1>4. \A k \in 1 .. 4 : k \in differ <=> Rank(x)[k] # Rank(y)[k]
  BY DEF differ
<1>5. \A k \in differ : k \in 1 .. 4
  BY DEF differ
<1>6. ASSUME NEW k \in differ, \A j \in differ : k <= j PROVE first = k
  <2>1. first \in differ /\ \A j \in differ : first <= j
    BY <1>6
  <2>2. first <= k /\ k <= first
    BY <1>6, <2>1
  <2> QED  BY <1>5, <2>1, <2>2
<1> HIDE DEF first
<1>7. WorseThan(x, y, d, e) <=> IF differ = {} THEN d < e ELSE ~Rank(x)[first]
  BY DEF WorseThan, differ, first
<1>8. CASE 1 \in differ
  <2>1. first = 1 /\ differ # {}
    BY <1>5, <1>6, <1>8
  <2>2. WorseThan(x, y, d, e) <=> x.critical
    <3>1. WorseThan(x, y, d, e) <=> ~Rank(x)[1]
      BY <1>7, <2>1
    <3> QED  BY <1>1, <1>2, <3>1
  <2>3. (x.critical) # (y.critical)
    BY <1>1, <1>2, <1>4, <1>8
  <2>4. IF x.critical THEN Q!Score(x) > Q!Score(y) ELSE Q!Score(x) < Q!Score(y)
    BY <1>1, <1>3, <2>3
  <2>5. Q!Score(x) \in Int /\ Q!Score(y) \in Int
    BY <1>1, <1>3
  <2> QED  BY <2>2, <2>4, <2>5
<1>9. CASE 1 \notin differ /\ 2 \in differ
  <2>1. first = 2 /\ differ # {}
    BY <1>5, <1>6, <1>9
  <2>2. WorseThan(x, y, d, e) <=> x.health = "OFFLINE"
    <3>1. WorseThan(x, y, d, e) <=> ~Rank(x)[2]
      BY <1>7, <2>1
    <3> QED  BY <1>1, <1>2, <3>1
  <2>3. x.critical = y.critical /\ (x.health = "OFFLINE") # (y.health = "OFFLINE")
    BY <1>1, <1>2, <1>4, <1>9
  <2>4. IF x.health = "OFFLINE" THEN Q!Score(x) > Q!Score(y) ELSE Q!Score(x) < Q!Score(y)
    BY <1>1, <1>3, <2>3
  <2>5. Q!Score(x) \in Int /\ Q!Score(y) \in Int
    BY <1>1, <1>3
  <2> QED  BY <2>2, <2>4, <2>5
<1>10. CASE 1 \notin differ /\ 2 \notin differ /\ 3 \in differ
  <2>1. first = 3 /\ differ # {}
    BY <1>5, <1>6, <1>10
  <2>2. WorseThan(x, y, d, e) <=> x.health = "DEGRADED"
    <3>1. WorseThan(x, y, d, e) <=> ~Rank(x)[3]
      BY <1>7, <2>1
    <3> QED  BY <1>1, <1>2, <3>1
  <2>3. x.critical = y.critical /\ (x.health = "OFFLINE") = (y.health = "OFFLINE") /\ (x.health = "DEGRADED") # (y.health = "DEGRADED")
    BY <1>1, <1>2, <1>4, <1>10
  <2>4. IF x.health = "DEGRADED" THEN Q!Score(x) > Q!Score(y) ELSE Q!Score(x) < Q!Score(y)
    BY <1>1, <1>3, <2>3
  <2>5. Q!Score(x) \in Int /\ Q!Score(y) \in Int
    BY <1>1, <1>3
  <2> QED  BY <2>2, <2>4, <2>5
<1>11. CASE 1 \notin differ /\ 2 \notin differ /\ 3 \notin differ /\ 4 \in differ
  <2>1. first = 4 /\ differ # {}
    BY <1>5, <1>6, <1>11
  <2>2. WorseThan(x, y, d, e) <=> x.fresh = "no"
    <3>1. WorseThan(x, y, d, e) <=> ~Rank(x)[4]
      BY <1>7, <2>1
    <3> QED  BY <1>1, <1>2, <3>1
  <2>3. x.critical = y.critical /\ (x.health = "OFFLINE") = (y.health = "OFFLINE") /\ (x.health = "DEGRADED") = (y.health = "DEGRADED") /\ (x.fresh = "no") # (y.fresh = "no")
    BY <1>1, <1>2, <1>4, <1>11
  <2>4. IF x.fresh = "no" THEN Q!Score(x) > Q!Score(y) ELSE Q!Score(x) < Q!Score(y)
    BY <1>1, <1>3, <2>3
  <2>5. Q!Score(x) \in Int /\ Q!Score(y) \in Int
    BY <1>1, <1>3
  <2> QED  BY <2>2, <2>4, <2>5
<1>12. CASE 1 \notin differ /\ 2 \notin differ /\ 3 \notin differ /\ 4 \notin differ
  <2>1. differ = {}
    BY <1>5, <1>12
  <2>2. /\ x.critical = y.critical /\ (x.health = "OFFLINE") = (y.health = "OFFLINE")
        /\ (x.health = "DEGRADED") = (y.health = "DEGRADED") /\ (x.fresh = "no") = (y.fresh = "no")
    BY <1>1, <1>2, <1>4, <1>12
  <2>3. Q!Score(x) = Q!Score(y) /\ Q!Score(x) \in Int
    BY <1>1, <1>3, <2>2
  <2> QED  BY <1>7, <2>1, <2>3
<1> QED  BY <1>8, <1>9, <1>10, <1>11, <1>12

(* The list of concerns is in the order of its docstring, and what is cut    *)
(* off is no worse.                                                          *)
LEMMA ConcernsInOrder ==
    ASSUME ServicesAssumption
    PROVE  Q!WorstComesFirst
<1>1. SUFFICES ASSUME NEW known \in [Watched -> Q!AllSignals]
      PROVE  LET h == Q!evaluate_health_bulk(known)
                 rank(x) == << ~h[x].critical, h[x].health # "OFFLINE", h[x].health # "DEGRADED", h[x].fresh # "no" >>
                 Worse(d, e) ==
                    LET differ == {k \in 1 .. 4 : rank(d)[k] # rank(e)[k]}
                    IN IF differ = {} THEN d < e ELSE ~rank(d)[CHOOSE k \in differ : \A j \in differ : k <= j]
                 top == Q!get_top_concerns(h)
             IN /\ \A i \in 2 .. Len(top) : Worse(top[i - 1], top[i])
                /\ \A d \in Watched \ Q!ToSet(top) : Len(top) = TopN /\ \A i \in DOMAIN top : Worse(top[i], d)
  BY DEF Q!WorstComesFirst
<1> DEFINE h == Q!evaluate_health_bulk(known)
           n == Cardinality(Watched)
           Worse(d, e) == WorseThan(h[d], h[e], d, e)
           Before(d, e) == Q!Score(h[d]) > Q!Score(h[e]) \/ (Q!Score(h[d]) = Q!Score(h[e]) /\ d < e)
           R == {p \in Watched \X Watched : Before(p[1], p[2])}
           row == CHOOSE list \in [1 .. n -> Watched] : \A i, j \in DOMAIN list : i < j => Before(list[i], list[j])
           top == Q!get_top_concerns(h)
<1>2. IsFiniteSet(Watched) /\ Watched \subseteq Nat /\ TopN \in Nat
  BY QFiniteIs DEF ServicesAssumption, Q!CopilotAssumption
<1>3. n \in Nat
  BY <1>2, FS_CardinalityType
<1>4. DOMAIN h = Watched /\ \A d \in Watched : h[d] \in Health
  <2>1. ASSUME NEW d \in Watched PROVE h[d] \in Health
    <3>1. known[d] \in Q!AllSignals
      OBVIOUS
    <3>2. /\ known[d].status \in {"ONLINE", "OFFLINE", "DEGRADED", "UNKNOWN"}
          /\ known[d].fresh \in {"yes", "no", "unknown"} /\ known[d].critical \in BOOLEAN
      BY <3>1 DEF Q!AllSignals
    <3>3. Q!evaluate_health_for_device(known[d]) \in {"OFFLINE", "DEGRADED", "OK", "UNKNOWN"}
      BY <3>2 DEF Q!evaluate_health_for_device
    <3>4. h[d] = [health |-> Q!evaluate_health_for_device(known[d]), critical |-> known[d].critical, fresh |-> known[d].fresh]
      BY DEF Q!evaluate_health_bulk
    <3> HIDE DEF h
    <3> QED  BY <3>2, <3>3, <3>4 DEF Health
  <2> QED  BY <2>1 DEF Q!evaluate_health_bulk
<1>5. \A d, e \in Watched : Worse(d, e) <=> Before(d, e)
  <2> HIDE DEF h
  <2> QED  BY <1>4, ScoresRank
<1>6. \A d \in Watched : Q!Score(h[d]) \in Nat
  <2>1. ASSUME NEW x \in Health PROVE Q!Score(x) \in Nat
    BY DEF Health, Q!Score
  <2> HIDE DEF h
  <2> QED  BY <1>4, <2>1
<1>7. \A d, e \in Watched : <<d, e>> \in R <=> Before(d, e)
  OBVIOUS
<1> HIDE DEF R
<1>8. Orders(R, Watched)
  <2> HIDE DEF h
  <2>1. \A d \in Watched : ~Before(d, d)
    BY <1>2, <1>6
  <2>2. \A d, e \in Watched : d # e => Before(d, e) \/ Before(e, d)
    BY <1>2, <1>6
  <2>3. \A d, e, f \in Watched : Before(d, e) /\ Before(e, f) => Before(d, f)
    BY <1>2, <1>6
  <2> HIDE DEF Before
  <2> QED  BY <1>7, <2>1, <2>2, <2>3 DEF Orders
<1>9. row \in [1 .. n -> Watched] /\ \A i, j \in 1 .. n : i < j => Before(row[i], row[j])
  <2>1. PICK f \in [1 .. n -> Watched] : Sorted(f, n, R)
    BY <1>2, <1>8, RowExists
  <2> HIDE DEF n, Before
  <2>2. \A i, j \in DOMAIN f : i < j => Before(f[i], f[j])
    <3>1. DOMAIN f = 1 .. n /\ \A i \in 1 .. n : f[i] \in Watched
      OBVIOUS
    <3> QED  BY <1>7, <2>1, <3>1 DEF Sorted
  <2>3. row \in [1 .. n -> Watched] /\ \A i, j \in DOMAIN row : i < j => Before(row[i], row[j])
    BY <2>2
  <2> QED  BY <2>3
<1>10. top = SubSeq(row, 1, IF TopN < Len(row) THEN TopN ELSE Len(row))
  <2>1. DOMAIN h = Watched /\ Q!Cardinality(Watched) = n
    BY <1>4, QSizeIs
  <2> HIDE DEF h, n
  <2>2. row = CHOOSE list \in [1 .. Q!Cardinality(DOMAIN h) -> DOMAIN h] : \A i, j \in DOMAIN list : i < j => Before(list[i], list[j])
    BY <2>1
  <2> HIDE DEF row
  <2> QED  BY <2>2 DEF Q!get_top_concerns
<1> HIDE DEF row, h, n, top
<1>11. \A x \in Watched : \E i \in 1 .. n : row[i] = x
  <2>1. Sorted(row, n, R)
    <3> HIDE DEF Before
    <3>1. \A i \in 1 .. n : row[i] \in Watched
      BY <1>9
    <3> QED  BY <1>7, <1>9, <3>1 DEF Sorted
  <2> QED  BY <1>2, <1>8, <1>9, <2>1, RowHasAll DEF n
<1> DEFINE k == IF TopN < n THEN TopN ELSE n
<1>12. k \in 0 .. n /\ Len(top) = k /\ DOMAIN top = 1 .. k /\ \A i \in 1 .. k : top[i] = row[i]
  <2>1. row \in Seq(Watched) /\ Len(row) = n
    BY <1>3, <1>9
  <2>2. top = SubSeq(row, 1, k) /\ k \in 0 .. n
    BY <1>2, <1>3, <1>10, <2>1
  <2> HIDE DEF k
  <2> QED  BY <1>3, <2>1, <2>2
<1> HIDE DEF Worse, Before
<1>13. ASSUME NEW i \in 2 .. Len(top) PROVE Worse(top[i - 1], top[i])
  <2>1. i - 1 \in 1 .. n /\ i \in 1 .. n /\ i - 1 < i /\ i - 1 \in 1 .. k /\ i \in 1 .. k
    <3> HIDE DEF k
    <3> QED  BY <1>3, <1>12
  <2>2. Before(row[i - 1], row[i]) /\ row[i - 1] \in Watched /\ row[i] \in Watched
    BY <1>9, <2>1
  <2> QED  BY <1>5, <1>12, <2>1, <2>2
<1>14. ASSUME NEW d \in Watched \ Q!ToSet(top) PROVE Len(top) = TopN /\ \A i \in DOMAIN top : Worse(top[i], d)
  <2>1. PICK j \in 1 .. n : row[j] = d
    BY <1>11
  <2>2. \A i \in 1 .. k : top[i] # d
    BY <1>12 DEF Q!ToSet
  <2>3. j \notin 1 .. k
    BY <1>12, <2>1, <2>2
  <2>4. j > k /\ k \in Nat /\ j <= n
    <3> HIDE DEF k
    <3> QED  BY <1>3, <1>12, <2>3
  <2>5. Len(top) = TopN
    BY <1>2, <1>3, <1>12, <2>4
  <2>6. ASSUME NEW i \in 1 .. k PROVE Worse(top[i], d)
    <3>1. i \in 1 .. n /\ i < j
      <4> HIDE DEF k
      <4> QED  BY <1>3, <1>12, <2>4
    <3>2. Before(row[i], d) /\ row[i] \in Watched
      BY <1>9, <2>1, <3>1
    <3> QED  BY <1>5, <1>12, <3>2
  <2> QED  BY <1>12, <2>5, <2>6
<1> QED  BY <1>13, <1>14 DEF Worse, WorseThan, Rank, h, top

(* The views of the fleet agree with the tables and with each other,         *)
(* whatever happened to the fleet: the state of a device is its newest       *)
(* reading, the counts of a report and of an overview add up, an outlier is  *)
(* told from the sixth reading on, a line is forecast; and the copilot lists *)
(* the worst of its concerns first.                                          *)
THEOREM ViewsAgreeHolds == Spec => []ViewsAgree
<1>1. ASSUME FleetInv PROVE (part = "fleet" => F!StateIsNewest) => ViewsAgree
  <2>1. ASSUME part = "fleet", F!StateIsNewest PROVE F!ViewsAgree
    BY <1>1, <2>1, ServicesAssumption, ViewsAddUp, Outliers, Lines DEF F!ViewsAgree, Site
  <2>2. Q!WorstComesFirst
    BY ServicesAssumption, ConcernsInOrder
  <2> QED  BY <2>1, <2>2 DEF ViewsAgree
<1> QED  BY <1>1, FleetInvariance, StateIsNewestHolds, PTL

-----------------------------------------------------------------------------
(* The CIM export. First, facts about lists.                                 *)

LEMMA ISizeIs == \A S : I!Cardinality(S) = Cardinality(S)
  BY Zenon DEF I!Cardinality, Cardinality

\* Every member of S is in the list, once.
Listing(list, S) ==
    /\ list \in Seq(S)
    /\ \A x \in S : \E i \in DOMAIN list : list[i] = x
    /\ \A i, j \in DOMAIN list : list[i] = list[j] => i = j

(* A finite set can be put in a list.                                        *)
LEMMA SetIsListed ==
    ASSUME NEW S, IsFiniteSet(S)
    PROVE  Listing(I!SetToSeq(S), S)
<1> DEFINE n == Cardinality(S)
           list == I!SetToSeq(S)
<1>1. n \in Nat /\ ExistsBijection(1 .. n, S)
  BY FS_CardinalityType
<1>2. PICK f \in Bijection(1 .. n, S) : TRUE
  BY <1>1 DEF ExistsBijection
<1>3. f \in [1 .. n -> S] /\ I!IsInjective(f)
  BY <1>2 DEF Bijection, Injection, IsInjective, I!IsInjective
<1>4. list = CHOOSE g \in [1 .. n -> S] : I!IsInjective(g)
  BY ISizeIs DEF I!SetToSeq
<1> HIDE DEF list
<1>5. list \in [1 .. n -> S] /\ I!IsInjective(list)
  BY <1>3, <1>4
<1>6. DOMAIN list = 1 .. n
  BY <1>5
<1>7. \A i, j \in 1 .. n : list[i] = list[j] => i = j
  BY <1>5, <1>6 DEF I!IsInjective
<1> HIDE DEF n
<1>8. list \in Injection(1 .. n, S)
  BY <1>5, <1>7 DEF Injection, IsInjective
<1>9. IsFiniteSet(1 .. n) /\ Cardinality(1 .. n) = n
  BY <1>1, FS_Interval
<1>10. list \in Surjection(1 .. n, S)
  BY <1>8, <1>9, FS_Injection DEF n
<1>11. \A x \in S : \E i \in 1 .. n : list[i] = x
  BY <1>10 DEF Surjection
<1>12. list \in Seq(S)
  BY <1>1, <1>5
<1> QED  BY <1>6, <1>7, <1>11, <1>12 DEF Listing, list

(* Rows can be put in the order of their keys.                               *)
LEMMA RowsInOrder ==
    ASSUME NEW S, IsFiniteSet(S), S \subseteq Nat
    PROVE  Listing(I!InOrder(S), S)
<1> DEFINE n == Cardinality(S)
           R == {p \in S \X S : p[1] < p[2]}
           list == I!InOrder(S)
<1>1. n \in Nat
  BY FS_CardinalityType
<1>2. \A x, y \in S : <<x, y>> \in R <=> x < y
  OBVIOUS
<1>3. Orders(R, S)
  <2> HIDE DEF R
  <2> QED  BY <1>2 DEF Orders
<1>4. PICK f \in [1 .. n -> S] : Sorted(f, n, R)
  BY <1>3, RowExists
<1>5. list = CHOOSE g \in [1 .. n -> S] : \A i, j \in DOMAIN g : i < j => g[i] < g[j]
  BY ISizeIs DEF I!InOrder
<1> HIDE DEF list, n, R
<1>6. \A i, j \in DOMAIN f : i < j => f[i] < f[j]
  <2>1. DOMAIN f = 1 .. n /\ \A i \in 1 .. n : f[i] \in S
    OBVIOUS
  <2> QED  BY <1>2, <1>4, <2>1 DEF Sorted
<1>7. list \in [1 .. n -> S] /\ \A i, j \in DOMAIN list : i < j => list[i] < list[j]
  BY <1>5, <1>6
<1>8. DOMAIN list = 1 .. n /\ \A i \in 1 .. n : list[i] \in S
  BY <1>7
<1>9. Sorted(list, n, R)
  BY <1>2, <1>7, <1>8 DEF Sorted
<1>10. \A x \in S : \E i \in 1 .. n : list[i] = x
  BY <1>3, <1>7, <1>9, RowHasAll DEF n
<1>11. ASSUME NEW i \in 1 .. n, NEW j \in 1 .. n, list[i] = list[j] PROVE i = j
  <2>1. list[i] \in Nat /\ ~ (i < j) /\ ~ (j < i)
    <3>1. list[i] \in Nat /\ list[j] \in Nat
      BY <1>8
    <3>2. (i < j => list[i] < list[j]) /\ (j < i => list[j] < list[i])
      BY <1>7, <1>8
    <3> QED  BY <1>11, <3>1, <3>2
  <2> QED  BY <1>1, <2>1
<1>12. list \in Seq(S)
  BY <1>1, <1>7
<1> QED  BY <1>8, <1>10, <1>11, <1>12 DEF Listing, list

(* The lists in a list, one after the other.                                 *)
Goes(g, lists) ==
    g = [i \in 1 .. Len(lists) |-> IF i = 1 THEN lists[i] ELSE g[i - 1] \o lists[i]]

LEMMA FlatGoes ==
    ASSUME NEW lists, Len(lists) \in Nat, Len(lists) # 0
    PROVE  \E g : Goes(g, lists) /\ I!FlattenSeq(lists) = g[Len(lists)]
<1> DEFINE n == Len(lists)
           Upto(m, g) == \A i \in 1 .. m : g[i] = IF i = 1 THEN lists[i] ELSE g[i - 1] \o lists[i]
           known == {m \in Nat : \E g : Upto(m, g)}
<1>1. 0 \in known
  <2>1. Upto(0, << >>)
    OBVIOUS
  <2> QED  BY <2>1
<1>2. ASSUME NEW m \in Nat, m \in known PROVE m + 1 \in known
  <2>1. PICK g : Upto(m, g)
    BY <1>2
  <2> DEFINE h == [i \in 1 .. m + 1 |-> IF i = 1 THEN lists[i]
                                        ELSE IF i = m + 1 THEN g[m] \o lists[i] ELSE g[i]]
  <2>2. ASSUME NEW i \in 1 .. m + 1 PROVE h[i] = IF i = 1 THEN lists[i] ELSE h[i - 1] \o lists[i]
    <3>1. CASE i = 1
      BY <3>1
    <3>2. CASE i # 1 /\ i = m + 1
      <4>1. m \in 1 .. m /\ m \in 1 .. m + 1 /\ m # m + 1 /\ i - 1 = m
        BY <3>2
      <4>2. h[m] = g[m]
        BY <2>1, <4>1
      <4>3. h[i] = g[m] \o lists[i]
        BY <3>2
      <4> QED  BY <3>2, <4>1, <4>2, <4>3
    <3>3. CASE i # 1 /\ i # m + 1
      <4>1. i \in 1 .. m /\ i - 1 \in 1 .. m /\ i - 1 # m + 1 /\ i - 1 \in 1 .. m + 1
        BY <3>3
      <4>2. h[i] = g[i] /\ g[i] = g[i - 1] \o lists[i]
        BY <2>1, <3>3, <4>1
      <4>3. h[i - 1] = g[i - 1]
        BY <2>1, <4>1
      <4> QED  BY <3>3, <4>2, <4>3
    <3> QED  BY <3>1, <3>2, <3>3
  <2> HIDE DEF h
  <2>3. Upto(m + 1, h)
    BY <2>2
  <2> QED  BY <2>3
<1>3. \A m \in Nat : m \in known
  <2> HIDE DEF known
  <2> QED  BY <1>1, <1>2, Induction
<1>4. PICK g : Upto(n, g)
  BY <1>3
<1> DEFINE h == [i \in 1 .. n |-> g[i]]
<1> HIDE DEF n
<1>5. h = [i \in 1 .. n |-> IF i = 1 THEN lists[i] ELSE h[i - 1] \o lists[i]]
  <2>1. ASSUME NEW i \in 1 .. n PROVE g[i] = IF i = 1 THEN lists[i] ELSE h[i - 1] \o lists[i]
    <3>1. i # 1 => i - 1 \in 1 .. n
      BY DEF n
    <3>2. i # 1 => h[i - 1] = g[i - 1]
      BY <3>1
    <3> QED  BY <1>4, <3>2
  <2> QED  BY <2>1
<1>6. Goes(h, lists)
  <2> HIDE DEF h
  <2> QED  BY <1>5 DEF Goes, n
<1> DEFINE c == CHOOSE f : Goes(f, lists)
<1>7. Goes(c, lists)
  BY <1>6
<1>8. I!FlattenSeq(lists) = c[Len(lists)]
  BY DEF I!FlattenSeq, Goes
<1> QED  BY <1>7, <1>8

(* What is in the lists is in the one, and nothing else.                     *)
LEMMA FlatHas ==
    ASSUME NEW T, NEW lists \in Seq(Seq(T))
    PROVE  /\ I!FlattenSeq(lists) \in Seq(T)
           /\ \A x : (\E k \in DOMAIN I!FlattenSeq(lists) : I!FlattenSeq(lists)[k] = x)
                     <=> \E r \in DOMAIN lists : \E k \in DOMAIN lists[r] : lists[r][k] = x
<1> DEFINE n == Len(lists)
           Has(s, x) == \E k \in DOMAIN s : s[k] = x
<1>1. n \in Nat /\ DOMAIN lists = 1 .. n /\ \A r \in 1 .. n : lists[r] \in Seq(T)
  OBVIOUS
<1>2. CASE n = 0
  <2>1. lists = << >>
    BY <1>2
  <2>2. I!FlattenSeq(lists) = << >>
    BY <1>2, <2>1 DEF I!FlattenSeq
  <2>3. << >> \in Seq(T) /\ DOMAIN << >> = {}
    OBVIOUS
  <2> HIDE DEF n
  <2> QED  BY <2>1, <2>2, <2>3
<1>3. CASE n # 0
  <2>1. PICK g : Goes(g, lists) /\ I!FlattenSeq(lists) = g[n]
    BY <1>1, <1>3, FlatGoes
  <2>2. \A i \in 1 .. n : g[i] = IF i = 1 THEN lists[i] ELSE g[i - 1] \o lists[i]
    BY <2>1 DEF Goes
  <2> HIDE DEF n
  <2>3. \A s, t \in Seq(T) : s \o t \in Seq(T) /\ \A x : Has(s \o t, x) <=> Has(s, x) \/ Has(t, x)
    <3>1. ASSUME NEW s \in Seq(T), NEW t \in Seq(T), NEW x PROVE Has(s \o t, x) <=> Has(s, x) \/ Has(t, x)
      <4>1. ASSUME NEW k \in DOMAIN (s \o t), (s \o t)[k] = x PROVE Has(s, x) \/ Has(t, x)
        <5>1. CASE k <= Len(s)
          <6>1. k \in DOMAIN s /\ s[k] = x
            BY <4>1, <5>1
          <6> QED  BY <6>1
        <5>2. CASE k > Len(s)
          <6>1. k - Len(s) \in DOMAIN t /\ t[k - Len(s)] = x
            BY <4>1, <5>2
          <6> QED  BY <6>1
        <5>3. k \in Nat /\ Len(s) \in Nat
          BY <4>1
        <5> QED  BY <5>1, <5>2, <5>3
      <4>2. ASSUME NEW k \in DOMAIN s, s[k] = x PROVE Has(s \o t, x)
        <5>1. k \in DOMAIN (s \o t) /\ (s \o t)[k] = x
          BY <4>2
        <5> QED  BY <5>1
      <4>3. ASSUME NEW k \in DOMAIN t, t[k] = x PROVE Has(s \o t, x)
        <5>1. Len(s) + k \in DOMAIN (s \o t) /\ (s \o t)[Len(s) + k] = x
          BY <4>3
        <5> QED  BY <5>1
      <4> QED  BY <4>1, <4>2, <4>3
    <3>2. \A s, t \in Seq(T) : s \o t \in Seq(T)
      OBVIOUS
    <3> HIDE DEF Has
    <3> QED  BY <3>1, <3>2
  <2> DEFINE Good(m) == m \in 1 .. n => /\ g[m] \in Seq(T)
                                        /\ \A x : Has(g[m], x) <=> \E r \in 1 .. m : Has(lists[r], x)
             known == {m \in Nat : Good(m)}
  <2> HIDE DEF Has
  <2>4. 0 \in known
    OBVIOUS
  <2>5. ASSUME NEW m \in Nat, m \in known PROVE m + 1 \in known
    <3>1. SUFFICES ASSUME m + 1 \in 1 .. n PROVE Good(m + 1)
      BY DEF Good
    <3>2. CASE m = 0
      <4>1. g[1] = lists[1] /\ lists[1] \in Seq(T) /\ 1 .. 1 = {1} /\ m + 1 = 1
        BY <1>1, <2>2, <3>1, <3>2
      <4> QED  BY <4>1
    <3>3. CASE m # 0
      <4>1. m \in 1 .. n /\ (m + 1) - 1 = m /\ m + 1 # 1
        BY <1>1, <3>1, <3>3
      <4>2. g[m + 1] = g[m] \o lists[m + 1] /\ lists[m + 1] \in Seq(T)
        BY <1>1, <2>2, <3>1, <4>1
      <4>3. g[m] \in Seq(T) /\ \A x : Has(g[m], x) <=> \E r \in 1 .. m : Has(lists[r], x)
        BY <2>5, <4>1
      <4>4. g[m + 1] \in Seq(T) /\ \A x : Has(g[m + 1], x) <=> Has(g[m], x) \/ Has(lists[m + 1], x)
        BY <2>3, <4>2, <4>3
      <4>5. \A r : r \in 1 .. m + 1 <=> r \in 1 .. m \/ r = m + 1
        OBVIOUS
      <4>6. \A x : Has(g[m + 1], x) <=> \E r \in 1 .. m + 1 : Has(lists[r], x)
        BY <4>3, <4>4, <4>5
      <4> QED  BY <4>4, <4>6
    <3> QED  BY <3>2, <3>3
  <2>6. \A m \in Nat : m \in known
    <3> HIDE DEF known
    <3> QED  BY <2>4, <2>5, Induction
  <2>7. n \in known /\ n \in 1 .. n
    <3> HIDE DEF known
    <3> QED  BY <1>1, <1>3, <2>6
  <2> QED  BY <1>1, <2>1, <2>7 DEF Has
<1> QED  BY <1>2, <1>3

(* The pages of a list, asked for one after the other, are the list.         *)
LEMMA PageGoes ==
    ASSUME NEW T, NEW list \in Seq(T), NEW c \in Nat, NEW limit \in Nat
    PROVE  LET n == Len(list)
               Upto(k) == SubSeq(list, 1, IF k < n THEN k ELSE n)
           IN  Upto(c) \o I!Page(list, c, limit) = Upto(c + limit)
<1> DEFINE n == Len(list)
           Upto(k) == SubSeq(list, 1, IF k < n THEN k ELSE n)
           d == c + limit
           a == IF c < n THEN c ELSE n
           b == IF d < n THEN d ELSE n
<1>1. n \in Nat /\ d \in Nat /\ c <= d
  OBVIOUS
<1>2. I!Page(list, c, limit) = SubSeq(list, c + 1, b)
  BY DEF I!Page
<1> HIDE DEF d
<1>3. a \in Nat /\ b \in Nat /\ a <= b /\ b <= n /\ (c < n => a = c) /\ (c >= n => a = n /\ b = n /\ c + 1 > b)
  BY <1>1
<1> HIDE DEF n, a, b
<1>4. DOMAIN list = 1 .. n /\ n = Len(list)
  BY DEF n
<1> DEFINE first == SubSeq(list, 1, a)
           rest == SubSeq(list, c + 1, b)
           both == SubSeq(list, 1, b)
<1>5. /\ first \in Seq(T) /\ Len(first) = a /\ \A i \in 1 .. a : first[i] = list[i]
      /\ both \in Seq(T) /\ Len(both) = b /\ \A i \in 1 .. b : both[i] = list[i]
  BY <1>3, <1>4
<1>6. CASE c < n
  <2>1. a = c /\ c \in Nat
    BY <1>3, <1>6
  <2>2. rest \in Seq(T) /\ Len(rest) = b - a /\ \A i \in 1 .. b - a : rest[i] = list[a + i]
    <3>1. \A i \in a + 1 .. b : list[i] \in T
      <4>1. \A i \in a + 1 .. b : i \in 1 .. n
        <5>1. n \in Nat
          BY <1>4
        <5> QED  BY <1>3, <5>1
      <4>2. \A i \in 1 .. n : list[i] \in T
        BY <1>4, ElementOfSeq
      <4> QED  BY <4>1, <4>2
    <3>2. /\ SubSeq(list, a + 1, b) \in Seq(T)
          /\ Len(SubSeq(list, a + 1, b)) = IF a + 1 <= b THEN b - (a + 1) + 1 ELSE 0
          /\ \A i \in 1 .. b - (a + 1) + 1 : SubSeq(list, a + 1, b)[i] = list[(a + 1) + i - 1]
      <4>1. a + 1 \in Int /\ b \in Int
        BY <1>3
      <4> QED  BY <3>1, <4>1, SubSeqProperties
    <3>3. rest = SubSeq(list, a + 1, b)
      BY <2>1
    <3> HIDE DEF rest
    <3>4. b - (a + 1) + 1 = b - a /\ \A i \in 1 .. b - a : (a + 1) + i - 1 = a + i
      BY <1>3
    <3>5. (IF a + 1 <= b THEN b - a ELSE 0) = b - a
      BY <1>3
    <3> QED  BY <3>2, <3>3, <3>4, <3>5
  <2> HIDE DEF first, rest, both
  <2>3. /\ first \o rest \in Seq(T) /\ Len(first \o rest) = b
        /\ \A i \in 1 .. b : (first \o rest)[i] = IF i <= a THEN first[i] ELSE rest[i - a]
    <3>1. first \in Seq(T) /\ rest \in Seq(T) /\ Len(first) = a /\ Len(rest) = b - a /\ a + (b - a) = b
      BY <1>3, <1>5, <2>2
    <3>2. /\ first \o rest \in Seq(T) /\ Len(first \o rest) = Len(first) + Len(rest)
          /\ \A i \in 1 .. Len(first) + Len(rest) :
                (first \o rest)[i] = IF i <= Len(first) THEN first[i] ELSE rest[i - Len(first)]
      BY <3>1, ConcatProperties
    <3>3. Len(first) + Len(rest) = b
      BY <3>1
    <3> DEFINE l == first \o rest
    <3>4. /\ l \in Seq(T) /\ Len(l) = Len(first) + Len(rest)
          /\ \A i \in 1 .. Len(first) + Len(rest) : l[i] = IF i <= Len(first) THEN first[i] ELSE rest[i - Len(first)]
      BY <3>2
    <3> HIDE DEF l
    <3>5. l \in Seq(T) /\ Len(l) = b /\ \A i \in 1 .. b : l[i] = IF i <= a THEN first[i] ELSE rest[i - a]
      BY <3>1, <3>3, <3>4
    <3> QED  BY <3>5 DEF l
  <2>4. ASSUME NEW i \in 1 .. b PROVE (first \o rest)[i] = list[i]
    <3>1. CASE i <= a
      <4>1. i \in 1 .. a
        BY <1>3, <3>1
      <4> QED  BY <1>5, <2>3, <3>1, <4>1
    <3>2. CASE i > a
      <4>1. i - a \in 1 .. b - a /\ a + (i - a) = i
        BY <1>3, <3>2
      <4>2. (first \o rest)[i] = rest[i - a]
        BY <1>3, <2>3, <3>2
      <4>3. rest[i - a] = list[a + (i - a)]
        BY <2>2, <4>1
      <4> QED  BY <4>1, <4>2, <4>3
    <3>3. i <= a \/ i > a
      <4>1. i \in Int /\ a \in Int
        BY <1>3
      <4> QED  BY <4>1
    <3> QED  BY <3>1, <3>2, <3>3
  <2>5. first \o rest = both
    <3> DEFINE l == first \o rest
    <3>1. l \in Seq(T) /\ Len(l) = b /\ \A i \in 1 .. b : l[i] = both[i]
      BY <1>5, <2>3, <2>4
    <3> HIDE DEF l
    <3>2. l = both
      BY <1>5, <3>1
    <3> QED  BY <3>2 DEF l
  <2> QED  BY <1>2, <2>5 DEF first, rest, both, n, d, a, b
<1>7. CASE c >= n
  <2>1. a = b /\ c + 1 > b /\ rest = << >>
    BY <1>3, <1>4, <1>7
  <2>2. first \o << >> = first
    <3> HIDE DEF first
    <3> QED  BY <1>5
  <2> QED  BY <1>2, <2>1, <2>2 DEF first, rest, both, n, d, a, b
<1> QED  BY <1>1, <1>6, <1>7

LEMMA PagesAreAll ==
    ASSUME NEW T, NEW list \in Seq(T), NEW limit \in Nat, limit # 0
    PROVE  I!Exported(list, limit) = list
<1> DEFINE n == Len(list)
           Upto(k) == SubSeq(list, 1, IF k < n THEN k ELSE n)
           pages == [k \in 1 .. n + 1 |-> I!Page(list, (k - 1) * limit, limit)]
<1>1. n \in Nat /\ Len(pages) = n + 1
  OBVIOUS
<1>2. I!Exported(list, limit) = I!FlattenSeq(pages)
  BY DEF I!Exported
<1>3. PICK g : Goes(g, pages) /\ I!FlattenSeq(pages) = g[n + 1]
  <2> HIDE DEF n, pages
  <2>1. Len(pages) \in Nat /\ Len(pages) # 0
    BY <1>1
  <2> QED  BY <1>1, <2>1, FlatGoes
<1>4. \A i \in 1 .. n + 1 : g[i] = IF i = 1 THEN pages[i] ELSE g[i - 1] \o pages[i]
  BY <1>1, <1>3 DEF Goes
<1>5. \A c \in Nat : Upto(c) \o I!Page(list, c, limit) = Upto(c + limit)
  BY PageGoes
<1>6. \A k \in 1 .. n + 1 : pages[k] = I!Page(list, (k - 1) * limit, limit)
  OBVIOUS
<1>7. Upto(0) = << >>
  BY <1>1
<1> HIDE DEF pages, n, Upto
<1> DEFINE known == {m \in Nat : m + 1 \in 1 .. n + 1 => g[m + 1] = Upto((m + 1) * limit)}
<1>8. 0 \in known
  <2>1. 1 \in 1 .. n + 1 /\ (1 - 1) * limit = 0 /\ 1 * limit = limit /\ 0 + limit = limit /\ 0 + 1 = 1
    BY <1>1
  <2>2. g[1] = I!Page(list, 0, limit)
    BY <1>4, <1>6, <2>1
  <2>3. << >> \o I!Page(list, 0, limit) = Upto(limit)
    BY <1>5, <1>7, <2>1
  <2>4. I!Page(list, 0, limit) \in Seq(T)
    BY DEF I!Page
  <2>5. << >> \o I!Page(list, 0, limit) = I!Page(list, 0, limit)
    BY <2>4
  <2> QED  BY <2>1, <2>2, <2>3, <2>5
<1>9. ASSUME NEW m \in Nat, m \in known PROVE m + 1 \in known
  <2>1. SUFFICES ASSUME (m + 1) + 1 \in 1 .. n + 1 PROVE g[(m + 1) + 1] = Upto(((m + 1) + 1) * limit)
    OBVIOUS
  <2> DEFINE c == (m + 1) * limit
  <2>2. c \in Nat /\ ((m + 1) + 1) * limit = c + limit
    OBVIOUS
  <2>3. (m + 1) + 1 # 1 /\ ((m + 1) + 1) - 1 = m + 1 /\ m + 1 \in 1 .. n + 1
    BY <1>1, <2>1
  <2>4. g[m + 1] = Upto(c)
    BY <1>9, <2>3
  <2>5. g[(m + 1) + 1] = g[m + 1] \o I!Page(list, c, limit)
    BY <1>4, <1>6, <2>1, <2>3
  <2> HIDE DEF c
  <2> QED  BY <1>5, <2>2, <2>4, <2>5
<1>10. \A m \in Nat : m \in known
  <2> HIDE DEF known
  <2> QED  BY <1>8, <1>9, Induction
<1>11. g[n + 1] = Upto((n + 1) * limit)
  BY <1>1, <1>10
<1>12. (n + 1) * limit >= n /\ (n + 1) * limit \in Nat
  <2>1. limit >= 1 /\ n + 1 \in Nat
    BY <1>1
  <2>2. (n + 1) * limit >= n + 1
    BY <2>1
  <2> QED  BY <1>1, <2>1, <2>2
<1>13. Upto((n + 1) * limit) = SubSeq(list, 1, n)
  BY <1>1, <1>12 DEF Upto
<1>14. SubSeq(list, 1, n) = list
  BY DEF n
<1> QED  BY <1>2, <1>3, <1>11, <1>13, <1>14

(* The tables of the service.                                                *)
CimNodes == {"transformer", "bus"}
CimDevices == {"meter1", "meter2"}
CimTypes == {"voltage", "power_kw"}
CimPoint == [node : CimNodes \union {None}, meter : CimDevices \union {None}]
CimEdge == [from : CimNodes, to : CimNodes]

CimInv ==
    /\ points \in Seq(CimPoint)
    /\ edges \in Seq(CimEdge)
    /\ keys \in Seq(SUBSET CimTypes)

(* Service points are in one group when they are one, or at one node and meter. *)
LEMMA Groups ==
    ASSUME ServicesAssumption, CimInv
    PROVE  \A i, j \in DOMAIN points :
              I!GroupKey(j) = I!GroupKey(i) =>
                 j = i \/ (points[j] = points[i] /\ (points[i].node # None \/ points[i].meter # None))
<1>1. \A i \in DOMAIN points : points[i] \in CimPoint
  <2>1. DOMAIN points = 1 .. Len(points)
    BY DEF CimInv
  <2> QED  BY <2>1, ElementOfSeq DEF CimInv
<1>2. "sp" \notin CimNodes \union {None}
  BY DEF ServicesAssumption, I!CimAssumption, CimNodes
<1>3. SUFFICES ASSUME NEW i \in DOMAIN points, NEW j \in DOMAIN points, I!GroupKey(j) = I!GroupKey(i)
               PROVE  j = i \/ (points[j] = points[i] /\ (points[i].node # None \/ points[i].meter # None))
  OBVIOUS
<1> DEFINE a == points[i]
           b == points[j]
<1>4. a \in CimPoint /\ b \in CimPoint
  BY <1>1
<1>5. /\ I!GroupKey(i) = IF a.node = None /\ a.meter = None THEN <<"sp", i>> ELSE <<a.node, a.meter>>
      /\ I!GroupKey(j) = IF b.node = None /\ b.meter = None THEN <<"sp", j>> ELSE <<b.node, b.meter>>
  BY DEF I!GroupKey
<1> HIDE DEF a, b
<1>6. a.node # "sp" /\ b.node # "sp"
  BY <1>2, <1>4 DEF CimPoint
<1>7. \A x, y, u, v : <<x, y>> = <<u, v>> => x = u /\ y = v
  OBVIOUS
<1>8. a.node = b.node /\ a.meter = b.meter => a = b
  BY <1>4 DEF CimPoint
<1>9. CASE (a.node = None /\ a.meter = None) /\ (b.node = None /\ b.meter = None)
  BY <1>3, <1>5, <1>7, <1>9
<1>10. CASE (a.node = None /\ a.meter = None) /\ ~ (b.node = None /\ b.meter = None)
  BY <1>3, <1>5, <1>6, <1>7, <1>10
<1>11. CASE ~ (a.node = None /\ a.meter = None) /\ (b.node = None /\ b.meter = None)
  BY <1>3, <1>5, <1>6, <1>7, <1>11
<1>12. CASE ~ (a.node = None /\ a.meter = None) /\ ~ (b.node = None /\ b.meter = None)
  <2>1. a = b
    BY <1>3, <1>5, <1>7, <1>8, <1>12
  <2> QED  BY <1>12, <2>1 DEF a, b
<1> QED  BY <1>9, <1>10, <1>11, <1>12

(* A group has one first row.                                                *)
LEMMA FirstOfGroup ==
    ASSUME CimInv
    PROVE  /\ I!Firsts \subseteq DOMAIN points
           /\ \A i \in DOMAIN points : \E f \in I!Firsts : I!GroupKey(f) = I!GroupKey(i)
           /\ \A f, g \in I!Firsts : I!GroupKey(f) = I!GroupKey(g) => f = g
<1>1. DOMAIN points = 1 .. Len(points) /\ Len(points) \in Nat
  BY DEF CimInv
<1>2. ASSUME NEW i \in DOMAIN points PROVE \E f \in I!Firsts : I!GroupKey(f) = I!GroupKey(i)
  <2> DEFINE S == {j \in DOMAIN points : I!GroupKey(j) = I!GroupKey(i)}
  <2>1. S \in SUBSET Nat /\ S # {}
    BY <1>1
  <2>2. \A j : j \in S <=> j \in DOMAIN points /\ I!GroupKey(j) = I!GroupKey(i)
    OBVIOUS
  <2> HIDE DEF S
  <2>3. PICK f \in S : \A j \in S : f <= j
    BY <2>1, Smallest
  <2>4. \A j \in 1 .. f - 1 : j \in DOMAIN points /\ ~ (f <= j)
    BY <1>1, <2>2
  <2>5. f \in I!Firsts
    BY <2>2, <2>3, <2>4 DEF I!Firsts
  <2> QED  BY <2>2, <2>5
<1>3. ASSUME NEW f \in I!Firsts, NEW g \in I!Firsts, I!GroupKey(f) = I!GroupKey(g) PROVE f = g
  <2>1. f \in 1 .. Len(points) /\ g \in 1 .. Len(points)
    BY <1>1 DEF I!Firsts
  <2>2. f \notin 1 .. g - 1 /\ g \notin 1 .. f - 1
    BY <1>3 DEF I!Firsts
  <2> QED  BY <1>1, <2>1, <2>2
<1> QED  BY <1>2, <1>3 DEF I!Firsts

(* The list of usage points: one of each first row, then those made up.      *)
FirstRows == I!InOrder(I!Firsts)
MadeUp == I!SetToSeq(I!FallbackDevices)
AllPoints == {I!UsagePoint(i) : i \in DOMAIN points} \union {I!Fallback(d) : d \in CimDevices}

LEMMA CimDevicesFinite == IsFiniteSet(CimDevices) /\ IsFiniteSet(CimTypes) /\ IsFiniteSet(CimNodes)
<1>1. ASSUME NEW x, NEW y PROVE IsFiniteSet({x, y})
  <2>1. IsFiniteSet({x}) /\ IsFiniteSet({y})
    BY FS_Singleton
  <2>2. IsFiniteSet({x} \union {y})
    BY <2>1, FS_Union
  <2>3. {x, y} = {x} \union {y}
    OBVIOUS
  <2> QED  BY <2>2, <2>3
<1> QED  BY <1>1 DEF CimDevices, CimTypes, CimNodes

LEMMA UsagePointsAre ==
    ASSUME CimInv
    PROVE  LET list == I!list_usage_points
               n == Len(FirstRows)
               m == Len(MadeUp)
           IN  /\ Listing(FirstRows, I!Firsts) /\ Listing(MadeUp, I!FallbackDevices)
               /\ n \in Nat /\ DOMAIN FirstRows = 1 .. n /\ m \in Nat /\ DOMAIN MadeUp = 1 .. m
               /\ list \in Seq(AllPoints) /\ DOMAIN list = 1 .. n + m
               /\ \A k \in 1 .. n : list[k] = I!UsagePoint(FirstRows[k])
               /\ \A k \in 1 .. m : list[n + k] = I!Fallback(MadeUp[k])
<1> DEFINE n == Len(FirstRows)
           m == Len(MadeUp)
           Named == [k \in DOMAIN FirstRows |-> I!UsagePoint(FirstRows[k])]
           Extra == [k \in DOMAIN MadeUp |-> I!Fallback(MadeUp[k])]
<1>1. DOMAIN points = 1 .. Len(points) /\ Len(points) \in Nat
  BY DEF CimInv
<1>2. I!Firsts \subseteq DOMAIN points
  BY FirstOfGroup
<1>3. IsFiniteSet(I!Firsts) /\ I!Firsts \subseteq Nat
  <2>1. IsFiniteSet(1 .. Len(points))
    BY <1>1, FS_Interval
  <2>2. I!Firsts \in SUBSET (1 .. Len(points))
    BY <1>1, <1>2
  <2>3. IsFiniteSet(I!Firsts)
    BY <2>1, <2>2, FS_Subset
  <2> QED  BY <2>2, <2>3
<1>4. I!FallbackDevices \in SUBSET CimDevices
  BY DEF I!FallbackDevices, CimDevices
<1>5. IsFiniteSet(I!FallbackDevices)
  BY <1>4, CimDevicesFinite, FS_Subset
<1>6. Listing(FirstRows, I!Firsts) /\ Listing(MadeUp, I!FallbackDevices)
  BY <1>3, <1>5, RowsInOrder, SetIsListed DEF FirstRows, MadeUp
<1>7. /\ FirstRows \in Seq(I!Firsts) /\ DOMAIN FirstRows = 1 .. n /\ n \in Nat
      /\ MadeUp \in Seq(I!FallbackDevices) /\ DOMAIN MadeUp = 1 .. m /\ m \in Nat
  BY <1>6 DEF Listing
<1>8. \A k \in 1 .. n : I!UsagePoint(FirstRows[k]) \in AllPoints
  <2>1. \A k \in 1 .. n : FirstRows[k] \in DOMAIN points
    BY <1>2, <1>7, ElementOfSeq
  <2> QED  BY <2>1 DEF AllPoints
<1>9. \A k \in 1 .. m : I!Fallback(MadeUp[k]) \in AllPoints
  <2>1. \A k \in 1 .. m : MadeUp[k] \in CimDevices
    BY <1>4, <1>7, ElementOfSeq
  <2> QED  BY <2>1 DEF AllPoints
<1>10. I!list_usage_points = Named \o Extra
  BY DEF I!list_usage_points, FirstRows, MadeUp
<1> HIDE DEF n, m
<1>11. /\ Named \in Seq(AllPoints) /\ Len(Named) = n /\ \A k \in 1 .. n : Named[k] = I!UsagePoint(FirstRows[k])
  <2>1. Named \in [1 .. n -> AllPoints]
    BY <1>7, <1>8
  <2> QED  BY <1>7, <2>1
<1>12. /\ Extra \in Seq(AllPoints) /\ Len(Extra) = m /\ \A k \in 1 .. m : Extra[k] = I!Fallback(MadeUp[k])
  <2>1. Extra \in [1 .. m -> AllPoints]
    BY <1>7, <1>9
  <2> QED  BY <1>7, <2>1
<1> HIDE DEF Named, Extra
<1> DEFINE list == Named \o Extra
<1>13. /\ list \in Seq(AllPoints) /\ Len(list) = n + m
       /\ \A k \in 1 .. n + m : list[k] = IF k <= n THEN Named[k] ELSE Extra[k - n]
  BY <1>11, <1>12, ConcatProperties
<1> HIDE DEF list
<1>14. DOMAIN list = 1 .. n + m
  BY <1>13
<1>15. \A k \in 1 .. n : k \in 1 .. n + m /\ k <= n
  BY <1>7
<1>16. \A k \in 1 .. m : n + k \in 1 .. n + m /\ ~ (n + k <= n) /\ (n + k) - n = k
  BY <1>7
<1>17. \A k \in 1 .. m : list[n + k] = Extra[k]
  BY <1>13, <1>16
<1>18. \A k \in 1 .. n : list[k] = Named[k]
  BY <1>13, <1>15
<1> QED  BY <1>6, <1>7, <1>10, <1>11, <1>12, <1>13, <1>14, <1>17, <1>18 DEF list, n, m

GroupOf(f) == {j \in DOMAIN points : I!GroupKey(j) = I!GroupKey(f)}

LEMMA CustomersAre ==
    /\ \A f : /\ I!UsagePoint(f).customers = GroupOf(f)
              /\ I!UsagePoint(f).meter = points[f].meter
              /\ I!UsagePoint(f).synthesized = FALSE
    /\ \A d : /\ I!Fallback(d).customers = {}
              /\ I!Fallback(d).meter = d
              /\ I!Fallback(d).synthesized = TRUE
<1>1. ASSUME NEW f PROVE /\ I!UsagePoint(f).customers = GroupOf(f)
                         /\ I!UsagePoint(f).meter = points[f].meter
                         /\ I!UsagePoint(f).synthesized = FALSE
  BY DEF I!UsagePoint, GroupOf
<1>2. ASSUME NEW d PROVE /\ I!Fallback(d).customers = {}
                         /\ I!Fallback(d).meter = d
                         /\ I!Fallback(d).synthesized = TRUE
  BY DEF I!Fallback
<1> QED  BY <1>1, <1>2

(* Every customer's service point is in one usage point.                     *)
LEMMA CustomersOnce ==
    ASSUME ServicesAssumption, CimInv, NEW i \in DOMAIN points
    PROVE  LET list == I!list_usage_points IN
           \E k \in DOMAIN list :
              /\ {l \in DOMAIN list : i \in list[l].customers} = {k}
              /\ \A j \in list[k].customers :
                    j # i => points[j] = points[i] /\ (points[i].node # None \/ points[i].meter # None)
<1> DEFINE list == I!list_usage_points
           n == Len(FirstRows)
           m == Len(MadeUp)
<1>1. /\ Listing(FirstRows, I!Firsts)
      /\ n \in Nat /\ DOMAIN FirstRows = 1 .. n /\ m \in Nat
      /\ DOMAIN list = 1 .. n + m
      /\ \A k \in 1 .. n : list[k] = I!UsagePoint(FirstRows[k])
      /\ \A k \in 1 .. m : list[n + k] = I!Fallback(MadeUp[k])
  BY UsagePointsAre
<1> HIDE DEF list, n, m
<1>2. \A k \in 1 .. n : list[k].customers = GroupOf(FirstRows[k])
  BY <1>1, CustomersAre
<1>3. \A k \in 1 .. m : list[n + k].customers = {}
  BY <1>1, CustomersAre
<1>4. \A k \in 1 .. n : FirstRows[k] \in I!Firsts
  BY <1>1, ElementOfSeq DEF Listing
<1>5. PICK f \in I!Firsts : I!GroupKey(f) = I!GroupKey(i)
  BY FirstOfGroup
<1>6. PICK k \in 1 .. n : FirstRows[k] = f
  BY <1>1 DEF Listing
<1>7. i \in list[k].customers
  BY <1>2, <1>5, <1>6 DEF GroupOf
<1>8. ASSUME NEW l \in DOMAIN list, i \in list[l].customers PROVE l = k
  <2>1. CASE l \in 1 .. n
    <3>1. I!GroupKey(FirstRows[l]) = I!GroupKey(f)
      BY <1>2, <1>5, <1>8, <2>1 DEF GroupOf
    <3>2. FirstRows[l] = f
      BY <1>4, <2>1, <3>1, FirstOfGroup
    <3> QED  BY <1>1, <1>6, <2>1, <3>2 DEF Listing
  <2>2. CASE l \notin 1 .. n
    <3>1. l - n \in 1 .. m /\ n + (l - n) = l
      BY <1>1, <1>8, <2>2
    <3>2. list[l].customers = {}
      BY <1>3, <3>1
    <3> QED  BY <1>8, <3>2
  <2> QED  BY <2>1, <2>2
<1>9. k \in DOMAIN list
  BY <1>1
<1>10. {l \in DOMAIN list : i \in list[l].customers} = {k}
  BY <1>7, <1>8, <1>9
<1>11. ASSUME NEW j \in list[k].customers, j # i
       PROVE  points[j] = points[i] /\ (points[i].node # None \/ points[i].meter # None)
  <2>1. j \in DOMAIN points /\ I!GroupKey(j) = I!GroupKey(i)
    BY <1>2, <1>5, <1>6, <1>11 DEF GroupOf
  <2> QED  BY <1>11, <2>1, Groups
<1> QED  BY <1>9, <1>10, <1>11 DEF list

(* A device has a usage point of its service points, or one made up.         *)
LEMMA OnePointPerDevice ==
    ASSUME ServicesAssumption, CimInv, NEW d \in CimDevices
    PROVE  \E p \in I!ToSet(I!list_usage_points) :
              /\ p.meter = d
              /\ \A q \in I!ToSet(I!list_usage_points) : q.meter = d => q.synthesized = p.synthesized
<1> DEFINE list == I!list_usage_points
           n == Len(FirstRows)
           m == Len(MadeUp)
<1>1. /\ Listing(FirstRows, I!Firsts) /\ Listing(MadeUp, I!FallbackDevices)
      /\ n \in Nat /\ DOMAIN FirstRows = 1 .. n /\ m \in Nat /\ DOMAIN MadeUp = 1 .. m
      /\ DOMAIN list = 1 .. n + m
      /\ \A k \in 1 .. n : list[k] = I!UsagePoint(FirstRows[k])
      /\ \A k \in 1 .. m : list[n + k] = I!Fallback(MadeUp[k])
  BY UsagePointsAre
<1> HIDE DEF list, n, m
<1>2. \A k \in 1 .. n : FirstRows[k] \in I!Firsts
  BY <1>1, ElementOfSeq DEF Listing
<1>3. \A k \in 1 .. m : MadeUp[k] \in I!FallbackDevices
  BY <1>1, ElementOfSeq DEF Listing
<1>4. \A q : q \in I!ToSet(list) <=> \E l \in DOMAIN list : q = list[l]
  BY DEF I!ToSet
<1>5. ASSUME NEW q \in I!ToSet(list)
      PROVE  \/ \E k \in 1 .. n : /\ q = I!UsagePoint(FirstRows[k])
                                  /\ q.meter = points[FirstRows[k]].meter /\ q.synthesized = FALSE
             \/ \E k \in 1 .. m : q.meter = MadeUp[k] /\ q.synthesized = TRUE
  <2>1. PICK l \in 1 .. n + m : q = list[l]
    BY <1>1, <1>4
  <2>2. CASE l \in 1 .. n
    BY <1>1, <2>1, <2>2, CustomersAre
  <2>3. CASE l \notin 1 .. n
    <3>1. l - n \in 1 .. m /\ n + (l - n) = l
      BY <1>1, <2>3
    <3>2. list[l] = I!Fallback(MadeUp[l - n])
      BY <1>1, <3>1
    <3>3. q.meter = MadeUp[l - n] /\ q.synthesized = TRUE
      BY <2>1, <3>2, CustomersAre
    <3> QED  BY <3>1, <3>3
  <2> QED  BY <2>2, <2>3
<1>6. I!Firsts \subseteq DOMAIN points
  BY FirstOfGroup
<1>7. CASE d \in I!FallbackDevices
  <2>1. \A i \in DOMAIN points : points[i].meter # d
    BY <1>7 DEF I!FallbackDevices
  <2>2. PICK k \in 1 .. m : MadeUp[k] = d
    BY <1>1, <1>7 DEF Listing
  <2>3. n + k \in DOMAIN list
    BY <1>1
  <2>4. list[n + k] \in I!ToSet(list) /\ list[n + k].meter = d /\ list[n + k].synthesized = TRUE
    BY <1>1, <1>4, <2>2, <2>3, CustomersAre
  <2>5. \A q \in I!ToSet(list) : q.meter = d => q.synthesized = TRUE
    BY <1>2, <1>5, <1>6, <2>1
  <2> QED  BY <2>4, <2>5 DEF list
<1>8. CASE d \notin I!FallbackDevices
  <2>1. PICK i \in DOMAIN points : points[i].meter = d
    BY <1>8 DEF I!FallbackDevices, CimDevices
  <2>2. PICK f \in I!Firsts : I!GroupKey(f) = I!GroupKey(i)
    BY FirstOfGroup
  <2>3. f \in DOMAIN points /\ points[f].meter = d
    BY <1>6, <2>1, <2>2, Groups
  <2>4. PICK k \in 1 .. n : FirstRows[k] = f
    BY <1>1 DEF Listing
  <2>5. k \in DOMAIN list
    BY <1>1
  <2>6. list[k] \in I!ToSet(list) /\ list[k].meter = d /\ list[k].synthesized = FALSE
    <3>1. list[k] = I!UsagePoint(f)
      BY <1>1, <2>4
    <3>2. list[k].meter = points[f].meter /\ list[k].synthesized = FALSE
      BY <3>1, CustomersAre
    <3> QED  BY <1>4, <2>3, <2>5, <3>2
  <2>7. \A q \in I!ToSet(list) : q.meter = d => q.synthesized = FALSE
    BY <1>3, <1>5, <1>8
  <2> QED  BY <2>6, <2>7 DEF list
<1> QED  BY <1>7, <1>8

(* The values are of the types that are listed.                              *)
LEMMA ValuesAreListed ==
    ASSUME CimInv
    PROVE  /\ I!list_measurement_values \in Seq([reading : Int, type : CimTypes])
           /\ I!ToSet(I!list_measurements) = {v.type : v \in I!ToSet(I!list_measurement_values)}
<1> DEFINE Value == [reading : Int, type : CimTypes]
           Of(r) == [k \in DOMAIN I!SetToSeq(keys[r]) |->
                        [reading |-> Len(keys) - r, type |-> I!SetToSeq(keys[r])[k]]]
           lists == [r \in DOMAIN keys |-> Of(r)]
           all == I!list_measurement_values
           U == UNION I!ToSet(keys)
<1>1. Len(keys) \in Nat /\ DOMAIN keys = 1 .. Len(keys) /\ \A r \in DOMAIN keys : keys[r] \subseteq CimTypes
  BY DEF CimInv
<1>2. \A r \in DOMAIN keys : Listing(I!SetToSeq(keys[r]), keys[r])
  BY <1>1, CimDevicesFinite, FS_Subset, SetIsListed
<1>3. ASSUME NEW r \in DOMAIN keys
      PROVE  /\ Of(r) \in Seq(Value)
             /\ \A k \in DOMAIN Of(r) : Of(r)[k].type \in keys[r]
             /\ \A x \in keys[r] : \E k \in DOMAIN Of(r) : Of(r)[k].type = x
  <2> DEFINE s == I!SetToSeq(keys[r])
  <2>1. s \in Seq(keys[r]) /\ \A x \in keys[r] : \E k \in DOMAIN s : s[k] = x
    BY <1>2 DEF Listing
  <2> HIDE DEF s
  <2>2. DOMAIN s = 1 .. Len(s) /\ Len(s) \in Nat /\ \A k \in DOMAIN s : s[k] \in keys[r]
    BY <2>1, ElementOfSeq
  <2> DEFINE v == [k \in DOMAIN s |-> [reading |-> Len(keys) - r, type |-> s[k]]]
  <2>3. Len(keys) - r \in Int
    BY <1>1
  <2>4. \A k \in DOMAIN s : [reading |-> Len(keys) - r, type |-> s[k]] \in Value
    BY <1>1, <2>2, <2>3
  <2>5. v \in [1 .. Len(s) -> Value]
    BY <2>2, <2>4
  <2>6. v \in Seq(Value)
    BY <2>2, <2>5
  <2>7. DOMAIN v = DOMAIN s /\ \A k \in DOMAIN s : v[k].type = s[k]
    OBVIOUS
  <2>8. Of(r) = v
    BY DEF s
  <2> HIDE DEF v, Of, Value
  <2> QED  BY <2>1, <2>2, <2>6, <2>7, <2>8
<1>4. all = I!FlattenSeq(lists)
  BY DEF I!list_measurement_values
<1>5. lists \in Seq(Seq(Value))
  <2> HIDE DEF Of, Value
  <2>1. lists \in [1 .. Len(keys) -> Seq(Value)]
    BY <1>1, <1>3
  <2> QED  BY <1>1, <2>1
<1>6. DOMAIN lists = DOMAIN keys /\ \A r \in DOMAIN keys : lists[r] = Of(r)
  OBVIOUS
<1> HIDE DEF all, lists, Of, Value
<1>7. /\ all \in Seq(Value)
      /\ \A x : (\E k \in DOMAIN all : all[k] = x) <=> \E r \in DOMAIN lists : \E k \in DOMAIN lists[r] : lists[r][k] = x
  <2>1. /\ I!FlattenSeq(lists) \in Seq(Value)
        /\ \A x : (\E k \in DOMAIN I!FlattenSeq(lists) : I!FlattenSeq(lists)[k] = x)
                  <=> \E r \in DOMAIN lists : \E k \in DOMAIN lists[r] : lists[r][k] = x
    BY <1>5, FlatHas
  <2> QED  BY <1>4, <2>1
<1>8. U \in SUBSET CimTypes /\ \A x : x \in U <=> \E r \in DOMAIN keys : x \in keys[r]
  BY <1>1 DEF I!ToSet
<1> HIDE DEF U
<1>9. Listing(I!SetToSeq(U), U)
  BY <1>8, CimDevicesFinite, FS_Subset, SetIsListed
<1>10. I!ToSet(I!list_measurements) = U
  <2> DEFINE s == I!SetToSeq(U)
  <2>1. s \in Seq(U) /\ \A x \in U : \E k \in DOMAIN s : s[k] = x
    BY <1>9 DEF Listing
  <2> HIDE DEF s
  <2>2. \A k \in DOMAIN s : s[k] \in U
    BY <2>1, ElementOfSeq
  <2>3. I!ToSet(s) = U
    BY <2>1, <2>2 DEF I!ToSet
  <2> QED  BY <2>3 DEF s, U, I!list_measurements
<1>11. \A x : x \in U <=> \E k \in DOMAIN all : all[k].type = x
  <2>1. ASSUME NEW x \in U PROVE \E k \in DOMAIN all : all[k].type = x
    <3>1. PICK r \in DOMAIN keys : x \in keys[r]
      BY <1>8
    <3>2. PICK k \in DOMAIN Of(r) : Of(r)[k].type = x
      BY <1>3, <3>1
    <3>3. \E j \in DOMAIN all : all[j] = lists[r][k]
      BY <1>6, <1>7, <3>2
    <3> QED  BY <1>6, <3>2, <3>3
  <2>2. ASSUME NEW k \in DOMAIN all PROVE all[k].type \in U
    <3>1. PICK r \in DOMAIN lists : \E j \in DOMAIN lists[r] : lists[r][j] = all[k]
      BY <1>7
    <3>2. all[k].type \in keys[r]
      BY <1>3, <1>6, <3>1
    <3> QED  BY <1>6, <1>8, <3>1, <3>2
  <2> QED  BY <2>1, <2>2
<1>12. U = {v.type : v \in I!ToSet(all)}
  BY <1>11 DEF I!ToSet
<1> QED  BY <1>7, <1>10, <1>12 DEF all, Value

(* The terminals of a node: the first ends at it, the second ends at it, and *)
(* its own when it is a leaf.                                                *)
Froms(n) == {i \in DOMAIN edges : edges[i].from = n}
Tos(n) == {i \in DOMAIN edges : edges[i].to = n}
Odd(n) == {2 * i - 1 : i \in Froms(n)}
Even(n) == {2 * i : i \in Tos(n)}
At(n) == {k \in DOMAIN I!list_terminals : I!list_terminals[k].node = n}

LEMMA EndsAreCounted ==
    ASSUME CimInv, NEW n
    PROVE  /\ IsFiniteSet(Froms(n)) /\ IsFiniteSet(Odd(n)) /\ Cardinality(Odd(n)) = Cardinality(Froms(n))
           /\ IsFiniteSet(Tos(n)) /\ IsFiniteSet(Even(n)) /\ Cardinality(Even(n)) = Cardinality(Tos(n))
<1>1. DOMAIN edges = 1 .. Len(edges) /\ Len(edges) \in Nat
  BY DEF CimInv
<1>2. Froms(n) \in SUBSET (1 .. Len(edges)) /\ Tos(n) \in SUBSET (1 .. Len(edges))
  BY <1>1 DEF Froms, Tos
<1>3. IsFiniteSet(Froms(n)) /\ IsFiniteSet(Tos(n))
  <2>1. IsFiniteSet(1 .. Len(edges))
    BY <1>1, FS_Interval
  <2> QED  BY <1>2, <2>1, FS_Subset
<1>4. ExistsBijection(Froms(n), Odd(n))
  <2> DEFINE f == [i \in Froms(n) |-> 2 * i - 1]
  <2>1. f \in [Froms(n) -> Odd(n)] /\ \A y \in Odd(n) : \E i \in Froms(n) : f[i] = y
    BY DEF Odd
  <2>2. \A i, j \in Froms(n) : f[i] = f[j] => i = j
    BY <1>1, <1>2
  <2> HIDE DEF f
  <2>3. f \in Bijection(Froms(n), Odd(n))
    BY <2>1, <2>2 DEF Bijection, Injection, Surjection, IsInjective
  <2> QED  BY <2>3 DEF ExistsBijection
<1>5. ExistsBijection(Tos(n), Even(n))
  <2> DEFINE f == [i \in Tos(n) |-> 2 * i]
  <2>1. f \in [Tos(n) -> Even(n)] /\ \A y \in Even(n) : \E i \in Tos(n) : f[i] = y
    BY DEF Even
  <2>2. \A i, j \in Tos(n) : f[i] = f[j] => i = j
    BY <1>1, <1>2
  <2> HIDE DEF f
  <2>3. f \in Bijection(Tos(n), Even(n))
    BY <2>1, <2>2 DEF Bijection, Injection, Surjection, IsInjective
  <2> QED  BY <2>3 DEF ExistsBijection
<1> QED  BY <1>3, <1>4, <1>5, FS_Bijection

\* The ends of the edges, in their order, and the leaves.
Ended(k) == IF k % 2 = 1 THEN edges[(k + 1) \div 2].from ELSE edges[(k + 1) \div 2].to
LeafList == I!SetToSeq(I!Leaves)

LEMMA TerminalsAre ==
    ASSUME CimInv
    PROVE  LET list == I!list_terminals
               m == Len(edges)
               l == Len(LeafList)
           IN  /\ Listing(LeafList, I!Leaves)
               /\ m \in Nat /\ DOMAIN edges = 1 .. m /\ l \in Nat /\ DOMAIN LeafList = 1 .. l
               /\ DOMAIN list = 1 .. 2 * m + l
               /\ \A k \in 1 .. 2 * m : list[k].node = Ended(k)
               /\ \A k \in 1 .. l : list[2 * m + k].node = LeafList[k]
<1> DEFINE m == Len(edges)
           l == Len(LeafList)
           Edge(k) == (k + 1) \div 2
           End(k) == IF k % 2 = 1 THEN [of |-> Edge(k), number |-> 1, node |-> edges[Edge(k)].from]
                     ELSE [of |-> Edge(k), number |-> 2, node |-> edges[Edge(k)].to]
           Ends == [k \in 1 .. 2 * m |-> End(k)]
           Leaf(k) == [of |-> LeafList[k], number |-> 1, node |-> LeafList[k]]
           Extra == [k \in DOMAIN LeafList |-> Leaf(k)]
           T == {End(k) : k \in 1 .. 2 * m} \union {Leaf(k) : k \in DOMAIN LeafList}
<1>1. m \in Nat /\ DOMAIN edges = 1 .. m
  BY DEF CimInv
<1>2. I!Leaves \in SUBSET CimNodes
  BY DEF I!Leaves, CimNodes
<1>3. Listing(LeafList, I!Leaves)
  BY <1>2, CimDevicesFinite, FS_Subset, SetIsListed DEF LeafList
<1>4. l \in Nat /\ DOMAIN LeafList = 1 .. l
  BY <1>3 DEF Listing
<1>5. I!list_terminals = Ends \o Extra
  BY DEF I!list_terminals, LeafList
<1>6. \A k : End(k).node = Ended(k)
  <2>1. ASSUME NEW k, k % 2 = 1 PROVE End(k).node = Ended(k)
    BY <2>1 DEF Ended
  <2>2. ASSUME NEW k, k % 2 # 1 PROVE End(k).node = Ended(k)
    BY <2>2 DEF Ended
  <2> QED  BY <2>1, <2>2
<1>7. \A k : Leaf(k).node = LeafList[k]
  OBVIOUS
<1> HIDE DEF m, l, End, Leaf
<1>8. Ends \in Seq(T) /\ Len(Ends) = 2 * m /\ \A k \in 1 .. 2 * m : Ends[k] = End(k)
  <2>1. Ends \in [1 .. 2 * m -> T] /\ 2 * m \in Nat
    BY <1>1
  <2> QED  BY <2>1
<1>9. Extra \in Seq(T) /\ Len(Extra) = l /\ \A k \in 1 .. l : Extra[k] = Leaf(k)
  <2>1. Extra \in [1 .. l -> T]
    BY <1>4
  <2> QED  BY <1>4, <2>1
<1> HIDE DEF Ends, Extra, T
<1> DEFINE list == Ends \o Extra
<1>10. /\ list \in Seq(T) /\ Len(list) = 2 * m + l
       /\ \A k \in 1 .. 2 * m + l : list[k] = IF k <= 2 * m THEN Ends[k] ELSE Extra[k - 2 * m]
  <2>1. /\ list \in Seq(T) /\ Len(list) = Len(Ends) + Len(Extra)
        /\ \A k \in 1 .. Len(Ends) + Len(Extra) : list[k] = IF k <= Len(Ends) THEN Ends[k] ELSE Extra[k - Len(Ends)]
    BY <1>8, <1>9, ConcatProperties
  <2> HIDE DEF list
  <2> QED  BY <1>8, <1>9, <2>1
<1> HIDE DEF list
<1>11. DOMAIN list = 1 .. 2 * m + l
  BY <1>10
<1>12. \A k \in 1 .. 2 * m : list[k].node = Ended(k)
  <2>1. \A k \in 1 .. 2 * m : k \in 1 .. 2 * m + l /\ k <= 2 * m
    BY <1>1, <1>4
  <2> QED  BY <1>6, <1>8, <1>10, <2>1
<1>13. \A k \in 1 .. l : list[2 * m + k].node = LeafList[k]
  <2>1. \A k \in 1 .. l : 2 * m + k \in 1 .. 2 * m + l /\ ~ (2 * m + k <= 2 * m) /\ (2 * m + k) - 2 * m = k
    BY <1>1, <1>4
  <2> QED  BY <1>7, <1>9, <1>10, <2>1
<1> QED  BY <1>1, <1>3, <1>4, <1>5, <1>11, <1>12, <1>13 DEF list, m, l

\* Twice a number is even, one less odd.
LEMMA Parity ==
    /\ \A i \in Nat : (2 * i) % 2 = 0 /\ (2 * i + 1) \div 2 = i
    /\ \A i \in Nat \ {0} : (2 * i - 1) % 2 = 1 /\ ((2 * i - 1) + 1) \div 2 = i
    /\ \A k \in Nat \ {0} : /\ (k + 1) \div 2 \in Nat \ {0}
                            /\ k % 2 = 1 => k = 2 * ((k + 1) \div 2) - 1
                            /\ k % 2 # 1 => k = 2 * ((k + 1) \div 2)
  OBVIOUS

LEMMA TerminalsPerNode ==
    ASSUME CimInv, NEW n \in CimNodes
    PROVE  LET degree == I!Cardinality(Froms(n)) + I!Cardinality(Tos(n))
           IN  I!Cardinality(At(n)) = IF degree = 0 THEN 1 ELSE degree
<1> DEFINE list == I!list_terminals
           m == Len(edges)
           l == Len(LeafList)
           mine == {2 * m + j : j \in {k \in 1 .. l : LeafList[k] = n}}
<1>1. /\ Listing(LeafList, I!Leaves)
      /\ m \in Nat /\ DOMAIN edges = 1 .. m /\ l \in Nat /\ DOMAIN LeafList = 1 .. l
      /\ DOMAIN list = 1 .. 2 * m + l
      /\ \A k \in 1 .. 2 * m : list[k].node = Ended(k)
      /\ \A k \in 1 .. l : list[2 * m + k].node = LeafList[k]
  BY TerminalsAre
<1>2. \A k : k \in At(n) <=> k \in DOMAIN list /\ list[k].node = n
  BY DEF At
<1>3. /\ \A k : k \in Odd(n) <=> \E i \in 1 .. m : k = 2 * i - 1 /\ edges[i].from = n
      /\ \A k : k \in Even(n) <=> \E i \in 1 .. m : k = 2 * i /\ edges[i].to = n
  BY <1>1 DEF Odd, Even, Froms, Tos
<1>4. \A k : k \in mine <=> \E j \in 1 .. l : k = 2 * m + j /\ LeafList[j] = n
  OBVIOUS
<1> HIDE DEF list, m, l, mine
<1>5. \A k \in 1 .. 2 * m : k \in At(n) <=> k \in Odd(n) \union Even(n)
  <2>1. ASSUME NEW k \in 1 .. 2 * m, k % 2 = 1 PROVE k \in At(n) <=> k \in Odd(n) \union Even(n)
    <3>1. (k + 1) \div 2 \in 1 .. m /\ k = 2 * ((k + 1) \div 2) - 1
      BY <1>1, <2>1, Parity
    <3>2. k \in DOMAIN list /\ list[k].node = edges[(k + 1) \div 2].from
      <4>1. k \in 1 .. 2 * m + l
        BY <1>1
      <4>2. Ended(k) = edges[(k + 1) \div 2].from
        BY <2>1 DEF Ended
      <4> QED  BY <1>1, <4>1, <4>2
    <3>3. k \notin Even(n)
      <4>1. \A i \in 1 .. m : (2 * i) % 2 = 0
        BY <1>1, Parity
      <4>2. \A i \in 1 .. m : k # 2 * i
        BY <2>1, <4>1
      <4> QED  BY <1>3, <4>2
    <3>4. \A i \in 1 .. m : k = 2 * i - 1 => i = (k + 1) \div 2
      BY <1>1, <3>1
    <3> QED  BY <1>2, <1>3, <3>1, <3>2, <3>3, <3>4
  <2>2. ASSUME NEW k \in 1 .. 2 * m, k % 2 # 1 PROVE k \in At(n) <=> k \in Odd(n) \union Even(n)
    <3>1. (k + 1) \div 2 \in 1 .. m /\ k = 2 * ((k + 1) \div 2)
      BY <1>1, <2>2, Parity
    <3>2. k \in DOMAIN list /\ list[k].node = edges[(k + 1) \div 2].to
      <4>1. k \in 1 .. 2 * m + l
        BY <1>1
      <4>2. Ended(k) = edges[(k + 1) \div 2].to
        BY <2>2 DEF Ended
      <4> QED  BY <1>1, <4>1, <4>2
    <3>3. k \notin Odd(n)
      <4>1. \A i \in 1 .. m : (2 * i - 1) % 2 = 1
        BY <1>1, Parity
      <4>2. \A i \in 1 .. m : k # 2 * i - 1
        BY <2>2, <4>1
      <4> QED  BY <1>3, <4>2
    <3>4. \A i \in 1 .. m : k = 2 * i => i = (k + 1) \div 2
      BY <1>1, <3>1
    <3> QED  BY <1>2, <1>3, <3>1, <3>2, <3>3, <3>4
  <2> QED  BY <2>1, <2>2
<1>6. /\ \A k \in Odd(n) : k \in 1 .. 2 * m /\ k % 2 = 1
      /\ \A k \in Even(n) : k \in 1 .. 2 * m /\ k % 2 = 0
      /\ \A k \in mine : k \in 2 * m + 1 .. 2 * m + l
  BY <1>1, <1>3, <1>4, Parity
<1>7. \A k \in 2 * m + 1 .. 2 * m + l : k \in At(n) <=> k \in mine
  <2>1. SUFFICES ASSUME NEW k \in 2 * m + 1 .. 2 * m + l PROVE k \in At(n) <=> k \in mine
    OBVIOUS
  <2>2. k - 2 * m \in 1 .. l /\ 2 * m + (k - 2 * m) = k /\ k \in DOMAIN list
    BY <1>1
  <2>3. list[k].node = LeafList[k - 2 * m]
    BY <1>1, <2>2
  <2>4. \A j \in 1 .. l : k = 2 * m + j => j = k - 2 * m
    BY <1>1
  <2> QED  BY <1>2, <1>4, <2>2, <2>3, <2>4
<1>8. At(n) = (Odd(n) \union Even(n)) \union mine
  <2>1. \A k : k \in At(n) => k \in 1 .. 2 * m \/ k \in 2 * m + 1 .. 2 * m + l
    BY <1>1, <1>2
  <2>2. \A k : k \in At(n) <=> k \in (Odd(n) \union Even(n)) \union mine
    <3>1. ASSUME NEW k \in At(n) PROVE k \in (Odd(n) \union Even(n)) \union mine
      BY <1>5, <1>7, <2>1
    <3>2. ASSUME NEW k \in (Odd(n) \union Even(n)) \union mine PROVE k \in At(n)
      BY <1>5, <1>6, <1>7
    <3> QED  BY <3>1, <3>2
  <2> QED  BY <2>2
<1>9. Odd(n) \intersect Even(n) = {} /\ (Odd(n) \union Even(n)) \intersect mine = {}
  <2>1. \A k : ~ (k \in Odd(n) /\ k \in Even(n))
    BY <1>6
  <2>2. \A k : ~ (k \in 1 .. 2 * m /\ k \in 2 * m + 1 .. 2 * m + l)
    BY <1>1
  <2> QED  BY <1>6, <2>1, <2>2
<1>10. n \in I!Leaves <=> Froms(n) = {} /\ Tos(n) = {}
  BY DEF I!Leaves, Froms, Tos, CimNodes
<1>11. IsFiniteSet(mine) /\ Cardinality(mine) = IF n \in I!Leaves THEN 1 ELSE 0
  <2>1. CASE n \in I!Leaves
    <3>1. PICK j \in 1 .. l : LeafList[j] = n
      BY <1>1, <2>1 DEF Listing
    <3>2. \A i \in 1 .. l : LeafList[i] = n => i = j
      BY <1>1, <3>1 DEF Listing
    <3>3. \A k : k \in mine <=> k = 2 * m + j
      BY <1>4, <3>1, <3>2
    <3>4. mine = {2 * m + j}
      BY <3>3
    <3> QED  BY <2>1, <3>4, FS_Singleton
  <2>2. CASE n \notin I!Leaves
    <3>1. \A j \in 1 .. l : LeafList[j] \in I!Leaves
      BY <1>1, ElementOfSeq DEF Listing
    <3>2. mine = {}
      BY <1>4, <2>2, <3>1
    <3> QED  BY <2>2, <3>2, FS_EmptySet
  <2> QED  BY <2>1, <2>2
<1>12. /\ IsFiniteSet(Froms(n)) /\ IsFiniteSet(Odd(n)) /\ Cardinality(Odd(n)) = Cardinality(Froms(n))
       /\ IsFiniteSet(Tos(n)) /\ IsFiniteSet(Even(n)) /\ Cardinality(Even(n)) = Cardinality(Tos(n))
  BY EndsAreCounted
<1>13. /\ Cardinality(Froms(n)) \in Nat /\ (Cardinality(Froms(n)) = 0 <=> Froms(n) = {})
       /\ Cardinality(Tos(n)) \in Nat /\ (Cardinality(Tos(n)) = 0 <=> Tos(n) = {})
  BY <1>12, FS_CardinalityType, FS_EmptySet
<1> DEFINE ends == Odd(n) \union Even(n)
<1>14. IsFiniteSet(ends) /\ Cardinality(ends) = Cardinality(Odd(n)) + Cardinality(Even(n)) - Cardinality(Odd(n) \intersect Even(n))
  BY <1>12, FS_Union
<1>15. Cardinality({}) = 0
  BY FS_EmptySet
<1> DEFINE a == Cardinality(Froms(n))
           b == Cardinality(Tos(n))
<1>16. IsFiniteSet(ends) /\ Cardinality(ends) = a + b
  <2> HIDE DEF ends
  <2>1. Cardinality(ends) = a + b - 0
    BY <1>9, <1>12, <1>14, <1>15
  <2> QED  BY <1>13, <1>14, <2>1
<1>17. Cardinality(ends \union mine) = Cardinality(ends) + Cardinality(mine) - Cardinality(ends \intersect mine)
  <2> HIDE DEF ends
  <2> QED  BY <1>11, <1>16, FS_Union
<1>18. Cardinality(At(n)) = (a + b) + Cardinality(mine) - 0
  BY <1>8, <1>9, <1>15, <1>16, <1>17
<1>19. a \in Nat /\ b \in Nat /\ (n \in I!Leaves <=> a = 0 /\ b = 0)
  BY <1>10, <1>13
<1> HIDE DEF a, b
<1>20. Cardinality(At(n)) = IF a + b = 0 THEN 1 ELSE a + b
  BY <1>11, <1>18, <1>19
<1> QED  BY <1>20, ISizeIs DEF a, b

(* Every step of the service keeps the kinds of its rows.                    *)
LEMMA CimStep ==
    ASSUME CimInv, I!Next
    PROVE  CimInv'
<1>1. CASE I!CreateServicePoint
  <2>1. PICK node \in CimNodes \union {None}, meter \in CimDevices \union {None} :
           points' = Append(points, [node |-> node, meter |-> meter])
    BY <1>1 DEF I!CreateServicePoint, CimNodes, CimDevices
  <2>2. [node |-> node, meter |-> meter] \in CimPoint
    BY DEF CimPoint
  <2>3. UNCHANGED <<edges, keys>>
    BY <1>1 DEF I!CreateServicePoint
  <2> QED  BY <2>1, <2>2, <2>3 DEF CimInv
<1>2. CASE I!CreateEdge
  <2>1. PICK from \in CimNodes, to \in CimNodes : edges' = Append(edges, [from |-> from, to |-> to])
    BY <1>2 DEF I!CreateEdge, CimNodes
  <2>2. [from |-> from, to |-> to] \in CimEdge
    BY DEF CimEdge
  <2>3. UNCHANGED <<points, keys>>
    BY <1>2 DEF I!CreateEdge
  <2> QED  BY <2>1, <2>2, <2>3 DEF CimInv
<1>3. CASE I!Persist
  <2>1. PICK more \in SUBSET CimTypes : keys' = << more >> \o keys
    BY <1>3 DEF I!Persist, CimTypes
  <2>2. << more >> \in Seq(SUBSET CimTypes)
    OBVIOUS
  <2>3. UNCHANGED <<points, edges>>
    BY <1>3 DEF I!Persist
  <2>4. keys' \in Seq(SUBSET CimTypes)
    BY <2>1, <2>2 DEF CimInv
  <2> QED  BY <2>3, <2>4 DEF CimInv
<1> QED  BY <1>1, <1>2, <1>3 DEF I!Next

(* The rows of the tables the service maps are of the kinds it maps.         *)
THEOREM CimInvariance == Spec => []CimInv
<1>1. Init => CimInv
  BY DEF Init, I!Init, CimInv
<1>2. CimInv /\ [Next]_<<part, accounts, devices, cutover, cim, fleet, copilot, voltvar>> => CimInv'
  <2> SUFFICES ASSUME CimInv, [Next]_<<part, accounts, devices, cutover, cim, fleet, copilot, voltvar>>
               PROVE  CimInv'
    OBVIOUS
  <2>1. CASE UNCHANGED cim
    BY <2>1 DEF CimInv, cim
  <2>2. CASE Cim
    BY <2>2, CimStep DEF Cim
  <2> QED  BY <2>1, <2>2 DEF Next, Accounts, Onboarding, Cutover, Cim, Fleet, Copilot, VoltVar
<1> QED  BY <1>1, <1>2, PTL DEF Spec

(* What the service exports is the tables, however many rows they have: a    *)
(* customer's service point is in one usage point, a device has one kind of  *)
(* usage point, a node has a terminal for every end of an edge, the values   *)
(* are of the listed measurements, and the pages are the list.               *)
THEOREM ExportIsTheTablesHolds == Spec => []ExportIsTheTables
<1>1. ASSUME CimInv PROVE I!ExportIsTheTables
  <2>1. /\ I!list_usage_points \in Seq(AllPoints)
        /\ I!list_measurement_values \in Seq([reading : Int, type : CimTypes])
    BY <1>1, UsagePointsAre, ValuesAreListed
  <2>2. /\ I!Exported(I!list_measurement_values, 2) = I!list_measurement_values
        /\ I!Exported(I!list_usage_points, 1) = I!list_usage_points
    BY <2>1, PagesAreAll
  <2>3. \A d \in {"meter1", "meter2"} :
          \E p \in I!ToSet(I!list_usage_points) :
             /\ p.meter = d
             /\ \A q \in I!ToSet(I!list_usage_points) : q.meter = d => q.synthesized = p.synthesized
    BY <1>1, ServicesAssumption, OnePointPerDevice DEF CimDevices
  <2>4. \A n \in {"transformer", "bus"} :
          LET list == I!list_terminals
              degree == I!Cardinality({i \in DOMAIN edges : edges[i].from = n})
                        + I!Cardinality({i \in DOMAIN edges : edges[i].to = n})
          IN I!Cardinality({k \in DOMAIN list : list[k].node = n}) = IF degree = 0 THEN 1 ELSE degree
    BY <1>1, TerminalsPerNode DEF CimNodes, Froms, Tos, At
  <2>5. \A i \in DOMAIN points :
           LET list == I!list_usage_points IN
           \E k \in DOMAIN list :
              /\ {l \in DOMAIN list : i \in list[l].customers} = {k}
              /\ \A j \in list[k].customers :
                    j # i => points[j] = points[i] /\ (points[i].node # None \/ points[i].meter # None)
    BY <1>1, ServicesAssumption, CustomersOnce
  <2>6. I!ToSet(I!list_measurements) = {v.type : v \in I!ToSet(I!list_measurement_values)}
    BY <1>1, ValuesAreListed
  <2> QED  BY <2>2, <2>3, <2>4, <2>5, <2>6 DEF I!ExportIsTheTables
<1>2. CimInv => ExportIsTheTables
  BY <1>1 DEF ExportIsTheTables
<1> QED  BY <1>2, CimInvariance, PTL
=============================================================================
