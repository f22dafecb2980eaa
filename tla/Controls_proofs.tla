--------------------------- MODULE Controls_proofs ---------------------------
(***************************************************************************)
(* Proofs about Controls, for any sets of actions, principals, approvers,  *)
(* tenants and request slots. First, what holds with and without requests  *)
(* that die half way. Then, where requests are run to their end: the trail *)
(* is complete with any number of requests at a time; and for the actions  *)
(* on which no requests overlap, the handlers implement ControlLifecycle.  *)
(* Without these hypotheses the runs ControlsConcurrent and ControlsRace   *)
(* show what is lost.                                                      *)
(***************************************************************************)
EXTENDS Controls, TLAPS

\* Somebody other than the requester approved a.
Seconded(a) == \E q \in approvals[a] : q # action[a].requested_by

\* What is known of a request by the step it is about to take.
RequestOK(p) ==
    LET r == req[p]
        a == r.act
    IN
    /\ r.pc = "idle" => r = Idle
    /\ r.pc # "idle" => a \in Actions /\ Exists(a)
    /\ r.pc \in {"gate", "actuate"} => action[a].mode = "live"
    /\ (r.pc = "gate" /\ r.saw = "APPROVED" /\ action[a].risk = "high") =>
           Seconded(a)
    /\ (r.pc = "gate" /\ enabled) \/ r.pc = "actuate" => sawOn[p]
    /\ (r.pc = "actuate" /\ action[a].risk = "high") => Seconded(a)
    /\ r.pc = "update" => r.event \in Updates
    /\ (r.pc = "update" /\ r.event \in {"APPROVED", "REJECTED"}) =>
           r.by \in Principals
    /\ (/\ r.pc = "update" /\ r.event = "APPROVED"
        /\ action[a].risk = "high") => r.by # action[a].requested_by
    /\ (r.pc = "audit" /\ r.event = "APPROVED") => approvals[a] # {}
    /\ (r.pc \in {"update", "audit"} /\ r.event = "EXECUTED") =>
           applied[a] > 0
    /\ (r.pc \in {"update", "audit"} /\ r.event = "ROLLED_BACK") =>
           undone[a]
    /\ (r.pc \in {"update", "audit"} /\ r.event = "DRYRUN") =>
           action[a].mode = "dry_run"

\* What is known of an action.
ActionOK(a) ==
    /\ ~Exists(a) => /\ applied[a] = 0
                     /\ audit[a] = {}
    /\ (action[a].status = "APPROVED" /\ action[a].risk = "high") => Seconded(a)

IInv ==
    /\ TypeOK
    /\ \A p \in Procs : RequestOK(p)
    /\ \A a \in Actions : ActionOK(a)
    /\ TwoPersonRule
    /\ FlagGatesExecution
    /\ AuditIsHonest

-----------------------------------------------------------------------------
(* Type correctness.                                                       *)

USE DEF Doing, Writing, Recording, After, controls_enabled

\* The records a request slot is given are requests.
LEMMA RequestTypes ==
    /\ Idle \in Request
    /\ NoRow \in Row
    /\ \A a \in Actions, by \in Principals, event \in Events :
           Writing(a, by, event) \in Request
    /\ \A a \in Actions, event \in Events :
           Writing(a, None, event) \in Request /\ Recording(a, event) \in Request
    /\ \A a \in Actions, saw \in Statuses \cup {"ABSENT"},
          pc \in {"gate", "actuate", "revert"} :
           Doing(pc, a, None, "REQUESTED", saw) \in Request
<1>1. Idle \in Request
  BY DEF Idle, Request, Events
<1>2. NoRow \in Row
  BY ConstantsAssumption DEF NoRow, Row, Statuses, Modes, Risks
<1>3. ASSUME NEW a \in Actions, NEW by \in Principals \cup {None},
             NEW event \in Events
      PROVE  Writing(a, by, event) \in Request /\ Recording(a, event) \in Request
  BY DEF Request
<1>4. ASSUME NEW a \in Actions, NEW saw \in Statuses \cup {"ABSENT"},
             NEW pc \in {"gate", "actuate", "revert"}
      PROVE  Doing(pc, a, None, "REQUESTED", saw) \in Request
  BY DEF Request, Events
<1>5. QED
  BY <1>1, <1>2, <1>3, <1>4

LEMMA InitType == Init => TypeOK
<1>1. Idle \in Request /\ NoRow \in Row
  BY RequestTypes
<1>2. ASSUME Init
      PROVE  /\ action \in [Actions -> Row]
             /\ req \in [Procs -> Request]
             /\ applied \in [Actions -> 0..2]
  BY <1>1, <1>2 DEF Init
<1>3. ASSUME Init
      PROVE  /\ audit \in [Actions -> SUBSET Events]
             /\ enabled \in BOOLEAN
             /\ undone \in [Actions -> BOOLEAN]
  BY <1>3 DEF Init
<1>4. ASSUME Init
      PROVE  /\ offFlag \in [Actions -> SUBSET {"execute", "rollback"}]
             /\ approvals \in [Actions -> SUBSET Principals]
             /\ been \in [Actions -> SUBSET Statuses]
             /\ overlapped \in [Actions -> BOOLEAN]
             /\ sawOn \in [Procs -> BOOLEAN]
  BY <1>4 DEF Init
<1>5. QED
  BY <1>2, <1>3, <1>4 DEF TypeOK

LEMMA SubmitType ==
    ASSUME TypeOK, NEW p \in Procs, NEW by \in Principals, NEW a \in Actions,
           NEW mode \in Modes, NEW risk \in Risks, Submit(p, by, a, mode, risk)
    PROVE  TypeOK'
<1>1. action' \in [Actions -> Row]
  BY ConstantsAssumption DEF TypeOK, Submit, Row, Statuses
<1>2. req' \in [Procs -> Request]
  BY RequestTypes DEF TypeOK, Submit, Events
<1>3. QED
  BY <1>1, <1>2 DEF TypeOK, Submit, Statuses, plant

LEMMA LoadType ==
    ASSUME TypeOK, NEW p \in Procs, NEW by \in Principals, NEW a \in Actions,
           \/ Approve(p, by, a) \/ Reject(p, by, a)
           \/ ExecuteDryRun(p, by, a) \/ ExecuteLive(p, by, a)
           \/ Rollback(p, by, a)
    PROVE  TypeOK'
<1>1. action[a].status \in Statuses \cup {"ABSENT"} /\ enabled \in BOOLEAN
  BY DEF TypeOK, Row
<1>2. \E new \in Request : Load(p, by, a, new)
  BY <1>1, RequestTypes DEF Approve, Reject, ExecuteDryRun, ExecuteLive,
     Rollback, Events
<1>3. QED
  BY <1>2 DEF TypeOK, Load, plant, past

\* A slot that does not rest has an action, by RequestOK.
LEMMA ContinueType ==
    ASSUME TypeOK, NEW p \in Procs, req[p].act \in Actions, Continue(p),
           RequestOK(p)
    PROVE  TypeOK'
<1> DEFINE r == req[p]
<1>1. r \in Request
  BY DEF TypeOK
<1>2. CASE Gate(p)
  <2>1. req' \in [Procs -> Request]
    BY <1>2, RequestTypes DEF TypeOK, Gate, Events
  <2>2. sawOn' \in [Procs -> BOOLEAN]
    BY <1>2 DEF TypeOK, Gate
  <2>3. QED
    BY <1>2, <2>1, <2>2 DEF TypeOK, Gate, plant, past
<1>3. ASSUME NEW outcome \in {"ok", "fail", "http"}, NEW took \in BOOLEAN,
             Actuate(p, outcome, took)
      PROVE  TypeOK'
  <2>1. req' \in [Procs -> Request]
    BY <1>3, RequestTypes DEF TypeOK, Actuate, Events
  <2>2. applied' \in [Actions -> 0..2] /\ offFlag' \in [Actions ->
            SUBSET {"execute", "rollback"}] /\ sawOn' \in [Procs -> BOOLEAN]
    BY <1>3 DEF TypeOK, Actuate, AtMostTwo, Move
  <2>3. QED
    BY <1>3, <2>1, <2>2 DEF TypeOK, Actuate, past
<1>4. ASSUME NEW ok \in BOOLEAN, NEW took \in BOOLEAN, Revert(p, ok, took)
      PROVE  TypeOK'
  <2>1. req' \in [Procs -> Request]
    BY <1>4, RequestTypes DEF TypeOK, Revert, Events
  <2>2. undone' \in [Actions -> BOOLEAN] /\ offFlag' \in [Actions ->
            SUBSET {"execute", "rollback"}] /\ sawOn' \in [Procs -> BOOLEAN]
    BY <1>4 DEF TypeOK, Revert, Move
  <2>3. QED
    BY <1>4, <2>1, <2>2 DEF TypeOK, Revert, past
<1>5. CASE Update(p)
  <2>1. r.event \in Updates /\ r.event \in Events
    BY <1>1, <1>5 DEF RequestOK, Update, Request
  <2>2. StatusOf(r.event) \in Statuses
    BY <2>1 DEF StatusOf, Updates, Statuses
  <2>3. r.event \in {"APPROVED", "REJECTED"} => r.by \in Principals
    BY <1>5 DEF RequestOK, Update
  <2>4. action' \in [Actions -> Row]
    BY <1>5, <2>2, <2>3 DEF TypeOK, Update, Row
  <2>5. req' \in [Procs -> Request]
    BY <1>5, <2>1, RequestTypes DEF TypeOK, Update
  <2>6. approvals' \in [Actions -> SUBSET Principals]
        /\ been' \in [Actions -> SUBSET Statuses]
    BY <1>5, <2>2, <2>3 DEF TypeOK, Update
  <2>7. QED
    BY <1>5, <2>4, <2>5, <2>6 DEF TypeOK, Update, plant
<1>6. CASE Audit(p)
  <2>1. r.event \in Events
    BY <1>1 DEF Request
  <2>2. req' \in [Procs -> Request]
    BY <1>6, <2>1, RequestTypes DEF TypeOK, Audit
  <2>3. audit' \in [Actions -> SUBSET Events]
    BY <1>6, <2>1 DEF TypeOK, Audit
  <2>4. QED
    BY <1>6, <2>2, <2>3 DEF TypeOK, Audit, plant, past
<1>7. QED
  BY <1>2, <1>3, <1>4, <1>5, <1>6 DEF Continue

LEMMA OtherType ==
    ASSUME TypeOK, (\E p \in Procs : Abort(p)) \/ Toggle \/ UNCHANGED vars
    PROVE  TypeOK'
<1>1. ASSUME NEW p \in Procs, Abort(p)
      PROVE  TypeOK'
  BY <1>1, RequestTypes DEF TypeOK, Abort, plant, past
<1>2. CASE Toggle
  BY <1>2 DEF TypeOK, Toggle, plant, past
<1>3. CASE UNCHANGED vars
  BY <1>3 DEF TypeOK, vars
<1>4. QED
  BY <1>1, <1>2, <1>3

-----------------------------------------------------------------------------
(* What a step may never take back.                                        *)

\* An action that exists keeps its terms, its approvals and its effects.
Keeps(a) ==
    Exists(a) =>
        /\ Exists(a)'
        /\ action'[a].mode = action[a].mode
        /\ action'[a].risk = action[a].risk
        /\ action'[a].requested_by = action[a].requested_by
        /\ approvals[a] \subseteq approvals'[a]
        /\ applied[a] > 0 => applied'[a] > 0
        /\ undone[a] => undone'[a]

LEMMA StatusExists == \A event \in Updates : StatusOf(event) \in Statuses
BY DEF StatusOf, Updates, Statuses

LEMMA StepKeeps ==
    ASSUME IInv, [Next]_vars, NEW a \in Actions
    PROVE  Keeps(a)
<1> USE DEF Keeps, Exists
<1>1. TypeOK /\ applied[a] \in 0..2
  BY DEF IInv, TypeOK
<1>2. ASSUME NEW p \in Procs, Start(p)
      PROVE  Keeps(a)
  <2>1. ASSUME NEW by \in Principals, NEW b \in Actions, NEW mode \in Modes,
               NEW risk \in Risks, Submit(p, by, b, mode, risk)
        PROVE  Keeps(a)
    BY <1>1, <2>1 DEF Submit, TypeOK, plant
  <2>2. ASSUME NEW by \in Principals, NEW b \in Actions, NEW new, Load(p, by, b, new)
        PROVE  Keeps(a)
    BY <2>2 DEF Load, plant, past
  <2>3. QED
    BY <1>2, <2>1, <2>2 DEF Start, Approve, Reject, ExecuteDryRun, ExecuteLive,
                            Rollback
<1>3. ASSUME NEW p \in Procs, Continue(p)
      PROVE  Keeps(a)
  <2>1. CASE Gate(p) \/ Audit(p)
    BY <2>1 DEF Gate, Audit, plant, past
  <2>2. ASSUME NEW outcome \in {"ok", "fail", "http"}, NEW took \in BOOLEAN,
               Actuate(p, outcome, took)
        PROVE  Keeps(a)
    BY <1>1, <2>2 DEF Actuate, AtMostTwo, TypeOK, past
  <2>3. ASSUME NEW ok \in BOOLEAN, NEW took \in BOOLEAN, Revert(p, ok, took)
        PROVE  Keeps(a)
    BY <1>1, <2>3 DEF Revert, TypeOK, past
  <2>4. CASE Update(p)
    <3>1. req[p].event \in Updates
      BY <2>4 DEF IInv, RequestOK, Update
    <3>2. StatusOf(req[p].event) # "ABSENT"
      BY <3>1, StatusExists DEF Statuses
    <3>3. QED
      BY <1>1, <2>4, <3>2 DEF Update, TypeOK, plant
  <2>5. QED
    BY <1>3, <2>1, <2>2, <2>3, <2>4 DEF Continue
<1>4. CASE (\E p \in Procs : Abort(p)) \/ Toggle \/ UNCHANGED vars
  BY <1>4 DEF Abort, Toggle, vars, plant, past
<1>5. QED
  BY <1>2, <1>3, <1>4 DEF Next

\* So a request that does not move itself stays as good as it was.
LEMMA OthersOK ==
    ASSUME NEW q \in Procs, RequestOK(q), req'[q] = req[q],
           sawOn[q] => sawOn'[q],
           enabled' => enabled \/ sawOn'[q] \/ req[q].pc # "gate",
           \A a \in Actions : Keeps(a)
    PROVE  RequestOK(q)'
BY DEF RequestOK, Keeps, Seconded

LEMMA TypeStep ==
    ASSUME IInv, [Next]_vars
    PROVE  TypeOK'
<1>1. TypeOK /\ \A p \in Procs : RequestOK(p)
  BY DEF IInv
<1>2. ASSUME NEW p \in Procs, Start(p)
      PROVE  TypeOK'
  BY <1>1, <1>2, SubmitType, LoadType DEF Start
<1>3. ASSUME NEW p \in Procs, Continue(p)
      PROVE  TypeOK'
  <2>1. req[p].pc # "idle"
    BY <1>3 DEF Continue, Gate, Actuate, Revert, Update, Audit
  <2>2. req[p].act \in Actions
    BY <1>1, <2>1 DEF RequestOK
  <2>3. QED
    BY <1>1, <1>3, <2>2, ContinueType
<1>4. QED
  BY <1>1, <1>2, <1>3, OtherType DEF Next

-----------------------------------------------------------------------------
(* Every request is as good as RequestOK says, step by step.               *)

LEMMA StartOK ==
    ASSUME IInv, TypeOK', NEW p \in Procs, Start(p), \A a \in Actions : Keeps(a)
    PROVE  \A q \in Procs : RequestOK(q)'
<1>1. TypeOK /\ (\A q \in Procs : RequestOK(q)) /\ \A a \in Actions : ActionOK(a)
  BY DEF IInv
<1>2. ASSUME NEW by \in Principals, NEW a \in Actions, NEW mode \in Modes,
             NEW risk \in Risks, Submit(p, by, a, mode, risk)
      PROVE  RequestOK(p)'
  <2>1. req'[p] = Recording(a, "REQUESTED") /\ action'[a].status = "PENDING"
    BY <1>1, <1>2 DEF Submit, TypeOK
  <2>2. QED
    BY <2>1 DEF RequestOK, Exists
<1>3. ASSUME NEW by \in Principals, NEW a \in Actions, NEW new, Load(p, by, a, new)
      PROVE  req'[p] = new /\ Exists(a) /\ UNCHANGED <<action, approvals>>
  BY <1>1, <1>3 DEF Load, TypeOK, past
<1>4. ASSUME NEW by \in Principals, NEW a \in Actions,
             Approve(p, by, a) \/ Reject(p, by, a)
      PROVE  RequestOK(p)'
  BY <1>3, <1>4 DEF Approve, Reject, MayApprove, RequestOK, Exists, Updates
<1>5. ASSUME NEW by \in Principals, NEW a \in Actions, ExecuteDryRun(p, by, a)
      PROVE  RequestOK(p)'
  BY <1>3, <1>5 DEF ExecuteDryRun, RequestOK, Exists
<1>6. ASSUME NEW by \in Principals, NEW a \in Actions, ExecuteLive(p, by, a)
      PROVE  RequestOK(p)'
  <2>1. ActionOK(a)
    BY <1>1
  <2>2. enabled' => sawOn'[p]
    BY <1>1, <1>6 DEF ExecuteLive, Load, TypeOK, MayMovePlant
  <2>3. QED
    BY <1>3, <1>6, <2>1, <2>2 DEF ExecuteLive, RequestOK, ActionOK, Exists, Seconded
<1>7. ASSUME NEW by \in Principals, NEW a \in Actions, Rollback(p, by, a)
      PROVE  RequestOK(p)'
  BY <1>3, <1>7 DEF Rollback, RequestOK, Exists
<1>8. RequestOK(p)'
  BY <1>2, <1>4, <1>5, <1>6, <1>7 DEF Start
<1>9. ASSUME NEW q \in Procs, q # p
      PROVE  RequestOK(q)'
  <2>1. req'[q] = req[q] /\ sawOn'[q] = sawOn[q] /\ enabled' = enabled
    BY <1>1, <1>9 DEF Start, Submit, Approve, Reject, ExecuteDryRun, ExecuteLive,
                      Rollback, Load, TypeOK
  <2>2. QED
    BY <1>1, <2>1, OthersOK
<1>10. QED
  BY <1>8, <1>9

LEMMA ContinueOK ==
    ASSUME IInv, TypeOK', NEW p \in Procs, Continue(p), \A a \in Actions : Keeps(a)
    PROVE  \A q \in Procs : RequestOK(q)'
<1> DEFINE r == req[p]
<1>1. TypeOK /\ (\A q \in Procs : RequestOK(q))
  BY DEF IInv
<1>2. PICK a \in Actions : a = r.act /\ Exists(a)
  <2>1. r.pc # "idle"
    BY DEF Continue, Gate, Actuate, Revert, Update, Audit
  <2>2. QED
    BY <1>1, <2>1 DEF RequestOK
<1>3. Exists(a)' /\ Keeps(a)
  BY <1>2 DEF Keeps
<1>4. RequestOK(p)
  BY <1>1
<1>5. ASSUME Gate(p)
      PROVE  RequestOK(p)'
  <2>1. UNCHANGED <<action, approvals>>
    BY <1>5 DEF Gate, past
  <2>2. CASE req'[p] = Doing("actuate", a, None, "REQUESTED", "ABSENT")
             /\ enabled /\ MayExecute(action[a].risk, r.saw)
    <3>1. sawOn'[p]
      <4>1. sawOn[p]
        BY <1>4, <1>5, <2>2 DEF RequestOK, Gate
      <4>2. QED
        BY <1>1, <1>5, <2>2, <4>1 DEF Gate, TypeOK
    <3>2. action[a].risk = "high" => Seconded(a)'
      BY <1>2, <1>4, <1>5, <2>1, <2>2 DEF MayExecute, RequestOK, Seconded, Gate
    <3>3. action'[a].mode = "live"
      BY <1>2, <1>4, <1>5, <2>1 DEF RequestOK, Gate
    <3>4. QED
      BY <1>2, <1>3, <2>1, <2>2, <3>1, <3>2, <3>3
         DEF RequestOK, Exists, Seconded
  <2>3. CASE req'[p] \in {Recording(a, "BLOCKED"), Idle}
    BY <1>2, <1>3, <2>3 DEF RequestOK, Idle, Exists
  <2>4. QED
    BY <1>2, <1>1, <1>5, <2>2, <2>3 DEF Gate, TypeOK
<1>6. ASSUME NEW outcome \in {"ok", "fail", "http"}, NEW took \in BOOLEAN,
             Actuate(p, outcome, took)
      PROVE  RequestOK(p)'
  <2>1. outcome = "ok" => applied'[a] > 0
    BY <1>1, <1>2, <1>6 DEF Actuate, TypeOK, AtMostTwo
  <2>2. req'[p] \in {Idle, Writing(a, None, "EXECUTED"), Writing(a, None, "FAILED")}
        /\ (req'[p] = Writing(a, None, "EXECUTED") => outcome = "ok")
    BY <1>2, <1>1, <1>6 DEF Actuate, TypeOK, Idle
  <2>3. QED
    BY <1>2, <1>3, <2>1, <2>2 DEF RequestOK, Updates, Idle
<1>7. ASSUME NEW ok \in BOOLEAN, NEW took \in BOOLEAN, Revert(p, ok, took)
      PROVE  RequestOK(p)'
  <2>1. ok => undone'[a]
    BY <1>1, <1>2, <1>7 DEF Revert, TypeOK
  <2>2. req'[p] = IF ok THEN Writing(a, None, "ROLLED_BACK") ELSE Idle
    BY <1>2, <1>1, <1>7 DEF Revert, TypeOK
  <2>3. QED
    BY <1>2, <1>3, <2>1, <2>2 DEF RequestOK, Updates, Idle
<1>8. ASSUME Update(p)
      PROVE  RequestOK(p)'
  <2>1. r.event = "APPROVED" => approvals'[a] # {}
    BY <1>1, <1>2, <1>4, <1>8 DEF Update, TypeOK
  <2>2. req'[p] = IF r.event = "DRYRUN" THEN Idle ELSE Recording(a, r.event)
    BY <1>2, <1>1, <1>8 DEF Update, TypeOK
  <2>3. r.event = "EXECUTED" => applied'[a] > 0
    BY <1>2, <1>4, <1>8 DEF Update, RequestOK, plant
  <2>4. r.event = "ROLLED_BACK" => undone'[a]
    BY <1>2, <1>4, <1>8 DEF Update, RequestOK, plant
  <2>5. QED
    BY <1>2, <1>3, <2>1, <2>2, <2>3, <2>4
       DEF RequestOK, Idle, Exists
<1>9. ASSUME Audit(p)
      PROVE  RequestOK(p)'
  <2>1. req'[p] = IF r.event = "DRYRUN" THEN Writing(a, None, "DRYRUN") ELSE Idle
    BY <1>2, <1>1, <1>9 DEF Audit, TypeOK
  <2>2. r.event = "DRYRUN" => action'[a].mode = "dry_run"
    BY <1>2, <1>4, <1>9 DEF Audit, RequestOK
  <2>3. QED
    BY <1>2, <1>3, <2>1, <2>2 DEF RequestOK, Updates, Idle, Exists
<1>10. RequestOK(p)'
  BY <1>5, <1>6, <1>7, <1>8, <1>9 DEF Continue
<1>11. ASSUME NEW q \in Procs, q # p
       PROVE  RequestOK(q)'
  <2>1. req'[q] = req[q] /\ sawOn'[q] = sawOn[q] /\ enabled' = enabled
    BY <1>1, <1>11 DEF Continue, Gate, Actuate, Revert, Update, Audit, Move, TypeOK
  <2>2. QED
    BY <1>1, <2>1, OthersOK
<1>12. QED
  BY <1>10, <1>11

LEMMA RequestStep ==
    ASSUME IInv, [Next]_vars
    PROVE  \A q \in Procs : RequestOK(q)'
<1>1. TypeOK /\ TypeOK' /\ (\A a \in Actions : Keeps(a))
      /\ \A q \in Procs : RequestOK(q)
  BY TypeStep, StepKeeps DEF IInv
<1>2. ASSUME NEW p \in Procs, Abort(p), NEW q \in Procs
      PROVE  RequestOK(q)'
  <2>1. CASE q = p
    <3>1. req'[q] = Idle
      BY <1>1, <1>2, <2>1 DEF Abort, TypeOK
    <3>2. QED
      BY <3>1 DEF RequestOK, Idle
  <2>2. CASE q # p
    <3>1. req'[q] = req[q] /\ sawOn'[q] = sawOn[q] /\ enabled' = enabled
      BY <1>1, <1>2, <2>2 DEF Abort, TypeOK
    <3>2. QED
      BY <1>1, <3>1, OthersOK
  <2>3. QED
    BY <2>1, <2>2
<1>3. ASSUME Toggle, NEW q \in Procs
      PROVE  RequestOK(q)'
  <2>1. req'[q] = req[q] /\ (sawOn[q] => sawOn'[q])
    BY <1>1, <1>3 DEF Toggle, TypeOK
  <2>2. enabled' => enabled \/ sawOn'[q] \/ req[q].pc # "gate"
    BY <1>1, <1>3 DEF Toggle, TypeOK, MayMovePlant
  <2>3. QED
    BY <1>1, <2>1, <2>2, OthersOK
<1>4. ASSUME UNCHANGED vars, NEW q \in Procs
      PROVE  RequestOK(q)'
  <2>1. req'[q] = req[q] /\ sawOn'[q] = sawOn[q] /\ enabled' = enabled
    BY <1>4 DEF vars
  <2>2. QED
    BY <1>1, <2>1, OthersOK
<1>5. QED
  BY <1>1, <1>2, <1>3, <1>4, StartOK, ContinueOK DEF Next

-----------------------------------------------------------------------------
(* The properties.                                                         *)

\* How a step changes what ActionOK and the properties are about: it submits
\* a, it writes the row, it moves the plant, it appends to the trail, or none.
LEMMA StepEffect ==
    ASSUME IInv, [Next]_vars, NEW a \in Actions
    PROVE  \/ /\ UNCHANGED <<audit, plant, approvals>>
              /\ ~Exists(a)
              /\ action'[a].status = "PENDING"
           \/ \E p \in Procs :
                 /\ Update(p)
                 /\ req[p].act = a
                 /\ UNCHANGED <<audit, plant>>
           \/ \E p \in Procs, outcome \in {"ok", "fail", "http"}, took \in BOOLEAN :
                 /\ Actuate(p, outcome, took)
                 /\ req[p].act = a
                 /\ UNCHANGED <<action, audit, undone, past>>
           \/ \E p \in Procs, ok, took \in BOOLEAN :
                 /\ Revert(p, ok, took)
                 /\ req[p].act = a
                 /\ UNCHANGED <<action, audit, applied, past>>
           \/ \E p \in Procs :
                 /\ Audit(p)
                 /\ req[p].act = a
                 /\ UNCHANGED <<action, plant, past>>
           \/ UNCHANGED <<action[a], audit[a], applied[a], undone[a],
                          offFlag[a], approvals[a]>>
<1>1. TypeOK /\ \A q \in Procs : RequestOK(q)
  BY DEF IInv
<1>2. ASSUME NEW p \in Procs, NEW by \in Principals, NEW b \in Actions,
             NEW mode \in Modes, NEW risk \in Risks, Submit(p, by, b, mode, risk)
      PROVE  \/ /\ UNCHANGED <<audit, plant, approvals>>
                /\ ~Exists(a)
                /\ action'[a].status = "PENDING"
             \/ UNCHANGED <<action[a], audit[a], applied[a], undone[a],
                            offFlag[a], approvals[a]>>
  BY <1>1, <1>2 DEF Submit, TypeOK, plant
<1>3. ASSUME NEW p \in Procs, Start(p)
      PROVE  \/ /\ UNCHANGED <<audit, plant, approvals>>
                /\ ~Exists(a)
                /\ action'[a].status = "PENDING"
             \/ UNCHANGED <<action[a], audit[a], applied[a], undone[a],
                            offFlag[a], approvals[a]>>
  BY <1>2, <1>3 DEF Start, Approve, Reject, ExecuteDryRun, ExecuteLive,
                    Rollback, Load, plant, past
<1>4. ASSUME NEW p \in Procs, Update(p)
      PROVE  \/ req[p].act = a /\ UNCHANGED <<audit, plant>>
             \/ UNCHANGED <<action[a], audit[a], applied[a], undone[a],
                            offFlag[a], approvals[a]>>
  BY <1>1, <1>4 DEF Update, TypeOK, plant
<1>5. ASSUME NEW p \in Procs, NEW outcome \in {"ok", "fail", "http"},
             NEW took \in BOOLEAN, Actuate(p, outcome, took)
      PROVE  \/ req[p].act = a /\ UNCHANGED <<action, audit, undone, past>>
             \/ UNCHANGED <<action[a], audit[a], applied[a], undone[a],
                            offFlag[a], approvals[a]>>
  BY <1>1, <1>5 DEF Actuate, Move, TypeOK, past
<1>6. ASSUME NEW p \in Procs, NEW ok \in BOOLEAN, NEW took \in BOOLEAN,
             Revert(p, ok, took)
      PROVE  \/ req[p].act = a /\ UNCHANGED <<action, audit, applied, past>>
             \/ UNCHANGED <<action[a], audit[a], applied[a], undone[a],
                            offFlag[a], approvals[a]>>
  BY <1>1, <1>6 DEF Revert, Move, TypeOK, past
<1>7. ASSUME NEW p \in Procs, Audit(p)
      PROVE  \/ req[p].act = a /\ UNCHANGED <<action, plant, past>>
             \/ UNCHANGED <<action[a], audit[a], applied[a], undone[a],
                            offFlag[a], approvals[a]>>
  BY <1>1, <1>7 DEF Audit, TypeOK, plant, past
<1>8. ASSUME \/ \E p \in Procs : Gate(p) \/ Abort(p)
             \/ Toggle
             \/ UNCHANGED vars
      PROVE  UNCHANGED <<action[a], audit[a], applied[a], undone[a],
                         offFlag[a], approvals[a]>>
  BY <1>8 DEF Gate, Abort, Toggle, vars, plant, past
<1>9. QED
  BY <1>3, <1>4, <1>5, <1>6, <1>7, <1>8 DEF Next, Continue

\* The invariants of one action: IInv's last four conjuncts at a.
Good(a) ==
    /\ ActionOK(a)
    /\ (action[a].risk = "high" /\ applied[a] > 0) => Seconded(a)
    /\ "execute" \notin offFlag[a]
    /\ "APPROVED" \in audit[a] => approvals[a] # {}
    /\ "EXECUTED" \in audit[a] => applied[a] > 0
    /\ "ROLLED_BACK" \in audit[a] => undone[a]
    /\ "DRYRUN" \in audit[a] => action[a].mode = "dry_run"

LEMMA GoodIsInv ==
    ASSUME TypeOK
    PROVE  (\A a \in Actions : Good(a)) <=> /\ \A a \in Actions : ActionOK(a)
                                          /\ TwoPersonRule
                                          /\ FlagGatesExecution
                                          /\ AuditIsHonest
BY DEF Good, TwoPersonRule, FlagGatesExecution, AuditIsHonest, Seconded

LEMMA GoodStep ==
    ASSUME IInv, [Next]_vars, NEW a \in Actions
    PROVE  Good(a)'
<1>1. TypeOK /\ TypeOK' /\ Keeps(a) /\ Good(a) /\ \A q \in Procs : RequestOK(q)
  BY TypeStep, StepKeeps, GoodIsInv DEF IInv
<1>2. ASSUME UNCHANGED <<audit, plant, approvals>>, ~Exists(a),
             action'[a].status = "PENDING"
      PROVE  Good(a)'
  BY <1>1, <1>2 DEF Good, ActionOK, Exists, plant
<1>3. ASSUME NEW p \in Procs, Update(p), req[p].act = a,
             UNCHANGED <<audit, plant>>
      PROVE  Good(a)'
  <2>1. RequestOK(p) /\ Exists(a)
    BY <1>1, <1>3 DEF RequestOK, Update
  <2>2. action'[a].status = "APPROVED" => req[p].event = "APPROVED"
    BY <1>1, <1>3 DEF Update, TypeOK, StatusOf
  <2>3. req[p].event = "APPROVED" => req[p].by \in approvals'[a]
    BY <1>1, <1>3 DEF Update, TypeOK
  <2>4. (action'[a].status = "APPROVED" /\ action'[a].risk = "high") => Seconded(a)'
    BY <1>1, <1>3, <2>1, <2>2, <2>3 DEF RequestOK, Update, Seconded, Keeps
  <2>5. Seconded(a) => Seconded(a)'
    BY <1>1, <2>1 DEF Seconded, Keeps
  <2>6. QED
    BY <1>1, <1>3, <2>1, <2>4, <2>5 DEF Good, ActionOK, Keeps, plant
<1>4. ASSUME NEW p \in Procs, NEW outcome \in {"ok", "fail", "http"},
             NEW took \in BOOLEAN, Actuate(p, outcome, took),
             req[p].act = a, UNCHANGED <<action, audit, undone, past>>
      PROVE  Good(a)'
  <2>1. RequestOK(p) /\ req[p].pc = "actuate"
    BY <1>1, <1>4 DEF Actuate
  <2>2. Exists(a) /\ sawOn[p] /\ (action[a].risk = "high" => Seconded(a))
    BY <1>4, <2>1 DEF RequestOK
  <2>3. offFlag'[a] = offFlag[a]
    BY <1>1, <1>4, <2>2 DEF Actuate, Move, TypeOK
  <2>4. QED
    BY <1>1, <1>4, <2>2, <2>3 DEF Good, ActionOK, Keeps, Seconded, Exists, past
<1>5. ASSUME NEW p \in Procs, NEW ok \in BOOLEAN, NEW took \in BOOLEAN,
             Revert(p, ok, took), req[p].act = a,
             UNCHANGED <<action, audit, applied, past>>
      PROVE  Good(a)'
  <2>1. Exists(a)
    BY <1>1, <1>5 DEF Revert, RequestOK
  <2>2. "execute" \notin offFlag'[a]
    BY <1>1, <1>5 DEF Revert, Move, TypeOK, Good
  <2>3. QED
    BY <1>1, <1>5, <2>1, <2>2 DEF Good, ActionOK, Keeps, Seconded, Exists, past
<1>6. ASSUME NEW p \in Procs, Audit(p), req[p].act = a,
             UNCHANGED <<action, plant, past>>
      PROVE  Good(a)'
  <2>1. RequestOK(p) /\ Exists(a)
    BY <1>1, <1>6 DEF RequestOK, Audit
  <2>2. audit'[a] = audit[a] \cup {req[p].event}
    BY <1>1, <1>6 DEF Audit, TypeOK
  <2>3. QED
    BY <1>1, <1>6, <2>1, <2>2
       DEF Good, ActionOK, RequestOK, Audit, Seconded, Exists, plant, past
<1>7. ASSUME UNCHANGED <<action[a], audit[a], applied[a], undone[a],
                         offFlag[a], approvals[a]>>
      PROVE  Good(a)'
  BY <1>1, <1>7 DEF Good, ActionOK, Seconded, Exists
<1>8. QED
  BY <1>2, <1>3, <1>4, <1>5, <1>6, <1>7, StepEffect

-----------------------------------------------------------------------------
LEMMA InitInv == Init => IInv
<1>1. Init => TypeOK
  BY InitType
<1>2. Init => \A p \in Procs : RequestOK(p)
  BY DEF Init, RequestOK, Idle
<1>3. Init => \A a \in Actions : Good(a)
  <2>1. ASSUME Init, NEW a \in Actions
        PROVE  Good(a)
    <3>1. action[a].status = "ABSENT"
      BY <2>1 DEF Init, NoRow
    <3>2. audit[a] = {} /\ applied[a] = 0 /\ offFlag[a] = {}
      BY <2>1 DEF Init
    <3>3. QED
      BY <3>1, <3>2 DEF Good, ActionOK, Exists
  <2>2. QED
    BY <2>1
<1>4. QED
  BY <1>1, <1>2, <1>3, GoodIsInv DEF IInv

LEMMA NextInv == IInv /\ [Next]_vars => IInv'
<1>1. SUFFICES ASSUME IInv, [Next]_vars
               PROVE  IInv'
  OBVIOUS
<1>2. TypeOK' /\ \A q \in Procs : RequestOK(q)'
  BY <1>1, TypeStep, RequestStep
<1>3. \A a \in Actions : Good(a)'
  BY <1>1, GoodStep
<1>4. /\ \A a \in Actions : ActionOK(a)'
      /\ TwoPersonRule'
      /\ FlagGatesExecution'
      /\ AuditIsHonest'
  BY <1>2, <1>3 DEF Good, TwoPersonRule, FlagGatesExecution, AuditIsHonest, Seconded
<1>5. QED
  BY <1>2, <1>4 DEF IInv

\* The invariant holds initially and every step preserves it.
THEOREM Invariance == Spec => []IInv
BY InitInv, NextInv, PTL DEF Spec

\* Every variable keeps its type: no handler writes a status, an actor or an
\* event outside those the schema and _audit know.
THEOREM TypeCorrectness == Spec => []TypeOK
BY Invariance, PTL DEF IInv

\* Separation of duties holds with any number of concurrent requests, workers
\* and replicas, whatever dies: every path to handler.execute of a high-risk
\* action goes through an approval by somebody else.
THEOREM TwoPersonRuleHolds == Spec => []TwoPersonRule
BY Invariance, PTL DEF IInv

\* The master flag gates every live execution: the plant is not moved by one
\* unless the flag was on at some moment of it.
THEOREM FlagGatesExecutionHolds == Spec => []FlagGatesExecution
BY Invariance, PTL DEF IInv

\* The audit trail never claims an approval, an execution, a rollback or a dry
\* run that did not take place.
THEOREM AuditIsHonestHolds == Spec => []AuditIsHonest
BY Invariance, PTL DEF IInv

-----------------------------------------------------------------------------
(* The trail.                                                              *)

\* The event _audit is called with for a status that the row of a has had.
EventOf(a, status) ==
    IF status = "PENDING" THEN "REQUESTED"
    ELSE IF status = "EXECUTED" /\ action[a].mode = "dry_run" THEN "DRYRUN"
    ELSE status

\* A request is about to append event to the trail of a.
Owes(a, event) ==
    \E p \in Procs : req[p].pc = "audit" /\ req[p].act = a /\ req[p].event = event

\* A request carries the outcome of an actuation of a.
Carries(a) ==
    \E p \in Procs : /\ req[p].pc \in {"update", "audit"} /\ req[p].act = a
                     /\ req[p].event \in {"EXECUTED", "FAILED"}

\* The event is in the trail of a or on its way there.
Traced(a, event) == event \in audit[a] \/ Owes(a, event)

\* Every status a has had is traced; the audit row of a dry run comes before its
\* status.
TrailOK(a) ==
    /\ been[a] # {} => Exists(a)
    /\ \A s \in been[a] : Traced(a, EventOf(a, s))

\* So is every actuation.
EffectOK(a) == applied[a] > 0 => Audited(a, {"EXECUTED", "FAILED"}) \/ Carries(a)

\* What the request of p will write fits the mode of its action.
WriteOK(p) ==
    /\ (req[p].pc = "update" /\ req[p].event = "EXECUTED") =>
           action[req[p].act].mode = "live"
    /\ (req[p].pc = "update" /\ req[p].event = "DRYRUN") =>
           "DRYRUN" \in audit[req[p].act]

TrailInv ==
    /\ \A p \in Procs : WriteOK(p)
    /\ \A a \in Actions : TrailOK(a)

EffectInv == \A a \in Actions : EffectOK(a)

-----------------------------------------------------------------------------
(* One request at a time.                                                  *)

\* No two requests are at work on a.
OneAtWork(a) ==
    \A p, q \in Procs : (req[p].act = a /\ req[q].act = a) => p = q

\* The outcome of an actuation of a has not reached its row.
Unwritten(a) ==
    \E p \in Procs : /\ req[p].pc = "update" /\ req[p].act = a
                     /\ req[p].event \in {"EXECUTED", "FAILED"}

\* What a request read is still so when it writes.
SoloOK(p) ==
    LET r == req[p]
        a == r.act
        s == action[a].status
    IN
    /\ r.pc = "gate" => r.saw = s
    /\ r.pc = "actuate" => MayExecute(action[a].risk, s)
    /\ r.pc = "revert" => s = "EXECUTED"
    /\ (r.pc = "update" /\ r.event \in {"APPROVED", "REJECTED"}) => s = "PENDING"
    /\ (r.pc = "update" /\ r.event \in {"EXECUTED", "FAILED"}) =>
           action[a].mode = "live" /\ MayExecute(action[a].risk, s)
    /\ (r.pc \in {"update", "audit"} /\ r.event = "DRYRUN") =>
           s \in {"PENDING", "APPROVED"}
    /\ (r.pc = "update" /\ r.event = "ROLLED_BACK") => s = "EXECUTED"

\* The row of a tells what became of the plant and who approved.
RowOK(a) ==
    LET row == action[a] IN
    /\ row.status = "ABSENT" => row = NoRow
    /\ applied[a] < 2
    /\ row.mode = "dry_run" => applied[a] = 0
    /\ (row.status \notin {"EXECUTED", "FAILED", "ROLLED_BACK"} /\ applied[a] > 0) =>
           Unwritten(a)
    /\ (row.mode = "live" /\ row.status \in {"EXECUTED", "ROLLED_BACK"}) =>
           applied[a] = 1
    /\ undone[a] => row.status \in {"EXECUTED", "ROLLED_BACK"}
    /\ (/\ row.risk = "high"
        /\ \/ row.status = "APPROVED"
           \/ row.status = "EXECUTED" /\ row.mode = "live") =>
           row.approved_by # row.requested_by

\* As long as no requests have overlapped on a.
Solo(a) ==
    ~overlapped[a] =>
        /\ RowOK(a)
        /\ OneAtWork(a)
        /\ \A p \in Procs : req[p].act = a => SoloOK(p)

SoloInv == \A a \in Actions : Solo(a)

-----------------------------------------------------------------------------
(* A step is a step of one slot on one action.                             *)

USE DEF Doing, Writing, Recording, After, controls_enabled

\* Slot p works on a: the other slots, the other actions and the trail stay.
Frame(p, a) ==
    /\ \A q \in Procs \ {p} : req'[q] = req[q]
    /\ \A b \in Actions \ {a} :
           UNCHANGED <<action[b], audit[b], applied[b], undone[b], been[b],
                       overlapped[b]>>
    /\ req[p].pc = "idle" \/ req[p].act = a
    /\ req'[p].act \in {a, None}
    /\ audit[a] \subseteq audit'[a]
    /\ overlapped[a] => overlapped'[a]

\* What a handler's first step does, of all that the proofs are about.
SubmitEffect(p, a) ==
    /\ Frame(p, a)
    /\ req[p].pc = "idle"
    /\ ~Exists(a)
    /\ req'[p] = Recording(a, "REQUESTED")
    /\ action'[a].status = "PENDING" /\ action'[a] # NoRow
    /\ been'[a] = been[a] \cup {"PENDING"}
    /\ UNCHANGED <<audit, applied, undone, overlapped>>

LoadEffect(p, a, new) ==
    /\ Frame(p, a)
    /\ req[p].pc = "idle"
    /\ Exists(a)
    /\ req'[p] = new
    /\ overlapped'[a] = (overlapped[a] \/ Busy(a))
    /\ UNCHANGED <<action, audit, applied, undone, been>>

LEMMA SubmitShape ==
    ASSUME TypeOK, NEW p \in Procs, NEW by \in Principals, NEW a \in Actions,
           NEW mode \in Modes, NEW risk \in Risks, Submit(p, by, a, mode, risk)
    PROVE  SubmitEffect(p, a)
<1>1. Frame(p, a)
  BY DEF TypeOK, Submit, Frame, plant
<1>2. action'[a].status = "PENDING" /\ action'[a] # NoRow
  BY DEF TypeOK, Submit, NoRow
<1>3. QED
  BY <1>1, <1>2 DEF TypeOK, Submit, SubmitEffect, plant

LEMMA LoadShape ==
    ASSUME TypeOK, NEW p \in Procs, NEW by \in Principals, NEW a \in Actions,
           NEW new, new.act = a, Load(p, by, a, new)
    PROVE  LoadEffect(p, a, new)
<1>1. req'[p] = new /\ overlapped'[a] = (overlapped[a] \/ Busy(a))
  BY DEF TypeOK, Load
<1>2. /\ \A q \in Procs \ {p} : req'[q] = req[q]
      /\ \A b \in Actions \ {a} : overlapped'[b] = overlapped[b]
  BY DEF TypeOK, Load
<1>3. QED
  BY <1>1, <1>2 DEF Load, LoadEffect, Frame, plant

LEMMA ContinueShape ==
    ASSUME IInv, NEW p \in Procs, Continue(p)
    PROVE  /\ req[p].act \in Actions /\ Exists(req[p].act)
           /\ req[p].pc # "idle"
           /\ RequestOK(p)
           /\ Frame(p, req[p].act)
<1> DEFINE a == req[p].act
<1>1. TypeOK /\ RequestOK(p) /\ req[p].pc # "idle"
  BY DEF IInv, Continue, Gate, Actuate, Revert, Update, Audit
<1>2. a \in Actions /\ Exists(a)
  BY <1>1 DEF RequestOK
<1>3. req'[p].act \in {a, None}
  BY <1>1, <1>2 DEF Continue, Gate, Actuate, Revert, Update, Audit, TypeOK, Idle
<1>4. CASE Gate(p)
  BY <1>1, <1>2, <1>3, <1>4 DEF TypeOK, Gate, Frame, plant, past
<1>5. ASSUME NEW outcome \in {"ok", "fail", "http"}, NEW took \in BOOLEAN,
             Actuate(p, outcome, took)
      PROVE  Frame(p, a)
  BY <1>1, <1>2, <1>3, <1>5 DEF TypeOK, Actuate, Frame, past
<1>6. ASSUME NEW ok \in BOOLEAN, NEW took \in BOOLEAN, Revert(p, ok, took)
      PROVE  Frame(p, a)
  BY <1>1, <1>2, <1>3, <1>6 DEF TypeOK, Revert, Frame, past
<1>7. CASE Update(p)
  BY <1>1, <1>2, <1>3, <1>7 DEF TypeOK, Update, Frame, plant
<1>8. CASE Audit(p)
  BY <1>1, <1>2, <1>3, <1>8 DEF TypeOK, Audit, Frame, plant, past
<1>9. QED
  BY <1>1, <1>2, <1>4, <1>5, <1>6, <1>7, <1>8 DEF Continue

-----------------------------------------------------------------------------
(* The trail is complete.                                                  *)

\* What is traced stays so.
LEMMA TracedStays ==
    ASSUME NEW p \in Procs, NEW a \in Actions, Frame(p, a),
           req[p].pc = "audit" => req[p].event \in audit'[a]
    PROVE  \A event : Traced(a, event) => Traced(a, event)'
<1>1. ASSUME NEW event, NEW q \in Procs, req[q].pc = "audit", req[q].act = a,
             req[q].event = event
      PROVE  Traced(a, event)'
  <2>1. CASE q = p
    BY <1>1, <2>1 DEF Traced
  <2>2. CASE q # p
    BY <1>1, <2>2 DEF Traced, Frame, Owes
  <2>3. QED
    BY <2>1, <2>2
<1>2. ASSUME NEW event, event \in audit[a]
      PROVE  Traced(a, event)'
  BY <1>2 DEF Frame, Traced
<1>3. QED
  BY <1>1, <1>2 DEF Traced, Owes

\* It is enough to look at the slot and the action of the step.
LEMMA TrailElsewhere ==
    ASSUME IInv, TrailInv, NEW p \in Procs, NEW a \in Actions, Frame(p, a),
           \A b \in Actions : Keeps(b), WriteOK(p)', TrailOK(a)'
    PROVE  TrailInv'
<1>1. ASSUME NEW q \in Procs, q # p
      PROVE  WriteOK(q)'
  <2>1. req'[q] = req[q] /\ WriteOK(q) /\ RequestOK(q)
    BY <1>1 DEF Frame, TrailInv, IInv
  <2>2. CASE req[q].pc = "update"
    <3>1. req[q].act \in Actions /\ Exists(req[q].act)
      BY <2>1, <2>2 DEF RequestOK
    <3>2. audit[req[q].act] \subseteq audit'[req[q].act]
      BY <3>1 DEF Frame
    <3>3. QED
      BY <2>1, <3>1, <3>2 DEF WriteOK, Keeps
  <2>3. QED
    BY <2>1, <2>2 DEF WriteOK
<1>2. ASSUME NEW b \in Actions, b # a
      PROVE  TrailOK(b)'
  <2>1. UNCHANGED <<action[b], audit[b], been[b]>>
    BY <1>2 DEF Frame
  <2>2. \A event : Owes(b, event) => Owes(b, event)'
    BY <1>2 DEF Frame, Owes
  <2>3. TrailOK(b)
    BY DEF TrailInv
  <2>4. QED
    BY <2>1, <2>2, <2>3 DEF TrailOK, Traced, EventOf, Exists
<1>3. QED
  BY <1>1, <1>2 DEF TrailInv

LEMMA TrailStart ==
    ASSUME IInv, TrailInv, NEW p \in Procs, Start(p), \A b \in Actions : Keeps(b)
    PROVE  TrailInv'
<1>1. TypeOK
  BY DEF IInv
<1>2. ASSUME NEW a \in Actions, SubmitEffect(p, a)
      PROVE  TrailInv'
  <2>1. TrailOK(a) /\ Frame(p, a)
    BY <1>2 DEF TrailInv, SubmitEffect
  <2>2. been'[a] = {"PENDING"} /\ Exists(a)'
    BY <1>2, <2>1 DEF SubmitEffect, TrailOK, Exists
  <2>3. Owes(a, "REQUESTED")'
    BY <1>2 DEF SubmitEffect, Owes
  <2>4. TrailOK(a)'
    BY <2>2, <2>3 DEF TrailOK, Traced, EventOf
  <2>5. WriteOK(p)'
    BY <1>2 DEF SubmitEffect, WriteOK
  <2>6. QED
    BY <2>1, <2>4, <2>5, TrailElsewhere
<1>3. ASSUME NEW a \in Actions, NEW new, LoadEffect(p, a, new),
             new.pc # "update" \/ new.event \in {"APPROVED", "REJECTED"}
      PROVE  TrailInv'
  <2>1. TrailOK(a) /\ Frame(p, a)
    BY <1>3 DEF TrailInv, LoadEffect
  <2>2. \A event : Traced(a, event) => Traced(a, event)'
    <3>1. req[p].pc # "audit"
      BY <1>3 DEF LoadEffect
    <3>2. QED
      BY <2>1, <3>1, TracedStays
  <2>3. TrailOK(a)'
    BY <1>3, <2>1, <2>2 DEF LoadEffect, TrailOK, EventOf, Exists
  <2>4. WriteOK(p)'
    BY <1>3 DEF LoadEffect, WriteOK
  <2>5. QED
    BY <2>1, <2>3, <2>4, TrailElsewhere
<1>4. ASSUME NEW by \in Principals, NEW a \in Actions,
             \/ Approve(p, by, a) \/ Reject(p, by, a) \/ ExecuteDryRun(p, by, a)
             \/ ExecuteLive(p, by, a) \/ Rollback(p, by, a)
      PROVE  \E new : /\ LoadEffect(p, a, new)
                      /\ new.pc # "update" \/ new.event \in {"APPROVED", "REJECTED"}
  BY <1>1, <1>4, LoadShape DEF Approve, Reject, ExecuteDryRun, ExecuteLive, Rollback
<1>5. QED
  BY <1>1, <1>2, <1>3, <1>4, SubmitShape DEF Start

LEMMA TrailContinue ==
    ASSUME IInv, TrailInv, NEW p \in Procs, Continue(p), \A b \in Actions : Keeps(b)
    PROVE  TrailInv'
<1> DEFINE r == req[p]
<1>1. PICK a \in Actions :
          /\ a = r.act /\ Exists(a) /\ RequestOK(p) /\ Frame(p, a)
          /\ TypeOK /\ TrailOK(a) /\ WriteOK(p)
  BY ContinueShape DEF IInv, TrailInv
<1>2. SUFFICES WriteOK(p)' /\ TrailOK(a)'
  BY <1>1, TrailElsewhere
<1>3. Exists(a)' /\ action'[a].mode = action[a].mode
  BY <1>1 DEF Keeps
<1>4. \A s : EventOf(a, s)' = EventOf(a, s)
  BY <1>3 DEF EventOf
<1>5. ASSUME been'[a] = been[a], r.pc = "audit" => req[p].event \in audit'[a]
      PROVE  TrailOK(a)'
  BY <1>1, <1>3, <1>4, <1>5, TracedStays DEF TrailOK
<1>6. CASE Gate(p)
  <2>1. req'[p].pc # "update"
    BY <1>1, <1>6 DEF Gate, TypeOK, Idle
  <2>2. QED
    BY <1>5, <1>6, <2>1 DEF Gate, past, WriteOK
<1>7. ASSUME NEW outcome \in {"ok", "fail", "http"}, NEW took \in BOOLEAN,
             Actuate(p, outcome, took)
      PROVE  WriteOK(p)' /\ TrailOK(a)'
  <2>1. req'[p] \in {Idle, Writing(a, None, "EXECUTED"), Writing(a, None, "FAILED")}
    BY <1>1, <1>7 DEF Actuate, TypeOK
  <2>2. action'[a].mode = "live"
    BY <1>1, <1>3, <1>7 DEF Actuate, RequestOK
  <2>3. WriteOK(p)'
    BY <2>1, <2>2 DEF WriteOK, Idle
  <2>4. QED
    BY <1>5, <1>7, <2>3 DEF Actuate, past
<1>8. ASSUME NEW ok \in BOOLEAN, NEW took \in BOOLEAN, Revert(p, ok, took)
      PROVE  WriteOK(p)' /\ TrailOK(a)'
  <2>1. req'[p] \in {Idle, Writing(a, None, "ROLLED_BACK")}
    BY <1>1, <1>8 DEF Revert, TypeOK
  <2>2. WriteOK(p)'
    BY <2>1 DEF WriteOK, Idle
  <2>3. QED
    BY <1>5, <1>8, <2>2 DEF Revert, past
<1>9. CASE Update(p)
  <2>1. PICK ev \in Updates : ev = req[p].event /\ req[p].pc = "update"
    BY <1>1, <1>9 DEF RequestOK, Update
  <2>2. PICK e : e = EventOf(a, StatusOf(ev))
    OBVIOUS
  <2>3. been'[a] = been[a] \cup {StatusOf(ev)}
        /\ req'[p] = IF ev = "DRYRUN" THEN Idle ELSE Recording(a, ev)
    BY <1>1, <1>9, <2>1 DEF Update, TypeOK
  <2>4. Traced(a, e)'
    <3>1. CASE ev = "DRYRUN"
      <4>1. e = "DRYRUN" /\ "DRYRUN" \in audit[a]
        BY <1>1, <2>1, <2>2, <3>1 DEF RequestOK, EventOf, WriteOK, StatusOf
      <4>2. QED
        BY <1>1, <4>1 DEF Traced, Frame
    <3>2. CASE ev # "DRYRUN"
      <4>1. e = ev
        BY <1>1, <2>1, <2>2, <3>2 DEF EventOf, StatusOf, WriteOK, Updates
      <4>2. QED
        BY <2>3, <3>2, <4>1 DEF Traced, Owes
    <3>3. QED
      BY <3>1, <3>2
  <2>5. \A event : Traced(a, event) => Traced(a, event)'
    BY <1>1, <2>1, TracedStays
  <2>6. ASSUME NEW s \in been'[a]
        PROVE  Traced(a, EventOf(a, s))'
    <3>1. CASE s = StatusOf(ev)
      BY <1>4, <2>2, <2>4, <3>1
    <3>2. CASE s \in been[a]
      BY <1>1, <1>4, <2>5, <3>2 DEF TrailOK
    <3>3. QED
      BY <2>3, <3>1, <3>2
  <2>7. WriteOK(p)'
    BY <2>3 DEF WriteOK, Idle
  <2>8. QED
    BY <1>3, <2>6, <2>7 DEF TrailOK
<1>10. CASE Audit(p)
  <2>1. r.event \in audit'[a]
        /\ req'[p] = IF r.event = "DRYRUN" THEN Writing(a, None, "DRYRUN") ELSE Idle
    BY <1>1, <1>10 DEF Audit, TypeOK
  <2>2. WriteOK(p)'
    BY <2>1 DEF WriteOK, Idle
  <2>3. QED
    BY <1>5, <1>10, <2>1, <2>2 DEF Audit, past
<1>11. QED
  BY <1>6, <1>7, <1>8, <1>9, <1>10 DEF Continue

LEMMA TrailStep ==
    ASSUME ~AllowAbort, IInv, TrailInv, [Next]_vars
    PROVE  TrailInv'
<1>1. \A b \in Actions : Keeps(b)
  BY StepKeeps
<1>2. CASE Toggle \/ UNCHANGED vars
  <2>1. UNCHANGED <<action, audit, been, req>>
    BY <1>2 DEF Toggle, vars, past
  <2>2. QED
    BY <2>1 DEF TrailInv, WriteOK, TrailOK, Traced, Owes, EventOf, Exists
<1>3. QED
  BY <1>1, <1>2, TrailStart, TrailContinue DEF Next, Abort

\* A request that carries the outcome of an actuation hands it to the trail.
LEMMA EffectStep ==
    ASSUME ~AllowAbort, ~LateRefusal, IInv, EffectInv, [Next]_vars
    PROVE  EffectInv'
<1>1. TypeOK
  BY DEF IInv
<1>2. ASSUME NEW p \in Procs, NEW a \in Actions, Frame(p, a), EffectOK(a)'
      PROVE  EffectInv'
  <2>1. ASSUME NEW b \in Actions, b # a
        PROVE  EffectOK(b)'
    <3>1. EffectOK(b) /\ UNCHANGED <<applied[b], audit[b]>>
      BY <1>2, <2>1 DEF EffectInv, Frame
    <3>2. Carries(b) => Carries(b)'
      BY <1>2, <2>1 DEF Frame, Carries
    <3>3. QED
      BY <3>1, <3>2 DEF EffectOK, Audited
  <2>2. QED
    BY <1>2, <2>1 DEF EffectInv
<1>3. ASSUME NEW p \in Procs, NEW a \in Actions, Frame(p, a),
             applied'[a] = applied[a],
             (req[p].pc \in {"update", "audit"} /\ req[p].event \in {"EXECUTED", "FAILED"})
                 => Carries(a)' \/ req[p].event \in audit'[a]
      PROVE  EffectInv'
  <2>1. EffectOK(a)
    BY DEF EffectInv
  <2>2. Audited(a, {"EXECUTED", "FAILED"}) => Audited(a, {"EXECUTED", "FAILED"})'
    BY <1>3 DEF Frame, Audited
  <2>3. Carries(a) => Carries(a)' \/ Audited(a, {"EXECUTED", "FAILED"})'
    BY <1>3 DEF Frame, Audited, Carries
  <2>4. QED
    BY <1>2, <1>3, <2>1, <2>2, <2>3 DEF EffectOK
<1>4. ASSUME NEW p \in Procs, Start(p)
      PROVE  EffectInv'
  <2>1. \E a \in Actions : SubmitEffect(p, a) \/ \E new : LoadEffect(p, a, new)
    BY <1>1, <1>4, SubmitShape, LoadShape
       DEF Start, Approve, Reject, ExecuteDryRun, ExecuteLive, Rollback
  <2>2. QED
    BY <1>3, <2>1 DEF SubmitEffect, LoadEffect
<1>5. ASSUME NEW p \in Procs, Continue(p)
      PROVE  EffectInv'
  <2>1. PICK a \in Actions : a = req[p].act /\ Frame(p, a)
    BY <1>5, ContinueShape
  <2>2. CASE Gate(p)
    BY <1>3, <2>1, <2>2 DEF Gate, plant
  <2>3. ASSUME NEW outcome \in {"ok", "fail", "http"}, NEW took \in BOOLEAN,
               Actuate(p, outcome, took)
        PROVE  EffectInv'
    <3>1. CASE took
      <4>1. req'[p] \in {Writing(a, None, "EXECUTED"), Writing(a, None, "FAILED")}
        BY <1>1, <2>1, <2>3, <3>1 DEF Actuate, TypeOK
      <4>2. Carries(a)'
        BY <4>1 DEF Carries
      <4>3. QED
        BY <1>2, <2>1, <4>2 DEF EffectOK
    <3>2. CASE ~took
      <4>1. applied'[a] = applied[a] /\ req[p].pc = "actuate"
        BY <1>1, <2>1, <2>3, <3>2 DEF Actuate, TypeOK
      <4>2. QED
        BY <1>3, <2>1, <4>1
    <3>3. QED
      BY <3>1, <3>2
  <2>4. ASSUME NEW ok \in BOOLEAN, NEW took \in BOOLEAN, Revert(p, ok, took)
        PROVE  EffectInv'
    BY <1>3, <2>1, <2>4 DEF Revert
  <2>5. CASE Update(p)
    <3>1. req[p].event # "DRYRUN" => req'[p] = Recording(a, req[p].event)
      BY <1>1, <2>1, <2>5 DEF Update, TypeOK
    <3>2. req[p].event \in {"EXECUTED", "FAILED"} => Carries(a)'
      BY <3>1 DEF Carries
    <3>3. QED
      BY <1>3, <2>1, <2>5, <3>2 DEF Update, plant
  <2>6. CASE Audit(p)
    <3>1. req[p].event \in audit'[a]
      BY <1>1, <2>1, <2>6 DEF Audit, TypeOK
    <3>2. QED
      BY <1>3, <2>1, <2>6, <3>1 DEF Audit, plant
  <2>7. QED
    BY <1>5, <2>2, <2>3, <2>4, <2>5, <2>6 DEF Continue
<1>6. CASE Toggle \/ UNCHANGED vars
  BY <1>6 DEF Toggle, vars, plant, EffectInv, EffectOK, Audited, Carries
<1>7. QED
  BY <1>4, <1>5, <1>6 DEF Next, Abort

\* "an append-only audit trail (control_audit) for every transition"
\* (controls.py:12): where requests are run to their end, every status a row has
\* held is in the trail once nobody works on it, whatever requests overlap.
THEOREM AuditIsCompleteHolds == ASSUME ~AllowAbort PROVE Spec => []AuditIsComplete
<1>1. Init => TrailInv
  BY DEF Init, TrailInv, WriteOK, TrailOK, Idle
<1>2. IInv /\ TrailInv /\ [Next]_vars => TrailInv'
  BY TrailStep
<1>3. IInv /\ TrailInv => AuditIsComplete
  <2>1. SUFFICES ASSUME IInv, TrailInv, NEW a \in Actions, ~Busy(a), NEW s \in been[a]
                 PROVE  Audited(a, EventsOf(a, s))
    BY DEF AuditIsComplete
  <2>2. EventOf(a, s) \in audit[a]
    BY <2>1 DEF TrailInv, TrailOK, Traced, Owes, Busy
  <2>3. EventOf(a, s) \in EventsOf(a, s)
    BY DEF EventOf, EventsOf
  <2>4. QED
    BY <2>2, <2>3 DEF Audited
<1>4. QED
  BY <1>1, <1>2, <1>3, Invariance, PTL DEF Spec

\* "capturing after_state (or FAILED on error)" (execute): where, besides, a
\* handler that raises HTTPException has done nothing, the trail also tells of
\* every change of the plant.
THEOREM TrailIsCompleteHolds ==
    ASSUME ~AllowAbort, ~LateRefusal PROVE Spec => []TrailIsComplete
<1>1. Init => EffectInv
  BY DEF Init, EffectInv, EffectOK
<1>2. IInv /\ EffectInv /\ [Next]_vars => EffectInv'
  BY EffectStep
<1>3. EffectInv => ActuationIsAudited
  BY DEF EffectInv, EffectOK, ActuationIsAudited, Carries, Busy
<1>4. Spec => []ActuationIsAudited
  BY <1>1, <1>2, <1>3, Invariance, PTL DEF Spec
<1>5. QED
  BY <1>4, AuditIsCompleteHolds, PTL DEF TrailIsComplete

-----------------------------------------------------------------------------
(* The documented lifecycle is implemented as long as no requests overlap. *)

\* The refinement mapping of Controls, by name.
Stage == [a \in Actions |-> action[a].status]
Terms == [a \in Actions |-> [mode |-> action[a].mode, risk |-> action[a].risk,
                             requester |-> action[a].requested_by]]
EffectOn(a) == IF undone[a] THEN "undone"
               ELSE IF applied[a] > 0 THEN "applied" ELSE "none"
Effect == [a \in Actions |-> EffectOn(a)]

\* What ImplementsLifecycle says of a step.
LifecycleStep ==
    [(\A a \in Actions : ~overlapped'[a]) => Lifecycle!Next]_(Lifecycle!lvars)

\* A step on a changes the lifecycle of a only.
LEMMA OneRow ==
    ASSUME NEW p, NEW a \in Actions, Frame(p, a)
    PROVE  /\ Stage' = [Stage EXCEPT ![a] = action'[a].status]
           /\ Terms' = [Terms EXCEPT ![a] =
                          [mode |-> action'[a].mode, risk |-> action'[a].risk,
                           requester |-> action'[a].requested_by]]
           /\ Effect' = [Effect EXCEPT ![a] = EffectOn(a)']
<1>1. \A b \in Actions \ {a} : /\ action'[b] = action[b]
                               /\ applied'[b] = applied[b]
                               /\ undone'[b] = undone[b]
  BY DEF Frame
<1>2. QED
  BY <1>1 DEF Stage, Terms, Effect, EffectOn

LEMMA Stutter ==
    ASSUME NEW p, NEW a \in Actions, Frame(p, a),
           action'[a] = action[a], EffectOn(a)' = EffectOn(a)
    PROVE  LifecycleStep
<1>1. Stage' = Stage /\ Terms' = Terms /\ Effect' = Effect
  BY OneRow, ZenonT(40) DEF Stage, Terms, Effect
<1>2. UNCHANGED Lifecycle!lvars
  BY <1>1 DEF Lifecycle!lvars, Stage, Terms, Effect, EffectOn
<1>3. QED
  BY <1>2 DEF LifecycleStep

\* Nothing is claimed of an action on which requests have overlapped.
LEMMA Excused ==
    ASSUME NEW a \in Actions, overlapped'[a]
    PROVE  Solo(a)' /\ LifecycleStep
BY DEF Solo, LifecycleStep

\* It is enough to look at the action of the step.
LEMMA SoloElsewhere ==
    ASSUME SoloInv, NEW p \in Procs, NEW a \in Actions, Frame(p, a), Solo(a)'
    PROVE  SoloInv'
<1>1. SUFFICES ASSUME NEW b \in Actions, b # a, ~overlapped'[b]
               PROVE  /\ RowOK(b)'
                      /\ OneAtWork(b)'
                      /\ \A q \in Procs : req'[q].act = b => SoloOK(q)'
  BY DEF SoloInv, Solo
<1>2. /\ UNCHANGED <<action[b], applied[b], undone[b]>> /\ RowOK(b) /\ OneAtWork(b)
      /\ \A q \in Procs : req[q].act = b => SoloOK(q)
  BY <1>1 DEF Frame, SoloInv, Solo
<1>3. Unwritten(b) => Unwritten(b)'
  BY <1>1 DEF Frame, Unwritten
<1>4. \A q \in Procs : req'[q].act = b => req'[q] = req[q]
  BY <1>1, ConstantsAssumption DEF Frame
<1>5. OneAtWork(b)'
  BY <1>2, <1>4 DEF OneAtWork
<1>6. ASSUME NEW q \in Procs, req'[q].act = b
      PROVE  SoloOK(q)'
  <2>1. req'[q] = req[q] /\ SoloOK(q) /\ action'[req[q].act] = action[req[q].act]
    BY <1>2, <1>4, <1>6
  <2>2. QED
    BY <2>1 DEF SoloOK
<1>7. QED
  BY <1>2, <1>3, <1>5, <1>6 DEF RowOK

\* A request on an action nobody is at work on.
LEMMA SoloBegins ==
    ASSUME NEW p \in Procs, NEW a \in Actions, Frame(p, a), ~Busy(a),
           SoloOK(p)', RowOK(a)'
    PROVE  Solo(a)'
<1>1. \A q \in Procs : req'[q].act = a => q = p
  BY DEF Frame, Busy
<1>2. QED
  BY <1>1 DEF Solo, OneAtWork

\* A step that leaves the row and the plant alone.
LEMMA RowStays ==
    ASSUME NEW p \in Procs, NEW a \in Actions, Frame(p, a), RowOK(a),
           UNCHANGED <<action[a], applied[a], undone[a]>>, req[p].pc # "update"
    PROVE  RowOK(a)' /\ LifecycleStep
<1>1. Unwritten(a) => Unwritten(a)'
  BY DEF Frame, Unwritten
<1>2. QED
  BY <1>1, Stutter DEF RowOK, EffectOn

LEMMA SoloSubmit ==
    ASSUME IInv, SoloInv, NEW p \in Procs,
           NEW by \in Principals, NEW a \in Actions,
           NEW mode \in Modes, NEW risk \in Risks, Submit(p, by, a, mode, risk)
    PROVE  SoloInv' /\ LifecycleStep
<1>1. TypeOK /\ ActionOK(a) /\ SubmitEffect(p, a) /\ Frame(p, a)
  BY SubmitShape DEF IInv, SubmitEffect
<1>2. CASE overlapped[a]
  <2>1. overlapped'[a]
    BY <1>1, <1>2 DEF SubmitEffect
  <2>2. QED
    BY <1>1, <2>1, Excused, SoloElsewhere
<1>3. ASSUME ~overlapped[a]
      PROVE  SoloInv' /\ LifecycleStep
  <2>1. TypeOK /\ ActionOK(a) /\ RowOK(a) /\ SubmitEffect(p, a)
    BY <1>1, <1>3 DEF SoloInv, Solo
  <2>2. Frame(p, a) /\ action[a] = NoRow /\ applied[a] = 0 /\ undone[a] = FALSE
    BY <2>1 DEF SubmitEffect, Exists, ActionOK, RowOK, TypeOK
  <2>3. /\ action'[a].status = "PENDING" /\ action'[a].mode = mode
        /\ action'[a].risk = risk /\ action'[a].requested_by = by
        /\ applied'[a] = 0 /\ undone'[a] = FALSE
    BY <2>1, <2>2 DEF Submit, TypeOK, plant
  <2>4. RowOK(a)'
    BY <2>3 DEF RowOK
  <2>5. SoloOK(p)' /\ ~Busy(a)
    <3>1. SoloOK(p)'
      BY <2>1 DEF SubmitEffect, SoloOK
    <3>2. \A q \in Procs : req[q].pc = "idle" => req[q].act = None
      BY DEF IInv, RequestOK, Idle
    <3>3. \A q \in Procs : req[q].act = a => req[q].pc = "idle"
      BY <2>1 DEF IInv, RequestOK, SubmitEffect
    <3>4. ~Busy(a)
      BY <3>2, <3>3, ConstantsAssumption DEF Busy
    <3>5. QED
      BY <3>1, <3>4
  <2>6. Lifecycle!Request(a, mode, risk, by)
    <3>1. Stage' = [Stage EXCEPT ![a] = "PENDING"] /\ Stage[a] = "ABSENT"
      BY <2>2, <2>3, OneRow DEF Stage, NoRow
    <3>2. Terms' = [Terms EXCEPT ![a] = [mode |-> mode, risk |-> risk, requester |-> by]]
      BY <2>2, <2>3, OneRow
    <3>3. Effect' = Effect
      BY <2>2, <2>3, OneRow DEF Effect, EffectOn
    <3>4. QED
      BY <3>1, <3>2, <3>3
         DEF Lifecycle!Request, Lifecycle!Move, Stage, Terms, Effect, EffectOn
  <2>7. LifecycleStep
    BY <2>6 DEF LifecycleStep, Lifecycle!Next, Modes, Risks
  <2>8. QED
    BY <2>2, <2>4, <2>5, <2>7, SoloBegins, SoloElsewhere
<1>4. QED
  BY <1>2, <1>3

LEMMA SoloLoad ==
    ASSUME IInv, SoloInv, NEW p \in Procs,
           NEW by \in Principals, NEW a \in Actions,
           \/ Approve(p, by, a) \/ Reject(p, by, a)
           \/ ExecuteDryRun(p, by, a) \/ ExecuteLive(p, by, a)
           \/ Rollback(p, by, a)
    PROVE  SoloInv' /\ LifecycleStep
<1>1. TypeOK
  BY DEF IInv
<1>2. PICK new : /\ LoadEffect(p, a, new)
                 /\ new.act = a /\ new.pc # "idle"
                 /\ new.pc = "gate" => new.saw = action[a].status
                 /\ new.pc # "actuate"
                 /\ new.pc = "revert" => action[a].status = "EXECUTED"
                 /\ new.pc = "update" => /\ new.event \in {"APPROVED", "REJECTED"}
                                         /\ action[a].status = "PENDING"
                 /\ new.pc = "audit" => action[a].status \in {"PENDING", "APPROVED"}
  BY <1>1, LoadShape DEF Approve, MayApprove, Reject, ExecuteDryRun, ExecuteLive, Rollback
<1>3. SoloOK(p)'
  BY <1>2 DEF LoadEffect, SoloOK
<1>4. Frame(p, a)
  BY <1>2 DEF LoadEffect
<1>5. CASE overlapped'[a]
  BY <1>4, <1>5, Excused, SoloElsewhere
<1>6. CASE ~overlapped'[a]
  <2>1. ~Busy(a) /\ RowOK(a)
    BY <1>2, <1>6 DEF LoadEffect, SoloInv, Solo
  <2>2. RowOK(a)' /\ LifecycleStep
    BY <1>2, <2>1, RowStays DEF LoadEffect
  <2>3. QED
    BY <1>3, <1>4, <2>1, <2>2, SoloBegins, SoloElsewhere
<1>7. QED
  BY <1>5, <1>6

\* What is known when the request of p takes a later step on a: it is alone.
Alone(p, a) ==
    /\ a = req[p].act
    /\ TypeOK /\ RequestOK(p) /\ SoloOK(p) /\ RowOK(a) /\ Exists(a)
    /\ req[p].pc # "idle"
    /\ Frame(p, a)
    /\ Unwritten(a) => req[p].pc = "update" /\ req[p].event \in {"EXECUTED", "FAILED"}

LEMMA ContinueAlone ==
    ASSUME IInv, NEW p \in Procs, Continue(p), NEW a \in Actions, a = req[p].act,
           Solo(a), ~overlapped[a]
    PROVE  Alone(p, a)
<1>1. req[p].pc # "idle" /\ Exists(a) /\ RequestOK(p) /\ Frame(p, a) /\ TypeOK
  BY ContinueShape DEF IInv
<1>2. SoloOK(p) /\ RowOK(a) /\ OneAtWork(a)
  BY DEF Solo
<1>3. ASSUME Unwritten(a)
      PROVE  req[p].pc = "update" /\ req[p].event \in {"EXECUTED", "FAILED"}
  BY <1>2, <1>3 DEF Unwritten, OneAtWork
<1>4. QED
  BY <1>1, <1>2, <1>3 DEF Alone

LEMMA SoloGate ==
    ASSUME NEW p \in Procs, NEW a \in Actions, Alone(p, a), Gate(p)
    PROVE  SoloOK(p)' /\ RowOK(a)' /\ LifecycleStep
<1> USE DEF Alone
<1>1. req'[p] \in {Doing("actuate", a, None, "REQUESTED", "ABSENT"),
                   Recording(a, "BLOCKED"), Idle}
      /\ (req'[p].pc = "actuate" => MayExecute(action[a].risk, action[a].status))
      /\ UNCHANGED <<action, applied, undone>> /\ req[p].pc = "gate"
  BY DEF Gate, TypeOK, plant, Idle, SoloOK
<1>2. SoloOK(p)'
  BY <1>1 DEF SoloOK, Idle
<1>3. QED
  BY <1>1, <1>2, RowStays

LEMMA SoloActuate ==
    ASSUME ~LateRefusal, NEW p \in Procs, NEW a \in Actions, Alone(p, a),
           NEW outcome \in {"ok", "fail", "http"}, NEW took \in BOOLEAN,
           Actuate(p, outcome, took)
    PROVE  SoloOK(p)' /\ RowOK(a)' /\ LifecycleStep
<1> USE DEF Alone
<1>1. /\ req[p].pc = "actuate" /\ UNCHANGED <<action, undone>>
      /\ action[a].mode = "live" /\ MayExecute(action[a].risk, action[a].status)
  BY DEF Actuate, past, RequestOK, SoloOK
<1>2. /\ action[a].status \in {"PENDING", "APPROVED"}
      /\ action[a].risk = "high" => action[a].status = "APPROVED"
      /\ action[a].risk \in Risks
  BY <1>1 DEF MayExecute, TypeOK, Row
<1>3. applied[a] = 0 /\ undone[a] = FALSE
  BY <1>1, <1>2 DEF RowOK, TypeOK
<1>4. req'[p] \in {Idle, Writing(a, None, "EXECUTED"), Writing(a, None, "FAILED")}
      /\ (took => req'[p] # Idle)
  BY DEF Actuate, TypeOK, Idle
<1>5. SoloOK(p)'
  BY <1>1, <1>4 DEF SoloOK, Idle
<1>6. CASE took
  <2>1. applied'[a] = 1
    BY <1>3, <1>6 DEF Actuate, TypeOK, AtMostTwo
  <2>2. Unwritten(a)'
    BY <1>4, <1>6 DEF Unwritten, Idle
  <2>3. RowOK(a)'
    BY <1>1, <1>2, <1>3, <2>1, <2>2 DEF RowOK
  <2>4. Lifecycle!Apply(a)
    <3>1. Effect' = [Effect EXCEPT ![a] = "applied"] /\ Effect[a] = "none"
      BY <1>1, <1>3, <2>1, OneRow DEF Effect, EffectOn
    <3>2. Stage' = Stage /\ Terms' = Terms
      BY <1>1 DEF Stage, Terms
    <3>3. Lifecycle!Ready(a)
      BY <1>1, <1>2 DEF Lifecycle!Ready
    <3>4. QED
      BY <3>1, <3>2, <3>3 DEF Lifecycle!Apply, Stage, Terms, Effect, EffectOn
  <2>5. QED
    BY <1>5, <2>3, <2>4 DEF LifecycleStep, Lifecycle!Next
<1>7. CASE ~took
  <2>1. applied'[a] = applied[a]
    BY <1>7 DEF Actuate, TypeOK
  <2>2. QED
    BY <1>1, <1>5, <2>1, RowStays
<1>8. QED
  BY <1>6, <1>7

LEMMA SoloRevert ==
    ASSUME NEW p \in Procs, NEW a \in Actions, Alone(p, a),
           NEW ok \in BOOLEAN, NEW took \in BOOLEAN, Revert(p, ok, took)
    PROVE  SoloOK(p)' /\ RowOK(a)' /\ LifecycleStep
<1> USE DEF Alone
<1>1. /\ req[p].pc = "revert" /\ UNCHANGED <<action, applied>>
      /\ action[a].status = "EXECUTED" /\ undone'[a] = (took \/ undone[a])
      /\ req'[p] \in {Idle, Writing(a, None, "ROLLED_BACK")}
  BY DEF Revert, past, SoloOK, TypeOK
<1>2. SoloOK(p)'
  BY <1>1 DEF SoloOK, Idle
<1>3. RowOK(a)'
  BY <1>1 DEF RowOK
<1>4. CASE took
  <2>1. Effect' = [Effect EXCEPT ![a] = "undone"]
    BY <1>1, <1>4, OneRow DEF EffectOn
  <2>2. Lifecycle!Undo(a)
    BY <1>1, <2>1 DEF Lifecycle!Undo, Effect, EffectOn
  <2>3. QED
    BY <1>2, <1>3, <2>2 DEF LifecycleStep, Lifecycle!Next
<1>5. CASE ~took
  <2>1. undone'[a] = undone[a]
    BY <1>1, <1>5 DEF TypeOK
  <2>2. QED
    BY <1>1, <1>2, <1>3, <2>1, Stutter DEF EffectOn
<1>6. QED
  BY <1>4, <1>5

LEMMA SoloUpdate ==
    ASSUME NEW p \in Procs, NEW a \in Actions, Alone(p, a), Update(p)
    PROVE  SoloOK(p)' /\ RowOK(a)' /\ LifecycleStep
<1> USE DEF Alone
<1> DEFINE s == action[a].status
<1>1. PICK ev \in Updates : ev = req[p].event /\ req[p].pc = "update"
  BY DEF RequestOK, Update
<1>2. /\ action'[a].status = StatusOf(ev)
      /\ action'[a].mode = action[a].mode
      /\ action'[a].risk = action[a].risk
      /\ action'[a].requested_by = action[a].requested_by
      /\ action'[a].approved_by = IF ev \in {"APPROVED", "REJECTED"} THEN req[p].by
                                  ELSE action[a].approved_by
      /\ UNCHANGED <<applied, undone>>
      /\ req'[p] = IF ev = "DRYRUN" THEN Idle ELSE Recording(a, ev)
  BY <1>1 DEF Update, TypeOK, plant
<1>3. action[a].risk \in Risks /\ applied[a] \in 0..2 /\ undone[a] \in BOOLEAN
  BY DEF TypeOK, Row
<1>4. SoloOK(p)'
  BY <1>2 DEF SoloOK, Idle
<1>5. /\ Stage' = [Stage EXCEPT ![a] = StatusOf(ev)]
      /\ Terms' = Terms
      /\ Effect' = Effect
  <2>1. Stage' = [Stage EXCEPT ![a] = StatusOf(ev)]
    BY <1>2, OneRow
  <2>2. Terms' = Terms
    BY <1>2, OneRow DEF Terms
  <2>3. Effect' = Effect
    BY <1>2 DEF Effect, EffectOn
  <2>4. QED
    BY <2>1, <2>2, <2>3
<1>6. CASE ev = "APPROVED"
  <2>1. /\ s = "PENDING" /\ applied[a] = 0 /\ undone[a] = FALSE
        /\ req[p].by \in Principals
        /\ action[a].risk = "high" => req[p].by # action[a].requested_by
    BY <1>1, <1>3, <1>6 DEF SoloOK, RowOK, RequestOK
  <2>2. RowOK(a)'
    BY <1>2, <1>6, <2>1 DEF RowOK, StatusOf
  <2>3. Lifecycle!Approve(a, req[p].by)
    <3>1. Stage[a] = "PENDING" /\ Stage' = [Stage EXCEPT ![a] = "APPROVED"]
      BY <1>5, <1>6, <2>1 DEF Stage, StatusOf
    <3>2. Effect[a] = "none"
      BY <2>1 DEF Effect, EffectOn
    <3>3. Terms[a].risk = "high" => req[p].by # Terms[a].requester
      BY <2>1 DEF Terms
    <3>4. QED
      BY <1>5, <3>1, <3>2, <3>3
         DEF Lifecycle!Approve, Lifecycle!Move, Stage, Terms, Effect, EffectOn
  <2>4. QED
    BY <1>4, <2>1, <2>2, <2>3 DEF LifecycleStep, Lifecycle!Next
<1>7. CASE ev = "REJECTED"
  <2>1. s = "PENDING" /\ applied[a] = 0 /\ undone[a] = FALSE
    BY <1>1, <1>3, <1>7 DEF SoloOK, RowOK
  <2>2. RowOK(a)'
    BY <1>2, <1>7, <2>1 DEF RowOK, StatusOf
  <2>3. Lifecycle!Reject(a)
    BY <1>5, <1>7, <2>1, SMTT(30) DEF Lifecycle!Reject, Lifecycle!Move, Stage, Terms, Effect,
                            EffectOn, StatusOf
  <2>4. QED
    BY <1>4, <2>2, <2>3 DEF LifecycleStep, Lifecycle!Next
<1>8. CASE ev = "DRYRUN"
  <2>1. /\ s \in {"PENDING", "APPROVED"} /\ action[a].mode = "dry_run"
        /\ applied[a] = 0 /\ undone[a] = FALSE
    BY <1>1, <1>3, <1>8 DEF SoloOK, RowOK, RequestOK
  <2>2. RowOK(a)'
    BY <1>2, <1>8, <2>1 DEF RowOK, StatusOf
  <2>3. Lifecycle!DryRun(a)
    BY <1>5, <1>8, <2>1 DEF Lifecycle!DryRun, Lifecycle!Move, Stage, Terms, Effect,
                            EffectOn, StatusOf
  <2>4. QED
    BY <1>4, <2>2, <2>3 DEF LifecycleStep, Lifecycle!Next
<1>9. CASE ev \in {"EXECUTED", "FAILED"}
  <2>1. action[a].mode = "live" /\ MayExecute(action[a].risk, s)
    BY <1>1, <1>9 DEF SoloOK
  <2>2. /\ s \in {"PENDING", "APPROVED"} /\ applied[a] < 2 /\ undone[a] = FALSE
        /\ action[a].risk = "high" => s = "APPROVED"
        /\ ev = "EXECUTED" => applied[a] = 1
    BY <1>1, <1>3, <1>9, <2>1 DEF MayExecute, RowOK, RequestOK
  <2>3. RowOK(a)'
    BY <1>2, <1>3, <1>9, <2>1, <2>2 DEF RowOK, StatusOf
  <2>4. Lifecycle!Ready(a)
    BY <1>3, <2>1, <2>2 DEF Lifecycle!Ready
  <2>5. CASE ev = "EXECUTED"
    <3>1. Lifecycle!Complete(a)
      <4>1. Effect[a] = "applied"
        BY <2>2, <2>5 DEF Effect, EffectOn
      <4>2. Stage' = [Stage EXCEPT ![a] = "EXECUTED"]
        BY <1>5, <2>5 DEF StatusOf
      <4>3. QED
        BY <1>5, <2>4, <4>1, <4>2
           DEF Lifecycle!Complete, Stage, Terms, Effect, EffectOn
    <3>2. QED
      BY <1>4, <2>3, <3>1 DEF LifecycleStep, Lifecycle!Next
  <2>6. CASE ev = "FAILED"
    <3>1. Lifecycle!Fail(a)
      BY <1>5, <2>4, <2>6 DEF Lifecycle!Fail, Stage, Terms, Effect, EffectOn, StatusOf
    <3>2. QED
      BY <1>4, <2>3, <3>1 DEF LifecycleStep, Lifecycle!Next
  <2>7. QED
    BY <1>9, <2>5, <2>6
<1>10. CASE ev = "ROLLED_BACK"
  <2>1. s = "EXECUTED" /\ undone[a] = TRUE
    BY <1>1, <1>3, <1>10 DEF SoloOK, RequestOK
  <2>2. RowOK(a)'
    BY <1>2, <1>10, <2>1 DEF RowOK, StatusOf
  <2>3. Lifecycle!RollBack(a)
    BY <1>5, <1>10, <2>1 DEF Lifecycle!RollBack, Lifecycle!Move, Stage, Terms, Effect,
                             EffectOn, StatusOf
  <2>4. QED
    BY <1>4, <2>2, <2>3 DEF LifecycleStep, Lifecycle!Next
<1>11. QED
  BY <1>6, <1>7, <1>8, <1>9, <1>10 DEF Updates

LEMMA SoloAudit ==
    ASSUME NEW p \in Procs, NEW a \in Actions, Alone(p, a), Audit(p)
    PROVE  SoloOK(p)' /\ RowOK(a)' /\ LifecycleStep
<1> USE DEF Alone
<1>1. /\ req'[p] = IF req[p].event = "DRYRUN" THEN Writing(a, None, "DRYRUN") ELSE Idle
      /\ UNCHANGED <<action, applied, undone>> /\ req[p].pc = "audit"
  BY DEF Audit, TypeOK, plant, past
<1>2. SoloOK(p)'
  BY <1>1 DEF SoloOK, Idle
<1>3. QED
  BY <1>1, <1>2, RowStays

LEMMA SoloContinue ==
    ASSUME ~LateRefusal, IInv, SoloInv, NEW p \in Procs, Continue(p)
    PROVE  SoloInv' /\ LifecycleStep
<1>1. PICK a \in Actions : a = req[p].act /\ Frame(p, a)
  BY ContinueShape
<1>2. CASE overlapped[a]
  BY <1>1, <1>2, Excused, SoloElsewhere DEF Frame
<1>3. CASE ~overlapped[a]
  <2>1. Alone(p, a) /\ Solo(a)
    BY <1>1, <1>3, ContinueAlone DEF SoloInv
  <2>2. SoloOK(p)' /\ RowOK(a)' /\ LifecycleStep
    BY <2>1, SoloGate, SoloActuate, SoloRevert, SoloUpdate, SoloAudit DEF Continue
  <2>3. \A q \in Procs : req'[q].act = a => q = p
    BY <1>1, <1>3, <2>1 DEF Frame, Solo, OneAtWork
  <2>4. Solo(a)'
    BY <2>2, <2>3 DEF Solo, OneAtWork
  <2>5. QED
    BY <1>1, <2>2, <2>4, SoloElsewhere
<1>4. QED
  BY <1>2, <1>3

LEMMA SoloStep ==
    ASSUME ~AllowAbort, ~LateRefusal, IInv, SoloInv, [Next]_vars
    PROVE  SoloInv' /\ LifecycleStep
<1>1. ASSUME NEW p \in Procs, Start(p)
      PROVE  SoloInv' /\ LifecycleStep
  BY <1>1, SoloSubmit, SoloLoad DEF Start
<1>2. ASSUME NEW p \in Procs, Continue(p)
      PROVE  SoloInv' /\ LifecycleStep
  BY <1>2, SoloContinue
<1>3. CASE Toggle \/ UNCHANGED vars
  <2>1. UNCHANGED <<action, applied, undone, req, overlapped>>
    BY <1>3 DEF Toggle, vars, plant, past
  <2>2. SoloInv'
    BY <2>1 DEF SoloInv, Solo, OneAtWork, SoloOK, RowOK, Unwritten
  <2>3. UNCHANGED Lifecycle!lvars
    BY <2>1 DEF Lifecycle!lvars
  <2>4. QED
    BY <2>2, <2>3 DEF LifecycleStep
<1>4. QED
  BY <1>1, <1>2, <1>3 DEF Next, Abort

LEMMA SoloInit == Init => SoloInv /\ Lifecycle!Init
<1>1. SUFFICES ASSUME Init
               PROVE  SoloInv /\ Lifecycle!Init
  OBVIOUS
<1>2. \A p \in Procs : req[p].act = None
  BY <1>1 DEF Init, Idle
<1>3. \A a \in Actions : action[a] = NoRow /\ applied[a] = 0 /\ undone[a] = FALSE
  BY <1>1 DEF Init
<1>4. ASSUME NEW a \in Actions
      PROVE  RowOK(a)
  <2>1. action[a] = NoRow /\ applied[a] = 0 /\ undone[a] = FALSE
    BY <1>3
  <2>2. /\ NoRow.status = "ABSENT" /\ NoRow.mode = "dry_run" /\ NoRow.risk = "low"
    BY DEF NoRow
  <2>3. QED
    BY <2>1, <2>2 DEF RowOK
<1>5. Lifecycle!Init
  BY <1>3 DEF Lifecycle!Init, Lifecycle!NoTerms, NoRow
<1>6. QED
  BY <1>2, <1>4, <1>5, ConstantsAssumption DEF SoloInv, Solo, OneAtWork

\* One approval, one actuation, and the second person is in the row, for every
\* action on which no two requests have been at work at a time.
THEOREM AppliedOnceHolds ==
    ASSUME ~AllowAbort, ~LateRefusal PROVE Spec => []AppliedOnce
<1>1. IInv /\ SoloInv /\ [Next]_vars => SoloInv'
  BY SoloStep
<1>2. SoloInv => AppliedOnce
  BY DEF SoloInv, Solo, RowOK, AppliedOnce, AppliedAtMostOnce, ApproverColumnDiffers
<1>3. QED
  BY <1>1, <1>2, SoloInit, Invariance, PTL DEF Spec

\* As long as no requests overlap, the handlers of controls.py implement the
\* lifecycle that OPERATIONAL_CONTROLS.md documents.
THEOREM LifecycleImplemented ==
    ASSUME ~AllowAbort, ~LateRefusal PROVE Spec => ImplementsLifecycle
<1>1. IInv /\ SoloInv /\ [Next]_vars => SoloInv'
  BY SoloStep
<1>2. IInv /\ SoloInv /\ [Next]_vars
        => [(\A a \in Actions : ~overlapped'[a]) => Lifecycle!Next]_(Lifecycle!lvars)
  BY SoloStep DEF LifecycleStep
<1>3. QED
  BY <1>1, <1>2, SoloInit, Invariance, PTL DEF Spec, ImplementsLifecycle

\* Where requests on one action never overlap, they implement all of it, step by step.
COROLLARY LifecycleRefined ==
    ASSUME ~AllowAbort, ~LateRefusal
    PROVE  Spec /\ [](\A a \in Actions : ~overlapped[a]) => Lifecycle!Spec
<1>1. IInv /\ SoloInv /\ [Next]_vars => SoloInv'
  BY SoloStep
<1>2. IInv /\ SoloInv /\ (\A a \in Actions : ~overlapped[a])' /\ [Next]_vars
        => [Lifecycle!Next]_(Lifecycle!lvars)
  BY SoloStep DEF LifecycleStep
<1>3. QED
  BY <1>1, <1>2, SoloInit, Invariance, PTL DEF Spec, Lifecycle!Spec
=============================================================================
