------------------------------ MODULE Controls ------------------------------
(***************************************************************************)
(* The governance core of the operational-controls plane                   *)
(* (fastapi/routers/controls.py): the life of a control action from        *)
(* request to rollback, driven by HTTP handlers that run concurrently in   *)
(* the API's thread pool, its worker processes and its replicas.           *)
(*                                                                         *)
(* Every common.execute / common.query_one opens a connection and commits  *)
(* by itself, so a handler is a sequence of atomic steps: it reads the row *)
(* once, decides from that snapshot, calls the handler of the action type, *)
(* writes the new status with an unconditional UPDATE, and appends the     *)
(* audit row in a further statement.  A request that is refused changes    *)
(* nothing unless the refusal itself is audited, so the early returns are  *)
(* the guards of the first step.                                           *)
(***************************************************************************)
EXTENDS Naturals

CONSTANTS
    Actions,        \* identities of control actions (uuid4)
    Principals,     \* callers whose role is in REQUEST_ROLES
    Approvers,      \* those whose role is in APPROVE_ROLES
    Tenants,
    DefaultTenant,  \* the tenant of an action whose requester is global
    TenantOf,       \* tenant of each principal, None when it is global
    Procs,          \* request slots: pool threads, workers, replicas
    None,
    AllowAbort,     \* a request may die between two of its statements
    LateRefusal     \* a handler may raise HTTPException after it actuated

ASSUME ConstantsAssumption ==
    /\ Approvers \subseteq Principals
    /\ None \notin Principals \cup Tenants \cup Actions
    /\ DefaultTenant \in Tenants
    /\ TenantOf \in [Principals -> Tenants \cup {None}]
    /\ AllowAbort \in BOOLEAN
    /\ LateRefusal \in BOOLEAN

VARIABLES
    action,     \* table control_actions: the row of each action
    audit,      \* table control_audit: the events recorded for each action
    enabled,    \* OC_CONTROLS_ENABLED
    req,        \* what each request slot is doing
    \* History variables, which no handler reads:
    applied,    \* how often handler.execute changed the plant, up to two
    undone,     \* handler.rollback changed the plant
    offFlag,    \* the ways the plant was moved with the flag off throughout
    approvals,  \* the principals whose approval was written
    been,       \* every status the row has held
    overlapped, \* two requests have been at work on the action at a time
    sawOn       \* the flag was on at some moment of the request of a slot

plant == <<applied, undone, offFlag>>
past == <<approvals, been, overlapped>>
vars == <<action, audit, enabled, req, applied, undone, offFlag, approvals,
          been, overlapped, sawOn>>

-----------------------------------------------------------------------------
Statuses == {"PENDING", "APPROVED", "REJECTED", "EXECUTED", "FAILED",
             "ROLLED_BACK"}
Modes == {"dry_run", "live"}
Risks == {"low", "high"}
\* What _audit is called with by a transition, and by a blocked attempt.
Events == {"REQUESTED", "APPROVED", "REJECTED", "DRYRUN", "EXECUTED",
           "FAILED", "ROLLED_BACK", "BLOCKED"}
\* The events that come with an UPDATE of the row.
Updates == {"APPROVED", "REJECTED", "DRYRUN", "EXECUTED", "FAILED",
            "ROLLED_BACK"}

Row == [status : Statuses \cup {"ABSENT"}, mode : Modes, risk : Risks,
        requested_by : Principals \cup {None},
        approved_by : Principals \cup {None}, tenant_id : Tenants]

NoRow == [status |-> "ABSENT", mode |-> "dry_run", risk |-> "low",
          requested_by |-> None, approved_by |-> None,
          tenant_id |-> DefaultTenant]

Request == [pc : {"idle", "gate", "actuate", "revert", "update", "audit"},
            act : Actions \cup {None},      \* action_id of the request
            by : Principals \cup {None},    \* principal.name, if it is to be written
            saw : Statuses \cup {"ABSENT"}, \* row["status"] as _get returned it
            event : Events]                 \* what the request will record


\* A request on a whose next step is pc, bound to record event.
Doing(pc, a, by, event, saw) ==
    [pc |-> pc, act |-> a, by |-> by, saw |-> saw, event |-> event]

Idle == Doing("idle", None, None, "REQUESTED", "ABSENT")
Writing(a, by, event) == Doing("update", a, by, event, "ABSENT")
\* Slips of _audit's callers, for the mutants of PROJECT.json: reject, or
\* rollback, returns without its audit row.
RejectUnaudited(a, event) ==
    IF event = "REJECTED" THEN Idle ELSE Doing("audit", a, None, event, "ABSENT")
RollbackUnaudited(a, event) ==
    IF event = "ROLLED_BACK" THEN Idle ELSE Doing("audit", a, None, event, "ABSENT")

Recording(a, event) == Doing("audit", a, None, event, "ABSENT")

Exists(a) == action[a].status # "ABSENT"

\* A request is at work on a.
Busy(a) == \E p \in Procs : req[p].act = a

\* _assert_tenant
MayTouch(by, row) == TenantOf[by] \in {None, row.tenant_id}

TypeOK ==
    /\ action \in [Actions -> Row]
    /\ audit \in [Actions -> SUBSET Events]
    /\ enabled \in BOOLEAN
    /\ req \in [Procs -> Request]
    /\ applied \in [Actions -> 0..2]
    /\ undone \in [Actions -> BOOLEAN]
    /\ offFlag \in [Actions -> SUBSET {"execute", "rollback"}]
    /\ approvals \in [Actions -> SUBSET Principals]
    /\ been \in [Actions -> SUBSET Statuses]
    /\ overlapped \in [Actions -> BOOLEAN]
    /\ sawOn \in [Procs -> BOOLEAN]

Init ==
    /\ action = [a \in Actions |-> NoRow]
    /\ audit = [a \in Actions |-> {}]
    /\ enabled = FALSE
    /\ req = [p \in Procs |-> Idle]
    /\ applied = [a \in Actions |-> 0]
    /\ undone = [a \in Actions |-> FALSE]
    /\ offFlag = [a \in Actions |-> {}]
    /\ approvals = [a \in Actions |-> {}]
    /\ been = [a \in Actions |-> {}]
    /\ overlapped = [a \in Actions |-> FALSE]
    /\ sawOn = [p \in Procs |-> FALSE]

\* "Once" and "more than once" are all the properties tell apart.
AtMostTwo(n) == IF n < 2 THEN n + 1 ELSE 2

-----------------------------------------------------------------------------
(* The first step of each handler: the row is read and checked.  Roles are *)
(* checked by the require_role dependency before it.                       *)

\* submit_action: the interlocks of handler.plan have passed; INSERT.
Submit(p, by, a, mode, risk) ==
    /\ req[p].pc = "idle"
    /\ ~Exists(a)
    /\ action' = [action EXCEPT ![a] =
                    [status |-> "PENDING", mode |-> mode, risk |-> risk,
                     requested_by |-> by, approved_by |-> None,
                     tenant_id |-> IF TenantOf[by] = None THEN DefaultTenant
                                                          ELSE TenantOf[by]]]
    /\ req' = [req EXCEPT ![p] = Recording(a, "REQUESTED")]
    /\ been' = [been EXCEPT ![a] = @ \cup {"PENDING"}]
    /\ UNCHANGED <<audit, enabled, plant, approvals, overlapped, sawOn>>

\* Of the snapshot, only the status can be out of date when it is used, and
\* only the gate of a live execution uses it.  sawOn is followed from the
\* start of a request that may move the plant until it has.
MayMovePlant == {"gate", "actuate", "revert"}

Load(p, by, a, new) ==
    /\ req[p].pc = "idle"
    /\ Exists(a)
    /\ MayTouch(by, action[a])
    /\ req' = [req EXCEPT ![p] = new]
    /\ sawOn' = [sawOn EXCEPT ![p] = enabled /\ new.pc \in MayMovePlant]
    /\ overlapped' = [overlapped EXCEPT ![a] = @ \/ Busy(a)]
    /\ UNCHANGED <<action, audit, enabled, plant, approvals, been>>

\* A slip: the requester is not compared.
MayApproveAnyone(by, row) == row.status = "PENDING"

MayApprove(by, row) ==
    /\ row.status = "PENDING"
    /\ ~(row.risk = "high" /\ by = row.requested_by)

\* A slip: the audit row first, and no UPDATE after it.
ApproveAuditOnly(p, by, a) ==
    /\ by \in Approvers
    /\ MayApprove(by, action[a])
    /\ Load(p, by, a, Recording(a, "APPROVED"))

Approve(p, by, a) ==
    /\ by \in Approvers
    /\ MayApprove(by, action[a])
    /\ Load(p, by, a, Writing(a, by, "APPROVED"))

Reject(p, by, a) ==
    /\ by \in Approvers
    /\ action[a].status = "PENDING"
    /\ Load(p, by, a, Writing(a, by, "REJECTED"))

\* execute, dry_run branch: the audit row is written before the UPDATE.
ExecuteDryRun(p, by, a) ==
    /\ action[a].mode = "dry_run"
    /\ action[a].status \in {"PENDING", "APPROVED"}
    /\ Load(p, by, a, Recording(a, "DRYRUN"))

\* execute, live branch: the gates are evaluated on the snapshot, next.
ExecuteLive(p, by, a) ==
    /\ action[a].mode = "live"
    /\ Load(p, by, a, Doing("gate", a, None, "REQUESTED", action[a].status))

\* A slip: the status is not checked.
RollbackAnyTime(p, by, a) ==
    /\ by \in Approvers
    /\ Load(p, by, a, Doing("revert", a, None, "REQUESTED", "ABSENT"))

Rollback(p, by, a) ==
    /\ by \in Approvers
    /\ action[a].status = "EXECUTED"
    /\ Load(p, by, a, Doing("revert", a, None, "REQUESTED", "ABSENT"))

-----------------------------------------------------------------------------
(* The later steps of a request.                                           *)

\* Slips: the flag is ignored; a low-risk action runs whatever its status.
FlagIgnored == TRUE
MayExecuteAgain(risk, status) == risk = "high" => status = "APPROVED"

\* Read at call time.
controls_enabled == enabled

\* The approval rule by risk.
MayExecute(risk, status) ==
    IF risk = "high" THEN status = "APPROVED"
                     ELSE status \in {"PENDING", "APPROVED"}

\* The gates of a live execution.  A refusal by the master flag, and that of
\* a high-risk action which is not approved, are audited; the other is not.
Gate(p) ==
    LET r == req[p]
        risk == action[r.act].risk
    IN
    /\ r.pc = "gate"
    /\ req' = [req EXCEPT ![p] =
         IF controls_enabled /\ MayExecute(risk, r.saw)
         THEN Doing("actuate", r.act, None, "REQUESTED", "ABSENT")
         ELSE IF ~controls_enabled \/ risk = "high" THEN Recording(r.act, "BLOCKED")
         ELSE Idle]
    /\ sawOn' = [sawOn EXCEPT ![p] = @ /\ req'[p].pc = "actuate"]
    /\ UNCHANGED <<action, audit, enabled, plant, past>>

\* The request of p is done with the plant, which it took or left alone.
Move(p, how, took) ==
    /\ offFlag' = [offFlag EXCEPT ![req[p].act] =
                      IF took /\ ~sawOn[p] THEN @ \cup {how} ELSE @]
    /\ sawOn' = [sawOn EXCEPT ![p] = FALSE]

\* How execute goes on after its handler.
After(a, outcome) ==
    CASE outcome = "ok" -> Writing(a, None, "EXECUTED")
      [] outcome = "fail" -> Writing(a, None, "FAILED")
      [] outcome = "http" -> Idle

\* handler.execute.  outcome: it returns, it raises HTTPException (re-raised,
\* the row is not touched), or it raises anything else (FAILED).  took: the
\* plant was left changed; a failed handler may or may not have undone it.
Actuate(p, outcome, took) ==
    LET r == req[p] IN
    /\ r.pc = "actuate"
    /\ outcome = "ok" => took
    /\ outcome = "http" => (took => LateRefusal)
    /\ Move(p, "execute", took)
    /\ applied' = [applied EXCEPT ![r.act] = IF took THEN AtMostTwo(@) ELSE @]
    /\ req' = [req EXCEPT ![p] = After(r.act, outcome)]
    /\ UNCHANGED <<action, audit, enabled, undone, past>>

\* handler.rollback; an exception ends the request with the row as it was and
\* the plant undone or not.
Revert(p, ok, took) ==
    LET r == req[p] IN
    /\ r.pc = "revert"
    /\ ok => took
    /\ Move(p, "rollback", took)
    /\ undone' = [undone EXCEPT ![r.act] = took \/ @]
    /\ req' = [req EXCEPT ![p] =
         IF ok THEN Writing(r.act, None, "ROLLED_BACK") ELSE Idle]
    /\ UNCHANGED <<action, audit, enabled, applied, past>>

StatusOf(event) == IF event = "DRYRUN" THEN "EXECUTED" ELSE event

\* UPDATE control_actions ... WHERE action_id: whatever the status is by now.
Update(p) ==
    LET r == req[p] IN
    /\ r.pc = "update"
    /\ action' = [action EXCEPT ![r.act] =
                    [status |-> StatusOf(r.event), mode |-> @.mode,
                     risk |-> @.risk, requested_by |-> @.requested_by,
                     approved_by |-> IF r.event \in {"APPROVED", "REJECTED"}
                                     THEN r.by ELSE @.approved_by,
                     tenant_id |-> @.tenant_id]]
    /\ been' = [been EXCEPT ![r.act] = @ \cup {StatusOf(r.event)}]
    /\ approvals' = [approvals EXCEPT ![r.act] =
                        IF r.event = "APPROVED" THEN @ \cup {r.by} ELSE @]
    /\ req' = [req EXCEPT ![p] = IF r.event = "DRYRUN" THEN Idle
                                 ELSE Recording(r.act, r.event)]
    /\ UNCHANGED <<audit, enabled, plant, overlapped, sawOn>>

\* _audit
Audit(p) ==
    LET r == req[p] IN
    /\ r.pc = "audit"
    /\ audit' = [audit EXCEPT ![r.act] = @ \cup {r.event}]
    /\ req' = [req EXCEPT ![p] = IF r.event = "DRYRUN"
                                 THEN Writing(r.act, None, r.event) ELSE Idle]
    /\ UNCHANGED <<action, enabled, plant, past, sawOn>>

\* The process dies, or a statement of the request raises.
Abort(p) ==
    /\ AllowAbort
    /\ req[p].pc # "idle"
    /\ req' = [req EXCEPT ![p] = Idle]
    /\ sawOn' = [sawOn EXCEPT ![p] = FALSE]
    /\ UNCHANGED <<action, audit, enabled, plant, past>>

\* The flag is read at call time and may change at any moment.
Toggle ==
    /\ enabled' = ~enabled
    /\ sawOn' = [p \in Procs |->
                   sawOn[p] \/ (~enabled /\ req[p].pc \in MayMovePlant)]
    /\ UNCHANGED <<action, audit, req, plant, past>>

-----------------------------------------------------------------------------
Start(p) ==
    \E by \in Principals, a \in Actions :
        \/ \E mode \in Modes, risk \in Risks : Submit(p, by, a, mode, risk)
        \/ Approve(p, by, a)
        \/ Reject(p, by, a)
        \/ ExecuteDryRun(p, by, a)
        \/ ExecuteLive(p, by, a)
        \/ Rollback(p, by, a)

Continue(p) ==
    \/ Gate(p)
    \/ \E outcome \in {"ok", "fail", "http"}, took \in BOOLEAN :
            Actuate(p, outcome, took)
    \/ \E ok, took \in BOOLEAN : Revert(p, ok, took)
    \/ Update(p)
    \/ Audit(p)

Next ==
    \/ \E p \in Procs : Start(p) \/ Continue(p) \/ Abort(p)
    \/ Toggle

Spec == Init /\ [][Next]_vars

\* A request that started is run to its end by its pool thread; nobody is
\* obliged to make a request or to move the flag.
FairSpec == Spec /\ \A p \in Procs : WF_vars(Continue(p))

-----------------------------------------------------------------------------
(* Properties.                                                             *)

\* Separation of duties (controls.py:10, the check of approve): a high-risk
\* action never reaches the plant unless somebody other than its requester
\* approved it, whatever requests interleave and wherever they die.
TwoPersonRule ==
    \A a \in Actions :
        (action[a].risk = "high" /\ applied[a] > 0) =>
            \E p \in approvals[a] : p # action[a].requested_by

\* The master flag (controls.py:6): no execution reaches the plant when the
\* flag was off during the whole request.
FlagGatesExecution == \A a \in Actions : "execute" \notin offFlag[a]

\* The rows are of their types, and the audit trail states nothing that did not
\* happen: an APPROVED row follows an approval that was written, an EXECUTED row an
\* actuation, a ROLLED_BACK row an undoing, and a DRYRUN row is of an action that is one.
AuditIsHonest ==
    /\ TypeOK
    /\ \A a \in Actions :
        /\ "APPROVED" \in audit[a] => approvals[a] # {}
        /\ "EXECUTED" \in audit[a] => applied[a] > 0
        /\ "ROLLED_BACK" \in audit[a] => undone[a]
        /\ "DRYRUN" \in audit[a] => action[a].mode = "dry_run"

Audited(a, events) == audit[a] \cap events # {}

EventsOf(a, status) ==
    CASE status = "PENDING" -> {"REQUESTED"}
      [] status = "EXECUTED" -> IF action[a].mode = "dry_run" THEN {"DRYRUN"}
                                                              ELSE {"EXECUTED"}
      [] OTHER -> {status}

\* "an append-only audit trail (control_audit) for every transition"
\* (controls.py:12): once nobody works on an action, every status its row has
\* ever held is in its trail.  It takes requests that run to their end.
AuditIsComplete ==
    \A a \in Actions : ~Busy(a) =>
        \A s \in been[a] : Audited(a, EventsOf(a, s))

\* A change of the plant leaves a trace: once nobody works on an action that
\* reached the plant, its trail says that it was executed or that it failed
\* ("capturing after_state (or FAILED on error)", the docstring of execute).
ActuationIsAudited ==
    \A a \in Actions :
        (~Busy(a) /\ applied[a] > 0) => Audited(a, {"EXECUTED", "FAILED"})

\* The audit trail has every transition and every actuation (controls.py:12, the
\* docstring of execute), however many requests are at work.
TrailIsComplete == AuditIsComplete /\ ActuationIsAudited

\* The lifecycle of OPERATIONAL_CONTROLS.md, with the single-operator rule for
\* low-risk actions: the only changes of status.
Diagram == {<<"ABSENT", "PENDING">>, <<"PENDING", "APPROVED">>,
            <<"PENDING", "REJECTED">>, <<"PENDING", "EXECUTED">>,
            <<"PENDING", "FAILED">>, <<"APPROVED", "EXECUTED">>,
            <<"APPROVED", "FAILED">>, <<"EXECUTED", "ROLLED_BACK">>}

\* Every change of status is an arrow of the diagram: what was rejected, has
\* failed or was rolled back stays so, and nothing is approved after it ran.
LifecycleFollowsDiagram ==
    [][\A a \in Actions : action'[a].status # action[a].status =>
           <<action[a].status, action'[a].status>> \in Diagram]_vars

\* One approval, one actuation: an action is not applied a second time, and
\* what is undone had been applied.
AppliedAtMostOnce(a) ==
    /\ applied[a] < 2
    /\ (action[a].mode = "live" /\ undone[a]) => applied[a] = 1

\* "approved_by: must differ from requested_by for high-risk" (the schema of
\* control_actions), of the rows that record a live execution.
ApproverColumnDiffers(a) ==
    (/\ action[a].status = "EXECUTED" /\ action[a].mode = "live"
     /\ action[a].risk = "high") => action[a].approved_by # action[a].requested_by

\* Both hold of an action on which no two requests have overlapped.
AppliedOnce ==
    \A a \in Actions : ~overlapped[a] => AppliedAtMostOnce(a) /\ ApproverColumnDiffers(a)

\* A rollback that reached the row gets its audit row, even when other
\* requests on the same action go on for ever.
RollbackIsAudited ==
    \A a \in Actions :
        (action[a].status = "ROLLED_BACK") ~> Audited(a, {"ROLLED_BACK"})

-----------------------------------------------------------------------------
(* Refinement: where one request at a time touches an action, requests run *)
(* to their end and a handler that raises HTTPException has done nothing,  *)
(* the handlers implement the lifecycle they document.                     *)

Lifecycle == INSTANCE ControlLifecycle WITH
    stage <- [a \in Actions |-> action[a].status],
    terms <- [a \in Actions |-> [mode |-> action[a].mode,
                                 risk |-> action[a].risk,
                                 requester |-> action[a].requested_by]],
    effect <- [a \in Actions |->
                  IF undone[a] THEN "undone"
                  ELSE IF applied[a] > 0 THEN "applied" ELSE "none"]

\* The documented lifecycle, one transition at a time, is what an observer of
\* the table and of the plant sees, as long as no requests have overlapped.
ImplementsLifecycle ==
    /\ Lifecycle!Init
    /\ [][(\A a \in Actions : ~overlapped'[a]) => Lifecycle!Next]_(Lifecycle!lvars)
=============================================================================
