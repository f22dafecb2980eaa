----------------------------- MODULE Automation -----------------------------
(***************************************************************************)
(* The closed-loop automation engine (fastapi/routers/automation.py, with  *)
(* the de-duplication of auto_flisr.py and auto_voltvar.py) on top of the  *)
(* governance core.  A tick runs in a request slot of the API, like any    *)
(* other request, and calls submit_action, approve and execute directly:   *)
(* those steps are the ones of Controls, taken in the slot of the tick.    *)
(*                                                                         *)
(* One policy and one target: policies share nothing.  The engine can be   *)
(* called while an earlier tick still runs: POST /automation/tick is open  *)
(* to the controller, which gives up on a tick after 15 s and calls again  *)
(* 30 s later, to its replicas and to an administrator.  A tick that dies  *)
(* is one that takes no more steps.                                        *)
(***************************************************************************)
EXTENDS Controls, FiniteSets

CONSTANTS
    Engine,         \* the slots ticks run in; people use the others
    Requester,      \* "automation:<policy_id>"
    Supervisor,     \* "automation:supervisor"
    Proposals,      \* what the policy may propose: mode, risk, in bounds or not
    TRIP_THRESHOLD, \* OC_AUTOMATION_TRIP_AFTER
    MaxRuns         \* bound: times the policy is run

ASSUME AutomationAssumption ==
    /\ Engine \subseteq Procs
    /\ {Requester, Supervisor} \subseteq Approvers  \* _sys_actor: role admin
    /\ Requester # Supervisor
    /\ TenantOf[Requester] = None /\ TenantOf[Supervisor] = None
    /\ Proposals \subseteq [mode : Modes, risk : Risks, bounded : BOOLEAN]
    /\ TRIP_THRESHOLD \in Nat \ {0}
    /\ MaxRuns \in Nat

VARIABLES
    policy,     \* the row of automation_policies; last_run_at is a run number
    cooling,    \* the runs of which cooldown_s have not passed yet
    runs,       \* how often the policy has been run
    events,     \* automation_events: the decisions recorded of each action
    tick        \* what each tick is doing

avars == <<vars, policy, cooling, runs, events, tick>>

-----------------------------------------------------------------------------
Policy == [mode : {"recommend", "auto"}, tripped : BOOLEAN,
           failures : Nat, last_run_at : 0..MaxRuns]

Decisions == {"proposed", "blocked", "executed", "failed", "tripped"}

Tick == [pc : {"off", "cooldown", "evaluate", "mark", "submit", "decide",
               "approve", "execute", "reset", "bump", "trip"},
         mode : {"recommend", "auto"},  \* of the policy as the tick read it
         last_run_at : 0..MaxRuns,      \* likewise
         prop : Proposals \cup {None},
         act : Actions \cup {None},
         raised : BOOLEAN]              \* the last call raised

Off == [pc |-> "off", mode |-> "recommend", last_run_at |-> 0, prop |-> None,
        act |-> None, raised |-> FALSE]

AutomationTypeOK ==
    /\ TypeOK
    /\ policy \in Policy
    /\ cooling \subseteq 1..runs
    /\ runs \in 0..MaxRuns
    /\ events \in [Actions -> SUBSET Decisions]
    /\ tick \in [Engine -> Tick]

\* As seeded.
AutomationInit ==
    /\ Init
    /\ policy = [mode |-> "recommend", tripped |-> FALSE,
                 failures |-> 0, last_run_at |-> 0]
    /\ cooling = {} /\ runs = 0
    /\ events = [a \in Actions |-> {}]
    /\ tick = [p \in Engine |-> Off]

\* The slot of a tick is idle between two calls of the tick.
Between(p) == req[p].pc = "idle"

Goto(p, pc) == tick' = [tick EXCEPT ![p].pc = pc]
End(p) == tick' = [tick EXCEPT ![p] = Off]
Event(a, decision) == events' = [events EXCEPT ![a] = @ \cup {decision}]

-----------------------------------------------------------------------------
(* _tick                                                                   *)

\* _policies(enabled_only): the row, as all of the tick will see it.  A tick that
\* finds OC_AUTOMATION_ENABLED off, or the policy not enabled, does nothing, as
\* if it had not been called.
TickStart(p) ==
    /\ tick[p].pc = "off"
    /\ ~policy.tripped
    /\ tick' = [tick EXCEPT ![p] = [Off EXCEPT !.pc = "cooldown",
                                               !.mode = policy.mode,
                                               !.last_run_at = policy.last_run_at]]
    /\ UNCHANGED <<vars, policy, cooling, runs, events>>

\* _cooldown_active, of the row that was read.
Cooling(last_run_at) == last_run_at \in cooling

\* The policies before this one may have kept the tick busy in the meantime.
CheckCooldown(p) ==
    /\ tick[p].pc = "cooldown"
    /\ IF Cooling(tick[p].last_run_at) THEN End(p) ELSE Goto(p, "evaluate")
    /\ UNCHANGED <<vars, policy, cooling, runs, events>>

\* A slip: only approved proposals are looked for.
ApprovedOnly == {"APPROVED"}
OpenStatuses == {"PENDING", "APPROVED"}

\* The query that skips a target with an open action of this policy, or one
\* executed less than ten minutes ago (recent).  Only the noop policy, which
\* proposes a dry run, does without it.
Duplicate(recent) ==
    \E a \in Actions :
        /\ action[a].requested_by = Requester
        /\ \/ action[a].status \in OpenStatuses
           \/ action[a].status = "EXECUTED" /\ recent

Evaluate(p, prop, recent) ==
    /\ tick[p].pc = "evaluate"
    /\ tick' = [tick EXCEPT ![p] =
                   IF prop.mode = "live" /\ Duplicate(recent) THEN Off
                   ELSE [@ EXCEPT !.pc = "mark", !.prop = prop]]
    /\ UNCHANGED <<vars, policy, cooling, runs, events>>

\* UPDATE automation_policies SET last_run_at = now()
Mark(p) ==
    /\ tick[p].pc = "mark"
    /\ runs < MaxRuns
    /\ runs' = runs + 1
    /\ cooling' = cooling \cup {runs + 1}
    /\ policy' = [policy EXCEPT !.last_run_at = runs + 1]
    /\ Goto(p, "submit")
    /\ UNCHANGED <<vars, events>>

-----------------------------------------------------------------------------
(* _run_proposal                                                           *)

TickSubmit(p, a) ==
    /\ tick[p].pc = "submit"
    /\ Submit(p, Requester, a, tick[p].prop.mode, tick[p].prop.risk)
    /\ tick' = [tick EXCEPT ![p].pc = "decide", ![p].act = a]
    /\ UNCHANGED <<policy, cooling, runs, events>>

\* submit_action raised: an interlock.  The event names no action.
TickInterlock(p) ==
    /\ tick[p].pc = "submit"
    /\ End(p)
    /\ UNCHANGED <<vars, policy, cooling, runs, events>>

Permitted(t) == t.prop.bounded /\ controls_enabled

Decide(p) ==
    LET t == tick[p] IN
    /\ t.pc = "decide" /\ Between(p)
    /\ IF t.mode = "recommend" THEN Event(t.act, "proposed") /\ End(p)
       ELSE IF ~Permitted(t) THEN Event(t.act, "blocked") /\ End(p)
       ELSE /\ Goto(p, IF t.prop.risk = "high" THEN "approve" ELSE "execute")
            /\ UNCHANGED events
    /\ UNCHANGED <<vars, policy, cooling, runs>>

\* controls.approve, by the supervisor, or its 409.
TickApprove(p) ==
    LET a == tick[p].act IN
    /\ tick[p].pc = "approve" /\ Between(p)
    /\ IF MayApprove(Supervisor, action[a])
       THEN Approve(p, Supervisor, a) /\ Goto(p, "execute")
       ELSE UNCHANGED vars /\ Goto(p, "bump")
    /\ UNCHANGED <<policy, cooling, runs, events>>

\* controls.execute, or the 409 of its dry-run branch.
TickExecute(p) ==
    LET a == tick[p].act IN
    /\ tick[p].pc = "execute" /\ Between(p)
    /\ \/ /\ ExecuteDryRun(p, Requester, a) \/ ExecuteLive(p, Requester, a)
          /\ Goto(p, "reset")
       \/ /\ action[a].mode = "dry_run"
          /\ action[a].status \notin {"PENDING", "APPROVED"}
          /\ UNCHANGED vars
          /\ Goto(p, "bump")
    /\ UNCHANGED <<policy, cooling, runs, events>>

\* A step of the call.  It raised if it ends on anything but its last write.
TickContinue(p) ==
    /\ Continue(p)
    /\ tick' = [tick EXCEPT ![p].raised =
                   /\ req'[p].pc = "idle"
                   /\ tick[p].pc = "reset"
                   /\ ~(req[p].pc = "audit" /\ req[p].event = "EXECUTED")
                   /\ ~(req[p].pc = "update" /\ req[p].event = "DRYRUN")]
    /\ UNCHANGED <<policy, cooling, runs, events>>

\* A slip: what the call returned is not looked at.
ReturnedAnything(t) == TRUE

\* The call returned the row as it then read it: executed, or not any more.
Returned(t) == ~t.raised /\ action[t.act].status = "EXECUTED"

Judge(p) ==
    LET t == tick[p] IN
    /\ t.pc = "reset" /\ Between(p)
    /\ IF Returned(t)
       THEN /\ policy' = [policy EXCEPT !.failures = 0]
            /\ Event(t.act, "executed") /\ End(p)
       ELSE Goto(p, "bump") /\ UNCHANGED <<policy, events>>
    /\ UNCHANGED <<vars, cooling, runs>>

\* A slip: one failure too many.
TripsLate(fails) == fails > TRIP_THRESHOLD
Trips(fails) == fails >= TRIP_THRESHOLD

Bump(p) ==
    LET fails == policy.failures + 1 IN
    /\ tick[p].pc = "bump"
    /\ policy' = [policy EXCEPT !.failures = fails]
    /\ IF Trips(fails) THEN Goto(p, "trip") /\ UNCHANGED events
                       ELSE End(p) /\ Event(tick[p].act, "failed")
    /\ UNCHANGED <<vars, cooling, runs>>

Trip(p) ==
    /\ tick[p].pc = "trip"
    /\ policy' = [policy EXCEPT !.tripped = TRUE]
    /\ End(p) /\ Event(tick[p].act, "tripped")
    /\ UNCHANGED <<vars, cooling, runs>>

-----------------------------------------------------------------------------
(* People: patch_policy is one UPDATE; and time.                           *)

Patch(mode, reset_trip) ==
    /\ policy' = [policy EXCEPT !.mode = mode,
                     !.tripped = IF reset_trip THEN FALSE ELSE @,
                     !.failures = IF reset_trip THEN 0 ELSE @]
    /\ UNCHANGED <<vars, cooling, runs, events, tick>>

CooldownPasses(n) ==
    /\ n \in cooling
    /\ \A m \in cooling : n <= m
    /\ cooling' = cooling \ {n}
    /\ UNCHANGED <<vars, policy, runs, events, tick>>

\* Anyone else works on the actions the engine left for them.
Dispose(p) ==
    /\ \E by \in Principals \ {Requester, Supervisor}, a \in Actions :
          \/ Approve(p, by, a) \/ Reject(p, by, a)
          \/ ExecuteDryRun(p, by, a) \/ ExecuteLive(p, by, a)
          \/ Rollback(p, by, a)
    /\ UNCHANGED <<policy, cooling, runs, events, tick>>

PersonContinue(p) ==
    /\ Continue(p)
    /\ UNCHANGED <<policy, cooling, runs, events, tick>>

-----------------------------------------------------------------------------
TickStep(p) ==
    \/ CheckCooldown(p)
    \/ \E prop \in Proposals, recent \in BOOLEAN : Evaluate(p, prop, recent)
    \/ Mark(p)
    \/ (\E a \in Actions : TickSubmit(p, a)) \/ TickInterlock(p)
    \/ Decide(p) \/ TickApprove(p) \/ TickExecute(p) \/ TickContinue(p)
    \/ Judge(p) \/ Bump(p) \/ Trip(p)

AutomationNext ==
    \/ \E p \in Engine : TickStart(p) \/ TickStep(p)
    \/ \E p \in Procs \ Engine : Dispose(p) \/ PersonContinue(p)
    \/ \E reset_trip \in BOOLEAN, mode \in {"recommend", "auto"} :
          Patch(mode, reset_trip)
    \/ \E n \in cooling : CooldownPasses(n)
    \/ Toggle /\ UNCHANGED <<policy, cooling, runs, events, tick>>

AutomationSpec == AutomationInit /\ [][AutomationNext]_avars

-----------------------------------------------------------------------------
(* Properties.                                                             *)

\* "a circuit breaker trips a policy after repeated failures" (automation.py:15):
\* once no tick is about to open it, the breaker is open whenever the count of
\* failures has reached the threshold, however resets, failures and successes
\* interleave.
BreakerHolds ==
    (\A p \in Engine : tick[p].pc # "trip") =>
        (policy.failures >= TRIP_THRESHOLD => policy.tripped)

\* "de-duplicates against an already open/recent automation FLISR for the same
\* fault" (auto_flisr.py:11): the engine never has two live proposals waiting for
\* its target, whatever people approve, execute or reject in between.
OneWaitingProposal ==
    \A a, b \in Actions :
        (/\ action[a].status = "PENDING" /\ action[a].mode = "live"
         /\ action[b].status = "PENDING" /\ action[b].mode = "live") => a = b

\* A proposal that was recommended or blocked is left to people: the engine's
\* supervisor never approves it, and if it is high-risk and reached the plant
\* then a person did.
PeopleDispose ==
    \A a \in Actions : events[a] \cap {"proposed", "blocked"} # {} =>
        /\ Supervisor \notin approvals[a]
        /\ (action[a].risk = "high" /\ applied[a] > 0) =>
               approvals[a] \ {Requester, Supervisor} # {}

\* The feed of decisions tells the truth: what it calls executed was executed,
\* and a high-risk one with the approval of somebody else than its requester;
\* of one action it tells one story.
DecisionsAreTrue ==
    \A a \in Actions :
        /\ (action[a].mode = "live" /\ "executed" \in events[a]) =>
               /\ applied[a] > 0
               /\ action[a].risk = "high" => approvals[a] \ {Requester} # {}
        /\ Cardinality(events[a]) <= 1

\* What the engine says it decided is what happened, and what it left to people was
\* decided by people (automation.py:172-330).
DecisionsStand == AutomationTypeOK /\ PeopleDispose /\ DecisionsAreTrue
=============================================================================
