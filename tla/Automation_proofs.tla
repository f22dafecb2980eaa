-------------------------- MODULE Automation_proofs --------------------------
(***************************************************************************)
(* Proofs about Automation, for any proposals, thresholds and numbers of   *)
(* actions, people and ticks at a time: the engine takes no step that a    *)
(* request could not take, so that the governance of Controls covers it;   *)
(* its breaker trips; and its feed of decisions is true.                   *)
(***************************************************************************)
EXTENDS Automation, Controls_proofs, FiniteSetTheorems

\* The part of AutomationTypeOK that is the engine's own.
EngineTypeOK ==
    /\ policy \in Policy
    /\ cooling \subseteq 1..runs
    /\ runs \in 0..MaxRuns
    /\ events \in [Actions -> SUBSET Decisions]
    /\ tick \in [Engine -> Tick]

Proposing == {"mark", "submit"}
Running == {"decide", "approve", "execute", "reset", "bump", "trip"}

\* What is known of a tick: from its submission on it has an action, of which
\* nothing has been said yet, and which the supervisor approves in one place.
TickOK(p) ==
    LET t == tick[p] IN
    /\ t.pc \in Proposing \cup Running => t.prop \in Proposals
    /\ t.pc \in Running <=> t.act # None
    /\ t.act # None => Exists(t.act) /\ events[t.act] = {}
    /\ t.pc \in {"decide", "approve"} => Supervisor \notin approvals[t.act]

\* No two ticks run one action.
Distinct ==
    \A p, q \in Engine : (tick[p].act # None /\ tick[p].act = tick[q].act) => p = q

\* An approval of the supervisor is on its way only while a tick waits for it.
SupervisorOK(p) ==
    (req[p].pc = "update" /\ req[p].event = "APPROVED" /\ req[p].by = Supervisor) =>
        p \in Engine /\ tick[p].pc = "execute" /\ tick[p].act = req[p].act

\* What is known of an action that an engine proposed.
ProposalOK(a) ==
    /\ ~Exists(a) => events[a] = {} /\ approvals[a] = {}
    /\ Exists(a) => action[a].requested_by = Requester
    /\ (action[a].status = "EXECUTED" /\ action[a].mode = "live") => applied[a] > 0
    /\ events[a] = {} \/ \E d \in Decisions : events[a] = {d}
    /\ events[a] \cap {"proposed", "blocked"} # {} => Supervisor \notin approvals[a]
    /\ ("executed" \in events[a] /\ action[a].mode = "live") => applied[a] > 0

AInv ==
    /\ IInv
    /\ EngineTypeOK
    /\ \A p \in Engine : TickOK(p)
    /\ Distinct
    /\ \A p \in Procs : SupervisorOK(p)
    /\ \A a \in Actions : ProposalOK(a)

\* A tick that is about to submit a live proposal, found none waiting.
SoloTick(p) ==
    (tick[p].pc \in Proposing /\ tick[p].prop.mode = "live") =>
        \A a \in Actions : action[a].status # "PENDING"

OneTick == (\A p \in Engine : SoloTick(p)) /\ OneWaitingProposal

-----------------------------------------------------------------------------
(* The steps of the engine are steps of requests.                          *)

USE DEF Doing, Writing, Recording, After, controls_enabled

LEMMA Callers ==
    /\ Requester \in Principals /\ Supervisor \in Approvers
    /\ Supervisor \in Principals /\ Supervisor # None
    /\ Engine \subseteq Procs
BY AutomationAssumption, ConstantsAssumption

LEMMA StepIsControls ==
    ASSUME AInv, [AutomationNext]_avars
    PROVE  [Next]_vars
<1>1. ASSUME NEW p \in Engine, TickStart(p) \/ TickStep(p)
      PROVE  [Next]_vars
  <2>1. p \in Procs /\ TickOK(p)
    BY <1>1, Callers DEF AInv
  <2>2. ASSUME NEW a \in Actions, TickSubmit(p, a)
        PROVE  Start(p)
    <3>1. tick[p].prop \in Proposals
      BY <2>1, <2>2 DEF TickSubmit, TickOK, Proposing
    <3>2. tick[p].prop.mode \in Modes /\ tick[p].prop.risk \in Risks
      BY <3>1, AutomationAssumption
    <3>3. QED
      BY <2>2, <3>2, Callers DEF TickSubmit, Start
  <2>3. ASSUME tick[p].act \in Actions, TickApprove(p) \/ TickExecute(p)
        PROVE  Start(p) \/ UNCHANGED vars
    BY <2>3, Callers DEF TickApprove, TickExecute, Start
  <2>4. TickApprove(p) \/ TickExecute(p) => tick[p].act \in Actions
    BY <1>1, <2>1 DEF TickApprove, TickExecute, TickOK, Running, AInv, EngineTypeOK, Tick
  <2>5. TickContinue(p) => Continue(p)
    BY DEF TickContinue
  <2>6. CASE \/ TickStart(p) \/ CheckCooldown(p) \/ Mark(p) \/ TickInterlock(p)
             \/ \E prop \in Proposals, recent \in BOOLEAN : Evaluate(p, prop, recent)
             \/ Decide(p) \/ Judge(p) \/ Bump(p) \/ Trip(p)
    BY <2>6 DEF TickStart, CheckCooldown, Mark, TickInterlock, Evaluate, Decide,
                Judge, Bump, Trip
  <2>7. QED
    BY <1>1, <2>1, <2>2, <2>3, <2>4, <2>5, <2>6 DEF TickStep, Next
<1>2. ASSUME NEW p \in Procs \ Engine, Dispose(p) \/ PersonContinue(p)
      PROVE  [Next]_vars
  BY <1>2 DEF Dispose, PersonContinue, Next, Start
<1>3. CASE \/ \E reset_trip \in BOOLEAN, mode \in {"recommend", "auto"} :
                 Patch(mode, reset_trip)
           \/ \E n \in cooling : CooldownPasses(n)
           \/ Toggle /\ UNCHANGED <<policy, cooling, runs, events, tick>>
           \/ UNCHANGED avars
  BY <1>3 DEF Patch, CooldownPasses, Next, avars
<1>4. QED
  BY <1>1, <1>2, <1>3 DEF AutomationNext

-----------------------------------------------------------------------------
(* What a step of a request does to a proposal.                            *)

\* The supervisor's name gets on an action only from a tick that waits for it.
LEMMA SupervisorApproves ==
    ASSUME AInv, [Next]_vars, NEW a \in Actions,
           Supervisor \in approvals'[a], Supervisor \notin approvals[a]
    PROVE  \E p \in Engine : tick[p].pc = "execute" /\ tick[p].act = a
<1>1. IInv /\ TypeOK /\ \A p \in Procs : SupervisorOK(p)
  BY DEF AInv, IInv
<1>2. PICK p \in Procs : Update(p) /\ req[p].act = a
  BY <1>1, StepEffect DEF past
<1>3. req[p].event = "APPROVED" /\ req[p].by = Supervisor
  BY <1>1, <1>2 DEF Update, TypeOK
<1>4. QED
  BY <1>1, <1>2, <1>3 DEF SupervisorOK, Update

LEMMA RowStep ==
    ASSUME AInv, [Next]_vars, NEW a \in Actions
    PROVE  /\ ~Exists(a) => approvals'[a] = approvals[a]
           /\ action'[a].status = "PENDING" => action[a].status = "PENDING" \/ ~Exists(a)
           /\ (action'[a].status = "EXECUTED" /\ action'[a].mode = "live") => applied'[a] > 0
<1>1. IInv /\ TypeOK /\ Keeps(a) /\ ProposalOK(a) /\ \A p \in Procs : RequestOK(p)
  BY StepKeeps DEF AInv, IInv
<1>2. ASSUME NEW p \in Procs, Update(p), req[p].act = a, UNCHANGED <<audit, plant>>
      PROVE  /\ Exists(a)
             /\ action'[a].status # "PENDING"
             /\ (action'[a].status = "EXECUTED" /\ action'[a].mode = "live") => applied'[a] > 0
  <2>1. RequestOK(p) /\ req[p].pc = "update"
    BY <1>1, <1>2 DEF Update
  <2>2. Exists(a) /\ req[p].event \in Updates
    BY <1>2, <2>1 DEF RequestOK
  <2>3. action'[a].status = StatusOf(req[p].event) /\ action'[a].mode = action[a].mode
    BY <1>1, <1>2 DEF Update, TypeOK
  <2>4. CASE req[p].event \in {"EXECUTED", "DRYRUN"}
    BY <1>2, <2>1, <2>2, <2>3, <2>4 DEF RequestOK, plant, StatusOf
  <2>5. CASE req[p].event \notin {"EXECUTED", "DRYRUN"}
    BY <2>2, <2>3, <2>5 DEF StatusOf, Updates
  <2>6. QED
    BY <2>2, <2>4, <2>5
<1>3. ASSUME action'[a] = action[a], approvals'[a] = approvals[a]
      PROVE  /\ action'[a].status = "PENDING" => action[a].status = "PENDING"
             /\ (action'[a].status = "EXECUTED" /\ action'[a].mode = "live") => applied'[a] > 0
  BY <1>1, <1>3 DEF ProposalOK, Keeps, Exists
<1>4. QED
  BY <1>1, <1>2, <1>3, StepEffect DEF past, plant

\* Only a tick makes an action: people dispose of what the engine proposed.
LEMMA OnlyTicksSubmit ==
    ASSUME AInv, [AutomationNext]_avars, NEW a \in Actions, ~Exists(a), Exists(a)'
    PROVE  \E p \in Engine : TickSubmit(p, a)
<1>1. TypeOK
  BY DEF AInv, IInv
<1>2. ASSUME NEW p \in Procs, Continue(p)
      PROVE  FALSE
  <2>1. RequestOK(p)
    BY DEF AInv, IInv
  <2>2. CASE Update(p)
    BY <1>1, <2>1, <2>2 DEF Update, RequestOK, Exists, TypeOK
  <2>3. QED
    BY <1>2, <2>2 DEF Continue, Gate, Actuate, Revert, Audit, past, Exists
<1>3. ASSUME NEW p \in Procs \ Engine, Dispose(p)
      PROVE  FALSE
  BY <1>3 DEF Dispose, Approve, Reject, ExecuteDryRun, ExecuteLive, Rollback, Load, Exists
<1>4. ASSUME NEW p \in Engine, NEW b \in Actions, TickSubmit(p, b)
      PROVE  b = a
  BY <1>1, <1>4 DEF TickSubmit, Submit, TypeOK, Exists
<1>5. ASSUME NEW p \in Engine, TickApprove(p) \/ TickExecute(p)
      PROVE  FALSE
  BY <1>5 DEF TickApprove, TickExecute, Approve, ExecuteDryRun, ExecuteLive, Load,
              Exists, vars
<1>6. ASSUME NEW p \in Engine, TickStart(p) \/ TickStep(p)
      PROVE  TickSubmit(p, a)
  <2>1. TickContinue(p) => FALSE
    BY <1>2, Callers DEF TickContinue
  <2>2. CASE \/ TickStart(p) \/ CheckCooldown(p) \/ Mark(p) \/ TickInterlock(p)
             \/ \E prop \in Proposals, recent \in BOOLEAN : Evaluate(p, prop, recent)
             \/ Decide(p) \/ Judge(p) \/ Bump(p) \/ Trip(p)
    BY <2>2 DEF TickStart, CheckCooldown, Mark, TickInterlock, Evaluate, Decide,
                Judge, Bump, Trip, vars, Exists
  <2>3. QED
    BY <1>4, <1>5, <1>6, <2>1, <2>2 DEF TickStep
<1>7. CASE \/ \E reset_trip \in BOOLEAN, mode \in {"recommend", "auto"} :
                 Patch(mode, reset_trip)
           \/ \E n \in cooling : CooldownPasses(n)
           \/ Toggle /\ UNCHANGED <<policy, cooling, runs, events, tick>>
           \/ UNCHANGED avars
  BY <1>7 DEF Patch, CooldownPasses, Toggle, avars, vars, Exists
<1>8. QED
  BY <1>2, <1>3, <1>6, <1>7 DEF AutomationNext, PersonContinue

-----------------------------------------------------------------------------
(* What a step does to the ticks and to the feed of decisions.             *)

\* A tick that stays with what it has, and may only then say that it decides.
Advances(p) ==
    LET t == tick[p]
        u == tick'[p]
    IN
    /\ events' = events
    /\ u.act = t.act
    /\ t.act # None <=> u.pc \in Running
    /\ u.pc \in Proposing \cup Running => u.prop \in Proposals
    /\ u.pc \in {"decide", "approve"} => t.pc \in {"decide", "approve"}
    /\ t.pc = "execute" => u.pc = "execute" \/ Between(p)

\* A tick that ends, and says what became of its action, if it has one.
Ends(p) ==
    LET t == tick[p] IN
    /\ tick'[p] = Off
    /\ t.pc # "execute"
    /\ \/ events' = events
       \/ \E d \in Decisions :
             /\ t.act # None
             /\ events' = [events EXCEPT ![t.act] = @ \cup {d}]
             /\ d \in {"proposed", "blocked"} => t.pc = "decide"
             /\ d = "executed" => action[t.act].status = "EXECUTED"
             /\ UNCHANGED vars

LEMMA EngineTypeStep ==
    ASSUME AInv, [AutomationNext]_avars
    PROVE  EngineTypeOK'
<1>1. EngineTypeOK /\ MaxRuns \in Nat /\ (\A p \in Engine : TickOK(p)) /\ Off \in Tick
  BY AutomationAssumption DEF AInv, Off, Tick
<1>2. ASSUME NEW p \in Engine, NEW a \in Actions, TickSubmit(p, a)
      PROVE  EngineTypeOK'
  <2>1. tick' \in [Engine -> Tick]
    BY <1>1, <1>2, ZenonT(40) DEF TickSubmit, EngineTypeOK, Tick
  <2>2. QED
    BY <1>1, <1>2, <2>1 DEF TickSubmit, EngineTypeOK
<1>3. ASSUME NEW p \in Engine, TickStart(p)
      PROVE  EngineTypeOK'
  <2>1. policy.mode \in {"recommend", "auto"} /\ policy.last_run_at \in 0..MaxRuns
    BY <1>1 DEF EngineTypeOK, Policy
  <2>2. tick' \in [Engine -> Tick]
    BY <1>1, <1>3, <2>1 DEF TickStart, EngineTypeOK, Tick, Off
  <2>3. QED
    BY <1>1, <1>3, <2>2 DEF TickStart, EngineTypeOK
<1>4. ASSUME NEW p \in Engine, NEW pc \in {"cooldown", "evaluate", "mark", "submit",
                 "decide", "approve", "execute", "reset", "bump", "trip"},
             Goto(p, pc) \/ End(p)
      PROVE  tick' \in [Engine -> Tick]
  BY <1>1, <1>4 DEF Goto, End, EngineTypeOK, Tick
<1>5. ASSUME NEW p \in Engine, CheckCooldown(p) \/ TickInterlock(p)
      PROVE  EngineTypeOK'
  BY <1>1, <1>4, <1>5 DEF CheckCooldown, TickInterlock, EngineTypeOK
<1>6. ASSUME NEW p \in Engine, NEW prop \in Proposals, NEW recent \in BOOLEAN,
             Evaluate(p, prop, recent)
      PROVE  EngineTypeOK'
  <2>1. tick' \in [Engine -> Tick]
    BY <1>1, <1>6, ZenonT(40) DEF Evaluate, EngineTypeOK, Tick
  <2>2. QED
    BY <1>1, <1>6, <2>1 DEF Evaluate, EngineTypeOK
<1>7. ASSUME NEW p \in Engine, Mark(p)
      PROVE  EngineTypeOK'
  <2>1. runs \in Nat /\ runs + 1 \in 0..MaxRuns
    BY <1>1, <1>7 DEF Mark, EngineTypeOK
  <2>2. policy' \in Policy
    BY <1>1, <1>7, <2>1 DEF Mark, EngineTypeOK, Policy
  <2>3. cooling' \subseteq 1..runs'
    BY <1>1, <1>7, <2>1 DEF Mark, EngineTypeOK
  <2>4. tick' \in [Engine -> Tick]
    BY <1>4, <1>7 DEF Mark
  <2>5. QED
    BY <1>1, <1>7, <2>1, <2>2, <2>3, <2>4 DEF Mark, EngineTypeOK
<1>8. ASSUME NEW a, NEW d \in Decisions, Event(a, d)
      PROVE  events' \in [Actions -> SUBSET Decisions]
  BY <1>1, <1>8 DEF Event, EngineTypeOK
<1>9. ASSUME NEW p \in Engine, Decide(p)
      PROVE  EngineTypeOK'
  <2>1. tick' \in [Engine -> Tick]
    BY <1>4, <1>9 DEF Decide
  <2>2. events' \in [Actions -> SUBSET Decisions]
    BY <1>1, <1>8, <1>9 DEF Decide, EngineTypeOK, Decisions
  <2>3. QED
    BY <1>1, <1>9, <2>1, <2>2 DEF Decide, EngineTypeOK
<1>10. ASSUME NEW p \in Engine, TickApprove(p) \/ TickExecute(p)
       PROVE  EngineTypeOK'
  BY <1>1, <1>4, <1>10 DEF TickApprove, TickExecute, EngineTypeOK
<1>11. ASSUME NEW p \in Engine, TickContinue(p)
       PROVE  EngineTypeOK'
  <2>1. PICK raised \in BOOLEAN : tick' = [tick EXCEPT ![p].raised = raised]
    BY <1>11 DEF TickContinue
  <2>2. tick' \in [Engine -> Tick]
    BY <1>1, <2>1 DEF EngineTypeOK, Tick
  <2>3. QED
    BY <1>1, <1>11, <2>2 DEF TickContinue, EngineTypeOK
<1>12. ASSUME NEW p \in Engine, Judge(p) \/ Bump(p) \/ Trip(p)
       PROVE  EngineTypeOK'
  <2>1. tick' \in [Engine -> Tick]
    BY <1>4, <1>12 DEF Judge, Bump, Trip
  <2>2. events' \in [Actions -> SUBSET Decisions]
    BY <1>1, <1>8, <1>12 DEF Judge, Bump, Trip, EngineTypeOK, Decisions
  <2>3. policy' \in Policy
    <3>1. policy.failures + 1 \in Nat
      BY <1>1 DEF EngineTypeOK, Policy
    <3>2. \A n \in Nat : [policy EXCEPT !.failures = n] \in Policy
      BY <1>1 DEF EngineTypeOK, Policy
    <3>3. [policy EXCEPT !.tripped = TRUE] \in Policy
      BY <1>1 DEF EngineTypeOK, Policy
    <3>4. CASE Judge(p)
      BY <1>1, <3>2, <3>4 DEF Judge, EngineTypeOK
    <3>5. QED
      BY <1>12, <3>1, <3>2, <3>3, <3>4 DEF Bump, Trip
  <2>4. QED
    BY <1>1, <1>12, <2>1, <2>2, <2>3 DEF Judge, Bump, Trip, EngineTypeOK
<1>13. ASSUME NEW mode \in {"recommend", "auto"}, NEW reset_trip \in BOOLEAN,
              Patch(mode, reset_trip)
       PROVE  EngineTypeOK'
  <2>1. policy' \in Policy
    BY <1>1, <1>13 DEF Patch, EngineTypeOK, Policy
  <2>2. QED
    BY <1>1, <1>13, <2>1 DEF Patch, EngineTypeOK
<1>14. CASE \/ \E p \in Procs \ Engine : Dispose(p) \/ PersonContinue(p)
            \/ \E n \in cooling : CooldownPasses(n)
            \/ Toggle /\ UNCHANGED <<policy, cooling, runs, events, tick>>
            \/ UNCHANGED avars
  BY <1>1, <1>14 DEF Dispose, PersonContinue, CooldownPasses, avars, EngineTypeOK
<1>15. QED
  BY <1>2, <1>3, <1>5, <1>6, <1>7, <1>9, <1>10, <1>11, <1>12, <1>13, <1>14
     DEF AutomationNext, TickStep

LEMMA TickEffect ==
    ASSUME AInv, [AutomationNext]_avars
    PROVE  \/ UNCHANGED <<tick, events>>
           \/ \E p \in Engine :
                 /\ \A q \in Engine : q # p => tick'[q] = tick[q]
                 /\ \/ Advances(p)
                    \/ Ends(p)
                    \/ \E a \in Actions : TickSubmit(p, a)
<1>1. EngineTypeOK /\ \A p \in Engine : TickOK(p)
  BY DEF AInv
<1>2. ASSUME NEW p \in Engine, TickStart(p) \/ TickStep(p)
      PROVE  \A q \in Engine : q # p => tick'[q] = tick[q]
  BY <1>1, <1>2 DEF TickStart, TickStep, CheckCooldown, Evaluate, Mark, TickSubmit,
     TickInterlock, Decide, TickApprove, TickExecute, TickContinue, Judge, Bump, Trip,
     Goto, End, EngineTypeOK
<1>3. ASSUME NEW p \in Engine, NEW pc, Goto(p, pc)
      PROVE  tick'[p] = [tick[p] EXCEPT !.pc = pc] /\ tick'[p].pc = pc
             /\ tick'[p].act = tick[p].act /\ tick'[p].prop = tick[p].prop
  BY <1>1, <1>3 DEF Goto, EngineTypeOK, Tick
<1>4. ASSUME NEW p \in Engine, End(p)
      PROVE  tick'[p] = Off
  BY <1>1, <1>4 DEF End, EngineTypeOK
<1>5. ASSUME NEW p \in Engine, TickStart(p)
      PROVE  Advances(p)
  <2>1. tick'[p].pc = "cooldown" /\ tick'[p].act = None
    BY <1>1, <1>5 DEF TickStart, Off, EngineTypeOK
  <2>2. QED
    BY <1>1, <1>5, <2>1 DEF TickStart, Advances, TickOK, Proposing, Running
<1>6. ASSUME NEW p \in Engine, CheckCooldown(p)
      PROVE  Advances(p) \/ Ends(p)
  <2>1. tick[p].pc = "cooldown" /\ tick[p].act = None /\ events' = events
    BY <1>1, <1>6 DEF CheckCooldown, TickOK, Running
  <2>2. CASE End(p)
    BY <1>4, <2>1, <2>2 DEF Ends
  <2>3. CASE Goto(p, "evaluate")
    <3>1. tick'[p].pc = "evaluate" /\ tick'[p].act = tick[p].act
      BY <1>3, <2>3
    <3>2. QED
      BY <2>1, <3>1 DEF Advances, Running, Proposing
  <2>4. QED
    BY <1>6, <2>2, <2>3 DEF CheckCooldown
<1>7. ASSUME NEW p \in Engine, NEW prop \in Proposals, NEW recent \in BOOLEAN,
             Evaluate(p, prop, recent)
      PROVE  Advances(p) \/ Ends(p)
  <2>1. CASE tick'[p] = Off
    BY <1>7, <2>1 DEF Evaluate, Ends
  <2>2. CASE tick'[p].pc = "mark" /\ tick'[p].prop = prop /\ tick'[p].act = tick[p].act
    BY <1>1, <1>7, <2>2 DEF Evaluate, Advances, TickOK, Proposing, Running
  <2>3. QED
    BY <1>1, <1>7, <2>1, <2>2 DEF Evaluate, EngineTypeOK, Tick
<1>8. ASSUME NEW p \in Engine, Mark(p)
      PROVE  Advances(p)
  <2>1. tick[p].pc = "mark" /\ tick[p].act = None /\ events' = events
        /\ tick[p].prop \in Proposals
    BY <1>1, <1>8 DEF Mark, TickOK, Running, Proposing
  <2>2. Goto(p, "submit")
    BY <1>8 DEF Mark
  <2>3. tick'[p].pc = "submit" /\ tick'[p].act = tick[p].act /\ tick'[p].prop = tick[p].prop
    BY <1>3, <2>2
  <2>4. QED
    BY <2>1, <2>3 DEF Advances, Running, Proposing
<1>9. ASSUME NEW p \in Engine, TickInterlock(p)
      PROVE  Ends(p)
  BY <1>4, <1>9 DEF TickInterlock, Ends
<1>10. ASSUME NEW p \in Engine, Decide(p)
       PROVE  Advances(p) \/ Ends(p)
  <2>1. tick[p].pc = "decide" /\ tick[p].act # None /\ tick[p].prop \in Proposals
    BY <1>1, <1>10 DEF Decide, TickOK, Running
  <2>2. CASE End(p)
    BY <1>4, <1>10, <2>1, <2>2 DEF Decide, Ends, Event, Decisions, Goto
  <2>3. CASE UNCHANGED events /\ Goto(p, IF tick[p].prop.risk = "high" THEN "approve"
                                                                     ELSE "execute")
    BY <1>3, <1>10, <2>1, <2>3 DEF Decide, Advances, Running, Proposing
  <2>4. QED
    BY <1>10, <2>2, <2>3 DEF Decide
<1>11. ASSUME NEW p \in Engine, TickApprove(p) \/ TickExecute(p)
       PROVE  Advances(p)
  <2>1. tick[p].act # None /\ tick[p].prop \in Proposals /\ tick[p].pc \in {"approve", "execute"}
    BY <1>1, <1>11 DEF TickApprove, TickExecute, TickOK, Running
  <2>2. PICK pc \in {"execute", "bump", "reset"} : Goto(p, pc)
    BY <1>11 DEF TickApprove, TickExecute
  <2>3. events' = events /\ Between(p)
    BY <1>11 DEF TickApprove, TickExecute
  <2>4. QED
    BY <1>3, <2>1, <2>2, <2>3 DEF Advances, Running, Proposing
<1>12. ASSUME NEW p \in Engine, TickContinue(p)
       PROVE  Advances(p)
  <2>1. PICK raised \in BOOLEAN : tick' = [tick EXCEPT ![p].raised = raised]
    BY <1>12 DEF TickContinue
  <2>2. tick'[p].pc = tick[p].pc /\ tick'[p].act = tick[p].act
        /\ tick'[p].prop = tick[p].prop
    BY <1>1, <2>1 DEF EngineTypeOK, Tick
  <2>3. QED
    BY <1>1, <1>12, <2>2 DEF TickContinue, Advances, TickOK, Running
<1>13. ASSUME NEW p \in Engine, Judge(p)
       PROVE  Advances(p) \/ Ends(p)
  <2>1. tick[p].pc = "reset" /\ tick[p].act # None /\ tick[p].prop \in Proposals
    BY <1>1, <1>13 DEF Judge, TickOK, Running
  <2>2. CASE Returned(tick[p])
    <3>1. tick'[p] = Off /\ action[tick[p].act].status = "EXECUTED"
      BY <1>4, <1>13, <2>2 DEF Judge, Returned
    <3>2. QED
      BY <1>13, <2>1, <2>2, <3>1 DEF Judge, Ends, Event, Decisions
  <2>3. CASE Goto(p, "bump") /\ events' = events
    <3>1. tick'[p].pc = "bump" /\ tick'[p].act = tick[p].act /\ tick'[p].prop = tick[p].prop
      BY <1>3, <2>3
    <3>2. QED
      BY <2>1, <2>3, <3>1 DEF Advances, Running, Proposing
  <2>4. QED
    BY <1>13, <2>2, <2>3 DEF Judge
<1>14. ASSUME NEW p \in Engine, Bump(p) \/ Trip(p)
       PROVE  Advances(p) \/ Ends(p)
  <2>1. tick[p].pc \in {"bump", "trip"} /\ tick[p].act # None /\ tick[p].prop \in Proposals
    BY <1>1, <1>14 DEF Bump, Trip, TickOK, Running
  <2>2. CASE Goto(p, "trip") /\ events' = events
    <3>1. tick'[p].pc = "trip" /\ tick'[p].act = tick[p].act /\ tick'[p].prop = tick[p].prop
      BY <1>3, <2>2
    <3>2. QED
      BY <2>1, <2>2, <3>1 DEF Advances, Running, Proposing
  <2>3. ASSUME NEW d \in {"failed", "tripped"}, End(p), Event(tick[p].act, d), UNCHANGED vars
        PROVE  Ends(p)
    <3>1. tick'[p] = Off
      BY <1>4, <2>3
    <3>2. QED
      BY <2>1, <2>3, <3>1 DEF Ends, Event, Decisions
  <2>4. CASE Bump(p)
    BY <2>2, <2>3, <2>4 DEF Bump
  <2>5. CASE Trip(p)
    BY <2>3, <2>5 DEF Trip
  <2>6. QED
    BY <1>14, <2>4, <2>5
<1>15. ASSUME NEW p \in Engine, TickStart(p) \/ TickStep(p)
       PROVE  Advances(p) \/ Ends(p) \/ \E a \in Actions : TickSubmit(p, a)
  BY <1>5, <1>6, <1>7, <1>8, <1>9, <1>10, <1>11, <1>12, <1>13, <1>14, <1>15 DEF TickStep
<1>16. CASE \/ \E p \in Procs \ Engine : Dispose(p) \/ PersonContinue(p)
            \/ \E reset_trip \in BOOLEAN, mode \in {"recommend", "auto"} :
                  Patch(mode, reset_trip)
            \/ \E n \in cooling : CooldownPasses(n)
            \/ Toggle /\ UNCHANGED <<policy, cooling, runs, events, tick>>
            \/ UNCHANGED avars
  BY <1>16 DEF Dispose, PersonContinue, Patch, CooldownPasses, avars
<1>17. QED
  BY <1>2, <1>15, <1>16 DEF AutomationNext

-----------------------------------------------------------------------------
(* The invariant is kept.                                                  *)

\* The facts that the steps below start from.
LEMMA Basics ==
    ASSUME AInv, [AutomationNext]_avars
    PROVE  /\ [Next]_vars /\ IInv /\ IInv'
           /\ EngineTypeOK /\ EngineTypeOK'
           /\ \A a \in Actions : Keeps(a) /\ ProposalOK(a)
           /\ \A p \in Engine : TickOK(p) /\ (tick[p].act # None => tick[p].act \in Actions)
           /\ \A p \in Procs : RequestOK(p) /\ SupervisorOK(p)
<1>1. [Next]_vars /\ IInv
  BY StepIsControls DEF AInv
<1>2. IInv' /\ (\A a \in Actions : Keeps(a)) /\ \A p \in Procs : RequestOK(p)
  BY <1>1, NextInv, StepKeeps DEF IInv
<1>3. \A p \in Engine : tick[p].act \in Actions \cup {None}
  BY DEF AInv, EngineTypeOK, Tick
<1>4. QED
  BY <1>1, <1>2, <1>3, EngineTypeStep DEF AInv

LEMMA ProposeEffect ==
    ASSUME AInv, [AutomationNext]_avars, NEW p \in Engine, NEW a \in Actions,
           TickSubmit(p, a)
    PROVE  /\ tick[p].pc = "submit" /\ tick'[p].pc = "decide" /\ tick'[p].act = a
           /\ tick'[p].prop = tick[p].prop
           /\ ~Exists(a) /\ Exists(a)' /\ events' = events /\ approvals'[a] = {}
           /\ action' = [action EXCEPT ![a] = action'[a]]
           /\ action'[a].requested_by = Requester
           /\ action'[a].mode = tick[p].prop.mode
           /\ action'[a].status = "PENDING"
           /\ req'[p] = Recording(a, "REQUESTED")
<1>1. TypeOK /\ EngineTypeOK /\ ProposalOK(a)
  BY DEF AInv, IInv
<1>2. p \in Procs
  BY Callers
<1>3. tick'[p].pc = "decide" /\ tick'[p].act = a /\ tick'[p].prop = tick[p].prop
  BY <1>1 DEF TickSubmit, EngineTypeOK, Tick
<1>4. ~Exists(a) /\ approvals'[a] = {}
  BY <1>1 DEF TickSubmit, Submit, ProposalOK
<1>5. QED
  BY <1>1, <1>2, <1>3, <1>4 DEF TickSubmit, Submit, TypeOK, Exists

LEMMA NotYetApproved ==
    ASSUME AInv, [AutomationNext]_avars, NEW q \in Engine,
           tick[q].pc \in {"decide", "approve"}
    PROVE  Supervisor \notin approvals'[tick[q].act]
<1>1. TickOK(q) /\ tick[q].act \in Actions
  BY Basics DEF TickOK, Running
<1>2. ASSUME Supervisor \in approvals'[tick[q].act]
      PROVE  FALSE
  <2>1. PICK p \in Engine : tick[p].pc = "execute" /\ tick[p].act = tick[q].act
    BY <1>1, <1>2, Basics, SupervisorApproves DEF TickOK
  <2>2. p = q
    BY <1>1, <2>1, ConstantsAssumption DEF AInv, Distinct
  <2>3. QED
    BY <2>1, <2>2
<1>3. QED
  BY <1>2

LEMMA TicksOK ==
    ASSUME AInv, [AutomationNext]_avars
    PROVE  \A q \in Engine : TickOK(q)'
<1>1. ASSUME NEW q \in Engine, tick'[q] = tick[q],
             tick[q].act # None => events'[tick[q].act] = {}
      PROVE  TickOK(q)'
  BY <1>1, Basics, NotYetApproved DEF TickOK, Keeps
<1>2. CASE UNCHANGED <<tick, events>>
  BY <1>1, <1>2, Basics DEF TickOK
<1>3. ASSUME NEW p \in Engine, NEW q \in Engine, q # p, tick'[q] = tick[q],
             Advances(p) \/ Ends(p) \/ \E a \in Actions : TickSubmit(p, a)
      PROVE  TickOK(q)'
  <2>1. tick[q].act # None => events[tick[q].act] = {} /\ tick[q].act # tick[p].act
    BY <1>3, Basics DEF TickOK, AInv, Distinct
  <2>2. tick[q].act # None => events'[tick[q].act] = {}
    BY <1>3, <2>1, Basics DEF Advances, Ends, TickSubmit, EngineTypeOK
  <2>3. QED
    BY <1>1, <1>3, <2>2
<1>4. ASSUME NEW p \in Engine, Ends(p)
      PROVE  TickOK(p)'
  BY <1>4 DEF Ends, TickOK, Off, Proposing, Running
<1>5. ASSUME NEW p \in Engine, Advances(p)
      PROVE  TickOK(p)'
  <2>1. TickOK(p) /\ (tick[p].act # None => tick[p].act \in Actions /\ Keeps(tick[p].act))
    BY Basics
  <2>2. tick'[p].pc \in {"decide", "approve"} =>
            Supervisor \notin approvals'[tick'[p].act]
    BY <1>5, NotYetApproved DEF Advances
  <2>3. QED
    BY <1>5, <2>1, <2>2 DEF Advances, TickOK, Keeps
<1>6. ASSUME NEW p \in Engine, NEW a \in Actions, TickSubmit(p, a)
      PROVE  TickOK(p)'
  <2>1. tick[p].pc = "submit" /\ tick'[p].pc = "decide" /\ tick'[p].act = a
        /\ tick'[p].prop = tick[p].prop
        /\ ~Exists(a) /\ Exists(a)' /\ events' = events /\ approvals'[a] = {}
    BY <1>6, ProposeEffect
  <2>2. TickOK(p) /\ ProposalOK(a) /\ a # None
    BY Basics, ConstantsAssumption
  <2>3. QED
    BY <2>1, <2>2 DEF TickOK, ProposalOK, Proposing, Running
<1>7. QED
  BY <1>2, <1>3, <1>4, <1>5, <1>6, TickEffect

LEMMA StaysDistinct ==
    ASSUME AInv, [AutomationNext]_avars
    PROVE  Distinct'
<1>1. \A q \in Engine : tick[q].act # None => Exists(tick[q].act)
  BY Basics DEF TickOK
<1>2. CASE UNCHANGED <<tick, events>>
  BY <1>2 DEF AInv, Distinct
<1>3. ASSUME NEW p \in Engine, \A q \in Engine : q # p => tick'[q] = tick[q],
             tick'[p].act \in {tick[p].act, None}
      PROVE  Distinct'
  BY <1>3 DEF AInv, Distinct
<1>4. ASSUME NEW p \in Engine, \A q \in Engine : q # p => tick'[q] = tick[q],
             NEW a \in Actions, TickSubmit(p, a)
      PROVE  Distinct'
  <2>1. tick'[p].act = a /\ ~Exists(a)
    BY <1>4, ProposeEffect
  <2>2. QED
    BY <1>1, <1>4, <2>1 DEF AInv, Distinct
<1>5. QED
  BY <1>2, <1>3, <1>4, TickEffect DEF Advances, Ends, Off

LEMMA SupervisorsOK ==
    ASSUME AInv, [AutomationNext]_avars
    PROVE  \A p \in Procs : SupervisorOK(p)'
<1> DEFINE Sent(r) == r.pc = "update" /\ r.event = "APPROVED" /\ r.by = Supervisor
<1>1. TypeOK
  BY Basics DEF IInv
<1>2. ASSUME NEW p \in Engine, req'[p] = req[p]
      PROVE  SupervisorOK(p)'
  <2>1. SUFFICES ASSUME Sent(req[p])
                 PROVE  tick'[p].pc = "execute" /\ tick'[p].act = req[p].act
    BY <1>2, Callers DEF SupervisorOK
  <2>2. tick[p].pc = "execute" /\ tick[p].act = req[p].act /\ ~Between(p)
    BY <2>1, Callers, Basics DEF SupervisorOK, Between
  <2>3. \A q \in Engine, a \in Actions : TickSubmit(q, a) => q # p
    BY <2>2 DEF TickSubmit
  <2>4. QED
    BY <2>2, <2>3, TickEffect DEF Advances, Ends
<1>3. ASSUME NEW p \in Procs \ Engine, req'[p] = req[p]
      PROVE  SupervisorOK(p)'
  BY <1>3, Basics DEF SupervisorOK
<1>4. ASSUME NEW p \in Procs, ~Sent(req'[p])
      PROVE  SupervisorOK(p)'
  BY <1>4 DEF SupervisorOK
<1>5. ASSUME NEW p \in Procs, Continue(p)
      PROVE  ~Sent(req'[p]) /\ \A q \in Procs : q # p => req'[q] = req[q]
  BY <1>1, <1>5, Callers
     DEF Continue, Gate, Actuate, Revert, Update, Audit, TypeOK, Idle
<1>6. ASSUME NEW p \in Engine, TickStart(p) \/ TickStep(p), NEW q \in Procs
      PROVE  SupervisorOK(q)'
  <2>1. p \in Procs
    BY Callers
  <2>2. CASE TickContinue(p)
    BY <1>2, <1>3, <1>4, <1>5, <2>1, <2>2 DEF TickContinue
  <2>3. ASSUME NEW a \in Actions, TickSubmit(p, a)
        PROVE  SupervisorOK(q)'
    <3>1. req'[p] = Recording(a, "REQUESTED")
      BY <2>3, ProposeEffect
    <3>2. q # p => req'[q] = req[q]
      BY <1>1, <2>3 DEF TickSubmit, Submit, TypeOK
    <3>3. QED
      BY <1>2, <1>3, <1>4, <3>1, <3>2
  <2>4. CASE TickExecute(p)
    <3>1. tick[p].act \in Actions
      BY <2>4, Basics DEF TickExecute, TickOK, Running
    <3>2. CASE UNCHANGED vars
      BY <1>2, <1>3, <3>2 DEF vars
    <3>3. CASE ExecuteDryRun(p, Requester, tick[p].act) \/ ExecuteLive(p, Requester, tick[p].act)
      <4>1. req'[p].pc # "update" /\ \A s \in Procs : s # p => req'[s] = req[s]
        BY <1>1, <2>1, <3>3 DEF ExecuteDryRun, ExecuteLive, Load, TypeOK
      <4>2. QED
        BY <1>2, <1>3, <1>4, <4>1
    <3>4. QED
      BY <2>4, <3>2, <3>3 DEF TickExecute
  <2>5. CASE TickApprove(p)
    <3>1. tick[p].act \in Actions
      BY <2>5, Basics DEF TickApprove, TickOK, Running
    <3>2. CASE UNCHANGED vars
      BY <1>2, <1>3, <3>2 DEF vars
    <3>3. CASE Approve(p, Supervisor, tick[p].act) /\ Goto(p, "execute")
      <4>1. req'[p].act = tick[p].act /\ \A s \in Procs : s # p => req'[s] = req[s]
        BY <1>1, <2>1, <3>3 DEF Approve, Load, TypeOK
      <4>2. tick'[p].pc = "execute" /\ tick'[p].act = tick[p].act
        BY <3>3, Basics DEF Goto, EngineTypeOK, Tick
      <4>3. SupervisorOK(p)'
        BY <4>1, <4>2 DEF SupervisorOK
      <4>4. QED
        BY <1>2, <1>3, <4>1, <4>3
    <3>4. QED
      BY <2>5, <3>2, <3>3 DEF TickApprove
  <2>6. CASE \/ TickStart(p) \/ CheckCooldown(p) \/ Mark(p) \/ TickInterlock(p)
             \/ \E prop \in Proposals, recent \in BOOLEAN : Evaluate(p, prop, recent)
             \/ Decide(p) \/ Judge(p) \/ Bump(p) \/ Trip(p)
    <3>1. UNCHANGED vars
      BY <2>6 DEF TickStart, CheckCooldown, Mark, TickInterlock, Evaluate, Decide,
                  Judge, Bump, Trip
    <3>2. QED
      BY <1>2, <1>3, <3>1 DEF vars
  <2>7. QED
    BY <1>6, <2>2, <2>3, <2>4, <2>5, <2>6 DEF TickStep
<1>7. ASSUME NEW p \in Procs \ Engine, Dispose(p), NEW q \in Procs
      PROVE  SupervisorOK(q)'
  <2>1. PICK by \in Principals \ {Requester, Supervisor}, a \in Actions :
              \/ Approve(p, by, a) \/ Reject(p, by, a)
              \/ ExecuteDryRun(p, by, a) \/ ExecuteLive(p, by, a)
              \/ Rollback(p, by, a)
    BY <1>7 DEF Dispose
  <2>2. by \in Principals /\ by # Supervisor /\ p \in Procs
    OBVIOUS
  <2>3. ~Sent(req'[p]) /\ \A s \in Procs : s # p => req'[s] = req[s]
    BY <1>1, <2>1, <2>2, Callers
       DEF Approve, Reject, ExecuteDryRun, ExecuteLive, Rollback, Load, TypeOK
  <2>4. QED
    BY <1>2, <1>3, <1>4, <2>3
<1>8. ASSUME NEW p \in Procs \ Engine, PersonContinue(p), NEW q \in Procs
      PROVE  SupervisorOK(q)'
  BY <1>2, <1>3, <1>4, <1>5, <1>8 DEF PersonContinue
<1>9. CASE \/ \E reset_trip \in BOOLEAN, mode \in {"recommend", "auto"} :
                 Patch(mode, reset_trip)
           \/ \E n \in cooling : CooldownPasses(n)
           \/ Toggle /\ UNCHANGED <<policy, cooling, runs, events, tick>>
           \/ UNCHANGED avars
  <2>1. req' = req
    BY <1>9 DEF Patch, CooldownPasses, Toggle, avars, vars
  <2>2. QED
    BY <1>2, <1>3, <2>1
<1>10. QED
  BY <1>6, <1>7, <1>8, <1>9 DEF AutomationNext

LEMMA ProposalsOK ==
    ASSUME AInv, [AutomationNext]_avars, NEW a \in Actions
    PROVE  ProposalOK(a)'
<1>1. ProposalOK(a) /\ Keeps(a) /\ EngineTypeOK
      /\ (~Exists(a) => approvals'[a] = approvals[a])
      /\ ((action'[a].status = "EXECUTED" /\ action'[a].mode = "live") => applied'[a] > 0)
  BY Basics, RowStep
\* A new action is the engine's own.
<1>2. Exists(a)' => action'[a].requested_by = Requester
  <2>1. CASE Exists(a)
    BY <1>1, <2>1 DEF ProposalOK, Keeps
  <2>2. ASSUME ~Exists(a), Exists(a)'
        PROVE  action'[a].requested_by = Requester
    <3>1. PICK p \in Engine : TickSubmit(p, a)
      BY <2>2, OnlyTicksSubmit
    <3>2. QED
      BY <3>1, ProposeEffect
  <2>3. QED
    BY <2>1, <2>2
<1>3. ~Exists(a)' => ~Exists(a)
  BY <1>1 DEF Keeps
\* What is said of an action is said once, by the tick that ran it.
<1>4. \/ events'[a] = events[a]
      \/ \E p \in Engine, d \in Decisions :
            /\ Ends(p) /\ tick[p].act = a /\ events[a] = {} /\ events'[a] = {d}
            /\ d \in {"proposed", "blocked"} => tick[p].pc = "decide"
            /\ d = "executed" => action[a].status = "EXECUTED"
            /\ UNCHANGED vars
  <2>1. ASSUME NEW p \in Engine, Ends(p), events'[a] # events[a]
        PROVE  \E d \in Decisions :
                  /\ tick[p].act = a /\ events[a] = {} /\ events'[a] = {d}
                  /\ d \in {"proposed", "blocked"} => tick[p].pc = "decide"
                  /\ d = "executed" => action[a].status = "EXECUTED"
                  /\ UNCHANGED vars
    <3>1. PICK d \in Decisions :
             /\ tick[p].act # None
             /\ events' = [events EXCEPT ![tick[p].act] = @ \cup {d}]
             /\ d \in {"proposed", "blocked"} => tick[p].pc = "decide"
             /\ d = "executed" => action[tick[p].act].status = "EXECUTED"
             /\ UNCHANGED vars
      BY <2>1 DEF Ends
    <3>2. tick[p].act = a
      BY <1>1, <2>1, <3>1 DEF EngineTypeOK
    <3>3. events[a] = {}
      BY <3>1, <3>2, Basics DEF TickOK
    <3>4. events'[a] = {d}
      BY <1>1, <3>1, <3>2, <3>3 DEF EngineTypeOK
    <3>5. QED
      BY <3>1, <3>2, <3>3, <3>4
  <2>2. QED
    BY <2>1, TickEffect DEF Advances, TickSubmit
\* The supervisor does not come to an action after something was said of it.
<1>5. events[a] # {} /\ Supervisor \in approvals'[a] => Supervisor \in approvals[a]
  <2>1. ASSUME events[a] # {}, Supervisor \in approvals'[a], Supervisor \notin approvals[a]
        PROVE  FALSE
    <3>1. PICK p \in Engine : tick[p].pc = "execute" /\ tick[p].act = a
      BY <2>1, Basics, SupervisorApproves
    <3>2. QED
      BY <2>1, <3>1, Basics, ConstantsAssumption DEF TickOK
  <2>2. QED
    BY <2>1
<1>6. CASE events'[a] = events[a]
  <2>1. CASE ~Exists(a)'
    BY <1>1, <1>3, <1>6, <2>1 DEF ProposalOK, Exists
  <2>2. CASE Exists(a)'
    <3>1. CASE Exists(a)
      BY <1>1, <1>2, <1>5, <1>6, <2>2, <3>1 DEF ProposalOK, Keeps
    <3>2. CASE ~Exists(a)
      BY <1>1, <1>2, <1>6, <2>2, <3>2 DEF ProposalOK
    <3>3. QED
      BY <3>1, <3>2
  <2>3. QED
    BY <2>1, <2>2
<1>7. ASSUME NEW p \in Engine, NEW d \in Decisions,
             tick[p].act = a, events[a] = {}, events'[a] = {d},
             d \in {"proposed", "blocked"} => tick[p].pc = "decide",
             d = "executed" => action[a].status = "EXECUTED", UNCHANGED vars
      PROVE  ProposalOK(a)'
  <2>1. UNCHANGED <<action, approvals, applied>> /\ (Exists(a)' <=> Exists(a))
    BY <1>7 DEF vars, Exists
  <2>2. Exists(a) /\ (tick[p].pc = "decide" => Supervisor \notin approvals[a])
    BY <1>7, Basics, ConstantsAssumption DEF TickOK
  <2>3. QED
    BY <1>1, <1>2, <1>7, <2>1, <2>2 DEF ProposalOK
<1>8. QED
  BY <1>4, <1>6, <1>7

LEMMA AInitInv == AutomationInit => AInv
<1> SUFFICES ASSUME AutomationInit
             PROVE  AInv
  OBVIOUS
<1>1. IInv
  BY InitInv DEF AutomationInit
<1>2. EngineTypeOK
  <2>1. policy \in Policy
    BY AutomationAssumption DEF AutomationInit, Policy
  <2>2. tick \in [Engine -> Tick]
    BY AutomationAssumption DEF AutomationInit, Off, Tick
  <2>3. QED
    BY <2>1, <2>2, AutomationAssumption DEF AutomationInit, EngineTypeOK
<1>3. (\A p \in Engine : TickOK(p)) /\ Distinct
  BY DEF AutomationInit, TickOK, Distinct, Off, Proposing, Running
<1>4. \A p \in Procs : SupervisorOK(p)
  BY DEF AutomationInit, Init, SupervisorOK, Idle
<1>5. ASSUME NEW a \in Actions
      PROVE  ProposalOK(a)
  <2>1. action[a].status = "ABSENT" /\ approvals[a] = {} /\ events[a] = {}
    BY DEF AutomationInit, Init, NoRow
  <2>2. QED
    BY <2>1 DEF ProposalOK, Exists
<1>6. QED
  BY <1>1, <1>2, <1>3, <1>4, <1>5 DEF AInv

LEMMA ANextInv == AInv /\ [AutomationNext]_avars => AInv'
BY Basics, TicksOK, StaysDistinct, SupervisorsOK, ProposalsOK DEF AInv

\* The invariant of the engine and of the requests it shares the table with.
THEOREM AInvariance == AutomationSpec => []AInv
BY AInitInv, ANextInv, PTL DEF AutomationSpec

\* The engine "calls submit_action, approve and execute directly" (automation.py:14)
\* and has no other way to the plant: with any number of ticks at a time, every
\* behaviour of engine and people is a behaviour of Controls, so that what is proved
\* there, separation of duties and the master flag first, holds of the engine too.
THEOREM EngineIsGoverned == AutomationSpec => Spec
<1>1. AutomationInit => Init
  BY DEF AutomationInit
<1>2. AInv /\ [AutomationNext]_avars => [Next]_vars
  BY StepIsControls
<1>3. QED
  BY <1>1, <1>2, AInvariance, PTL DEF AutomationSpec, Spec

-----------------------------------------------------------------------------
(* The properties.                                                         *)

LEMMA SmallSet == ASSUME NEW S, NEW T, S = {} \/ \E x \in T : S = {x}
                  PROVE  Cardinality(S) <= 1
<1>1. CASE S = {}
  BY <1>1, FS_EmptySet
<1>2. ASSUME NEW x, S = {x}
      PROVE  Cardinality(S) <= 1
  BY <1>2, FS_Singleton
<1>3. QED
  BY <1>1, <1>2

\* The feed of decisions is true, and what the engine left to people was decided by
\* people: whatever ticks, approvals, executions and rollbacks interleave, a proposal
\* that was recommended or blocked is never approved by the engine's supervisor.
THEOREM DecisionsStandHolds == AutomationSpec => []DecisionsStand
<1>1. ASSUME AInv
      PROVE  DecisionsStand
  <2>1. AutomationTypeOK
    BY <1>1 DEF AInv, IInv, EngineTypeOK, AutomationTypeOK
  <2>2. ASSUME NEW a \in Actions, action[a].risk = "high", applied[a] > 0
        PROVE  approvals[a] \ {Requester} # {}
    <3>1. PICK q \in approvals[a] : q # action[a].requested_by
      BY <1>1, <2>2 DEF AInv, IInv, TwoPersonRule
    <3>2. Exists(a)
      BY <1>1, <2>2 DEF AInv, IInv, ActionOK
    <3>3. action[a].requested_by = Requester
      BY <1>1, <3>2 DEF AInv, ProposalOK
    <3>4. QED
      BY <3>1, <3>3
  <2>3. PeopleDispose
    <3>1. ASSUME NEW a \in Actions, events[a] \cap {"proposed", "blocked"} # {}
          PROVE  Supervisor \notin approvals[a]
      BY <1>1, <3>1 DEF AInv, ProposalOK
    <3>2. QED
      BY <2>2, <3>1 DEF PeopleDispose
  <2>4. DecisionsAreTrue
    <3>1. ASSUME NEW a \in Actions
          PROVE  Cardinality(events[a]) <= 1
      BY <1>1, SmallSet DEF AInv, ProposalOK
    <3>2. ASSUME NEW a \in Actions, action[a].mode = "live", "executed" \in events[a]
          PROVE  applied[a] > 0
      BY <1>1, <3>2 DEF AInv, ProposalOK
    <3>3. QED
      BY <2>2, <3>1, <3>2 DEF DecisionsAreTrue
  <2>5. QED
    BY <2>1, <2>3, <2>4 DEF DecisionsStand
<1>2. QED
  BY <1>1, AInvariance, PTL

\* The circuit breaker: however many ticks count failures while an administrator
\* resets and a success clears the count, the policy is tripped whenever its count
\* is at the threshold and no tick is on its way to trip it.
THEOREM BreakerHoldsAlways == AutomationSpec => []BreakerHolds
<1>1. AutomationInit => BreakerHolds
  BY AutomationAssumption DEF AutomationInit, BreakerHolds
<1>2. ASSUME AInv, BreakerHolds, [AutomationNext]_avars
      PROVE  BreakerHolds'
  <2>1. EngineTypeOK /\ policy.failures \in Nat
    BY <1>2 DEF AInv, EngineTypeOK, Policy
  <2>2. ASSUME policy'.failures = policy.failures, policy'.tripped = policy.tripped,
               \A p \in Engine : tick[p].pc = "trip" => tick'[p].pc = "trip"
        PROVE  BreakerHolds'
    BY <1>2, <2>2 DEF BreakerHolds
  <2>3. ASSUME NEW p \in Engine, TickStart(p) \/ TickStep(p),
               tick[p].pc # "trip" \/ tick'[p].pc = "trip"
        PROVE  \A q \in Engine : tick[q].pc = "trip" => tick'[q].pc = "trip"
    BY <2>1, <2>3 DEF TickStart, TickStep, CheckCooldown, Evaluate, Mark, TickSubmit,
       TickInterlock, Decide, TickApprove, TickExecute, TickContinue, Judge, Bump, Trip,
       Goto, End, EngineTypeOK
  <2>4. ASSUME NEW p \in Engine,
               \/ TickStart(p) \/ CheckCooldown(p) \/ TickInterlock(p)
               \/ \E prop \in Proposals, recent \in BOOLEAN : Evaluate(p, prop, recent)
               \/ \E a \in Actions : TickSubmit(p, a)
               \/ Decide(p) \/ TickApprove(p) \/ TickExecute(p)
        PROVE  BreakerHolds'
    <3>1. policy' = policy /\ tick[p].pc # "trip" /\ (TickStart(p) \/ TickStep(p))
      BY <2>4 DEF TickStart, TickStep, CheckCooldown, Evaluate, TickSubmit,
         TickInterlock, Decide, TickApprove, TickExecute
    <3>2. QED
      BY <2>2, <2>3, <3>1
  <2>5. ASSUME NEW p \in Engine, TickContinue(p)
        PROVE  BreakerHolds'
    <3>1. PICK raised \in BOOLEAN : tick' = [tick EXCEPT ![p].raised = raised]
      BY <2>5 DEF TickContinue
    <3>2. tick'[p].pc = tick[p].pc
      BY <2>1, <3>1 DEF EngineTypeOK, Tick
    <3>3. QED
      BY <2>2, <2>3, <2>5, <3>2 DEF TickContinue, TickStep
  <2>6. ASSUME NEW p \in Engine, Mark(p)
        PROVE  BreakerHolds'
    <3>1. policy'.failures = policy.failures /\ policy'.tripped = policy.tripped
      BY <2>1, <2>6 DEF Mark, EngineTypeOK, Policy
    <3>2. QED
      BY <2>2, <2>3, <2>6, <3>1 DEF Mark, TickStep
  <2>7. ASSUME NEW p \in Engine, Judge(p)
        PROVE  BreakerHolds'
    <3>1. CASE policy' = [policy EXCEPT !.failures = 0]
      <4>1. policy'.failures = 0
        BY <2>1, <3>1 DEF EngineTypeOK, Policy
      <4>2. QED
        BY <4>1, AutomationAssumption DEF BreakerHolds
    <3>2. CASE policy' = policy
      BY <2>2, <2>3, <2>7, <3>2 DEF Judge, TickStep
    <3>3. QED
      BY <2>7, <3>1, <3>2 DEF Judge
  <2>8. ASSUME NEW p \in Engine, Bump(p)
        PROVE  BreakerHolds'
    <3>1. policy'.failures = policy.failures + 1
      BY <2>1, <2>8 DEF Bump, EngineTypeOK, Policy
    <3>2. CASE Trips(policy.failures + 1)
      <4>1. tick'[p].pc = "trip"
        BY <2>1, <2>8, <3>2 DEF Bump, Goto, EngineTypeOK, Tick
      <4>2. QED
        BY <4>1 DEF BreakerHolds
    <3>3. CASE ~Trips(policy.failures + 1)
      BY <2>1, <3>1, <3>3, AutomationAssumption DEF BreakerHolds, Trips
    <3>4. QED
      BY <3>2, <3>3
  <2>9. ASSUME NEW p \in Engine, Trip(p)
        PROVE  BreakerHolds'
    <3>1. policy'.tripped = TRUE
      BY <2>1, <2>9 DEF Trip, EngineTypeOK, Policy
    <3>2. QED
      BY <3>1 DEF BreakerHolds
  <2>10. ASSUME NEW mode \in {"recommend", "auto"}, NEW reset_trip \in BOOLEAN,
                Patch(mode, reset_trip)
         PROVE  BreakerHolds'
    <3>1. tick' = tick
      BY <2>10 DEF Patch
    <3>2. CASE reset_trip
      <4>1. policy'.failures = 0
        BY <2>1, <2>10, <3>2 DEF Patch, EngineTypeOK, Policy
      <4>2. QED
        BY <4>1, AutomationAssumption DEF BreakerHolds
    <3>3. CASE ~reset_trip
      <4>1. policy'.failures = policy.failures /\ policy'.tripped = policy.tripped
        BY <2>1, <2>10, <3>3 DEF Patch, EngineTypeOK, Policy
      <4>2. QED
        BY <2>2, <3>1, <4>1
    <3>4. QED
      BY <3>2, <3>3
  <2>11. CASE \/ \E p \in Procs \ Engine : Dispose(p) \/ PersonContinue(p)
              \/ \E n \in cooling : CooldownPasses(n)
              \/ Toggle /\ UNCHANGED <<policy, cooling, runs, events, tick>>
              \/ UNCHANGED avars
    <3>1. policy' = policy /\ tick' = tick
      BY <2>11 DEF Dispose, PersonContinue, CooldownPasses, avars
    <3>2. QED
      BY <2>2, <3>1
  <2>12. QED
    BY <1>2, <2>4, <2>5, <2>6, <2>7, <2>8, <2>9, <2>10, <2>11
       DEF AutomationNext, TickStep
<1>3. QED
  BY <1>1, <1>2, AInvariance, PTL DEF AutomationSpec

\* The engine never has two live proposals waiting for its target, if ticks do not
\* overlap: an idle tick looks at the table, and nobody else proposes before it does.
\* (With two replicas ticking at once they do, and the hypothesis is needed.)
THEOREM OneWaitingProposalHolds ==
    ASSUME \A p, q \in Engine : p = q
    PROVE  AutomationSpec => []OneWaitingProposal
<1>1. AutomationInit => OneTick
  <2>1. AutomationInit => /\ \A a \in Actions : action[a].status = "ABSENT"
                          /\ \A p \in Engine : tick[p].pc = "off"
    BY DEF AutomationInit, Init, NoRow, Off
  <2>2. QED
    BY <2>1 DEF OneTick, SoloTick, OneWaitingProposal, Proposing
<1>2. ASSUME AInv, OneTick, [AutomationNext]_avars
      PROVE  OneTick'
  <2>1. \A a \in Actions :
            /\ Keeps(a) /\ ProposalOK(a)
            /\ action'[a].status = "PENDING" => action[a].status = "PENDING" \/ ~Exists(a)
    BY <1>2, Basics, RowStep
  <2>2. EngineTypeOK /\ TypeOK
    BY <1>2 DEF AInv, IInv
\* A step that submits nothing makes no row PENDING.
  <2>3. ASSUME \A p \in Engine, a \in Actions : ~TickSubmit(p, a)
        PROVE  /\ \A a \in Actions : action'[a].status = "PENDING" =>
                      action[a].status = "PENDING" /\ action'[a].mode = action[a].mode
               /\ OneWaitingProposal'
    <3>1. ASSUME NEW a \in Actions, action'[a].status = "PENDING"
          PROVE  action[a].status = "PENDING" /\ action'[a].mode = action[a].mode
      <4>1. Exists(a)'
        BY <3>1 DEF Exists
      <4>2. Exists(a)
        BY <1>2, <2>3, <4>1, OnlyTicksSubmit
      <4>3. QED
        BY <2>1, <3>1, <4>2 DEF Keeps
    <3>2. QED
      BY <1>2, <3>1 DEF OneTick, OneWaitingProposal
  <2>4. ASSUME \A p \in Engine, a \in Actions : ~TickSubmit(p, a),
               \A p \in Engine : \/ tick'[p].pc \notin Proposing
                                 \/ tick[p].pc \in Proposing /\ tick'[p].prop = tick[p].prop
        PROVE  OneTick'
    BY <1>2, <2>3, <2>4 DEF OneTick, SoloTick
  <2>5. ASSUME NEW p \in Engine, NEW a \in Actions, TickSubmit(p, a)
        PROVE  OneTick'
    <3>1. /\ tick[p].pc = "submit" /\ tick'[p].pc = "decide"
          /\ action' = [action EXCEPT ![a] = action'[a]]
          /\ action'[a].mode = tick[p].prop.mode
      BY <1>2, <2>5, ProposeEffect
    <3>2. \A q \in Engine : tick'[q].pc \notin Proposing
      BY <3>1 DEF Proposing
    <3>3. \A b \in Actions : b # a => action'[b] = action[b]
      BY <2>2, <3>1 DEF TypeOK
    <3>4. CASE tick[p].prop.mode = "live"
      BY <1>2, <3>1, <3>2, <3>3, <3>4 DEF OneTick, SoloTick, OneWaitingProposal, Proposing
    <3>5. CASE tick[p].prop.mode # "live"
      BY <1>2, <3>1, <3>2, <3>3, <3>5 DEF OneTick, SoloTick, OneWaitingProposal
    <3>6. QED
      BY <3>4, <3>5
\* The tick looked at every open row, as all of them are the engine's.
  <2>6. ASSUME NEW p \in Engine, NEW prop \in Proposals, NEW recent \in BOOLEAN,
               Evaluate(p, prop, recent)
        PROVE  OneTick'
    <3>1. \A q \in Engine, a \in Actions : ~TickSubmit(q, a)
      BY <2>6 DEF Evaluate, TickSubmit
    <3>2. CASE tick'[p] = Off
      BY <2>4, <3>1, <3>2 DEF Off, Proposing
    <3>3. CASE tick'[p].prop = prop /\ ~(prop.mode = "live" /\ Duplicate(recent))
      <4>1. action' = action
        BY <2>6 DEF Evaluate, vars
      <4>2. prop.mode = "live" => \A a \in Actions : action'[a].status # "PENDING"
        BY <2>1, <3>3, <4>1 DEF Duplicate, OpenStatuses, ProposalOK, Exists
      <4>3. QED
        BY <2>3, <3>1, <3>3, <4>2 DEF OneTick, SoloTick
    <3>4. QED
      BY <2>2, <2>6, <3>2, <3>3 DEF Evaluate, EngineTypeOK, Tick
  <2>7. ASSUME NEW p \in Engine, NEW pc, tick' = [tick EXCEPT ![p].pc = pc],
               tick[p].pc \in Proposing \/ pc \notin Proposing
        PROVE  \A q \in Engine : \/ tick'[q].pc \notin Proposing
                                 \/ tick[q].pc \in Proposing /\ tick'[q].prop = tick[q].prop
    BY <2>2, <2>7 DEF EngineTypeOK, Tick
  <2>8. ASSUME NEW p \in Engine, tick' = [tick EXCEPT ![p] = Off]
        PROVE  \A q \in Engine : tick'[q].pc \notin Proposing
    BY <2>2, <2>8 DEF EngineTypeOK, Off, Proposing
  <2>9. ASSUME NEW p \in Engine,
               \/ TickStart(p) \/ CheckCooldown(p) \/ TickInterlock(p) \/ Mark(p)
               \/ Decide(p) \/ TickApprove(p) \/ TickExecute(p) \/ TickContinue(p)
               \/ Judge(p) \/ Bump(p) \/ Trip(p)
        PROVE  \A q \in Engine : \/ tick'[q].pc \notin Proposing
                                 \/ tick[q].pc \in Proposing /\ tick'[q].prop = tick[q].prop
    <3>1. CASE TickStart(p)
      BY <2>2, <3>1 DEF TickStart, EngineTypeOK, Off, Proposing
    <3>2. CASE CheckCooldown(p) \/ TickInterlock(p)
      BY <2>7, <2>8, <3>2 DEF CheckCooldown, TickInterlock, Goto, End, Proposing
    <3>3. CASE Mark(p)
      BY <2>7, <3>3 DEF Mark, Goto, Proposing
    <3>4. CASE Decide(p)
      BY <2>7, <2>8, <3>4 DEF Decide, Goto, End, Proposing
    <3>5. CASE TickApprove(p) \/ TickExecute(p)
      BY <2>7, <3>5 DEF TickApprove, TickExecute, Goto, Proposing
    <3>6. CASE TickContinue(p)
      BY <2>2, <3>6 DEF TickContinue, EngineTypeOK, Tick
    <3>7. CASE Judge(p) \/ Bump(p) \/ Trip(p)
      BY <2>7, <2>8, <3>7 DEF Judge, Bump, Trip, Goto, End, Proposing
    <3>8. QED
      BY <2>9, <3>1, <3>2, <3>3, <3>4, <3>5, <3>6, <3>7
  <2>10. CASE \/ \E p \in Procs \ Engine : Dispose(p) \/ PersonContinue(p)
              \/ \E reset_trip \in BOOLEAN, mode \in {"recommend", "auto"} :
                    Patch(mode, reset_trip)
              \/ \E n \in cooling : CooldownPasses(n)
              \/ Toggle /\ UNCHANGED <<policy, cooling, runs, events, tick>>
              \/ UNCHANGED avars
    <3>1. tick' = tick
      BY <2>10 DEF Dispose, PersonContinue, Patch, CooldownPasses, avars
    <3>2. CASE \A p \in Engine, a \in Actions : ~TickSubmit(p, a)
      BY <2>4, <3>1, <3>2
    <3>3. QED
      BY <2>5, <3>2
  <2>11. ASSUME NEW p \in Engine, TickStart(p) \/ TickStep(p)
         PROVE  OneTick'
    BY <2>4, <2>5, <2>6, <2>9, <2>11 DEF TickStep
  <2>12. QED
    BY <1>2, <2>10, <2>11 DEF AutomationNext
<1>3. OneTick => OneWaitingProposal
  BY DEF OneTick
<1>4. QED
  BY <1>1, <1>2, <1>3, AInvariance, PTL DEF AutomationSpec
=============================================================================
