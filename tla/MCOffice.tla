------------------------------- MODULE MCOffice -------------------------------
(* Model values and bounds for the parts that people and scripts work with:  *)
(* users and sessions, the onboarding of devices, the cutover gate, the CIM  *)
(* service, the fleet and its dashboard, the copilot library, and Volt/VAR.  *)
(* They share no state. One run checks them all: part is chosen once and     *)
(* only that part takes steps; the state of the others stays as it began.    *)
EXTENDS Integers, Sequences, FiniteSets, TLC

CONSTANTS Users, Admins, Requests, Devices, Tenants, Reviews, x1, x2, None,
          MaxTokens, MaxVersion, MaxUpsets, Calls, Conditions, Threshold, MaxTroubles, MaxMishaps, MaxRows, MaxNow,
          MaxEvents, Callers, Principals, Watched, Owner, TTL, TopN, MaxTicks, MaxChanges, Rated

VARIABLES part,
    users, issued, redis, versions, revoked, expired, session, live, disturbed, upsets,
    asset, onboarding, certificates, review, earned, peak, overlapped,
    condition, restarts, young, runs, deployment, trail, request, together, gauge, clock, troubles, mishaps,
    points, edges, keys,
    time, registry, telemetry, commands, alarms, state, lost, pc, twin, events,
    now, signals, cache, at, tenant, about, answer, changes,
    voltage, output, reading, acts, slips, people

MCReadings == {[power |-> 0, frequency |-> 50, soc |-> 20], [power |-> 9, frequency |-> 50, soc |-> 80]}
MCSignals == {[status |-> "ONLINE", fresh |-> "yes", critical |-> TRUE],
              [status |-> "OFFLINE", fresh |-> "no", critical |-> FALSE]}
MCOwner == <<"acme", "beta">>

A == INSTANCE Accounts WITH request <- session
O == INSTANCE Onboarding
C == INSTANCE Cutover WITH MaxDelta <- 0, overlapped <- together, changes <- troubles, MaxChanges <- MaxTroubles
I == INSTANCE Cim WITH Nodes <- {"transformer", "bus"}, Devices <- {"meter1", "meter2"},
       Types <- {"voltage", "power_kw"}, telemetry <- keys
F == INSTANCE Fleet WITH Devices <- {"battery", "meter"}, Batteries <- {"battery"}, Sites <- {"site"},
       Readings <- MCReadings, Severities <- {"HIGH", "OK"}, Listed <- 2, now <- time
Q == INSTANCE Copilot WITH Tenants <- Principals, Devices <- Watched, Signals <- MCSignals, MaxNow <- MaxTicks, pc <- at
V == INSTANCE VoltVar WITH Slots <- {x1, x2}, Stale <- None, MaxStep <- 1, PolicyStep <- 1, MaxPeople <- 1,
       mishaps <- slips

ASSUME OfficeAssumption == A!AccountsAssumption /\ O!OnboardingAssumption
ASSUME ServicesAssumption ==
    C!CutoverAssumption /\ I!CimAssumption /\ F!FleetAssumption /\ Q!CopilotAssumption /\ V!VoltVarAssumption

accounts == <<users, issued, redis, versions, revoked, expired, session, live, disturbed, upsets>>
devices == <<asset, onboarding, certificates, review, earned, peak, overlapped>>
cutover == <<condition, restarts, young, runs, deployment, trail, request, together, gauge, clock, troubles, mishaps>>
cim == <<points, edges, keys>>
fleet == <<time, registry, telemetry, commands, alarms, state, lost, pc, twin, events>>
copilot == <<now, signals, cache, at, tenant, about, answer, changes>>
voltvar == <<voltage, output, reading, acts, slips, people>>

Init ==
    /\ part \in {"accounts", "onboarding", "cutover", "cim", "fleet", "copilot", "voltvar"}
    /\ A!Init /\ O!Init /\ C!Init /\ I!Init /\ F!Init /\ Q!Init /\ V!Init
    /\ \A d \in Watched : signals[d].critical
    /\ part # "voltvar" => output = 0

Accounts   == part = "accounts"   /\ A!Next /\ UNCHANGED <<part, devices, cutover, cim, fleet, copilot, voltvar>>
Onboarding == part = "onboarding" /\ O!Next /\ UNCHANGED <<part, accounts, cutover, cim, fleet, copilot, voltvar>>
Cutover    == part = "cutover"    /\ C!Next /\ UNCHANGED <<part, accounts, devices, cim, fleet, copilot, voltvar>>
Cim        == part = "cim"        /\ I!Next /\ UNCHANGED <<part, accounts, devices, cutover, fleet, copilot, voltvar>>
Fleet      == part = "fleet"      /\ F!Next /\ UNCHANGED <<part, accounts, devices, cutover, cim, copilot, voltvar>>
Copilot    == part = "copilot"    /\ Q!Next /\ UNCHANGED <<part, accounts, devices, cutover, cim, fleet, voltvar>>
VoltVar    == part = "voltvar"    /\ V!Next /\ UNCHANGED <<part, accounts, devices, cutover, cim, fleet, copilot>>

Next == Accounts \/ Onboarding \/ Cutover \/ Cim \/ Fleet \/ Copilot \/ VoltVar

\* The fairness of VoltVar, for the behaviours in which it takes the steps.
Fairness ==
    /\ \A x \in {x1, x2} : /\ WF_voltvar(part = "voltvar" /\ V!Approve(x))
                          /\ WF_voltvar(part = "voltvar" /\ V!Execute(x))
                          /\ WF_voltvar(part = "voltvar" /\ V!Age(x))
    /\ WF_voltvar(part = "voltvar" /\ \E x \in {x1, x2} : V!Tick(x))
    /\ WF_voltvar(part = "voltvar" /\ V!Report)

Spec == Init /\ [][Next]_<<part, accounts, devices, cutover, cim, fleet, copilot, voltvar>> /\ Fairness

-----------------------------------------------------------------------------
(* The properties of the parts: each is stated in its module, and the type   *)
(* invariant of a part is checked with its first property.                   *)

\* While Redis answers, a token is accepted exactly if its session lasts (auth.py).
SessionsAreExact == part = "accounts" => A!TypeOK /\ A!SessionsAreExact

\* A device's onboarding stage was earned, with two reviews at a time (_advance_onboarding).
StageIsEarned == part = "onboarding" => O!TypeOK /\ O!StageIsEarned

\* The gate of a cutover and its events agree, and a restart of a container is not passed
\* over (validate_cutover, check_container_restart_counts).
GateIsTrue == part = "cutover" => C!TypeOK /\ C!VerdictIsAudited /\ C!RestartsAreCaught

\* The CIM export is the tables: every customer at one usage point, every device at one,
\* and its pages cover the list (services/cim/mapping).
ExportIsTheTables == part = "cim" => I!ExportIsTheTables

\* The views of the fleet agree with the tables and with each other (app.py), and the
\* list of concerns is in the order its docstring gives (health_helper.py).
ViewsAgree ==
    /\ part = "fleet" => F!ViewsAgree
    /\ part = "copilot" => Q!WorstComesFirst

\* The dashboard, put together from three calls, shows the last command there is and calls
\* nothing OK that is stale (digitaltwin/app.py build_all_twins).
DashboardGoesForward == [][part = "fleet" => F!GoesForward]_fleet

\* An answer is about the caller's own devices, cached or not (redis_cache.py:117).
AnswersAreOwn == part = "copilot" => Q!AnswersStayInTenant

\* Step by step, the policy takes the output to the end of its band (auto_voltvar.py).
LoopReachesItsEnd == part = "voltvar" => V!LoopReachesItsEnd
=============================================================================
