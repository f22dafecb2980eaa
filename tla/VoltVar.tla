------------------------------- MODULE VoltVar -------------------------------
(***************************************************************************)
(* Volt/VAR through one controllable DER: the policy that proposes a step  *)
(* while a node of the feeder is out of its voltage band (auto_voltvar),   *)
(* and the handler that bands, rates, dispatches and rolls back a setpoint *)
(* (oc_voltvar).  The lifecycle of an action is reduced to what they see:  *)
(* Controls has the rest.  A tick of the policy is one step here; ticks    *)
(* that overlap are a matter of Automation.                                *)
(***************************************************************************)
EXTENDS Integers

CONSTANTS
    Rated,        \* rated_kw; outputs are 0 .. Rated
    MaxStep,      \* OC_VOLTVAR_MAX_STEP_KW
    PolicyStep,   \* bounds.max_step_kw of the policy
    Slots,        \* ids of the actions that are open or recent
    Stale,        \* no reading younger than FRESH_S
    MaxMishaps,   \* bound: how often output moves by itself or does not move
    MaxPeople     \* bound: requests by people

VoltVarAssumption ==
    /\ {Rated, MaxStep, PolicyStep} \subseteq Nat \ {0}
    /\ Stale \notin Int

VARIABLES
    voltage,    \* what voltvar_recommendations finds on the feeder
    output,     \* what the DER puts out
    reading,    \* its latest telemetry
    acts,       \* control_actions of type voltvar_dispatch
    mishaps, people

voltVarVars == <<voltage, output, reading, acts, mishaps, people>>

Output == 0 .. Rated
Nothing == [status |-> "none"]
Action == [status : {"PENDING", "APPROVED", "EXECUTED", "OLD"}, by : {"policy", "person"},
           setpoint : Output, prev : Output, risk : {"low", "high"}]

Swing(a, b) == IF a < b THEN b - a ELSE a - b

\* _current_kw: an old reading counts as no output.
Current == IF reading = Stale THEN 0 ELSE reading

\* risk_for
Risk(setpoint) == IF Swing(setpoint, Current) > MaxStep THEN "high" ELSE "low"

-----------------------------------------------------------------------------
(* Requests.                                                               *)

Submit(s, by, setpoint) ==
    /\ acts[s] = Nothing
    /\ acts' = [acts EXCEPT ![s] = [status |-> "PENDING", by |-> by, setpoint |-> setpoint,
                                    prev |-> Current, risk |-> Risk(setpoint)]]

\* The dispatch of the policy that is open, or executed in the last ten minutes.
Duplicate(s) == acts[s] # Nothing /\ acts[s].by = "policy"
                /\ acts[s].status \in {"PENDING", "APPROVED", "EXECUTED"}

\* A slip: low voltage is answered with less injection.
TargetReversed ==
    IF voltage = "high" THEN (IF Current + PolicyStep > Rated THEN Rated ELSE Current + PolicyStep)
    ELSE (IF Current < PolicyStep THEN 0 ELSE Current - PolicyStep)

\* One step up for low voltage, one down for high, within the band.
Target ==
    IF voltage = "low" THEN (IF Current + PolicyStep > Rated THEN Rated ELSE Current + PolicyStep)
    ELSE (IF Current < PolicyStep THEN 0 ELSE Current - PolicyStep)

\* evaluate
Tick(s) ==
    /\ voltage # "ok"
    /\ \A t \in Slots : ~Duplicate(t)
    /\ Target # Current
    /\ Submit(s, "policy", Target)
    /\ UNCHANGED <<voltage, output, reading, mishaps, people>>

\* A person asks for any setpoint; plan lets only those in the band through.
Ask(s, setpoint) ==
    /\ people < MaxPeople
    /\ people' = people + 1
    /\ Submit(s, "person", setpoint)
    /\ UNCHANGED <<voltage, output, reading, mishaps>>

\* within_bounds leaves a large swing of the policy to a second person, as the
\* approval of any action of high risk is.
Approve(s) ==
    /\ acts[s].status = "PENDING" /\ acts[s].risk = "low"
    /\ acts' = [acts EXCEPT ![s].status = "APPROVED"]
    /\ UNCHANGED <<voltage, output, reading, mishaps, people>>

ApproveByAnother(s) ==
    /\ acts[s].status = "PENDING" /\ acts[s].risk = "high"
    /\ acts' = [acts EXCEPT ![s].status = "APPROVED"]
    /\ UNCHANGED <<voltage, output, reading, mishaps, people>>

Reject(s) ==
    /\ acts[s].status = "PENDING"
    /\ acts' = [acts EXCEPT ![s] = Nothing]
    /\ acts[s].by = "person" \/ acts[s].risk = "high"
    /\ UNCHANGED <<voltage, output, reading, mishaps, people>>

-----------------------------------------------------------------------------
(* Execution.                                                              *)

\* The setpoint goes out as it was asked for, and the DER follows.
Execute(s) ==
    /\ acts[s].status = "APPROVED"
    /\ acts' = [acts EXCEPT ![s].status = "EXECUTED"]
    /\ output' = acts[s].setpoint
    /\ UNCHANGED <<voltage, reading, mishaps, people>>

\* The DER does not move: it echoes no setpoint and the action counts as executed,
\* or it does and the action has failed.
Ignored(s) ==
    /\ acts[s].status = "APPROVED" /\ mishaps < MaxMishaps
    /\ mishaps' = mishaps + 1
    /\ \/ acts' = [acts EXCEPT ![s].status = "EXECUTED"]
       \/ acts' = [acts EXCEPT ![s] = Nothing]
    /\ UNCHANGED <<voltage, output, reading, people>>

\* rollback: back to what was read when the action was asked for.
Rollback(s) ==
    /\ acts[s].status \in {"EXECUTED", "OLD"} /\ people < MaxPeople
    /\ people' = people + 1
    /\ output' = acts[s].prev
    /\ acts' = [acts EXCEPT ![s] = Nothing]
    /\ UNCHANGED <<voltage, reading, mishaps>>

\* Ten minutes pass; an old action is of no more interest.
Age(s) ==
    /\ acts[s].status \in {"EXECUTED", "OLD"}
    /\ acts' = [acts EXCEPT ![s] = IF @.status = "OLD" THEN Nothing ELSE [@ EXCEPT !.status = "OLD"]]
    /\ UNCHANGED <<voltage, output, reading, mishaps, people>>

-----------------------------------------------------------------------------
(* The DER, its telemetry and the feeder.                                  *)

Report == reading # output /\ reading' = output
          /\ UNCHANGED <<voltage, output, acts, mishaps, people>>

Silence == reading' = Stale /\ UNCHANGED <<voltage, output, acts, mishaps, people>>

Wander ==
    /\ mishaps < MaxMishaps /\ mishaps' = mishaps + 1
    /\ output' \in Output
    /\ UNCHANGED <<voltage, reading, acts, people>>

FeederMoves == voltage' \in {"low", "ok", "high"}
               /\ UNCHANGED <<output, reading, acts, mishaps, people>>

Init ==
    /\ voltage = "ok" /\ output \in Output /\ reading = Stale
    /\ acts = [s \in Slots |-> Nothing]
    /\ mishaps = 0 /\ people = 0

Next ==
    \/ \E s \in Slots :
          \/ Tick(s) \/ Approve(s) \/ ApproveByAnother(s) \/ Reject(s)
          \/ Execute(s) \/ Ignored(s) \/ Rollback(s) \/ Age(s)
          \/ \E setpoint \in Output : Ask(s, setpoint)
    \/ Report \/ Silence \/ Wander \/ FeederMoves

\* The engine ticks, runs what it may run and forgets in time, and the DER reports.
Fairness ==
    /\ \A s \in Slots : WF_voltVarVars(Approve(s)) /\ WF_voltVarVars(Execute(s))
                        /\ WF_voltVarVars(Age(s))
    /\ WF_voltVarVars(\E s \in Slots : Tick(s)) /\ WF_voltVarVars(Report)

Spec == Init /\ [][Next]_voltVarVars
FairSpec == Spec /\ Fairness

-----------------------------------------------------------------------------
(* Properties.                                                             *)

\* Outputs, readings and actions are of the kinds above.
TypeOK ==
    /\ voltage \in {"low", "ok", "high"}
    /\ output \in Output /\ reading \in Output \cup {Stale}
    /\ acts \in [Slots -> Action \cup {Nothing}]

\* While the voltage stays low and the DER keeps reporting, the steps of the policy
\* take its output to the end of the band; while it stays high, to the other end.
LoopReachesItsEnd ==
    /\ <>[](voltage = "low" /\ reading # Stale) => <>[](output = Rated)
    /\ <>[](voltage = "high" /\ reading # Stale) => <>[](output = 0)
=============================================================================
