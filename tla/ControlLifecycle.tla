-------------------------- MODULE ControlLifecycle --------------------------
(***************************************************************************)
(* What the governance core promises of one control action, as an operator *)
(* reads it in OPERATIONAL_CONTROLS.md: each transition is one step, a     *)
(* high-risk action is applied to the plant after the approval of a second *)
(* person and at most once, and its row tells what became of it.           *)
(***************************************************************************)
CONSTANTS Actions, Principals, None

VARIABLES
    stage,      \* status of each action
    terms,      \* its immutable terms: mode, risk, requester
    effect      \* "none", "applied" (handler.execute ran) or "undone"

lvars == <<stage, terms, effect>>

NoTerms == [mode |-> "dry_run", risk |-> "low", requester |-> None]

Init ==
    /\ stage = [a \in Actions |-> "ABSENT"]
    /\ terms = [a \in Actions |-> NoTerms]
    /\ effect = [a \in Actions |-> "none"]

Move(a, from, to) ==
    /\ stage[a] \in from
    /\ stage' = [stage EXCEPT ![a] = to]

Request(a, mode, risk, by) ==
    /\ Move(a, {"ABSENT"}, "PENDING")
    /\ terms' = [terms EXCEPT ![a] =
                    [mode |-> mode, risk |-> risk, requester |-> by]]
    /\ UNCHANGED effect

Approve(a, by) ==
    /\ terms[a].risk = "high" => by # terms[a].requester
    /\ effect[a] = "none"
    /\ Move(a, {"PENDING"}, "APPROVED")
    /\ UNCHANGED <<terms, effect>>

Reject(a) ==
    /\ effect[a] = "none"
    /\ Move(a, {"PENDING"}, "REJECTED")
    /\ UNCHANGED <<terms, effect>>

\* A dry run is recorded as executed and touches nothing.
DryRun(a) ==
    /\ terms[a].mode = "dry_run"
    /\ Move(a, {"PENDING", "APPROVED"}, "EXECUTED")
    /\ UNCHANGED <<terms, effect>>

Ready(a) ==
    /\ terms[a].mode = "live"
    /\ stage[a] \in IF terms[a].risk = "high" THEN {"APPROVED"}
                                              ELSE {"PENDING", "APPROVED"}

\* The plant moves before the row says so.
Apply(a) ==
    /\ Ready(a)
    /\ effect[a] = "none"
    /\ effect' = [effect EXCEPT ![a] = "applied"]
    /\ UNCHANGED <<stage, terms>>

Complete(a) ==
    /\ Ready(a)
    /\ effect[a] = "applied"
    /\ stage' = [stage EXCEPT ![a] = "EXECUTED"]
    /\ UNCHANGED <<terms, effect>>

\* A failure may leave the plant changed.
Fail(a) ==
    /\ Ready(a)
    /\ stage' = [stage EXCEPT ![a] = "FAILED"]
    /\ UNCHANGED <<terms, effect>>

\* Whatever was executed may be undone, a dry run included: the code asks no
\* more than the status.
Undo(a) ==
    /\ stage[a] = "EXECUTED"
    /\ effect' = [effect EXCEPT ![a] = "undone"]
    /\ UNCHANGED <<stage, terms>>

RollBack(a) ==
    /\ effect[a] = "undone"
    /\ Move(a, {"EXECUTED"}, "ROLLED_BACK")
    /\ UNCHANGED <<terms, effect>>

Next ==
    \E a \in Actions :
        \/ \E mode \in {"dry_run", "live"}, risk \in {"low", "high"},
              by \in Principals : Request(a, mode, risk, by)
        \/ \E by \in Principals : Approve(a, by)
        \/ Reject(a) \/ DryRun(a)
        \/ Apply(a) \/ Complete(a) \/ Fail(a)
        \/ Undo(a) \/ RollBack(a)

Spec == Init /\ [][Next]_lvars
=============================================================================
