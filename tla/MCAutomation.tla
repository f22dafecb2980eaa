---------------------------- MODULE MCAutomation ----------------------------
(***************************************************************************)
(* An instance of Automation for TLC.  The proposals are those of the noop *)
(* demonstrator (a dry run of low risk, which nobody has to approve) and   *)
(* of FLISR (live, of high risk).  A proposal outside its bounds takes the *)
(* way that one takes when the master flag is off, which may be at any     *)
(* time.                                                                   *)
(***************************************************************************)
EXTENDS Automation, TLC

CONSTANTS auto, sup, eng, t1, e1, e2, h1, a1, a2, a3

MCPrincipals == {auto, sup, eng}
MCTenantOf == [p \in MCPrincipals |-> None]

NoopAuto == [mode |-> "dry_run", risk |-> "low", bounded |-> TRUE]
FlisrAuto == [mode |-> "live", risk |-> "high", bounded |-> TRUE]

\* What the next steps and the properties of these runs depend on: no guard
\* reads the trail, the approver column or the histories left out here.
View ==
    <<[a \in Actions |-> <<action[a].status, action[a].mode, action[a].risk,
                           applied[a] > 0, approvals[a], events[a]>>],
      enabled, req, policy, cooling, runs,
      [p \in Engine |-> IF tick[p].pc = "cooldown" THEN tick[p]
                        ELSE [tick[p] EXCEPT !.last_run_at = 0]]>>

MCProposals == {NoopAuto, FlisrAuto}

Symmetry == Permutations(Actions)
=============================================================================
