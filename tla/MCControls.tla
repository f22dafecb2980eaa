----------------------------- MODULE MCControls -----------------------------
(***************************************************************************)
(* Instances of Controls for TLC: one action (actions do not interact), an *)
(* operator and an engineer of the action's tenant, and an administrator   *)
(* without a tenant.                                                       *)
(***************************************************************************)
EXTENDS Controls, TLC

CONSTANTS op, eng, adm, outsider, t1, t2, p1, p2, a1

MCPrincipals == {op, eng, adm}
MCTenantOf == op :> t1 @@ eng :> t1 @@ adm :> None

\* Two who may both request and approve.
MCPair == {eng, adm}
MCTenantOfPair == eng :> t1 @@ adm :> None

\* With an engineer of another tenant, who must be kept out.
MCPrincipalsWide == {op, eng, adm, outsider}
MCApproversWide == {eng, adm, outsider}
MCTenantOfWide == MCTenantOf @@ outsider :> t2

Symmetry == Permutations(Procs)

\* All but whether requests have overlapped, which no handler and none of the
\* properties of ControlsConcurrent reads.
View == <<action, audit, enabled, req, plant, approvals, been, sawOn>>
=============================================================================
