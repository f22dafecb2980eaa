----------------------------- MODULE MCSwitchOps -----------------------------
(***************************************************************************)
(* The seeded pilot network (sql/013, 015 and 019), its meter and DER      *)
(* nodes folded into the bus: feeder, two transformers behind a switch     *)
(* each, the bus with the hospital, the microgrid behind its breaker, and  *)
(* the tie from the backup transformer to the bus.                         *)
(***************************************************************************)
EXTENDS SwitchOps, TLC

CONSTANTS FDR, TX1, TX2, BUS, MGD, SW1, SW2, XF, TIE, CB, a1, a2, p1, p2

MCFrom == SW1 :> FDR @@ SW2 :> FDR @@ XF :> TX1 @@ TIE :> TX2 @@ CB :> BUS
MCTo == SW1 :> TX1 @@ SW2 :> TX2 @@ XF :> BUS @@ TIE :> BUS @@ CB :> MGD
MCTies == <<TIE>>

Switch(e, close, override) ==
    [kind |-> "switch", target |-> e, close |-> close, override |-> override]
Flisr(n) == [kind |-> "flisr", target |-> n, close |-> FALSE, override |-> FALSE]

\* Opening the breaker, which rollback closes again; a switch that is closed with
\* the interlocks and opened past them, for it islands the hospital; and FLISR.
MCWanted == {Switch(CB, FALSE, FALSE), Switch(SW1, TRUE, FALSE),
             Switch(SW1, FALSE, TRUE), Flisr(TX1), Flisr(BUS)}
SomeWanted == {Flisr(TX1), Switch(SW1, TRUE, FALSE), Switch(CB, FALSE, FALSE)}
Symmetry == Permutations(Actions) \cup Permutations(Procs)
=============================================================================
