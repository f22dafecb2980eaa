-------------------------------- MODULE MCOMS --------------------------------
(***************************************************************************)
(* Instances of OMS for TLC: two meters of one section; or one of them and *)
(* a third meter that was onboarded without a node.                        *)
(***************************************************************************)
EXTENDS OMS, TLC

CONSTANTS m1, m2, m3, TX1, r1, detector, caller

MCSections == m1 :> TX1 @@ m2 :> TX1
MCStraySections == m1 :> TX1 @@ m3 :> m3
=============================================================================
