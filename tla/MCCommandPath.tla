--------------------------- MODULE MCCommandPath ---------------------------
(***************************************************************************)
(* Instances of CommandPath for TLC: one or two commands of one device.    *)
(***************************************************************************)
EXTENDS CommandPath, TLC

CONSTANTS c1, c2

\* Command identities are interchangeable.
Symmetry == Permutations(Commands)
=============================================================================
