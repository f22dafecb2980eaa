-------------------------------- MODULE Grid --------------------------------
(***************************************************************************)
(* The network model (grid_nodes, grid_edges) and the computations on it:  *)
(* what is energized (oc_switch._energized, dms._reach), the interlocks of *)
(* a switch operation and the plan of FLISR (dms.plan_flisr).  Edges are   *)
(* directed, from the source side to the load side, as the code reads      *)
(* them.  The positions of the switches are given as the set of the edges  *)
(* that are closed.                                                        *)
(***************************************************************************)
EXTENDS Naturals, FiniteSets, Sequences, SequencesExt

CONSTANTS
    Nodes, Edges,
    From, To,       \* from_node and to_node of each edge
    Substations,    \* nodes of type substation
    Switchable,     \* edges that can be operated
    Ties,           \* the ties or normally open edges, in the order they are read
    Critical        \* nodes that serve critical or medical customers

ASSUME GridAssumption ==
    /\ From \in [Edges -> Nodes] /\ To \in [Edges -> Nodes]
    /\ Substations \subseteq Nodes /\ Critical \subseteq Nodes
    /\ Switchable \subseteq Edges
    /\ Ties \in Seq(Edges)
    /\ IsFiniteSet(Nodes)

-----------------------------------------------------------------------------
\* What a search from sources along the closed edges finds: each round adds the
\* nodes that a closed edge leads to, and there are no more rounds than nodes.
Reach(closed, sources) ==
    LET within[n \in Nat] ==
          IF n = 0 THEN sources
          ELSE LET S == within[n - 1]
               IN  S \cup {To[e] : e \in {d \in closed : From[d] \in S}}
    IN  within[Cardinality(Nodes)]

Energized == [closed \in SUBSET Edges |-> Reach(closed, Substations)]
Subtree == [closed \in SUBSET Edges |-> [e \in Edges |-> Reach(closed, {To[e]})]]

\* The positions after edge e was put into position close.
Set(closed, e, close) == IF close THEN closed \cup {e} ELSE closed \ {e}

\* _interlocks: what operating e would do that is refused unless overridden.
Blocks(closed, e, close, outages) ==
    LET before == Energized[closed]
        after == Energized[Set(closed, e, close)]
    IN  IF close THEN \/ outages \cap (after \ before) # {}   \* into a fault
                      \/ {From[e], To[e]} \subseteq before    \* two sources
                 ELSE Critical \cap (before \ after) # {}     \* islands them

-----------------------------------------------------------------------------
(* plan_flisr.                                                             *)

Candidates(closed, fault) ==
    {e \in Switchable \cap closed : fault \in Subtree[closed][e]}

\* The switches min may return: those with the smallest subtree.  The query has
\* no order, so the first of several is any of them.
Isolating(closed, fault) ==
    LET size(e) == Cardinality(Subtree[closed][e])
    IN  {e \in Candidates(closed, fault) :
            \A d \in Candidates(closed, fault) : size(e) <= size(d)}

\* A slip: the tie may lead back to the fault.
TieAnyway(fault, lost, cur, t) ==
    Energized[cur \cup {t}] \cap lost # {}

\* Closing t feeds some of the lost load, and not the fault.
TieHelps(fault, lost, cur, t) ==
    /\ fault \notin Energized[cur \cup {t}]
    /\ Energized[cur \cup {t}] \cap lost # {}

\* The ties that are closed after iso was opened, one after the other.
Restoring(closed, fault, iso) ==
    LET open == closed \ {iso}
        lost == Energized[closed] \ Energized[open]
        Take(ties, t) ==
            IF /\ t \notin open
               /\ {From[t], To[t]} \cap lost # {}
               /\ TieHelps(fault, lost, open \cup ToSet(ties), t)
            THEN Append(ties, t) ELSE ties
    IN  FoldLeft(Take, << >>, Ties)
=============================================================================
