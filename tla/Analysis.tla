------------------------------ MODULE Analysis ------------------------------
(***************************************************************************)
(* The analyses of the feeder that the control room asks for, computed     *)
(* from the model and the telemetry of the moment: what fails with each    *)
(* element (dms/contingency), the least loss (dms/reconfiguration), which  *)
(* device explains the dark meters (dms/outage_inference), the check of    *)
(* the one against the other (dms/outage_validation), where crews go       *)
(* (dms/crew_dispatch) and where a fault lies (dms/fault_location).        *)
(*                                                                         *)
(* An analysis changes nothing; its answer stands until the switches or    *)
(* the meters change.  Edges are walked in both directions here, unlike in *)
(* Grid.  Current is counted in units of load at nominal voltage, on one   *)
(* phase, so that a sweep is one sum for each branch.                      *)
(***************************************************************************)
EXTENDS Integers, FiniteSets, Sequences, SequencesExt, FiniteSetsExt

CONSTANTS
    Nodes, Edges,
    From, To,        \* from_node and to_node of each edge
    Root,            \* the substation; build_radial takes the first one
    Meters, Transformers,
    EdgeOrder,       \* the edges in the order the query returns them
    Switchable,      \* is_switchable
    NormallyClosed,
    Reconfigurable,  \* switches and ties, islanding breakers left out
    Movable,         \* the edges that open or close while we look
    BaseLoad,        \* net load of each node: consumption +, generation -
    Customers,       \* service points of each node
    Resistance, Ampacity, MaxDrop, CollapseDrop,
    NoAnswer

AnalysisAssumption ==
    /\ From \in [Edges -> Nodes] /\ To \in [Edges -> Nodes]
    /\ IsFiniteSet(Nodes) /\ IsFiniteSet(Edges)
    /\ Root \in Nodes /\ Meters \subseteq Nodes /\ Transformers \subseteq Nodes
    /\ EdgeOrder \in Seq(Edges) /\ Range(EdgeOrder) = Edges /\ Len(EdgeOrder) = Cardinality(Edges)
    /\ Reconfigurable \subseteq Switchable /\ Switchable \cup Movable \cup NormallyClosed \subseteq Edges
    /\ BaseLoad \in [Nodes -> Int] /\ Customers \in [Nodes -> Nat]
    /\ Resistance \in [Edges -> Nat]

VARIABLES
    closed,    \* grid_edges: the edges with is_closed
    dark,      \* meters whose latest telemetry is LAST_GASP
    answer     \* what the last request was told, NoAnswer when it is outdated

analysisVars == <<closed, dark, answer>>

-----------------------------------------------------------------------------
(* The network.                                                            *)

\* Nodes joined to the substation over the edges of E, either way along them.
Joined(E) ==
    LET within[n \in Nat] ==
          IF n = 0 THEN {Root}
          ELSE LET S == within[n - 1]
               IN  S \cup {To[e] : e \in {d \in E : From[d] \in S}}
                     \cup {From[e] : e \in {d \in E : To[d] \in S}}
    IN  within[Cardinality(Nodes)]

Fed == [E \in SUBSET Edges |-> Joined(E)]

IsRadial(E) ==
    Cardinality({e \in E : {From[e], To[e]} \subseteq Fed[E]}) < Cardinality(Fed[E])

\* build_radial: in a meshed network the order of the search decides the tree.
Trees(E) ==
    LET live == {e \in E : {From[e], To[e]} \subseteq Fed[E]}
    IN  IF IsRadial(E) THEN {live}
        ELSE {T \in kSubset(Cardinality(Fed[E]) - 1, live) : Fed[T] = Fed[E]}

\* subtree[e]: what hangs below edge e of the tree, and the edges above node n.
Section(T, e) == Fed[T] \ Fed[T \ {e}]
PathTo(T, n) == {e \in T : n \in Section(T, e)}

\* The one of E, all on a path from the substation, that is farthest from it.
Deepest(T, E) == CHOOSE e \in E : \A d \in E : Section(T, e) \subseteq Section(T, d)

-----------------------------------------------------------------------------
(* Loads and the power flow.                                               *)

\* Live load is what telemetry says, so a meter's last gasp counts as nothing.
Load(gone, n) == IF n \in gone THEN 0 ELSE BaseLoad[n]

Flow(T, gone, e) ==
    SumFunctionOnSet([n \in Nodes |-> Load(gone, n)], Section(T, e))

DropAt(T, gone, n) ==
    SumFunctionOnSet([e \in T |-> Resistance[e] * Flow(T, gone, e)], PathTo(T, n))

Loss(T, gone) ==
    SumFunctionOnSet([e \in T |-> Resistance[e] * Flow(T, gone, e) * Flow(T, gone, e)], T)

\* solve: total loss, number of violations, and whether the sweep settles.
PowerFlow(T, gone) ==
    LET size(i) == IF i < 0 THEN -i ELSE i
    IN  [loss |-> Loss(T, gone),
         violations |->
            Cardinality({n \in Fed[T] : size(DropAt(T, gone, n)) > MaxDrop})
            + Cardinality({e \in T : size(Flow(T, gone, e)) > Ampacity[e]}),
         converged |-> \A n \in Fed[T] : DropAt(T, gone, n) < CollapseDrop]

-----------------------------------------------------------------------------
(* Contingencies.                                                          *)

\* Closing t feeds some of what was lost and makes no loop.
Helps(E, lost, t) == lost \cap Fed[E \cup {t}] # {} /\ IsRadial(E \cup {t})

\* _restore, one switch: it closes if it is open, has not failed, and helps.
Take(E, failed, lost, ties, t) ==
    IF /\ t \in Switchable \ (E \cup ties \cup {failed})
       /\ Helps(E \cup ties, lost \ Fed[E \cup ties], t)
    THEN ties \cup {t} ELSE ties

\* A pass over the switches, in the order they are read.
Closing(E, failed, lost, ties) ==
    LET upto[i \in Nat] ==
          IF i = 0 THEN ties ELSE Take(E, failed, lost, upto[i - 1], EdgeOrder[i])
    IN  upto[Len(EdgeOrder)]

\* Passes until one closes nothing; as many as there are switches are enough.
Restore(E, failed, lost) ==
    LET after[n \in Nat] == IF n = 0 THEN {} ELSE Closing(E, failed, lost, after[n - 1])
    IN  after[Cardinality(Switchable)]

\* A slip: load is what the meter says, its last gasp included.
ClassifiedLive(gone, n) == Load(gone, n)

\* classif_load: a meter that went dark counts with its base load.
Classified(gone, n) ==
    LET live == Load(gone, n) IN
    IF n \in gone \/ live < 0 THEN (IF BaseLoad[n] > 0 THEN BaseLoad[n] ELSE 0) ELSE live

Unserved(gone, out) == SumFunctionOnSet([n \in Nodes |-> Classified(gone, n)], out)
CustomersIn(section) == SumFunctionOnSet(Customers, section)

\* analyze, for the outage of one element.
Contingency(E, gone, e, tree) ==
    LET lost == Fed[E] \ Fed[E \ {e}]
        ties == Restore(E \ {e}, e, lost)
        out == Fed[E] \ Fed[(E \ {e}) \cup ties]
        unserved == Unserved(gone, out)
        violations == PowerFlow(tree, gone).violations
    IN  [element |-> e, restoredBy |-> ties, unserved |-> unserved,
         lostCustomers |-> CustomersIn(lost),
         violations |-> violations,
         class |-> CASE unserved > 0 /\ ties = {} -> "unserved"
                     [] unserved > 0 /\ ties # {} -> "partial"
                     [] unserved = 0 /\ violations > 0 -> "violation"
                     [] unserved = 0 /\ violations = 0 /\ ties # {} -> "restorable"
                     [] OTHER -> "secure"]

After(E, e) == (E \ {e}) \cup Restore(E \ {e}, e, Fed[E] \ Fed[E \ {e}])

\* Every closed element in turn; the search of solve picks a tree for each.
Contingencies(E, gone) ==
    {Contingency(E, gone, e, CHOOSE T \in Trees(After(E, e)) : TRUE) : e \in E}

N1Secure(results) == \A r \in results : r.unserved = 0 /\ r.violations = 0

-----------------------------------------------------------------------------
(* Reconfiguration.                                                        *)

\* _radial_feasible: a tree that reaches every load.
Feasible(E) == IsRadial(E) /\ \A n \in Meters : n \in Fed[E]

\* _evaluate over all the positions of the switches that may be moved.
Options(E, gone) ==
    {[state |-> S, flow |-> PowerFlow(CHOOSE T \in Trees(S) : TRUE, gone)] :
        S \in {R \in {(E \ Reconfigurable) \cup Q : Q \in SUBSET Reconfigurable} : Feasible(R)}}

Changes(E, S) == (E \ S) \cup (S \ E)

\* Less loss, or as much with no more switches moved.
Better(E, o, p) ==
    \/ o.flow.loss < p.flow.loss
    \/ /\ o.flow.loss = p.flow.loss
       /\ Cardinality(Changes(E, o.state)) <= Cardinality(Changes(E, p.state))

\* recommend: the best options; the order of the search picks among equals.
Recommended(E, gone) ==
    LET options == {o \in Options(E, gone) : o.flow.converged}
    IN  {o \in options : \A p \in options : Better(E, o, p)}
-----------------------------------------------------------------------------
(* Outage inference, its validation, dispatch and fault location.          *)

Below(T, n) == IF n = Root THEN Fed[T]
               ELSE Section(T, Deepest(T, PathTo(T, n)))

\* _nearest_transformer, as what lies below it: all of the tree if there is none.
Feeder(T, n) ==
    LET sections == {Below(T, t) : t \in {u \in Transformers \cap Fed[T] : n \in Below(T, u)}}
    IN  IF sections = {} THEN Fed[T]
        ELSE CHOOSE S \in sections : \A R \in sections : S \subseteq R

\* A slip: the section of the first dark meter stands for all of them.
CommonOfOne(T, members) == PathTo(T, CHOOSE n \in members : TRUE)

\* _lca: the edges above every one of the members.
Common(T, members) == {e \in T : members \subseteq Section(T, e)}

\* _infer_pass, for the members of one cluster.
Inferred(T, members, source, open) ==
    LET above == Common(T, members)
        tripped == IF source = "structural" THEN above \cap open ELSE {}
        device == IF above = {} THEN {}
                  ELSE {Deepest(T, IF tripped # {} THEN tripped ELSE above)}
        section == IF device = {} THEN Fed[T] ELSE UNION {Section(T, e) : e \in device}
    IN  [source |-> source, members |-> members, device |-> device, section |-> section,
         customers |-> CustomersIn(section)]

Pass(T, gone, source, open) ==
    {Inferred(T, {m \in gone : Feeder(T, m) = Feeder(T, n)}, source, open) : n \in gone}

\* infer: dark meters in the tree that is fed, and those that only the network as
\* it is normally closed reaches, because a device that opened cut them off.
Inferences(E, gone, T, U) ==
    Pass(T, gone \cap Fed[E], "energized", {})
    \cup Pass(U, (gone \ Fed[E]) \cap Fed[NormallyClosed], "structural",
              NormallyClosed \ E)

\* cross_check, for one inference: the flags that are a disagreement.
Mismatch(o, results) ==
    \/ \E e \in o.device : \A r \in results : r.element # e
    \/ \E r \in results : r.element \in o.device /\ o.customers # r.lostCustomers

\* crew_dispatch.recommend: switched from afar when a tie feeds some of it.
Remote(o, results) == \E r \in results : r.element \in o.device /\ r.restoredBy # {}

\* locate, from the nodes that report an outage: the sections that match best.
Located(T, report) ==
    LET inter(e) == Cardinality(Section(T, e) \cap report)
        union(e) == Cardinality(Section(T, e) \cup report)
    IN  {e \in T : \A d \in T : inter(d) * union(e) <= inter(e) * union(d)}

-----------------------------------------------------------------------------
(* The requests.                                                           *)

Init == closed \in {NormallyClosed, Edges} /\ dark = {} /\ answer = NoAnswer

\* A switch or a line opens or closes: operations, protection, imports.
Move(e) ==
    /\ closed' = (closed \ {e}) \cup ({e} \ closed)
    /\ answer' = NoAnswer
    /\ UNCHANGED dark

\* A meter sends its last gasp, or telemetry of its returns.
Gasp(m) ==
    /\ dark' = (dark \ {m}) \cup ({m} \ dark)
    /\ answer' = NoAnswer
    /\ UNCHANGED closed

Reply(r) == answer = NoAnswer /\ answer' = r /\ UNCHANGED <<closed, dark>>

\* GET /dms/contingency/n1
ContingencyN1 ==
    LET results == Contingencies(closed, dark) IN
    Reply([kind |-> "n1", results |-> results, secure |-> N1Secure(results)])

\* GET /dms/reconfiguration/recommend
Recommend ==
    LET best == Recommended(closed, dark) IN
    \/ best = {} /\ Reply([kind |-> "plan", found |-> FALSE, plan |-> {}])
    \/ \E o \in best :
          Reply([kind |-> "plan", found |-> TRUE, plan |-> Changes(closed, o.state)])

\* GET /oms/outage/infer, /oms/outage/validate and /oms/crew/recommend: the
\* inference and, on the same read of the model, the contingencies.
OutageInfer ==
    \E T \in Trees(closed), U \in Trees(NormallyClosed) :
       LET inferred == Inferences(closed, dark, T, U)
           results == Contingencies(closed, dark)
       IN  Reply([kind |-> "outage", inferred |-> inferred,
                  mismatches |-> {o \in inferred : Mismatch(o, results)},
                  remote |-> {o \in inferred : Remote(o, results)}])

\* POST /dms/fault_location/locate with the meters that are dark.
Locate ==
    /\ dark # {}
    /\ \E T \in Trees(closed) : \E e \in Located(T, dark) :
          Reply([kind |-> "fault", section |-> e, exact |-> Section(T, e) = dark])

Next ==
    \/ \E e \in Movable : Move(e)
    \/ \E m \in Meters : Gasp(m)
    \/ ContingencyN1 \/ Recommend \/ OutageInfer \/ Locate

Spec == Init /\ [][Next]_analysisVars

-----------------------------------------------------------------------------
(* Properties.                                                             *)

\* The switches, the meters and the answer are of the kinds above.
TypeOK ==
    /\ closed \subseteq Edges /\ dark \subseteq Meters
    /\ answer # NoAnswer => answer.kind \in {"n1", "plan", "outage", "fault"}

Served(E) == {n \in Fed[E] : BaseLoad[n] > 0}

\* When the feeder is called N-1 secure, every load that is fed stays fed through
\* the failure of any one element, after the switching that the analysis itself
\* proposes and without a loop, whether or not its meter has just gone dark.  And
\* where it is not, no open switch that is left could feed more without a loop.
ContingenciesHold ==
    (answer # NoAnswer /\ answer.kind = "n1" /\ IsRadial(closed)) =>
       \A r \in answer.results :
          LET after == (closed \ {r.element}) \cup r.restoredBy
              helps(t) == (Fed[after \cup {t}] \ Fed[after]) \cap Fed[closed] # {}
          IN  /\ r.element \notin after /\ IsRadial(after)
              /\ answer.secure => Served(closed) \subseteq Fed[after]
              /\ \A t \in Switchable \ (after \cup {r.element}) :
                    helps(t) => ~IsRadial(after \cup {t})

\* The device that outage inference blames for dark meters that are still fed is
\* one whose failure explains all of them and loses, by the contingency analysis,
\* as many customers as the inference counts: in a radial feeder the two agree.
InferenceAgrees ==
    (answer # NoAnswer /\ answer.kind = "outage" /\ IsRadial(closed)) =>
       /\ \A o \in answer.inferred : o.source = "energized" =>
             /\ o \notin answer.mismatches
             /\ \A e \in o.device : o.members \cap Fed[closed \ {e}] = {}
       /\ \A m \in dark \cap (Fed[closed] \cup Fed[NormallyClosed]) :
             Cardinality({o \in answer.inferred : m \in o.members}) = 1

\* The plan leads to a tree that serves every load, nothing else that does loses
\* less, and a feeder that is already at its best is left alone.
PlanIsBest ==
    (answer # NoAnswer /\ answer.kind = "plan" /\ answer.found) =>
       LET after == Changes(closed, answer.plan)
           loss(E) == PowerFlow(CHOOSE T \in Trees(E) : TRUE, dark).loss
           options == {o \in Options(closed, dark) : o.flow.converged}
       IN  /\ IsRadial(after) /\ Meters \subseteq Fed[after]
           /\ \A o \in options : loss(after) <= o.flow.loss
           /\ (\E o \in options : o.state = closed /\ o.flow.loss = loss(after))
              => answer.plan = {}
=============================================================================
