-------------------------------- MODULE MCGrid --------------------------------
(* Model values and bounds for the parts that are about the network: its      *)
(* model and versions, the analyses of it, and the outage cases.              *)
(* They share no state. One run checks them all: part is chosen once and only *)
(* that part takes steps; the state of the others stays as it began.          *)
EXTENDS Integers, Sequences, FiniteSets, TLC

CONSTANTS root, a, b, e1, e2, e3, NodeIds, EdgeIds, Files, Jobs, MaxModels, MaxWrites, MaxFailures,
          Nodes, Edges, FromNode, ToNode, Meters, Transformers, EdgeOrder, Switchable, NormallyClosed,
          Reconfigurable, Movable, BaseLoad, Customers, Resistance, Ampacity, MaxDrop, CollapseDrop, NoAnswer,
          f, t1, t2, m1, m2, m3, SF, S1, S2, TB, TIE, BM, TM, UM,
          Metered, Reports, SectionOf, Sections, Sweepers, Detector, MaxCases, MaxChanges, MaxTouches, None

VARIABLES part,
    flagged, newest, nodes, edges, job, lost, writes, failures,
    closed, dark, answer,
    signal, case, report, sweep, changes, touches, alone

\* A network of three nodes, in whose files the direction and the state of two lines vary.
Line(i, x, y, o) == [id |-> i, a |-> x, b |-> y, open |-> o]
Lines(i, x, y) == {Line(i, p[1], p[2], o) : p \in {<<x, y>>, <<y, x>>}, o \in BOOLEAN}
MCFiles == {<<x, Line(e2, a, root, FALSE), z>> : x \in Lines(e1, root, b), z \in Lines(e3, a, b)}

\* A feeder of two transformers with a bus between them, which a normally open tie
\* joins: root - SF - f, f - S1 - t1 - TB - b - TIE - t2 - S2 - f, and a meter on each.
Feeder == SF :> <<root, f>> @@ S1 :> <<f, t1>> @@ S2 :> <<f, t2>> @@ TB :> <<t1, b>>
          @@ TM :> <<t1, m2>> @@ TIE :> <<t2, b>> @@ UM :> <<t2, m3>> @@ BM :> <<b, m1>>
MCFrom == [e \in Edges |-> Feeder[e][1]]
MCTo == [e \in Edges |-> Feeder[e][2]]
MCLoad == [n \in Nodes |-> CASE n = m1 -> 2 [] n \in {m2, m3} -> 1 [] OTHER -> 0]
MCCustomers == [n \in Nodes |-> IF n \in {m1, m2, m3} THEN 1 ELSE 0]
MCResistance == [e \in Edges |-> IF e = TB THEN 3 ELSE 1]
MCAmpacity == [e \in Edges |-> IF e \in {S2, TIE} THEN 2 ELSE 4]
MCEdgeOrder == <<SF, S1, TB, BM, S2, TIE, TM, UM>>

\* Both metered places are behind the first transformer.
MCSectionOf == m1 :> t1 @@ m2 :> t1

N == INSTANCE NetworkModel WITH Root <- root, MaxVersion <- MaxModels
A == INSTANCE Analysis WITH Root <- root, From <- FromNode, To <- ToNode
O == INSTANCE OMS WITH Meters <- Metered

ASSUME GridAssumption == N!NetworkModelAssumption /\ A!AnalysisAssumption /\ O!OMSAssumption

network == <<flagged, newest, nodes, edges, job, lost, writes, failures>>
analysis == <<closed, dark, answer>>
outages == <<signal, case, report, sweep, changes, touches, alone>>

Init ==
    /\ part \in {"network", "analysis", "outages"}
    /\ N!Init /\ A!Init /\ O!Init
    /\ part # "analysis" => closed = NormallyClosed
    /\ part # "outages" => signal = [m \in Metered |-> "live"]

Network  == part = "network"  /\ N!Next /\ UNCHANGED <<part, analysis, outages>>
Analysis == part = "analysis" /\ A!Next /\ UNCHANGED <<part, network, outages>>
Outages  == part = "outages"  /\ O!Next /\ UNCHANGED <<part, network, analysis>>

Next == Network \/ Analysis \/ Outages

\* The fairness of OMS, for the behaviours in which it takes the steps.
Fairness ==
    /\ WF_outages(part = "outages" /\ O!DetectorCalls)
    /\ \A p \in Sweepers : WF_outages(part = "outages" /\ O!SweepStep(p))

Spec == Init /\ [][Next]_<<part, network, analysis, outages>> /\ Fairness

-----------------------------------------------------------------------------
(* The properties of the parts: each is stated in its module, and the type   *)
(* invariant of a part is checked with its first property.                   *)

\* However imports and publications overlap, the newest version is the current one
\* (publish_version).
NewestIsCurrent == part = "network" => N!NewestIsCurrent

\* The validation's "radial" is a forest, and an import orients lines away from the root
\* (validate_topology, orient_radial).
ModelIsRight == part = "network" => N!TypeOK /\ N!RadialIsForest /\ N!ImportLeadsDown

\* The switching that the contingency analysis and the reconfiguration propose feeds
\* what they say it feeds, without a loop (contingency.py, reconfiguration.py).
SwitchingHolds == part = "analysis" => A!TypeOK /\ A!ContingenciesHold /\ A!PlanIsBest

\* Outage inference and contingency analysis agree on what a device takes down
\* (outage_inference.py, outage_validation.py).
InferenceAgrees == part = "analysis" => A!InferenceAgrees

\* There is one open case for a section, unless sweeps met (oms.py:168).
OneCasePerSection == part = "outages" => O!TypeOK /\ O!OneCasePerSection

\* An outage that lasts and a call that names a place get a case, and a case whose
\* meters are all back is restored (_run_detection).
CasesFollowMeters == part = "outages" => O!OutageGetsCase /\ O!ReportGetsCase /\ O!BackMeansRestored
=============================================================================
