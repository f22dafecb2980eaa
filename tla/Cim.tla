--------------------------------- MODULE Cim ---------------------------------
(***************************************************************************)
(* The CIM service (services/cim): a read-only view of the platform's      *)
(* tables as CIM objects.  The tables grow through the topology API, the   *)
(* network loader and the ingestor; the service maps them, row by row, to  *)
(* objects with derived identities, and hands these out page by page.      *)
(*                                                                         *)
(* Rows of service points and edges are kept in the order of their keys.   *)
(***************************************************************************)
EXTENDS Naturals, Sequences, FiniteSets, SequencesExt

CONSTANTS
    Nodes,         \* grid_nodes
    Devices,       \* devices
    Types,         \* measurement types
    MaxRows,       \* bound: rows added
    None

CimAssumption ==
    /\ None \notin Nodes \cup Devices
    /\ "sp" \notin Nodes \cup {None}      \* the word that marks a service point as its own

VARIABLES
    points,        \* service_points, by service_point_id
    edges,         \* grid_edges, by edge_id
    telemetry      \* the keys of metadata.quality of each reading, newest first

cimVars == <<points, edges, telemetry>>

Rows == Len(points) + Len(edges) + Len(telemetry)

\* POST /topology/service-points; each for a customer of its own.
CreateServicePoint ==
    /\ Rows < MaxRows
    /\ \E node \in Nodes \cup {None}, meter \in Devices \cup {None} :
          points' = Append(points, [node |-> node, meter |-> meter])
    /\ UNCHANGED <<edges, telemetry>>

\* POST /topology/edges, or the loader.
CreateEdge ==
    /\ Rows < MaxRows
    /\ \E from, to \in Nodes : edges' = Append(edges, [from |-> from, to |-> to])
    /\ UNCHANGED <<points, telemetry>>

\* A reading is stored: an envelope's has keys, a flat payload's has none.
Persist ==
    /\ Rows < MaxRows
    /\ \E keys \in SUBSET Types : telemetry' = << keys >> \o telemetry
    /\ UNCHANGED <<points, edges>>

Init == points = << >> /\ edges = << >> /\ telemetry = << >>

Next == CreateServicePoint \/ CreateEdge \/ Persist

Spec == Init /\ [][Next]_cimVars

-----------------------------------------------------------------------------
(* The mapping.                                                            *)

\* values[offset : offset + limit]
Page(values, offset, limit) ==
    SubSeq(values, offset + 1, IF offset + limit < Len(values) THEN offset + limit ELSE Len(values))

\* usage_point_id: the meter when there is one, else the node, else "unknown".
usage_point_id(node, meter) == IF meter # None THEN meter ELSE node

\* A slip: service points with neither are one.
GroupKeyMerged(i) == <<points[i].node, points[i].meter>>

\* Service points at one node and meter are one usage point; one with neither is its own.
GroupKey(i) ==
    IF points[i].node = None /\ points[i].meter = None
    THEN <<"sp", i>>
    ELSE <<points[i].node, points[i].meter>>

\* A group, named after its first row, with the customers of all.
UsagePoint(i) ==
    [id |-> usage_point_id(points[i].node, points[i].meter),
     meter |-> points[i].meter,
     customers |-> {j \in DOMAIN points : GroupKey(j) = GroupKey(i)},
     synthesized |-> FALSE]

\* Devices of no service point get one each.
FallbackDevices == {d \in Devices : \A i \in DOMAIN points : points[i].meter # d}

Fallback(d) == [id |-> usage_point_id(None, d), meter |-> d, customers |-> {}, synthesized |-> TRUE]

\* The first rows of the groups.
Firsts == {i \in DOMAIN points : \A j \in 1 .. i - 1 : GroupKey(j) # GroupKey(i)}

\* Rows in the order of their keys.
InOrder(rows) ==
    CHOOSE list \in [1 .. Cardinality(rows) -> rows] : \A i, j \in DOMAIN list : i < j => list[i] < list[j]

list_usage_points ==
    LET first == InOrder(Firsts)
        rest == SetToSeq(FallbackDevices)
    IN [k \in DOMAIN first |-> UsagePoint(first[k])] \o [k \in DOMAIN rest |-> Fallback(rest[k])]

\* NOT EXISTS an edge from or to the node.
Leaves == {n \in Nodes : \A i \in DOMAIN edges : edges[i].from # n /\ edges[i].to # n}

\* Two terminals per edge, and one for a node of no edge.
list_terminals ==
    LET leaf == SetToSeq(Leaves)
        Edge(k) == (k + 1) \div 2
        End(k) == IF k % 2 = 1 THEN [of |-> Edge(k), number |-> 1, node |-> edges[Edge(k)].from]
                  ELSE [of |-> Edge(k), number |-> 2, node |-> edges[Edge(k)].to]
    IN [k \in 1 .. 2 * Len(edges) |-> End(k)]
       \o [k \in DOMAIN leaf |-> [of |-> leaf[k], number |-> 1, node |-> leaf[k]]]

\* SELECT DISTINCT of the keys, in their order.
list_measurements == SetToSeq(UNION ToSet(telemetry))

\* A value for each key of a reading's quality, not for each column of its row.
list_measurement_values ==
    FlattenSeq([r \in DOMAIN telemetry |->
                  LET keys == SetToSeq(telemetry[r])
                  IN [k \in DOMAIN keys |-> [reading |-> Len(telemetry) - r, type |-> keys[k]]]])

\* The pages of a list, asked for one after the other until one is empty.
Exported(list, limit) ==
    FlattenSeq([k \in 1 .. Len(list) + 1 |-> Page(list, (k - 1) * limit, limit)])

-----------------------------------------------------------------------------
(* Properties.                                                             *)

\* What is exported is the tables: a customer's service point is in one usage point,
\* with those of the same node and meter and no other; a device has a usage point of
\* its service points or a synthesized one, never both; a node has as many terminals
\* as ends of edges, or one; every value is of a
\* listed measurement; and the pages together are the list.
ExportIsTheTables ==
    /\ LET list == list_usage_points IN
       \A i \in DOMAIN points : \E k \in DOMAIN list :
          /\ {l \in DOMAIN list : i \in list[l].customers} = {k}
          /\ \A j \in list[k].customers :
                j # i => points[j] = points[i] /\ (points[i].node # None \/ points[i].meter # None)
    /\ \A d \in Devices :
          \E p \in ToSet(list_usage_points) :
             /\ p.meter = d
             /\ \A q \in ToSet(list_usage_points) : q.meter = d => q.synthesized = p.synthesized
    /\ \A n \in Nodes :
          LET list == list_terminals
              degree == Cardinality({i \in DOMAIN edges : edges[i].from = n})
                        + Cardinality({i \in DOMAIN edges : edges[i].to = n})
          IN Cardinality({k \in DOMAIN list : list[k].node = n}) = IF degree = 0 THEN 1 ELSE degree
    /\ ToSet(list_measurements) = {v.type : v \in ToSet(list_measurement_values)}
    /\ Exported(list_measurement_values, 2) = list_measurement_values
    /\ Exported(list_usage_points, 1) = list_usage_points
=============================================================================
