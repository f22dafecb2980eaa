---------------------------- MODULE NetworkModel ----------------------------
(* The network model's writers: the API that publishes a version in two      *)
(* statements and edits nodes and edges one by one, and the importer, which  *)
(* orients the lines of a file away from a root, publishes a version and     *)
(* upserts nodes and edges, a transaction each. What readers make of it is   *)
(* here too: the walk downstream, and the validation of the topology.        *)
EXTENDS Integers, Sequences, FiniteSetsExt, SequencesExt

CONSTANTS
    NodeIds, EdgeIds,
    Root,           \* the node given as --root; the substation
    Files,          \* the files to import: sequences of lines [id, ends, open]
    Jobs,           \* publications under way at once
    MaxVersion,     \* bound: versions published
    MaxWrites,      \* bound: edits of nodes and edges
    MaxFailures,    \* bound: statements that fail, processes that die
    None

NetworkModelAssumption ==
    /\ Root \in NodeIds /\ IsFiniteSet(NodeIds) /\ IsFiniteSet(EdgeIds)
    /\ Files \subseteq Seq([id : EdgeIds, a : NodeIds, b : NodeIds, open : BOOLEAN])
    /\ MaxVersion \in Nat \ {0} /\ {MaxWrites, MaxFailures} \subseteq Nat
    /\ None \notin NodeIds \union Nat
    /\ None \notin [parent : NodeIds \union {None}, version : Nat \union {None}]

VARIABLES
    flagged,        \* versions whose is_current is TRUE
    newest,         \* the highest version
    nodes,          \* grid_nodes: parent_id and model_version, or None
    edges,          \* grid_edges, or None
    job,            \* what each publication is about to do
    lost,           \* history: the last publication to begin a change failed
    writes, failures

networkVars == <<flagged, newest, nodes, edges, job, lost, writes, failures>>

Versions == 1 .. MaxVersion
Resting == [at |-> "idle", version |-> None, seen |-> {}, parent |-> <<>>, lines |-> <<>>]

Init ==
    /\ flagged = {1} /\ newest = 1
    /\ nodes = [n \in NodeIds |-> IF n = Root THEN [parent |-> None, version |-> 1] ELSE None]
    /\ edges = [e \in EdgeIds |-> None]
    /\ job = [j \in Jobs |-> Resting]
    /\ lost = FALSE /\ writes = 0 /\ failures = 0

NodeRows == {n \in NodeIds : nodes[n] # None}
EdgeRows == {e \in EdgeIds : edges[e] # None}
\* The version that is stamped on a row that is written now.
Current == IF flagged = {} THEN None ELSE Max(flagged)

-----------------------------------------------------------------------------
(* What readers compute: all edges, or the closed ones.                      *)

Closed(es) == {e \in es : edges[e].closed}
Pairs(es) == {<<edges[e].from, edges[e].to>> : e \in es}
BothWays(pairs) == pairs \union {<<p[2], p[1]>> : p \in pairs}

\* The nodes that a walk along pairs finds from a node.
Walk(pairs, start) ==
    LET within[n \in Nat] ==
          IF n = 0 THEN {start}
          ELSE within[n - 1] \union {p[2] : p \in {q \in pairs : q[1] \in within[n - 1]}}
    IN within[Cardinality(NodeIds)]

Components(pairs) == {Walk(pairs, n) : n \in NodeRows}

\* |E| - |N| + components, over a map from each node to the set of its neighbours.
Loops(es) ==
    LET pairs == BothWays(Pairs(es))
    IN Cardinality(pairs) \div 2 - Cardinality(NodeRows) + Cardinality(Components(pairs))

MultiFed(es) == {n \in NodeRows : Cardinality({e \in es : edges[e].to = n}) > 1}

Radial == Loops(Closed(EdgeRows)) = 0 /\ MultiFed(Closed(EdgeRows)) = {}

-----------------------------------------------------------------------------
(* orient_radial: a search from the root, last found first, over all lines   *)
(* of the file, the open ones too. A line leads from the end found first to  *)
(* the other; a node's parent is the node it was found from.                 *)

FileNodes(file) == {Root} \union UNION {{file[i].a, file[i].b} : i \in DOMAIN file}

\* A slip: the open lines are left out.
OtherEndClosed(l, n) == IF l.open THEN n ELSE IF l.a = n THEN l.b ELSE IF l.b = n THEN l.a ELSE n

\* Where a line leads from a node; nowhere else if it does not end there.
OtherEnd(l, n) == IF l.a = n THEN l.b ELSE IF l.b = n THEN l.a ELSE n

\* The node found last is taken, and what its lines are first to lead to is found.
Discover(file, s) ==
    IF s.stack = <<>> THEN s
    ELSE LET cur == Last(s.stack)
             found[i \in Nat] ==
                 IF i = 0 THEN <<>>
                 ELSE LET n == OtherEnd(file[i], cur)
                      IN IF n \in ToSet(s.order \o found[i - 1]) THEN found[i - 1] ELSE Append(found[i - 1], n)
             new == found[Len(file)]
         IN [order |-> s.order \o new, stack |-> Front(s.stack) \o new,
             parent |-> [n \in DOMAIN s.parent \union ToSet(new) |-> IF n \in ToSet(new) THEN cur ELSE s.parent[n]]]

\* Every node is found once and taken once.
Search(file) ==
    LET after[n \in Nat] == IF n = 0 THEN [order |-> <<Root>>, stack |-> <<Root>>, parent |-> <<>>]
                            ELSE Discover(file, after[n - 1])
    IN after[Cardinality(FileNodes(file))]

OrientRadial(file) ==
    LET order == Search(file).order
        Found(n) == CHOOSE i \in DOMAIN order : order[i] = n
        Backwards(l) == {l.a, l.b} \subseteq ToSet(order) /\ Found(l.a) > Found(l.b)
    IN [i \in DOMAIN file |-> IF Backwards(file[i]) THEN [file[i] EXCEPT !.a = file[i].b, !.b = file[i].a] ELSE file[i]]

-----------------------------------------------------------------------------
(* Publications. The API clears the flags and inserts the new version in two *)
(* transactions, the importer in one; in both the UPDATE clears what it sees *)
(* when it begins. A statement that fails, or a death, ends a publication    *)
(* where it is.                                                              *)

Steps(j, at) == job[j].at = at
NewVersion == newest < MaxVersion /\ newest' = newest + 1
Publishing == Cardinality({k \in Jobs : job[k].at \in {"insert", "commit"}})

ApiClear(j) ==
    /\ Steps(j, "idle") /\ newest + Publishing < MaxVersion
    /\ flagged' = {}
    /\ job' = [job EXCEPT ![j].at = "insert"]
    /\ UNCHANGED <<newest, nodes, edges, lost, writes, failures>>

\* A slip: the new row is left to the column's default, which is FALSE.
ApiInsertPlain(j) ==
    /\ Steps(j, "insert") /\ NewVersion
    /\ job' = [job EXCEPT ![j] = Resting] /\ lost' = FALSE
    /\ UNCHANGED <<flagged, nodes, edges, writes, failures>>

ApiInsert(j) ==
    /\ Steps(j, "insert") /\ NewVersion
    /\ flagged' = flagged \union {newest'}
    /\ job' = [job EXCEPT ![j] = Resting] /\ lost' = FALSE
    /\ UNCHANGED <<nodes, edges, writes, failures>>

LoaderBegin(j) ==
    /\ Steps(j, "idle") /\ newest + Publishing < MaxVersion
    /\ \E file \in Files :
          job' = [job EXCEPT ![j] = [Resting EXCEPT !.at = "commit", !.seen = flagged,
                                                    !.parent = Search(file).parent, !.lines = OrientRadial(file)]]
    /\ UNCHANGED <<flagged, newest, nodes, edges, lost, writes, failures>>

LoaderPublish(j) ==
    /\ Steps(j, "commit") /\ NewVersion
    /\ flagged' = (flagged \ job[j].seen) \union {newest'}
    /\ job' = [job EXCEPT ![j].at = "nodes", ![j].seen = {}, ![j].version = newest'] /\ lost' = FALSE
    /\ UNCHANGED <<nodes, edges, writes, failures>>

\* parent_id is written where the search gave one, and kept elsewhere.
UpsertNodes(j) ==
    /\ Steps(j, "nodes")
    /\ LET q == job[j] IN
       nodes' = [n \in NodeIds |->
           IF n \notin FileNodes(q.lines) THEN nodes[n]
           ELSE [parent |-> IF n \in DOMAIN q.parent THEN q.parent[n] ELSE IF nodes[n] = None THEN None ELSE nodes[n].parent,
                 version |-> q.version]]
    /\ job' = [job EXCEPT ![j].at = "edges"]
    /\ UNCHANGED <<flagged, newest, edges, lost, writes, failures>>

\* The lines replace the edges of their names, the live state of a switch
\* included. A node deleted since then makes the transaction fail.
UpsertEdges(j) ==
    /\ Steps(j, "edges")
    /\ LET q == job[j]
           lines == ToSet(q.lines)
       IN IF \A l \in lines : {l.a, l.b} \subseteq NodeRows
          THEN edges' = [e \in EdgeIds |->
                   IF \E l \in lines : l.id = e
                   THEN LET l == CHOOSE x \in lines : x.id = e
                        IN [from |-> l.a, to |-> l.b, closed |-> ~l.open, version |-> q.version]
                   ELSE edges[e]]
          ELSE edges' = edges
    /\ job' = [job EXCEPT ![j] = Resting]
    /\ UNCHANGED <<flagged, newest, nodes, lost, writes, failures>>

Fails(j) ==
    /\ ~Steps(j, "idle") /\ failures < MaxFailures /\ failures' = failures + 1
    /\ lost' = (lost \/ Steps(j, "insert"))
    /\ job' = [job EXCEPT ![j] = Resting]
    /\ UNCHANGED <<flagged, newest, nodes, edges, writes>>

-----------------------------------------------------------------------------
(* Edits. The database refuses a reference to a row that is not there, and   *)
(* the deletion of a row that is referenced.                                 *)

Write == writes < MaxWrites /\ writes' = writes + 1

CreateNode(n) ==
    /\ Write /\ nodes[n] = None
    /\ \E p \in NodeRows \union {None} : nodes' = [nodes EXCEPT ![n] = [parent |-> p, version |-> Current]]
    /\ UNCHANGED <<flagged, newest, edges, job, lost, failures>>

UpdateNode(n) ==
    /\ Write /\ n \in NodeRows
    /\ \E p \in NodeRows \union {None} : nodes' = [nodes EXCEPT ![n].parent = p]
    /\ UNCHANGED <<flagged, newest, edges, job, lost, failures>>

DeleteNode(n) ==
    /\ Write /\ n \in NodeRows
    /\ \A m \in NodeRows \ {n} : nodes[m].parent # n
    /\ \A e \in EdgeRows : n \notin {edges[e].from, edges[e].to}
    /\ nodes' = [nodes EXCEPT ![n] = None]
    /\ UNCHANGED <<flagged, newest, edges, job, lost, failures>>

CreateEdge(e) ==
    /\ Write /\ edges[e] = None
    /\ \E a, b \in NodeRows, closed \in BOOLEAN :
          edges' = [edges EXCEPT ![e] = [from |-> a, to |-> b, closed |-> closed, version |-> Current]]
    /\ UNCHANGED <<flagged, newest, nodes, job, lost, failures>>

DeleteEdge(e) ==
    /\ Write /\ e \in EdgeRows
    /\ edges' = [edges EXCEPT ![e] = None]
    /\ UNCHANGED <<flagged, newest, nodes, job, lost, failures>>

SetSwitch(e, close) ==
    /\ Write /\ e \in EdgeRows
    /\ edges' = [edges EXCEPT ![e].closed = close]
    /\ UNCHANGED <<flagged, newest, nodes, job, lost, failures>>

Next ==
    \/ \E j \in Jobs : \/ ApiClear(j) \/ ApiInsert(j) \/ Fails(j)
                       \/ LoaderBegin(j) \/ LoaderPublish(j) \/ UpsertNodes(j) \/ UpsertEdges(j)
    \/ \E n \in NodeIds : CreateNode(n) \/ UpdateNode(n) \/ DeleteNode(n)
    \/ \E e \in EdgeIds : CreateEdge(e) \/ DeleteEdge(e) \/ \E close \in BOOLEAN : SetSwitch(e, close)

Spec == Init /\ [][Next]_networkVars

-----------------------------------------------------------------------------
(* Types: of the rows, and that what they refer to is there.                 *)
TypeOK ==
    /\ flagged \subseteq Versions /\ newest \in Versions /\ flagged \subseteq 1 .. newest
    /\ \A n \in NodeRows : nodes[n].parent \in NodeRows \union {None} /\ nodes[n].version \in Versions \union {None}
    /\ \A e \in EdgeRows : {edges[e].from, edges[e].to} \subseteq NodeRows /\ edges[e].version \in Versions \union {None}

(* Whatever publications overlap: when none is about to insert its version,  *)
(* and the last one to do so did not fail between its statements, the newest *)
(* version is flagged current, and is the one that rows are stamped with;    *)
(* older flags may be left over (publish_version, loader.publish_version).   *)
NewestIsCurrent ==
    (~lost /\ \A j \in Jobs : ~Steps(j, "insert")) => newest \in flagged /\ Current = newest

\* Two edges between the same nodes, or one from a node to itself.
Simple(es) ==
    /\ \A e \in es : edges[e].from # edges[e].to
    /\ \A e, f \in es : e # f => {edges[e].from, edges[e].to} # {edges[f].from, edges[f].to}

(* The validation calls the network radial exactly when it is operated as a  *)
(* forest: no closed edge joins nodes that are joined without it, and no     *)
(* node has two closed feeds. Parallel edges and edges from a node to itself *)
(* are outside the claim: the code counts neighbours (validate_topology).    *)
RadialIsForest ==
    LET es == Closed(EdgeRows)
        joined(e) == edges[e].to \in Walk(BothWays(Pairs(es \ {e})), edges[e].from)
    IN Simple(es) => (Radial <=> (~ \E e \in es : joined(e)) /\ MultiFed(es) = {})

LinePairs(lines) == {<<lines[i].a, lines[i].b>> : i \in DOMAIN lines}

(* Along the lines as they are imported, the walk downstream from the root   *)
(* finds every node that the file joins to the root, and each node's parent  *)
(* is one step up such a line (orient_radial).                               *)
ImportLeadsDown ==
    \A j \in Jobs : LET q == job[j] IN
       q.lines # <<>> =>
          /\ Walk(LinePairs(q.lines), Root) = Walk(BothWays(LinePairs(q.lines)), Root)
          /\ \A n \in DOMAIN q.parent : <<q.parent[n], n>> \in LinePairs(q.lines)
=============================================================================
