-------------------------------- MODULE OpcUa --------------------------------
(* The OPC UA connector's worker for one server: connect, read the namespace *)
(* array, recover every monitored item from the configuration, and watch by  *)
(* renewing the session. The items are configured by namespace URI; the      *)
(* server may number its namespaces anew when it restarts, so that the node  *)
(* id of one item becomes that of another.                                   *)
EXTENDS Integers, Sequences, SequencesExt, FiniteSets

CONSTANTS
    Items,          \* the subscriptions of the mapping, in their order
    MaxFaults,      \* bound: restarts, sessions lost, calls that fail
    None

VARIABLES
    numbering,      \* the server's namespace indices
    sessions,       \* sessions the server holds, with the items created in each
    pc,             \* the worker: connect, namespaces, create, note, watch
    client,         \* its session, or None
    connected,      \* connection.connected
    indices,        \* namespace_index_by_uri, or None before it was ever read
    fresh,          \* history: it was read in this session
    left,           \* items that are still to be subscribed
    monitored,      \* _monitored_items: the item noted for each node id
    faults

opcuaVars == <<numbering, sessions, pc, client, connected, indices, fresh, left, monitored, faults>>

ItemSet == ToSet(Items)
Indices == 1 .. Len(Items)
Numberings == {f \in [ItemSet -> Indices] : IsInjective(f)}
SessionIds == 1 .. MaxFaults + 2      \* enough for those that are left behind
InOrder == [x \in ItemSet |-> CHOOSE i \in Indices : Items[i] = x]

\* There is something to subscribe to, and nothing that is recorded is called None.
OpcUaAssumption ==
    /\ Items \in Seq(ItemSet) /\ Items # << >> /\ InOrder \in Numberings
    /\ MaxFaults \in Nat
    /\ None \notin ItemSet /\ None \notin SessionIds
    /\ None \notin Numberings /\ \A held \in SUBSET Indices : held # None

Init ==
    /\ numbering \in Numberings
    /\ sessions = [s \in SessionIds |-> None]
    /\ pc = "connect" /\ client = None /\ connected = FALSE
    /\ indices = None /\ fresh = FALSE /\ left = <<>>
    /\ monitored = [i \in Indices |-> None] /\ faults = 0

Fault == faults < MaxFaults /\ faults' = faults + 1
Alive(s) == s # None /\ sessions[s] # None
Variable(i) == CHOOSE x \in ItemSet : numbering[x] = i

-----------------------------------------------------------------------------
(* The server.                                                               *)

Restart ==
    /\ Fault
    /\ numbering' \in Numberings
    /\ sessions' = [s \in SessionIds |-> None]
    /\ UNCHANGED <<pc, client, connected, indices, fresh, left, monitored>>

SessionLost(s) ==
    /\ Fault /\ Alive(s)
    /\ sessions' = [sessions EXCEPT ![s] = None]
    /\ UNCHANGED <<numbering, pc, client, connected, indices, fresh, left, monitored>>

-----------------------------------------------------------------------------
(* The worker.                                                               *)

Connect ==
    /\ pc = "connect"
    /\ \E s \in SessionIds :
          /\ sessions[s] = None /\ \A r \in SessionIds : r < s => sessions[r] # None
          /\ sessions' = [sessions EXCEPT ![s] = {}]
          /\ client' = s
    /\ connected' = TRUE /\ pc' = "namespaces"
    /\ UNCHANGED <<numbering, indices, fresh, left, monitored, faults>>

\* A slip: an array that is known already is not read again.
ReadOnce(ok) ==
    /\ pc = "namespaces"
    /\ IF ok THEN Alive(client) /\ faults' = faults ELSE IF Alive(client) THEN Fault ELSE faults' = faults
    /\ indices' = IF ok /\ indices = None THEN numbering ELSE indices
    /\ fresh' = ok
    /\ pc' = "create" /\ left' = Items
    /\ monitored' = [i \in Indices |-> None]
    /\ UNCHANGED <<numbering, sessions, client, connected>>

\* The array of the session before stays when it cannot be read.
ResolveNamespaces(ok) ==
    /\ pc = "namespaces"
    /\ IF ok THEN Alive(client) /\ faults' = faults ELSE IF Alive(client) THEN Fault ELSE faults' = faults
    /\ indices' = IF ok THEN numbering ELSE indices
    /\ fresh' = ok
    /\ pc' = "create" /\ left' = Items
    /\ monitored' = [i \in Indices |-> None]
    /\ UNCHANGED <<numbering, sessions, client, connected>>

\* The server creates the monitored item, and may notify at once.
CreateItem ==
    /\ pc = "create" /\ Alive(client) /\ indices # None
    /\ sessions' = [sessions EXCEPT ![client] = @ \union {indices[Head(left)]}]
    /\ pc' = "note"
    /\ UNCHANGED <<numbering, client, connected, indices, fresh, left, monitored, faults>>

NoteHandle ==
    /\ pc = "note"
    /\ monitored' = [monitored EXCEPT ![indices[Head(left)]] = Head(left)]
    /\ left' = Tail(left)
    /\ pc' = IF Len(left) = 1 THEN "watch" ELSE "create"
    /\ UNCHANGED <<numbering, sessions, client, connected, indices, fresh, faults>>

\* A URI that is not known, a dead session or a failing call: disconnect.
SubscribeFails ==
    /\ pc = "create"
    /\ IF indices = None \/ ~Alive(client) THEN faults' = faults ELSE Fault
    /\ sessions' = IF Alive(client) THEN [sessions EXCEPT ![client] = None] ELSE sessions
    /\ client' = None /\ connected' = FALSE /\ pc' = "connect"
    /\ UNCHANGED <<numbering, indices, fresh, left, monitored>>

\* A slip: the loop ends, and nobody hears of it.
RenewQuietly ==
    /\ pc = "watch" /\ connected
    /\ IF Alive(client) THEN Fault ELSE faults' = faults
    /\ UNCHANGED <<numbering, sessions, pc, client, connected, indices, fresh, left, monitored>>

\* The renewal fails: in a dead session, or in one that is merely slow.
RenewFails ==
    /\ pc = "watch" /\ connected
    /\ IF Alive(client) THEN Fault ELSE faults' = faults
    /\ connected' = FALSE
    /\ UNCHANGED <<numbering, sessions, pc, client, indices, fresh, left, monitored>>

\* The worker reconnects; it does not close the session it had.
ConnectionLost ==
    /\ pc = "watch" /\ ~connected
    /\ pc' = "connect"
    /\ UNCHANGED <<numbering, sessions, client, connected, indices, fresh, left, monitored, faults>>

Worker ==
    \/ Connect \/ CreateItem \/ NoteHandle \/ SubscribeFails \/ RenewFails \/ ConnectionLost
    \/ \E ok \in BOOLEAN : ResolveNamespaces(ok)

Next == Worker \/ Restart \/ \E s \in SessionIds : SessionLost(s)

(* The event loop runs the worker, and a dead session fails the next call in *)
(* it, the renewal at the latest; a fault is never fair.                     *)
Fairness == WF_opcuaVars(Worker /\ UNCHANGED faults)
Spec == Init /\ [][Next]_opcuaVars /\ Fairness

-----------------------------------------------------------------------------
(* Types: of the sessions and of what the worker holds.                      *)
TypeOK ==
    /\ numbering \in Numberings /\ indices \in Numberings \union {None}
    /\ \A s \in SessionIds : sessions[s] = None \/ sessions[s] \subseteq Indices
    /\ pc \in {"connect", "namespaces", "create", "note", "watch"}
    /\ client \in SessionIds \union {None} /\ connected \in BOOLEAN /\ fresh \in BOOLEAN
    /\ \A i \in Indices : monitored[i] \in ItemSet \union {None}

(* What the server may notify about, in the session of the worker or in one  *)
(* it left behind, is named after the item it belongs to, or by its bare     *)
(* node id while the handle is not noted yet; provided the namespace array   *)
(* could be read in this session (_on_datachange, recover_monitored_items).  *)
RightlyNamed ==
    fresh => \A s \in SessionIds : sessions[s] # None =>
                \A i \in sessions[s] : monitored[i] \in {None, Variable(i)}

(* Once the server and the network stay up, the worker comes to rest in a    *)
(* session that lives and holds every item (run, reconnect_with_backoff,     *)
(* start_session_renewal_loop).                                              *)
Resubscribes ==
    <>[](pc = "watch" /\ connected /\ Alive(client) /\ \A x \in ItemSet : indices[x] \in sessions[client])
=============================================================================
