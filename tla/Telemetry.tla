----------------------------- MODULE Telemetry -----------------------------
(* The way of a reading: the edge runner of one device, its store-and-       *)
(* forward ring and MQTT link, the meter data management service (MDM), the  *)
(* ingestor with its bounded queue and worker threads, POST /telemetry, the  *)
(* telemetry table and the twin in Redis.                                    *)
(*                                                                           *)
(* A reading is known by the cycle that captured it. Its value is a finite   *)
(* number or not, which is all that the quality rules look at here.          *)
EXTENDS Integers, Sequences, FiniteSets

CONSTANTS
    Workers,        \* the ingestor's worker threads
    MaxCycles,      \* bound: cycles of the runner's loop
    NotFinite,      \* the cycles whose value is not a finite number
    RingSize,       \* maxlen of the runner's ring
    QueueMax,       \* size of the ingestor's queue
    SeenMax,        \* size of the caches of seen envelopes
    GapTolerance,   \* a gap is more than this many cycles
    Wirings,        \* what the device sends and where the ingestor listens
    Faults,         \* the kinds of fault that may happen
    MaxFaults,      \* bound: how many of them
    None

TelemetryAssumption ==
    /\ {MaxCycles, RingSize, QueueMax, SeenMax, GapTolerance} \subseteq Nat \ {0}
    /\ Wirings \subseteq [envelope : BOOLEAN, trusted : BOOLEAN]
    /\ MaxFaults \in Nat
    /\ Faults \subseteq {"link", "driver", "mdm", "ingestor", "post", "redis", "again"}

VARIABLES
    wiring,      \* chosen once: an envelope or a flat payload, raw or trusted topic
    cycle, seqno, ring, sending,    \* the runner; sending is the reading it publishes
    link, connected,                \* the connection, and what paho's callbacks say of it
    raw, inbox,                     \* messages on their way to MDM and to the ingestor
    mdm,                            \* MDM's memory
    queue, worker, seen,            \* the ingestor
    table, twin,                    \* rows of telemetry by cycle, and the Redis hash
    shed, faults

edge == <<cycle, seqno, ring, sending>>
net  == <<link, connected>>
ing  == <<queue, worker, seen, shed>>
store == <<table, twin>>
vars == <<wiring, edge, net, raw, inbox, mdm, ing, store, faults>>

Cycles == 1 .. MaxCycles
Message == [at : Cycles, seq : Nat, finite : BOOLEAN, quality : {"GOOD", "INVALID"}]
Row == [copies : Nat, quality : {"GOOD", "INVALID"}, finite : BOOLEAN]
NoRow == [copies |-> 0, quality |-> "GOOD", finite |-> TRUE]
Forgotten == [seen |-> <<>>, last |-> 0, accepted |-> {}, gaps |-> {}]

Init ==
    /\ wiring \in Wirings
    /\ cycle = 0 /\ seqno = 0 /\ ring = <<>> /\ sending = None
    /\ link = "up" /\ connected = TRUE
    /\ raw = <<>> /\ inbox = <<>> /\ mdm = Forgotten
    /\ queue = <<>> /\ worker = [w \in Workers |-> None] /\ seen = <<>>
    /\ table = [t \in Cycles |-> NoRow] /\ twin = None
    /\ shed = 0 /\ faults = 0

Fault(kind) == kind \in Faults /\ faults < MaxFaults /\ faults' = faults + 1

Newest(s, n) == IF Len(s) > n THEN Tail(s) ELSE s
Elements(s) == {s[i] : i \in DOMAIN s}
Key(m) == <<m.at, m.seq>>

-----------------------------------------------------------------------------
(* The runner. It looks at the flag once per reading: connected, it empties  *)
(* the ring and then sends the reading, all at QoS 0 and without a look at   *)
(* the result; otherwise it keeps the reading in the ring.                   *)

ReadTelemetry ==
    /\ sending = None /\ cycle < MaxCycles
    /\ LET m == [at |-> cycle + 1, seq |-> seqno, finite |-> cycle + 1 \notin NotFinite, quality |-> "GOOD"]
       IN IF connected
          THEN sending' = m /\ UNCHANGED ring
          ELSE ring' = Newest(Append(ring, m), RingSize) /\ UNCHANGED sending
    /\ cycle' = cycle + 1 /\ seqno' = seqno + 1
    /\ UNCHANGED <<wiring, net, raw, inbox, mdm, ing, store, faults>>

ReadFails ==
    /\ sending = None /\ cycle < MaxCycles
    /\ cycle' = cycle + 1
    /\ UNCHANGED <<wiring, seqno, ring, sending, net, raw, inbox, mdm, ing, store, faults>>

(* A QoS 0 publish without a connection is lost. Subscribers of the raw      *)
(* topic are MDM, and the ingestor when it listens there.                    *)
Publish(m) ==
    /\ raw'   = IF link = "up" /\ wiring.trusted THEN Append(raw, m) ELSE raw
    /\ inbox' = IF link = "up" /\ ~wiring.trusted THEN Append(inbox, m) ELSE inbox

Replay ==
    /\ sending # None /\ ring # <<>>
    /\ Publish(Head(ring))
    /\ ring' = Tail(ring)
    /\ UNCHANGED <<wiring, cycle, seqno, sending, net, mdm, ing, store, faults>>

\* A slip: the fresh reading does not wait for the ring to be empty.
SendFirst ==
    /\ sending # None
    /\ Publish(sending)
    /\ sending' = None
    /\ UNCHANGED <<wiring, cycle, seqno, ring, net, mdm, ing, store, faults>>

SendFresh ==
    /\ sending # None /\ ring = <<>>
    /\ Publish(sending)
    /\ sending' = None
    /\ UNCHANGED <<wiring, cycle, seqno, ring, net, mdm, ing, store, faults>>

LinkDrops ==
    /\ link = "up" /\ Fault("link")
    /\ link' = "down"
    /\ UNCHANGED <<wiring, edge, connected, raw, inbox, mdm, ing, store>>

OnDisconnect ==
    /\ link = "down" /\ connected
    /\ connected' = FALSE
    /\ UNCHANGED <<wiring, edge, link, raw, inbox, mdm, ing, store, faults>>

OnConnect ==
    /\ link = "down" /\ ~connected
    /\ link' = "up" /\ connected' = TRUE
    /\ UNCHANGED <<wiring, edge, raw, inbox, mdm, ing, store, faults>>

(* The ring and the sequence numbers live in the process.                    *)
RestartDriver ==
    /\ Fault("driver")
    /\ ring' = <<>> /\ sending' = None /\ seqno' = 0
    /\ link' = "down" /\ connected' = FALSE
    /\ UNCHANGED <<wiring, cycle, raw, inbox, mdm, ing, store>>

(* A broker, or a bridge between brokers, may deliver a message again.       *)
DeliverAgain ==
    /\ Fault("again")
    /\ \/ \E m \in Elements(raw) : raw' = Append(raw, m) /\ UNCHANGED inbox
       \/ \E m \in Elements(inbox) : inbox' = Append(inbox, m) /\ UNCHANGED raw
    /\ UNCHANGED <<wiring, edge, net, mdm, ing, store>>

-----------------------------------------------------------------------------
(* MDM: one thread. A flat payload is left to the ingestor. An envelope is   *)
(* noted as seen, its sequence and its gap are assessed, its quality is      *)
(* escalated from GOOD when the value is not a number, and it is published   *)
(* on the trusted topic.                                                     *)

Gap(m) == mdm.last # 0 /\ m.at - mdm.last > GapTolerance

Assess(m) == IF m.quality = "GOOD" /\ ~m.finite THEN [m EXCEPT !.quality = "INVALID"] ELSE m

Process(m) ==
    /\ mdm' = [seen |-> Newest(Append(mdm.seen, Key(m)), SeenMax),
               last |-> m.at,
               accepted |-> mdm.accepted \union {m.at},
               gaps |-> mdm.gaps \union (IF Gap(m) THEN {<<mdm.last, m.at>>} ELSE {})]
    /\ inbox' = Append(inbox, Assess(m))

\* A slip: what is no number is not passed on.
MdmGoodOnly ==
    /\ raw # <<>>
    /\ raw' = Tail(raw)
    /\ IF ~wiring.envelope \/ Key(Head(raw)) \in Elements(mdm.seen) \/ ~Head(raw).finite
       THEN UNCHANGED <<mdm, inbox>>
       ELSE Process(Head(raw))
    /\ UNCHANGED <<wiring, edge, net, ing, store, faults>>

MdmMessage ==
    /\ raw # <<>>
    /\ raw' = Tail(raw)
    /\ IF ~wiring.envelope \/ Key(Head(raw)) \in Elements(mdm.seen)
       THEN UNCHANGED <<mdm, inbox>>
       ELSE Process(Head(raw))
    /\ UNCHANGED <<wiring, edge, net, ing, store, faults>>

(* An exception of the enrichment's query ends the service, which starts     *)
(* again with an empty memory; what was sent meanwhile is gone.              *)
MdmDies ==
    /\ wiring.trusted /\ Fault("mdm")
    /\ raw' = <<>> /\ mdm' = Forgotten
    /\ UNCHANGED <<wiring, edge, net, inbox, ing, store>>

-----------------------------------------------------------------------------
(* The ingestor.                                                             *)

OnMessage ==
    /\ inbox # <<>> /\ Len(queue) < QueueMax
    /\ queue' = Append(queue, Head(inbox))
    /\ inbox' = Tail(inbox)
    /\ UNCHANGED <<wiring, edge, net, raw, mdm, worker, seen, shed, store, faults>>

Shed ==
    /\ inbox # <<>> /\ Len(queue) = QueueMax
    /\ inbox' = Tail(inbox) /\ shed' = shed + 1
    /\ UNCHANGED <<wiring, edge, net, raw, mdm, queue, worker, seen, store, faults>>

(* The value that is no number is withheld, the column keeps 0.0 and the     *)
(* row says so.                                                              *)
Body(m) == IF m.finite THEN m ELSE [m EXCEPT !.quality = "INVALID"]

(* Looking up and noting the key is one step, under the lock.                *)
HandleMessage(w) ==
    /\ worker[w] = None /\ queue # <<>>
    /\ queue' = Tail(queue)
    /\ LET m == Head(queue) IN
       IF wiring.envelope /\ Key(m) \in Elements(seen)
       THEN UNCHANGED <<worker, seen>>
       ELSE /\ worker' = [worker EXCEPT ![w] = [step |-> "post", msg |-> Body(m)]]
            /\ seen' = IF wiring.envelope THEN Newest(Append(seen, Key(m)), SeenMax) ELSE seen
    /\ UNCHANGED <<wiring, edge, net, raw, inbox, mdm, shed, store, faults>>

(* POST /telemetry: the row is committed, then the twin is written, with no  *)
(* look at what it holds. A failed POST is counted and not tried again.      *)
Insert(w) ==
    /\ worker[w] # None /\ worker[w].step = "post"
    /\ LET m == worker[w].msg IN
       table' = [table EXCEPT ![m.at] = [copies |-> @.copies + 1, quality |-> m.quality, finite |-> m.finite]]
    /\ worker' = [worker EXCEPT ![w].step = "mirror"]
    /\ UNCHANGED <<wiring, edge, net, raw, inbox, mdm, queue, seen, shed, twin, faults>>

PostFails(w) ==
    /\ worker[w] # None /\ worker[w].step = "post"
    /\ Fault("post")
    /\ worker' = [worker EXCEPT ![w] = None]
    /\ UNCHANGED <<wiring, edge, net, raw, inbox, mdm, queue, seen, shed, store>>

PersistState(w) ==
    /\ worker[w] # None /\ worker[w].step = "mirror"
    /\ twin' = worker[w].msg
    /\ worker' = [worker EXCEPT ![w] = None]
    /\ UNCHANGED <<wiring, edge, net, raw, inbox, mdm, queue, seen, shed, table, faults>>

(* Redis is away: a RedisError is swallowed, anything else becomes a 422;    *)
(* either way the row stays and the ingestor does not send it again.         *)
MirrorFails(w) ==
    /\ worker[w] # None /\ worker[w].step = "mirror"
    /\ Fault("redis")
    /\ worker' = [worker EXCEPT ![w] = None]
    /\ UNCHANGED <<wiring, edge, net, raw, inbox, mdm, queue, seen, shed, store>>

(* A request that reached the API goes on without the ingestor.              *)
IngestorDies ==
    /\ Fault("ingestor")
    /\ queue' = <<>> /\ seen' = <<>> /\ inbox' = <<>>
    /\ worker' = [w \in Workers |-> IF worker[w] # None /\ worker[w].step = "mirror" THEN worker[w] ELSE None]
    /\ UNCHANGED <<wiring, edge, net, raw, mdm, shed, store>>

-----------------------------------------------------------------------------
Edge == ReadTelemetry \/ ReadFails \/ Replay \/ SendFresh
Paho == OnDisconnect \/ OnConnect
Work(w) == HandleMessage(w) \/ Insert(w) \/ PersistState(w)
Failure == \/ LinkDrops \/ RestartDriver \/ DeliverAgain \/ MdmDies \/ IngestorDies
           \/ \E w \in Workers : PostFails(w) \/ MirrorFails(w)

Next == Edge \/ Paho \/ MdmMessage \/ OnMessage \/ Shed \/ (\E w \in Workers : Work(w)) \/ Failure

(* Every loop goes on: the runner's, paho's and MDM's network loops, and     *)
(* each worker thread.                                                       *)
Fairness ==
    /\ WF_vars(Replay \/ SendFresh)
    /\ WF_vars(Paho)
    /\ WF_vars(MdmMessage)
    /\ WF_vars(OnMessage \/ Shed)
    /\ \A w \in Workers : WF_vars(Work(w))

Spec == Init /\ [][Next]_vars /\ Fairness

-----------------------------------------------------------------------------
(* The state keeps its types, the bounded ones their bounds.                 *)
TypeOK ==
    /\ wiring \in Wirings
    /\ cycle \in 0 .. MaxCycles /\ seqno \in 0 .. MaxCycles
    /\ Elements(ring) \subseteq Message /\ Len(ring) <= RingSize
    /\ sending \in Message \union {None}
    /\ link \in {"up", "down"} /\ connected \in BOOLEAN
    /\ Elements(raw) \union Elements(inbox) \union Elements(queue) \subseteq Message
    /\ Len(queue) <= QueueMax /\ Len(seen) <= SeenMax /\ Len(mdm.seen) <= SeenMax
    /\ mdm.last \in 0 .. MaxCycles /\ mdm.accepted \subseteq Cycles
    /\ worker \in [Workers -> [step : {"post", "mirror"}, msg : Message] \union {None}]
    /\ table \in [Cycles -> Row] /\ twin \in Message \union {None}
    /\ shed \in Nat /\ faults \in 0 .. MaxFaults

(* The gaps that MDM reports are exactly the holes in the set of readings it *)
(* accepted since it started. gaps.py compares each envelope with the one    *)
(* before it; this holds because the runner empties its ring before it sends *)
(* a fresh reading, through outages, and because a message that is delivered *)
(* again is dropped before gaps.check.                                       *)
GapsAreExact ==
    mdm.gaps = {g \in mdm.accepted \X mdm.accepted :
                  /\ g[2] - g[1] > GapTolerance
                  /\ \A c \in mdm.accepted : ~(g[1] < c /\ c < g[2])}

(* An envelope is stored at most once, whatever is delivered again and       *)
(* whichever process restarts: workers look up and note its key in one step. *)
(* The twin never shows a reading that is not in the table, and a value that *)
(* was withheld is never stored as GOOD.                                     *)
StoredOnce ==
    /\ wiring.envelope => \A t \in Cycles : table[t].copies <= 1
    /\ twin # None => table[twin.at].copies > 0
    /\ \A t \in Cycles : table[t].finite \/ table[t].quality = "INVALID"

(* When nothing fails and nothing is shed, a reading that was taken is       *)
(* stored in the end: "legacy flat payload - ... ingestor handles it"        *)
(* (mqtt_io.py), and envelopes go through MDM.                               *)
ReadingsArrive ==
    [](faults = 0 /\ shed = 0) =>
        \A t \in Cycles : (sending # None /\ sending.at = t) ~> (table[t].copies > 0)
=============================================================================
