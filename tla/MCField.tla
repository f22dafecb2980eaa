------------------------------- MODULE MCField -------------------------------
(* Model values and bounds for the parts that face the field: telemetry, the *)
(* path of one command, the OCPP central system, the OPC UA connector, DERMS *)
(* with the battery, and the IEC 104, DLMS and Modbus drivers.  They share   *)
(* no state. One run checks them all: part is chosen once and only that part *)
(* takes steps; the state of the others stays as it began.                   *)
EXTENDS Integers, Sequences, FiniteSets, TLC

CONSTANTS Workers, MaxCycles, NotFinite, RingSize, QueueMax, SeenMax, GapTolerance, Wirings, Faults,
          Orders, StartLevels, Targets, ChargerCommands, ChargerKinds, Items, IecStarts, Setpoints, Objects, Rated, TcpStarts,
          c1, c2, c3, None, MaxFaults, MaxSockets, MaxMoves, MaxMishaps,
          PathFaults, MaxQueue, MaxCommands, MaxReadings, MaxPolls, MaxOrders, MaxSpells

VARIABLES part,
    wiring, cycle, seqno, ring, sending, link, connected, raw, inbox, mdm, queue, worker, seen,
    table, twin, shed, faults,
    thread, socket, toServer, toCharger, charging, open, point, counter, awaited, result, answer, done, full,
    numbering, sessions, pc, client, sessionUp, indices, fresh, left, monitored, uaFaults,
    online, soc, registers, cached, order, row, step, commanded, writing, ack, moves, mishaps,
    status, mirror, shadow, issue, got, log, lingering, position, committed, cmds, acks, posts, acking,
    executed, been, pathFaults,
    session, toRtu, toDriver, ns, nr, rtuNs, rtuNr, breaker, setpoint, seenBreaker, seenSetpoint, actcon,
    waiting, results, spells,
    interface, state, toMeter, fromMeter, invoke, sequence, gotten, published, tried, meterSpells,
    device, points, readOnly, tcp, holder, sent, toDevice, toClient, todo, asked, outcome, reading,
    polls, orders, tcpSpells

\* A raw topic for the ingestor, or MDM between them; an old device that sends flat payloads.
MCWirings == {[envelope |-> TRUE, trusted |-> FALSE], [envelope |-> TRUE, trusted |-> TRUE],
              [envelope |-> FALSE, trusted |-> FALSE]}
MCKinds == c1 :> "start_charging" @@ c2 :> "stop_charging" @@ c3 :> "set_limit"
MCItems == <<"soc", "power">>
MCObjects == <<"voltage", "current">>

T == INSTANCE Telemetry
P == INSTANCE ChargePoints WITH Commands <- ChargerCommands, KindOf <- ChargerKinds, MaxFull <- 1
U == INSTANCE OpcUa WITH connected <- sessionUp, faults <- uaFaults
D == INSTANCE Derms WITH twin <- cached
X == INSTANCE CommandPath WITH Commands <- {c1}, MaxFaults <- PathFaults, row <- status, twin <- shadow,
       next <- position, faults <- pathFaults
I == INSTANCE Iec104 WITH Starts <- IecStarts, link <- session
L == INSTANCE Dlms WITH toClient <- fromMeter, ns <- sequence, got <- gotten, spells <- meterSpells
M == INSTANCE Modbus WITH Starts <- TcpStarts, registers <- points, link <- tcp, order <- asked,
       spells <- tcpSpells

ASSUME FieldAssumption ==
    /\ T!TelemetryAssumption /\ P!ChargeAssumption /\ U!OpcUaAssumption /\ D!DermsAssumption
    /\ I!IecAssumption /\ L!DlmsAssumption /\ M!ModbusAssumption

telemetry == <<wiring, cycle, seqno, ring, sending, link, connected, raw, inbox, mdm, queue, worker, seen,
               table, twin, shed, faults>>
charging_ == <<thread, socket, toServer, toCharger, charging, open, point, counter, awaited, result, answer, done, full>>
opcua == <<numbering, sessions, pc, client, sessionUp, indices, fresh, left, monitored, uaFaults>>
derms == <<online, soc, registers, cached, order, row, step, commanded, writing, ack, moves, mishaps>>
path == <<status, mirror, shadow, issue, got, log, lingering, position, committed, cmds, acks, posts, acking,
          executed, been, pathFaults>>
iec104 == <<session, toRtu, toDriver, ns, nr, rtuNs, rtuNr, breaker, setpoint, seenBreaker, seenSetpoint,
            actcon, waiting, results, spells>>
dlms == <<interface, state, toMeter, fromMeter, invoke, sequence, gotten, published, tried, meterSpells>>
modbus == <<device, points, readOnly, tcp, holder, sent, toDevice, toClient, todo, asked, outcome, reading,
            polls, orders, tcpSpells>>

Init ==
    /\ part \in {"telemetry", "charging", "opcua", "derms", "path", "iec104", "dlms", "modbus"}
    /\ T!Init /\ P!Init /\ U!Init /\ D!Init /\ X!Init /\ I!Init /\ L!Init /\ M!Init
    /\ part # "telemetry" => wiring = [envelope |-> TRUE, trusted |-> TRUE]
    /\ part # "opcua" => numbering = U!InOrder
    /\ part # "derms" => cached = None /\ soc = 3
    /\ part # "iec104" => ns = 126 /\ rtuNs = 126
    /\ part # "dlms" => interface = "tcp"
    /\ part # "modbus" => device = "meter"

Telemetry == part = "telemetry" /\ T!Next
    /\ UNCHANGED <<part, charging_, opcua, derms, path, iec104, dlms, modbus>>
Charging == part = "charging" /\ P!Next
    /\ UNCHANGED <<part, telemetry, opcua, derms, path, iec104, dlms, modbus>>
OpcUa == part = "opcua" /\ U!Next
    /\ UNCHANGED <<part, telemetry, charging_, derms, path, iec104, dlms, modbus>>
Derms == part = "derms" /\ D!Next
    /\ UNCHANGED <<part, telemetry, charging_, opcua, path, iec104, dlms, modbus>>
Path == part = "path" /\ X!Next
    /\ UNCHANGED <<part, telemetry, charging_, opcua, derms, iec104, dlms, modbus>>
Iec104 == part = "iec104" /\ I!Next
    /\ UNCHANGED <<part, telemetry, charging_, opcua, derms, path, dlms, modbus>>
Dlms == part = "dlms" /\ L!Next
    /\ UNCHANGED <<part, telemetry, charging_, opcua, derms, path, iec104, modbus>>
Modbus == part = "modbus" /\ M!Next
    /\ UNCHANGED <<part, telemetry, charging_, opcua, derms, path, iec104, dlms>>

Next == Telemetry \/ Charging \/ OpcUa \/ Derms \/ Path \/ Iec104 \/ Dlms \/ Modbus

\* The fairness of Telemetry, OpcUa and CommandPath, for the behaviours in which they take the steps.
Fairness ==
    /\ WF_telemetry(part = "telemetry" /\ (T!Replay \/ T!SendFresh))
    /\ WF_telemetry(part = "telemetry" /\ T!Paho)
    /\ WF_telemetry(part = "telemetry" /\ T!MdmMessage)
    /\ WF_telemetry(part = "telemetry" /\ (T!OnMessage \/ T!Shed))
    /\ \A w \in Workers : WF_telemetry(part = "telemetry" /\ T!Work(w))
    /\ WF_opcua(part = "opcua" /\ U!Worker /\ UNCHANGED uaFaults)
    /\ WF_path(part = "path" /\ X!IssueStep(c1))
    /\ \A a \in X!Acks : /\ WF_path(part = "path" /\ X!Ack(a))
                        /\ WF_path(part = "path" /\ X!MirrorAck(a))
                        /\ WF_path(part = "path" /\ X!TwinAck(a))
    /\ WF_path(part = "path" /\ X!Poll(TRUE))
    /\ WF_path(part = "path" /\ X!PostAck)
    /\ WF_path(part = "path" /\ \E s \in X!Terminal : X!Execute(s))

Spec == Init /\ [][Next]_<<part, telemetry, charging_, opcua, derms, path, iec104, dlms, modbus>> /\ Fairness

-----------------------------------------------------------------------------
(* The properties of the parts: each is stated in its module, and the type   *)
(* invariant of a part is checked with its first property.                   *)

\* Gaps are reported where cycles are missing, and an envelope is stored at most once,
\* over restarts, losses and second deliveries (gaps.py, telemetry_ingestor.py, app.py).
ReadingsAreTrue == part = "telemetry" => T!TypeOK /\ T!GapsAreExact /\ T!StoredOnce

\* Without a fault or a full queue, a reading that was sent is stored in the end
\* (runner.py, pipeline.py, telemetry_ingestor.py).
ReadingsArrive == part = "telemetry" => T!ReadingsArrive

\* A command to a charger is acknowledged only if that very one was carried out, and the
\* registry knows of the transaction there is (ocpp_csms/driver.py, transport.py).
ChargersInStep == part = "charging" => P!TypeOK /\ P!AckedWasDone /\ P!TransactionsInStep

\* A notification is named after the variable it is of, although the server numbers its
\* namespaces anew when it restarts (services/opcua/mapping.py, subscription.py).
RightlyNamed == part = "opcua" => U!TypeOK /\ U!RightlyNamed

\* Once the server stays up, every item is monitored in a live session (opcua/client.py).
Resubscribes == part = "opcua" => U!Resubscribes

\* The row of a DERMS request tells what became of it, and the order fits the state of
\* charge it was decided on (_process_derms_request, battery_bms/driver.py).
RequestsAreTrue == part = "derms" => D!TypeOK /\ D!RequestsAreTrue /\ D!OrdersFit

\* A command whose ways are free gets an outcome in the end (app.py, runner.py).
OutcomeArrives == part = "path" => X!OutcomeArrives

\* The sessions of the drivers stay in step: the numbers of IEC 104, also where they
\* wrap, with the breaker's position reported; the answers of DLMS (transport.py of each).
SessionsInStep ==
    /\ part = "iec104" => I!TypeOK /\ I!NumbersInStep /\ I!BreakerIsReported
    /\ part = "dlms" => L!InStep

\* A command that a Modbus device acknowledged stands in its registers, whatever was
\* given up before it and answered late (sunspec/transport.py:68, modbus_meter).
AckedStands == part = "modbus" => M!TypeOK /\ M!AckedStands
=============================================================================
