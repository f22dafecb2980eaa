------------------------------- MODULE Modbus -------------------------------
(***************************************************************************)
(* The SunSpec inverter and the Modbus smart meter (drivers/sunspec,       *)
(* drivers/modbus_meter).  Two threads of one driver share a socket: the   *)
(* runner's loop reads the registers, and the MQTT callback writes them.   *)
(* A transaction holds the client's lock from its request to its answer.   *)
(* A request that timed out is still carried out by the device, and its    *)
(* answer still comes.                                                     *)
(*                                                                         *)
(* Power, available power and limits are in steps of the rated power.      *)
(***************************************************************************)
EXTENDS Naturals, Sequences

CONSTANTS
    Rated,         \* capacity_kw
    Starts,        \* numbers of transactions a session may have behind it
    MaxPolls, MaxOrders,   \* bounds: readings, commands
    MaxSpells,     \* bound: timeouts and lost connections
    None

\* There are fewer timeouts than transaction ids: an answer that is 65536 transactions
\* late bears the id of the one that is waited for.
ModbusAssumption ==
    /\ Rated \in Nat \ {0} /\ Starts \subseteq Nat
    /\ MaxSpells \in Nat /\ MaxSpells < 65536
    /\ None \notin {"poll", "command"} /\ None \notin 0 .. Rated

VARIABLES
    device,        \* "inverter" or "meter"
    registers,     \* pct and ena of model 123, relay of the meter
    readOnly,      \* _read_only
    link,          \* the socket is connected
    holder,        \* the thread that holds _lock, and waits for an answer
    sent,          \* transactions begun: the transaction id is its low 16 bits
    toDevice, toClient,   \* frames under way
    todo,          \* per thread, the transactions its call has still to make
    order,         \* the command in hand, or the last one
    outcome,       \* its acknowledgement, with the transactions begun by then
    reading,       \* the last reading: its power, and the transaction it is from
    polls, orders, spells

modbusVars == <<device, registers, readOnly, link, holder, sent, toDevice, toClient,
                todo, order, outcome, reading, polls, orders, spells>>

wire == <<link, holder, sent, toDevice, toClient>>

Low(a, b) == IF a < b THEN a ELSE b

ReadHolding == [read |-> TRUE]
WriteRegister(point, value) == [read |-> FALSE, point |-> point, value |-> value]

Limits == 0 .. Rated + 1

\* The commands the dispatcher may send to each device.
Commands ==
    IF device = "inverter"
    THEN [type : {"set_limit", "curtail"}, limit : Limits] \cup {[type |-> "resume"], [type |-> "remote_connect"]}
    ELSE {[type |-> t] : t \in {"remote_disconnect", "remote_connect", "read_only", "resume"}}

supported_commands ==
    IF device = "inverter" THEN {"set_limit", "curtail", "resume"}
                           ELSE {"read_only", "remote_disconnect", "remote_connect"}

\* _set_limit_pct: the percentage first, then the enable flag.
LimitWrites(pct, ena) == << WriteRegister("pct", pct), WriteRegister("ena", ena) >>

\* _kw_to_pct cuts a limit to the rating.
InverterWrites(c) ==
    IF c.type = "resume" THEN LimitWrites(Rated, FALSE)
                         ELSE LimitWrites(Low(c.limit, Rated), TRUE)

MeterWrites(c) ==
    IF c.type = "read_only" THEN << >>
                            ELSE << WriteRegister("relay", c.type = "remote_connect") >>

Writes(c) == IF device = "inverter" THEN InverterWrites(c) ELSE MeterWrites(c)

Ack(status) == [status |-> status, sent |-> sent]

\* A command arrives; the callback thread is free.
Execute ==
    /\ orders < MaxOrders /\ todo["command"] = << >>
    /\ orders' = orders + 1
    /\ \E c \in Commands :
          /\ order' = c
          /\ IF c.type \notin supported_commands \/ (readOnly /\ c.type # "read_only")
             THEN outcome' = Ack("FAILED") /\ UNCHANGED <<todo, readOnly>>
             ELSE IF c.type = "read_only"
             THEN outcome' = Ack("ACKED") /\ readOnly' = TRUE /\ UNCHANGED todo
             ELSE /\ outcome' = None
                  /\ todo' = [todo EXCEPT !["command"] = Writes(c)]
                  /\ UNCHANGED readOnly
    /\ UNCHANGED <<device, registers, wire, reading, polls, spells>>

\* read_telemetry of the runner's loop.
Poll ==
    /\ polls < MaxPolls /\ todo["poll"] = << >>
    /\ polls' = polls + 1
    /\ todo' = [todo EXCEPT !["poll"] = << ReadHolding >>]
    /\ UNCHANGED <<device, registers, readOnly, wire, order, outcome, reading, orders, spells>>

\* A call raises: a command ends as FAILED, a reading is given up.
Raises(t) ==
    /\ todo' = [todo EXCEPT ![t] = << >>]
    /\ outcome' = IF t = "command" THEN Ack("FAILED") ELSE outcome

\* _txn, up to the wait: the lock, the next id, and the request.
Send(t) ==
    /\ holder = None /\ todo[t] # << >>
    /\ IF link
       THEN /\ sent' = sent + 1
            /\ toDevice' = Append(toDevice, [no |-> sent', pdu |-> Head(todo[t])])
            /\ holder' = t
            /\ UNCHANGED <<todo, outcome>>
       ELSE Raises(t) /\ UNCHANGED <<sent, toDevice, holder>>
    /\ UNCHANGED <<device, registers, readOnly, link, toClient, order, reading, polls, orders, spells>>

\* What the device measures: the inverter is held to pct when ena, the meter cut
\* off by its relay.
InverterPower(available) ==
    IF registers.ena THEN Low(available, registers.pct) ELSE available

MeterPower(available) == IF registers.relay THEN available ELSE 0

Power(available) ==
    IF device = "inverter" THEN InverterPower(available) ELSE MeterPower(available)

\* _dispatch: the requests of a connection are carried out one after the other.
Dispatch ==
    /\ toDevice # << >>
    /\ LET frame == Head(toDevice)
            Reply(power) == toClient' = Append(toClient, [no |-> frame.no, power |-> power]) IN
       \/ /\ frame.pdu.read
          /\ \E available \in 0 .. Rated : Reply(Power(available))
          /\ UNCHANGED registers
       \/ /\ ~frame.pdu.read
          /\ registers' = [registers EXCEPT ![frame.pdu.point] = frame.pdu.value]
          /\ Reply(None)
    /\ toDevice' = Tail(toDevice)
    /\ UNCHANGED <<device, readOnly, link, holder, sent, todo, order, outcome, reading, polls, orders, spells>>

MatchesAny(answer) == answer.no # None

\* The answer is that of the request when it bears its transaction id.
Matches(answer) == answer.no % 65536 = sent % 65536

\* A transaction succeeded: the next of the call, or its end.
Succeeds(t, answer) ==
    /\ todo' = [todo EXCEPT ![t] = Tail(@)]
    /\ outcome' = IF t = "command" /\ todo'[t] = << >> THEN Ack("ACKED") ELSE outcome
    /\ reading' = IF t = "poll" THEN answer ELSE reading

\* _txn, from the answer on.  The lock is given back before the id is looked at.
Receive ==
    /\ holder # None /\ toClient # << >>
    /\ toClient' = Tail(toClient)
    /\ holder' = None
    /\ IF Matches(Head(toClient))
       THEN Succeeds(holder, Head(toClient))
       ELSE Raises(holder) /\ UNCHANGED reading
    /\ UNCHANGED <<device, registers, readOnly, link, sent, toDevice, order, polls, orders, spells>>

\* The answer is not there in time, or the connection was lost: recv raises.
RecvFails ==
    /\ holder # None /\ toClient = << >>
    /\ IF link THEN spells < MaxSpells /\ spells' = spells + 1 ELSE UNCHANGED spells
    /\ holder' = None
    /\ Raises(holder)
    /\ UNCHANGED <<device, registers, readOnly, link, sent, toDevice, toClient, order, reading, polls, orders>>

\* The device closes the connection; the driver never opens another.
Closes ==
    /\ link /\ spells < MaxSpells
    /\ link' = FALSE /\ toDevice' = << >> /\ toClient' = << >>
    /\ spells' = spells + 1
    /\ UNCHANGED <<device, registers, readOnly, holder, sent, todo, order, outcome, reading, polls, orders>>

Init ==
    /\ device \in {"inverter", "meter"}
    /\ registers = IF device = "inverter" THEN [pct |-> Rated, ena |-> FALSE] ELSE [relay |-> TRUE]
    /\ readOnly = FALSE /\ link = TRUE /\ holder = None
    /\ sent \in Starts
    /\ toDevice = << >> /\ toClient = << >>
    /\ todo = [t \in {"poll", "command"} |-> << >>]
    /\ order = None /\ outcome = None /\ reading = None
    /\ polls = 0 /\ orders = 0 /\ spells = 0

Next ==
    \/ Execute \/ Poll \/ Dispatch \/ Receive \/ RecvFails \/ Closes
    \/ \E t \in {"poll", "command"} : Send(t)

Spec == Init /\ [][Next]_modbusVars

-----------------------------------------------------------------------------
(* Properties.                                                             *)

\* No message holds anything but what the devices and the threads put in it.
TypeOK ==
    /\ holder \in {None, "poll", "command"}
    /\ holder # None => todo[holder] # << >>
    /\ outcome # None => outcome.status \in {"ACKED", "FAILED"} /\ outcome.sent <= sent
    /\ reading # None => reading.power \in 0 .. Rated

\* A command that was acknowledged is what the device does: it stands in its
\* registers, whatever was given up before it and is still under way, and a reading
\* asked for since then shows it (execute_command, _txn).
AckedStands ==
    outcome # None /\ outcome.status = "ACKED" /\ order.type # "read_only" =>
       /\ \A i \in DOMAIN Writes(order) : registers[Writes(order)[i].point] = Writes(order)[i].value
       /\ reading # None /\ reading.no > outcome.sent =>
             CASE order.type \in {"set_limit", "curtail"} -> reading.power <= order.limit
               [] order.type = "remote_disconnect" -> reading.power = 0
               [] OTHER -> TRUE
=============================================================================
