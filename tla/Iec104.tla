------------------------------- MODULE Iec104 -------------------------------
(***************************************************************************)
(* One IEC 60870-5-104 session between the microgrid driver and its RTU:   *)
(* the numbered frames of both directions (transport.py), the driver with  *)
(* the runner's thread that interrogates, the MQTT thread that sends a     *)
(* command and waits, and the receive loop (driver.py), and the station    *)
(* that answers (sim.py).                                                  *)
(*                                                                         *)
(* A frame carries its number as the two octets of the control field.  The *)
(* session is joined after Start frames went each way.  It is never opened *)
(* again: neither the driver nor the runner connects twice.                *)
(***************************************************************************)
EXTENDS Naturals, Sequences, SequencesExt

CONSTANTS
    Starts,         \* how many frames may have gone before we look
    Setpoints,      \* values of set_setpoint
    MaxCommands, MaxSpells    \* bounds

\* A frame's number has 15 bits.
Numbers == 0 .. 32767

IecAssumption == Starts \subseteq Numbers /\ Setpoints \subseteq Nat /\ MaxCommands \in Nat

VARIABLES
    link,           \* both ends are connected
    toRtu, toDriver,   \* the frames under way: [no, asdu]
    ns, nr,         \* the driver's peer: numbers of the next frame out and in
    rtuNs, rtuNr,   \* the RTU's
    breaker, setpoint,   \* the RTU: grid_connected, setpoint_kw
    seenBreaker, seenSetpoint,   \* the driver: _grid_connected, _values
    actcon,         \* the event the waiting thread looks at
    waiting,        \* the command the MQTT thread waits for, or Idle
    results,        \* what execute_command returned, command by command
    spells          \* queries and unasked reports so far

iecVars == <<link, toRtu, toDriver, ns, nr, rtuNs, rtuNr, breaker, setpoint, seenBreaker,
             seenSetpoint, actcon, waiting, results, spells>>

Idle == [type |-> "idle"]

Commands == {[type |-> "C_SC", value |-> v] : v \in BOOLEAN}
            \cup {[type |-> "C_SE", value |-> v] : v \in Setpoints}

\* The two octets of a 15-bit number, as _encode_i shifts them and _read_apdu back.
Octets(n) == <<(2 * n) % 256, (n \div 128) % 256>>
Number(o) == (o[1] + 256 * o[2]) \div 2

\* A slip: numbers run to 16 bits.
NextWide(n) == (n + 1) % 65536

\* The number of the frame that comes d frames after number n, and of the next one.
After(n, d) == (n + d) % 32768
NextNo(n) == After(n, 1)

Frame(n, asdu) == [no |-> Octets(n), asdu |-> asdu]

\* The frames that carry asdus, from number n on.
Frames(n, asdus) == [i \in 1 .. Len(asdus) |-> Frame(After(n, i - 1), asdus[i])]

-----------------------------------------------------------------------------
(* The driver.                                                             *)

\* _interrogate, by the runner's thread.
Interrogate ==
    /\ link /\ spells < MaxSpells
    /\ spells' = spells + 1
    /\ toRtu' = Append(toRtu, Frame(ns, [type |-> "C_IC"]))
    /\ ns' = NextNo(ns)
    /\ UNCHANGED <<link, toDriver, nr, rtuNs, rtuNr, breaker, setpoint, seenBreaker,
                   seenSetpoint, actcon, waiting, results>>

\* execute_command up to the wait: the event is cleared and the command sent.
Send(c) ==
    /\ waiting = Idle /\ Len(results) < MaxCommands
    /\ actcon' = FALSE
    /\ IF link THEN /\ toRtu' = Append(toRtu, Frame(ns, c))
                    /\ ns' = NextNo(ns) /\ waiting' = c
                    /\ UNCHANGED results
               ELSE /\ results' = Append(results, [of |-> c, status |-> "FAILED"])
                    /\ UNCHANGED <<toRtu, ns, waiting>>
    /\ UNCHANGED <<link, toDriver, nr, rtuNs, rtuNr, breaker, setpoint, seenBreaker,
                   seenSetpoint, spells>>

Finish(status) ==
    /\ waiting # Idle
    /\ results' = Append(results, [of |-> waiting, status |-> status])
    /\ waiting' = Idle
    /\ UNCHANGED <<link, toRtu, toDriver, ns, nr, rtuNs, rtuNr, breaker, setpoint,
                   seenBreaker, seenSetpoint, actcon, spells>>

\* Any confirmation since the command was sent, or none for three seconds.
Confirmed == actcon /\ Finish("ACKED")
TimesOut == ~actcon /\ Finish("FAILED")

\* _recv_loop and _on_asdu: measurements go to the cache, other confirmations and
\* terminations set the event.
Receive ==
    /\ toDriver # << >>
    /\ LET asdu == Head(toDriver).asdu IN
       /\ toDriver' = Tail(toDriver)
       /\ nr' = NextNo(nr)
       /\ seenBreaker' = IF asdu.type = "M_SP" THEN asdu.value ELSE seenBreaker
       /\ seenSetpoint' = IF asdu.type = "M_ME" THEN asdu.value ELSE seenSetpoint
       /\ actcon' = (actcon \/ asdu.type \in {"ACTCON", "ACTTERM"})
    /\ UNCHANGED <<link, toRtu, ns, rtuNs, rtuNr, breaker, setpoint, waiting, results, spells>>

-----------------------------------------------------------------------------
(* The station.                                                            *)

Dataset(b, s) == <<[type |-> "M_ME", value |-> s], [type |-> "M_SP", value |-> b]>>

\* What the RTU sends for each request: a breaker reports at once, a setpoint not.
Answer(c) ==
    CASE c.type = "C_IC" -> <<[type |-> "ACTCON", of |-> c]>> \o Dataset(breaker, setpoint)
                            \o <<[type |-> "ACTTERM", of |-> c]>>
      [] c.type = "C_SC" -> <<[type |-> "ACTCON", of |-> c]>> \o Dataset(c.value, setpoint)
      [] c.type = "C_SE" -> <<[type |-> "ACTCON", of |-> c]>>

Serve ==
    /\ toRtu # << >>
    /\ LET c == Head(toRtu).asdu
           out == Frames(rtuNs, Answer(c))
       IN  /\ toRtu' = Tail(toRtu)
           /\ rtuNr' = NextNo(rtuNr)
           /\ breaker' = IF c.type = "C_SC" THEN c.value ELSE breaker
           /\ setpoint' = IF c.type = "C_SE" THEN c.value ELSE setpoint
           /\ IF link THEN /\ toDriver' = toDriver \o out
                           /\ rtuNs' = NextNo(Number(Last(out).no))
                      ELSE UNCHANGED <<toDriver, rtuNs>>
    /\ UNCHANGED <<link, ns, nr, seenBreaker, seenSetpoint, actcon, waiting, results, spells>>

\* The connection breaks: what the RTU has already read it still serves, what is on
\* its way to the driver is gone, and the receive loop ends with open = FALSE.
Break ==
    /\ link /\ spells < MaxSpells /\ spells' = spells + 1
    /\ link' = FALSE
    /\ toDriver' = << >>
    /\ \E n \in 0 .. Len(toRtu) : toRtu' = SubSeq(toRtu, 1, n)
    /\ UNCHANGED <<ns, nr, rtuNs, rtuNr, breaker, setpoint, seenBreaker, seenSetpoint,
                   actcon, waiting, results>>

-----------------------------------------------------------------------------
Init ==
    /\ link = TRUE /\ toRtu = << >> /\ toDriver = << >>
    /\ \E n \in Starts : ns = n /\ rtuNr = n
    /\ \E n \in Starts : nr = n /\ rtuNs = n
    /\ breaker = TRUE /\ setpoint = 0 /\ seenBreaker = TRUE /\ seenSetpoint = 0
    /\ actcon = FALSE /\ waiting = Idle /\ results = << >> /\ spells = 0

Next ==
    \/ Interrogate \/ Confirmed \/ TimesOut \/ Receive \/ Serve \/ Break
    \/ \E c \in Commands : Send(c)

Spec == Init /\ [][Next]_iecVars

-----------------------------------------------------------------------------
(* Properties.                                                             *)

\* Frames, states and results are of the kinds above.
TypeOK ==
    /\ {ns, nr, rtuNs, rtuNr} \subseteq Numbers
    /\ {breaker, seenBreaker, actcon, link} \subseteq BOOLEAN
    /\ {setpoint, seenSetpoint} \subseteq {0} \cup Setpoints
    /\ waiting \in Commands \cup {Idle}
    /\ Len(results) <= MaxCommands

\* While the session lasts, the frames under way carry the numbers that the other
\* end expects, one after the other, also where the count of 15 bits starts again.
NumbersInStep ==
    link =>
       /\ \A i \in 1 .. Len(toRtu) : Number(toRtu[i].no) = (rtuNr + i - 1) % 32768
       /\ \A i \in 1 .. Len(toDriver) : Number(toDriver[i].no) = (nr + i - 1) % 32768
       /\ ns = (rtuNr + Len(toRtu)) % 32768
       /\ rtuNs = (nr + Len(toDriver)) % 32768

\* The driver knows the position of the breaker, or the report of it is under way:
\* a switch operation that is confirmed by echo reads nothing older for good.
BreakerIsReported ==
    link =>
       LET reports == {i \in DOMAIN toDriver : toDriver[i].asdu.type = "M_SP"}
       IN  IF reports = {} THEN seenBreaker = breaker
           ELSE \E i \in reports : (\A j \in reports : j <= i) /\ toDriver[i].asdu.value = breaker
=============================================================================
