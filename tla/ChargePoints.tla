---------------------------- MODULE ChargePoints ----------------------------
(* The OCPP central system and a charger that dials in. Each connection has  *)
(* its own thread in the server; the registry of charge points is keyed by   *)
(* the charger's id alone. Commands come from MQTT one after the other, and  *)
(* each waits for the charger's answer, or for the timeout. Meter values,    *)
(* heartbeats and connector statuses only pass through, and are left out.    *)
EXTENDS Integers, Sequences

CONSTANTS
    Commands,       \* command ids; each has its command_type
    KindOf,         \* start_charging, stop_charging or set_limit
    MaxSockets,     \* bound: connections that the charger makes
    MaxFull,        \* bound: times that the vehicle is full
    None

VARIABLES
    thread,         \* the server's thread of each connection
    socket,         \* the connection that the charger holds, or None
    toServer, toCharger,   \* the frames under way on each connection
    charging,       \* the charger charges
    open,           \* history: the transaction that was started on each connection and not stopped
    point,          \* the registry's entry of the charger: its connection and transaction id
    counter,        \* _txn_counter
    awaited,        \* the command whose result _call waits for
    result,         \* what _resolve_pending noted for it
    answer,         \* the acknowledgement of each command, or "ignored"
    done,           \* history: commands that the charger carried out
    full

Sockets == 1 .. MaxSockets
Point == [socket : Sockets, txn : Nat]

\* Nothing that is recorded is called None.
ChargeAssumption ==
    /\ MaxSockets \in Nat /\ MaxFull \in Nat
    /\ KindOf \in [Commands -> {"start_charging", "stop_charging", "set_limit"}]
    /\ None \notin Commands /\ None \notin Sockets /\ None \notin Point
    /\ None \notin {"Accepted", "ACKED", "FAILED", "ignored"}

chargeVars == <<thread, socket, toServer, toCharger, charging, open, point, counter, awaited, result, answer, done, full>>

Init ==
    /\ thread = [s \in Sockets |-> "none"] /\ socket = None
    /\ toServer = [s \in Sockets |-> <<>>] /\ toCharger = [s \in Sockets |-> <<>>]
    /\ charging = FALSE /\ open = [s \in Sockets |-> FALSE]
    /\ point = None /\ counter = 0 /\ awaited = None /\ result = None
    /\ answer = [c \in Commands |-> None] /\ done = {} /\ full = 0

-----------------------------------------------------------------------------
(* Connections. The old one may be noticed as closed long after a new one is *)
(* there, and closing it forgets the charger whichever connection it has.    *)

Dial ==
    /\ socket = None
    /\ \E s \in Sockets :
          /\ thread[s] = "none" /\ \A r \in Sockets : r < s => thread[r] # "none"
          /\ socket' = s
          /\ thread' = [thread EXCEPT ![s] = "accepted"]
    /\ UNCHANGED <<toServer, toCharger, charging, open, point, counter, awaited, result, answer, done, full>>

OnConnect(s) ==
    /\ thread[s] = "accepted"
    /\ thread' = [thread EXCEPT ![s] = "reading"]
    /\ point' = [socket |-> s, txn |-> 0]
    /\ UNCHANGED <<socket, toServer, toCharger, charging, open, counter, awaited, result, answer, done, full>>

Drop ==
    /\ socket # None
    /\ socket' = None
    /\ toCharger' = [toCharger EXCEPT ![socket] = <<>>]
    /\ UNCHANGED <<thread, toServer, charging, open, point, counter, awaited, result, answer, done, full>>

\* The thread ends; what it did not read by then is lost.
OnClose(s) ==
    /\ thread[s] = "reading" /\ socket # s
    /\ thread' = [thread EXCEPT ![s] = "closed"]
    /\ toServer' = [toServer EXCEPT ![s] = <<>>]
    /\ point' = None
    /\ UNCHANGED <<socket, toCharger, charging, open, counter, awaited, result, answer, done, full>>

-----------------------------------------------------------------------------
(* What the server reads. A transaction is noted for the charger's id.       *)

WithTxn(txn) == IF point = None THEN None ELSE [point EXCEPT !.txn = txn]

HandleCall(s) ==
    /\ thread[s] = "reading" /\ toServer[s] # <<>> /\ Head(toServer[s]).type # "RESULT"
    /\ IF Head(toServer[s]).type = "StartTransaction"
       THEN counter' = counter + 1 /\ point' = WithTxn(counter + 1)
       ELSE counter' = counter /\ point' = WithTxn(0)
    /\ toServer' = [toServer EXCEPT ![s] = Tail(@)]
    /\ UNCHANGED <<thread, socket, toCharger, charging, open, awaited, result, answer, done, full>>

\* A slip: a result answers whatever is awaited.
ResolveAny(s) ==
    /\ thread[s] = "reading" /\ toServer[s] # <<>> /\ Head(toServer[s]).type = "RESULT"
    /\ result' = IF awaited # None THEN "Accepted" ELSE result
    /\ toServer' = [toServer EXCEPT ![s] = Tail(@)]
    /\ UNCHANGED <<thread, socket, toCharger, charging, open, point, counter, awaited, answer, done, full>>

\* _resolve_pending: a result nobody waits for any more is dropped.
ResolvePending(s) ==
    /\ thread[s] = "reading" /\ toServer[s] # <<>> /\ Head(toServer[s]).type = "RESULT"
    /\ result' = IF Head(toServer[s]).id = awaited THEN "Accepted" ELSE result
    /\ toServer' = [toServer EXCEPT ![s] = Tail(@)]
    /\ UNCHANGED <<thread, socket, toCharger, charging, open, point, counter, awaited, answer, done, full>>

-----------------------------------------------------------------------------
(* Commands. One for a charger that is not connected here is not answered.   *)
(* The frame goes to the registered connection; into one that was dropped it *)
(* is lost, or the send raises and the command FAILED.                       *)

OnCommand(c) ==
    /\ awaited = None /\ answer[c] = None
    /\ IF point = None
       THEN answer' = [answer EXCEPT ![c] = "ignored"] /\ UNCHANGED <<toCharger, awaited>>
       ELSE \/ /\ awaited' = c /\ answer' = answer
               /\ toCharger' = IF socket # point.socket THEN toCharger
                               ELSE [toCharger EXCEPT ![socket] = Append(@, [id |-> c, txn |-> point.txn])]
            \/ /\ socket # point.socket
               /\ answer' = [answer EXCEPT ![c] = "FAILED"] /\ UNCHANGED <<toCharger, awaited>>
    /\ result' = None
    /\ UNCHANGED <<thread, socket, toServer, charging, open, point, counter, done, full>>

Answer(status) ==
    /\ awaited # None
    /\ answer' = [answer EXCEPT ![awaited] = status]
    /\ awaited' = None /\ result' = None
    /\ UNCHANGED <<thread, socket, toServer, toCharger, charging, open, point, counter, done, full>>

Acknowledge == result = "Accepted" /\ Answer("ACKED")
TimesOut == result = None /\ Answer("FAILED")

-----------------------------------------------------------------------------
(* The simulated charge point: it accepts what it is told, and a transaction *)
(* it starts or stops is told before the result. A full vehicle ends the     *)
(* charging, not the transaction.                                            *)

Told(c) == (IF KindOf[c] = "start_charging" THEN <<[type |-> "StartTransaction", id |-> None]>>
            ELSE IF KindOf[c] = "stop_charging" THEN <<[type |-> "StopTransaction", id |-> None]>> ELSE <<>>)
           \o <<[type |-> "RESULT", id |-> c]>>

CarryOut ==
    /\ socket # None /\ toCharger[socket] # <<>>
    /\ LET c == Head(toCharger[socket]).id
           Becomes(old) == CASE KindOf[c] = "start_charging" -> TRUE
                             [] KindOf[c] = "stop_charging"  -> FALSE
                             [] OTHER                        -> old
       IN /\ charging' = Becomes(charging)
          /\ open' = [open EXCEPT ![socket] = Becomes(@)]
          /\ done' = done \union {c}
          /\ toServer' = [toServer EXCEPT ![socket] = @ \o Told(c)]
    /\ toCharger' = [toCharger EXCEPT ![socket] = Tail(@)]
    /\ UNCHANGED <<thread, socket, point, counter, awaited, result, answer, full>>

VehicleFull ==
    /\ charging /\ full < MaxFull
    /\ charging' = FALSE /\ full' = full + 1
    /\ UNCHANGED <<thread, socket, toServer, toCharger, open, point, counter, awaited, result, answer, done>>

Next ==
    \/ Dial \/ Drop \/ CarryOut \/ VehicleFull \/ Acknowledge \/ TimesOut
    \/ \E s \in Sockets : OnConnect(s) \/ OnClose(s) \/ HandleCall(s) \/ ResolvePending(s)
    \/ \E c \in Commands : OnCommand(c)

Spec == Init /\ [][Next]_chargeVars

-----------------------------------------------------------------------------
(* Types: of the threads, the registry and the answers.                      *)
TypeOK ==
    /\ \A s \in Sockets : thread[s] \in {"none", "accepted", "reading", "closed"}
    /\ socket \in Sockets \union {None} /\ point \in Point \union {None} /\ counter \in Nat
    /\ awaited \in Commands \union {None} /\ result \in {None, "Accepted"} /\ charging \in BOOLEAN
    /\ \A c \in Commands : answer[c] \in {None, "ACKED", "FAILED", "ignored"}

(* A command is acknowledged only when the charger carried that very command *)
(* out, although answers come late, after the timeout and during the next    *)
(* command, and over several connections (_call, _resolve_pending).          *)
AckedWasDone == \A c \in Commands : answer[c] = "ACKED" => c \in done

(* While the charger keeps the connection that is registered, no older one   *)
(* is still read, and it has nothing under way: the registry knows of a      *)
(* transaction exactly when one was started on the connection and not        *)
(* stopped; so that a stop names it (_handle_call, send_command).            *)
TransactionsInStep ==
    /\ point # None /\ socket = point.socket /\ toServer[socket] = <<>>
    /\ \A s \in Sockets \ {socket} : thread[s] \in {"none", "closed"}
    => (point.txn # 0 <=> open[socket])
=============================================================================
