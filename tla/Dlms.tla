-------------------------------- MODULE Dlms --------------------------------
(***************************************************************************)
(* The DLMS meter driver and its meter (drivers/dlms): one association,    *)
(* over the TCP wrapper or over HDLC, in which the runner's loop reads one *)
(* COSEM object after the other and publishes them as one reading.  The    *)
(* runner associates once; when a read raises, the reading is given up and *)
(* the next one starts on the same socket, with whatever is still on it.   *)
(*                                                                         *)
(* A value is the object it was read from.                                 *)
(***************************************************************************)
EXTENDS Naturals, Sequences, Functions

CONSTANTS
    Objects,       \* models.OBIS: the objects of a reading, in order
    MaxReadings,   \* bound: readings tried
    MaxSpells      \* bound: timeouts, torn frames and closed sockets

DlmsAssumption == Objects \in Seq(STRING) /\ Objects # << >>

VARIABLES
    interface,     \* "tcp" or "hdlc"
    state,         \* the client: "new", "idle", "waiting" or "down"
    toMeter, toClient,   \* PDUs under way
    invoke,        \* _invoke
    ns,            \* _ns: N(S) of the client's next I-frame
    got,           \* the values of the reading so far
    published,     \* the last reading that was normalised and published
    tried, spells

dlmsVars == <<interface, state, toMeter, toClient, invoke, ns, got, published,
              tried, spells>>

Spell == spells < MaxSpells /\ spells' = spells + 1

\* The reading is complete, or read_telemetry raises; the runner goes on with the next.
Over == state' = "idle" /\ got' = << >> /\ tried' = tried + 1

\* Client and meter are associated: SNRM and UA in HDLC, then AARQ and AARE.  A
\* meter that refuses, or does not answer, ends the runner.
Associate ==
    /\ state = "new"
    /\ \/ state' = "idle"
       \/ state' = "down"
    /\ ns' = IF interface = "hdlc" THEN 1 ELSE 0
    /\ UNCHANGED <<interface, toMeter, toClient, invoke, got, published, tried, spells>>

\* read_meter, up to the wait: GetRequest for the next object.
Get ==
    /\ state = "idle" /\ tried < MaxReadings
    /\ invoke' = (invoke + 1) % 256
    /\ toMeter' = Append(toMeter, [id |-> invoke', object |-> Objects[Len(got) + 1]])
    /\ state' = "waiting"
    /\ UNCHANGED <<interface, toClient, ns, got, published, tried, spells>>

\* The meter answers in the order of the requests, also those given up.
Answer ==
    /\ toMeter # << >>
    /\ toClient' = Append(toClient, [torn |-> FALSE, id |-> Head(toMeter).id,
                                     object |-> Head(toMeter).object])
    /\ toMeter' = Tail(toMeter)
    /\ UNCHANGED <<interface, state, invoke, ns, got, published, tried, spells>>

\* The value goes into the reading, and the reading out when it has them all.
Take(value) ==
    IF Len(got) + 1 = Len(Objects)
    THEN /\ published' = Append(got, value)
         /\ Over
    ELSE /\ got' = Append(got, value) /\ state' = "idle"
         /\ UNCHANGED <<published, tried>>

\* recv_pdus: what one recv brings is parsed as a whole.  The first PDU is the
\* answer, whatever its invoke id; others that came with it are dropped, and of a
\* frame of which only a part came the rest will not parse.
ReadTcp ==
    /\ state = "waiting" /\ interface = "tcp" /\ toClient # << >>
    /\ \E n \in 1 .. Len(toClient), tear \in BOOLEAN :
          LET rest == SubSeq(toClient, n + 1, Len(toClient)) IN
          /\ IF tear /\ rest # << >>
             THEN Spell /\ toClient' = [rest EXCEPT ![1].torn = TRUE]
             ELSE tear = FALSE /\ toClient' = rest /\ UNCHANGED spells
          /\ IF toClient[1].torn THEN Over /\ UNCHANGED published
                                 ELSE Take(toClient[1].object)
    /\ UNCHANGED <<interface, toMeter, invoke, ns>>

\* recv_hdlc_frame takes one frame, octet by octet; its numbers are not looked at.
ReadHdlc ==
    /\ state = "waiting" /\ interface = "hdlc" /\ toClient # << >>
    /\ toClient' = Tail(toClient)
    /\ ns' = (ns + 1) % 8
    /\ Take(Head(toClient).object)
    /\ UNCHANGED <<interface, toMeter, invoke, spells>>

\* The meter does not answer within the timeout; it may still answer later.
TimesOut ==
    /\ state = "waiting" /\ toClient = << >>
    /\ Spell /\ Over
    /\ UNCHANGED <<interface, toMeter, toClient, invoke, ns, published>>

\* The meter closes a connection that was idle for five seconds, or it is lost:
\* every read raises from then on.
Closes ==
    /\ state \in {"idle", "waiting"}
    /\ Spell
    /\ state' = "down" /\ got' = << >> /\ toMeter' = << >> /\ toClient' = << >>
    /\ UNCHANGED <<interface, invoke, ns, published, tried>>

Init ==
    /\ interface \in {"tcp", "hdlc"} /\ state = "new"
    /\ toMeter = << >> /\ toClient = << >>
    /\ invoke = 0 /\ ns = 0
    /\ got = << >> /\ published = << >> /\ tried = 0 /\ spells = 0

Next == Associate \/ Get \/ Answer \/ ReadTcp \/ ReadHdlc \/ TimesOut \/ Closes

Spec == Init /\ [][Next]_dlmsVars

-----------------------------------------------------------------------------
(* Properties.                                                             *)

\* "Read the value attribute (2) of COSEM Data object obis" (read_meter): each
\* value of a reading that goes out is the value of the object it is named after.
ReadsWhatItAsked == published # << >> => published = Objects

\* The same as long as nothing was late and nothing torn: there is then one answer
\* for the one request, with its invoke id.
InStep ==
    spells = 0 =>
       /\ ReadsWhatItAsked
       /\ Len(toMeter) + Len(toClient) = (IF state = "waiting" THEN 1 ELSE 0)
       /\ \A answer \in Range(toClient) : answer.id = invoke
=============================================================================
