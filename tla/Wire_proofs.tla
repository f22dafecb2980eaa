---------------------------- MODULE Wire_proofs ----------------------------
(* Proofs about the sessions of the drivers, each for any number of          *)
(* transactions and spells.  As in Field_proofs, every part has an invariant *)
(* of its own.                                                               *)
EXTENDS MCField, SequenceTheorems, TLAPS

steps == <<part, telemetry, charging_, opcua, derms, path, iec104, dlms, modbus>>

-----------------------------------------------------------------------------
(* The DLMS meter and its driver: Dlms.                                      *)

\* What is read is what was asked for, in the order of the objects.
Reads ==
    /\ published \in {<< >>, Objects}
    /\ gotten \in Seq(STRING) /\ Len(gotten) < Len(Objects)
    /\ \A i \in 1 .. Len(gotten) : gotten[i] = Objects[i]

\* There is one PDU under way for the one request.
Wanted == Objects[Len(gotten) + 1]
GetRequest == [id |-> invoke, object |-> Wanted]
GetResponse == [torn |-> FALSE, id |-> invoke, object |-> Wanted]
OneAnswer ==
    /\ state # "waiting" => toMeter = << >> /\ fromMeter = << >>
    /\ state = "waiting" =>
         \/ toMeter = <<GetRequest>> /\ fromMeter = << >>
         \/ toMeter = << >> /\ fromMeter = <<GetResponse>>

DlmsInv == meterSpells \in Nat /\ (meterSpells = 0 => Reads /\ OneAnswer)

LEMMA DlmsInit == ASSUME FieldAssumption, L!Init PROVE DlmsInv
<1>1. Objects \in Seq(STRING) /\ Len(Objects) # 0
  BY DEF FieldAssumption, L!DlmsAssumption
<1>2. gotten = << >> /\ << >> \in Seq(STRING) /\ Len(<< >>) = 0 /\ published = << >>
  BY DEF L!Init
<1>3. Reads
  BY <1>1, <1>2 DEF Reads
<1> QED  BY <1>3 DEF L!Init, DlmsInv, OneAnswer

(* The value that was asked for comes.                                       *)
LEMMA Taken ==
    ASSUME FieldAssumption, Reads, state = "waiting", NEW value, value = Wanted, L!Take(value),
           toMeter' = << >>, fromMeter' = << >>
    PROVE  Reads' /\ OneAnswer'
<1>1. Objects \in Seq(STRING) /\ Len(Objects) \in Nat \ {0} /\ gotten \in Seq(STRING) /\ Len(gotten) \in Nat
  BY DEF FieldAssumption, L!DlmsAssumption, Reads
<1>2. value \in STRING /\ value = Objects[Len(gotten) + 1]
  BY <1>1 DEF Reads, Wanted
<1>3. PICK longer : longer = Append(gotten, value)
  OBVIOUS
<1>4. longer \in Seq(STRING) /\ Len(longer) = Len(gotten) + 1 /\ \A i \in 1 .. Len(longer) : longer[i] = Objects[i]
  BY <1>1, <1>2, <1>3 DEF Reads
<1>5. CASE Len(gotten) + 1 = Len(Objects)
  <2>1. published' = longer /\ state' = "idle" /\ gotten' = << >>
    BY <1>3, <1>5 DEF L!Take, L!Over
  <2>2. longer = Objects
    BY <1>1, <1>4, <1>5, SeqEqual
  <2>3. << >> \in Seq(STRING) /\ Len(<< >>) = 0
    OBVIOUS
  <2> QED  BY <1>1, <2>1, <2>2, <2>3 DEF Reads, OneAnswer
<1>6. CASE Len(gotten) + 1 # Len(Objects)
  <2>1. published' = published /\ state' = "idle" /\ gotten' = longer
    BY <1>3, <1>6 DEF L!Take
  <2> QED  BY <1>1, <1>4, <1>6, <2>1 DEF Reads, OneAnswer
<1> QED  BY <1>5, <1>6

LEMMA DlmsStep == ASSUME FieldAssumption, DlmsInv, L!Next PROVE DlmsInv'
<1>0. meterSpells \in Nat
  BY DEF DlmsInv
<1>1. meterSpells' \in Nat /\ (meterSpells' = 0 => meterSpells = 0 /\ meterSpells' = meterSpells)
  BY <1>0 DEF L!Next, L!Associate, L!Get, L!Answer, L!ReadTcp, L!ReadHdlc, L!TimesOut, L!Closes, L!Spell
<1> SUFFICES ASSUME meterSpells' = 0 PROVE Reads' /\ OneAnswer'
  BY <1>1 DEF DlmsInv
<1>2. Reads /\ OneAnswer /\ ~L!Spell
  BY <1>0, <1>1 DEF DlmsInv, L!Spell
<1>3. CASE L!Associate
  BY <1>2, <1>3 DEF L!Associate, Reads, OneAnswer
<1>4. CASE L!Get
  <2>1. /\ state = "idle" /\ state' = "waiting" /\ UNCHANGED <<gotten, published, fromMeter>>
        /\ toMeter' = Append(toMeter, GetRequest')
    BY <1>4 DEF L!Get, GetRequest, Wanted
  <2>2. toMeter' = <<GetRequest'>>
    BY <1>2, <2>1 DEF OneAnswer
  <2> QED  BY <1>2, <2>1, <2>2 DEF Reads, OneAnswer
<1>5. CASE L!Answer
  <2>1. /\ toMeter # << >> /\ UNCHANGED <<state, invoke, gotten, published>> /\ toMeter' = Tail(toMeter)
        /\ fromMeter' = Append(fromMeter, [torn |-> FALSE, id |-> Head(toMeter).id, object |-> Head(toMeter).object])
    BY <1>5 DEF L!Answer
  <2>2. state = "waiting" /\ toMeter = <<GetRequest>> /\ fromMeter = << >>
    BY <1>2, <2>1 DEF OneAnswer
  <2>3. Head(toMeter) = GetRequest /\ Tail(toMeter) = << >>
    BY <2>2
  <2>4. [torn |-> FALSE, id |-> GetRequest.id, object |-> GetRequest.object] = GetResponse
    BY DEF GetRequest, GetResponse
  <2>5. toMeter' = << >> /\ fromMeter' = <<GetResponse>>
    BY <2>1, <2>2, <2>3, <2>4
  <2>6. GetResponse' = GetResponse
    BY <2>1 DEF GetResponse, Wanted
  <2> QED  BY <1>2, <2>1, <2>2, <2>5, <2>6 DEF Reads, OneAnswer
<1>6. CASE L!ReadTcp
  <2>1. state = "waiting" /\ fromMeter # << >> /\ UNCHANGED toMeter
    BY <1>6 DEF L!ReadTcp
  <2>2. toMeter = << >> /\ fromMeter = <<GetResponse>>
    BY <1>2, <2>1 DEF OneAnswer
  <2>3. Len(fromMeter) = 1 /\ fromMeter[1].torn = FALSE /\ fromMeter[1].object = Wanted
    BY <2>2 DEF GetResponse
  <2>4. PICK n \in 1 .. Len(fromMeter) :
           fromMeter' = SubSeq(fromMeter, n + 1, Len(fromMeter)) /\ L!Take(fromMeter[1].object)
    BY <1>2, <1>6, <2>3 DEF L!ReadTcp
  <2>5. fromMeter' = << >>
    BY <2>3, <2>4, SubSeqEmpty
  <2> QED  BY <1>2, <2>1, <2>2, <2>3, <2>4, <2>5, Taken
<1>7. CASE L!ReadHdlc
  <2>1. /\ state = "waiting" /\ fromMeter # << >> /\ UNCHANGED toMeter /\ fromMeter' = Tail(fromMeter)
        /\ L!Take(Head(fromMeter).object)
    BY <1>7 DEF L!ReadHdlc
  <2>2. toMeter = << >> /\ fromMeter = <<GetResponse>>
    BY <1>2, <2>1 DEF OneAnswer
  <2>3. fromMeter' = << >> /\ Head(fromMeter).object = Wanted
    BY <2>1, <2>2 DEF GetResponse
  <2> QED  BY <1>2, <2>1, <2>2, <2>3, Taken
<1>8. CASE L!TimesOut \/ L!Closes
  BY <1>2, <1>8 DEF L!TimesOut, L!Closes
<1> QED  BY <1>3, <1>4, <1>5, <1>6, <1>7, <1>8 DEF L!Next

LEMMA DlmsTrue == ASSUME FieldAssumption, DlmsInv PROVE L!InStep
<1>1. SUFFICES ASSUME meterSpells = 0
      PROVE  /\ L!ReadsWhatItAsked
             /\ Len(toMeter) + Len(fromMeter) = (IF state = "waiting" THEN 1 ELSE 0)
             /\ \A r \in L!Range(fromMeter) : r.id = invoke
  BY DEF L!InStep
<1>2. Reads /\ OneAnswer
  BY <1>1 DEF DlmsInv
<1>3. L!ReadsWhatItAsked
  BY <1>2 DEF Reads, L!ReadsWhatItAsked
<1>4. /\ Len(toMeter) + Len(fromMeter) = (IF state = "waiting" THEN 1 ELSE 0)
      /\ \A i \in DOMAIN fromMeter : fromMeter[i].id = invoke
  <2>1. GetResponse.id = invoke
    BY DEF GetResponse
  <2>2. CASE state # "waiting"
    BY <1>2, <2>2 DEF OneAnswer
  <2>3. CASE toMeter = <<GetRequest>> /\ fromMeter = << >> /\ state = "waiting"
    BY <2>3
  <2>4. CASE toMeter = << >> /\ fromMeter = <<GetResponse>> /\ state = "waiting"
    <3>1. Len(fromMeter) = 1 /\ fromMeter[1] = GetResponse /\ DOMAIN fromMeter = 1 .. 1
      BY <2>4
    <3> QED  BY <2>1, <2>4, <3>1
  <2> QED  BY <1>2, <2>2, <2>3, <2>4 DEF OneAnswer
<1> QED  BY <1>3, <1>4 DEF L!Range

-----------------------------------------------------------------------------
(* The inverter, or the smart meter, and its driver: Modbus.                 *)

Threads == {"poll", "command"}
Registers == IF device = "inverter" THEN [pct : 0 .. Rated, ena : BOOLEAN] ELSE [relay : BOOLEAN]

Request ==
    [read : {TRUE}] \union [read : {FALSE}, point : {"pct", "ena", "relay"}, value : (0 .. Rated) \union BOOLEAN]
Query == [no : Nat, pdu : Request]
Reply == [no : Nat, power : (0 .. Rated) \union {None}]

\* A request writes a value of its kind to a point of the device.
Sound(pdu) ==
    pdu.read \/ IF device = "inverter" THEN \/ pdu.point = "pct" /\ pdu.value \in 0 .. Rated
                                            \/ pdu.point = "ena" /\ pdu.value \in BOOLEAN
                                       ELSE pdu.point = "relay" /\ pdu.value \in BOOLEAN

Lag == Len(toClient) + Len(toDevice)

(* What is under way bears the latest numbers, one after the other, and      *)
(* there is no more of it than timeouts account for.                         *)
Wire ==
    /\ toClient \in Seq(Reply) /\ toDevice \in Seq(Query)
    /\ \A i \in 1 .. Len(toClient) : toClient[i].no = sent - Lag + i
    /\ \A i \in 1 .. Len(toDevice) : toDevice[i].no = sent - Len(toDevice) + i /\ Sound(toDevice[i].pdu)
    /\ Lag <= tcpSpells + 1 /\ (holder = None => Lag <= tcpSpells)
    /\ ~tcp => Lag = 0

\* The last request is that of the thread that waits, and if it was carried out, it shows.
Done(r) ==
    /\ r.read => toClient[Len(toClient)].power # None
    /\ ~r.read => points[r.point] = r.value
Waited ==
    holder # None =>
      /\ todo[holder] # << >>
      /\ tcp => /\ Lag >= 1
                /\ toDevice # << >> => toDevice[Len(toDevice)].pdu = Head(todo[holder])
                /\ toDevice = << >> => Done(Head(todo[holder]))

\* This was written, and nothing under way overwrites it.
Stands(w) ==
    /\ points[w.point] = w.value
    /\ \A i \in 1 .. Len(toDevice) :
          ~toDevice[i].pdu.read /\ toDevice[i].pdu.point = w.point => toDevice[i].pdu.value = w.value

Executable(c) == c \in M!Commands /\ c.type \in M!supported_commands /\ c.type # "read_only"

\* Of the order in hand, the writes that are not to do any more stand.
InProgress ==
    todo["command"] # << >> =>
      /\ outcome = None /\ Executable(asked)
      /\ \/ todo["command"] = M!Writes(asked)
         \/ todo["command"] = Tail(M!Writes(asked)) /\ Stands(M!Writes(asked)[1])

\* What a reading shows after the order was carried out.
Shows(c, power) ==
    CASE c.type \in {"set_limit", "curtail"} -> power <= c.limit
      [] c.type = "remote_disconnect" -> power = 0
      [] OTHER -> TRUE
Acked == outcome # None /\ outcome.status = "ACKED" /\ asked.type # "read_only"
Stand ==
    Acked =>
      /\ todo["command"] = << >> /\ Executable(asked)
      /\ \A i \in DOMAIN M!Writes(asked) : Stands(M!Writes(asked)[i])
      /\ \A i \in 1 .. Len(toClient) : toClient[i].no > outcome.sent /\ toClient[i].power # None => Shows(asked, toClient[i].power)
      /\ reading # None /\ reading.no > outcome.sent => Shows(asked, reading.power)

ModbusInv ==
    /\ device \in {"inverter", "meter"} /\ points \in Registers /\ tcp \in BOOLEAN
    /\ holder \in Threads \union {None} /\ sent \in Nat /\ tcpSpells \in 0 .. MaxSpells
    /\ todo \in [Threads -> Seq(Request)] /\ todo["poll"] \in {<< >>, <<M!ReadHolding>>}
    /\ outcome # None => outcome.status \in {"ACKED", "FAILED"} /\ outcome.sent \in Nat /\ outcome.sent <= sent
    /\ reading # None => reading.no \in Nat /\ reading.no <= sent /\ reading.power \in 0 .. Rated
    /\ Wire /\ Waited /\ InProgress /\ Stand

(* The registers that an order writes, and what they make of the power.      *)
LimitsTo(c, pct, ena) ==
    /\ M!Writes(c) = <<M!WriteRegister("pct", pct), M!WriteRegister("ena", ena)>>
    /\ c.type \in {"set_limit", "curtail"} => ena = TRUE /\ pct <= c.limit /\ c.limit \in Nat
    /\ c.type # "remote_disconnect"

LEMMA WritesOfOrder ==
    ASSUME FieldAssumption, NEW c \in M!Commands, device \in {"inverter", "meter"}, Executable(c)
    PROVE  /\ device = "inverter" =>
                \E pct \in 0 .. Rated, ena \in BOOLEAN : LimitsTo(c, pct, ena)
           /\ device = "meter" =>
                \E relay \in BOOLEAN :
                   /\ M!Writes(c) = <<M!WriteRegister("relay", relay)>>
                   /\ c.type = "remote_disconnect" => relay = FALSE
                   /\ c.type \notin {"set_limit", "curtail"}
<1>0. Rated \in Nat
  BY DEF FieldAssumption, M!ModbusAssumption
<1>1. CASE device = "inverter"
  <2>1. c.type \in {"set_limit", "curtail", "resume"} /\ M!Writes(c) = M!InverterWrites(c)
    BY <1>1 DEF Executable, M!supported_commands, M!Writes
  <2>2. CASE c.type = "resume"
    <3>1. LimitsTo(c, Rated, FALSE)
      BY <2>1, <2>2 DEF LimitsTo, M!InverterWrites, M!LimitWrites
    <3>2. Rated \in 0 .. Rated /\ device # "meter"
      BY <1>0, <1>1
    <3>3. \E pct \in 0 .. Rated, ena \in BOOLEAN : LimitsTo(c, pct, ena)
      BY <3>1, <3>2, Zenon
    <3> QED  BY <3>2, <3>3
  <2>3. CASE c.type # "resume"
    <3>1. c.limit \in 0 .. Rated + 1
      <4>1. c \in [type : {"set_limit", "curtail"}, limit : M!Limits] \union {[type |-> "resume"], [type |-> "remote_connect"]}
        BY <1>1 DEF Executable, M!Commands
      <4> QED  BY <2>1, <2>3, <4>1 DEF M!Limits
    <3>2. PICK pct \in 0 .. Rated : pct = M!Low(c.limit, Rated) /\ pct <= c.limit
      BY <1>0, <3>1 DEF M!Low
    <3>3. M!Writes(c) = <<M!WriteRegister("pct", pct), M!WriteRegister("ena", TRUE)>>
      BY <2>1, <2>3, <3>2 DEF M!InverterWrites, M!LimitWrites
    <3>4. LimitsTo(c, pct, TRUE)
      BY <1>0, <2>1, <3>1, <3>2, <3>3 DEF LimitsTo
    <3> QED  BY <1>1, <3>4
  <2> QED  BY <2>2, <2>3
<1>2. CASE device = "meter"
  <2>1. c.type \in {"remote_disconnect", "remote_connect"} /\ M!Writes(c) = <<M!WriteRegister("relay", c.type = "remote_connect")>>
    BY <1>2 DEF Executable, M!supported_commands, M!Writes, M!MeterWrites
  <2> QED  BY <1>2, <2>1
<1> QED  BY <1>1, <1>2

LEMMA WritesAre ==
    ASSUME FieldAssumption, NEW c \in M!Commands, device \in {"inverter", "meter"}, Executable(c)
    PROVE  /\ M!Writes(c) \in Seq(Request) /\ Len(M!Writes(c)) \in {1, 2}
           /\ \A i \in 1 .. Len(M!Writes(c)) :
                 M!Writes(c)[i].read = FALSE /\ Sound(M!Writes(c)[i])
           /\ Len(M!Writes(c)) = 2 => M!Writes(c)[1].point # M!Writes(c)[2].point
<1>1. CASE device = "inverter"
  <2>1. PICK pct \in 0 .. Rated, ena \in BOOLEAN : M!Writes(c) = <<M!WriteRegister("pct", pct), M!WriteRegister("ena", ena)>>
    BY <1>1, WritesOfOrder DEF LimitsTo
  <2>2. PICK a, b : a = M!WriteRegister("pct", pct) /\ b = M!WriteRegister("ena", ena)
    OBVIOUS
  <2>3. /\ a \in Request /\ b \in Request /\ a.read = FALSE /\ b.read = FALSE /\ a.point # b.point
        /\ Sound(a) /\ Sound(b)
    BY <1>1, <2>2 DEF Request, Sound, M!WriteRegister
  <2>4. M!Writes(c) = <<a, b>>
    BY <2>1, <2>2
  <2>5. <<a, b>> \in Seq(Request) /\ Len(<<a, b>>) = 2 /\ <<a, b>>[1] = a /\ <<a, b>>[2] = b
    BY <2>3
  <2> QED  BY <2>3, <2>4, <2>5
<1>2. CASE device = "meter"
  <2>1. PICK relay \in BOOLEAN : M!Writes(c) = <<M!WriteRegister("relay", relay)>>
    BY <1>2, WritesOfOrder
  <2>2. PICK a : a = M!WriteRegister("relay", relay)
    OBVIOUS
  <2>3. a \in Request /\ a.read = FALSE /\ Sound(a)
    BY <1>2, <2>2 DEF Request, Sound, M!WriteRegister
  <2>4. M!Writes(c) = <<a>>
    BY <2>1, <2>2
  <2> QED  BY <2>3, <2>4
<1> QED  BY <1>1, <1>2

LEMMA OrderShows ==
    ASSUME FieldAssumption, NEW c \in M!Commands, device \in {"inverter", "meter"}, Executable(c), points \in Registers,
           \A i \in DOMAIN M!Writes(c) : Stands(M!Writes(c)[i]), NEW available \in 0 .. Rated
    PROVE  Shows(c, M!Power(available)) /\ M!Power(available) \in 0 .. Rated
<1>0. Rated \in Nat
  BY DEF FieldAssumption, M!ModbusAssumption
<1>1. CASE device = "inverter"
  <2>1. PICK pct \in 0 .. Rated, ena \in BOOLEAN : LimitsTo(c, pct, ena)
    BY <1>1, WritesOfOrder
  <2>2. Stands(M!WriteRegister("pct", pct)) /\ Stands(M!WriteRegister("ena", ena))
    BY <2>1 DEF LimitsTo
  <2>3. points \in [pct : 0 .. Rated, ena : BOOLEAN] /\ points.pct = pct /\ points.ena = ena
    BY <1>1, <2>2 DEF Registers, Stands, M!WriteRegister
  <2> QED  BY <1>0, <1>1, <2>1, <2>3 DEF LimitsTo, Shows, M!Power, M!InverterPower, M!Low
<1>2. CASE device = "meter"
  <2>1. PICK relay \in BOOLEAN :
           /\ M!Writes(c) = <<M!WriteRegister("relay", relay)>>
           /\ c.type = "remote_disconnect" => relay = FALSE
           /\ c.type \notin {"set_limit", "curtail"}
    BY <1>2, WritesOfOrder
  <2>2. Stands(M!WriteRegister("relay", relay))
    BY <2>1
  <2>3. points \in [relay : BOOLEAN] /\ points.relay = relay
    BY <1>2, <2>2 DEF Registers, Stands, M!WriteRegister
  <2> QED  BY <1>0, <1>2, <2>1, <2>3 DEF Shows, M!Power, M!MeterPower
<1> QED  BY <1>1, <1>2

LEMMA ModbusInit == ASSUME FieldAssumption, M!Init PROVE ModbusInv
<1>0. Rated \in Nat /\ TcpStarts \subseteq Nat /\ MaxSpells \in Nat
  BY DEF FieldAssumption, M!ModbusAssumption
<1>1. /\ toDevice = << >> /\ toClient = << >> /\ Len(<< >>) = 0
      /\ << >> \in Seq(Reply) /\ << >> \in Seq(Query) /\ << >> \in Seq(Request)
  BY DEF M!Init
<1>2. todo \in [Threads -> Seq(Request)] /\ todo["poll"] = << >> /\ todo["command"] = << >>
  BY <1>1 DEF M!Init, Threads
<1>3. points \in Registers
  <2>1. CASE device = "inverter"
    BY <1>0, <2>1 DEF M!Init, Registers
  <2>2. CASE device # "inverter"
    BY <1>0, <2>2 DEF M!Init, Registers
  <2> QED  BY <2>1, <2>2
<1> QED
  BY <1>0, <1>1, <1>2, <1>3 DEF M!Init, ModbusInv, Wire, Lag, Waited, InProgress, Stand, Acked

(* Two transactions that are not too far apart have ids of their own.        *)
LEMMA IdsDiffer ==
    ASSUME NEW a \in Nat, NEW b \in Nat, a <= b, b - a < 65536, a % 65536 = b % 65536
    PROVE  a = b
OBVIOUS

(* Sequences of one and of two elements.                                     *)
LEMMA OneIsShort ==
    ASSUME NEW S, NEW w \in Seq(S), Len(w) = 1
    PROVE  Head(w) = w[1] /\ Tail(w) = << >>
<1>1. Tail(w) \in Seq(S) /\ Len(Tail(w)) = 0
  BY HeadTailProperties
<1>2. Tail(w) = << >>
  BY <1>1, SeqEqual
<1> QED  BY <1>2

LEMMA TwoAreShort ==
    ASSUME NEW S, NEW w \in Seq(S), Len(w) = 2
    PROVE  Head(Tail(w)) = w[2] /\ Tail(Tail(w)) = << >>
<1>0. w # << >>
  OBVIOUS
<1>1. Tail(w) \in Seq(S) /\ Len(Tail(w)) = 1 /\ \A i \in 1 .. Len(Tail(w)) : Tail(w)[i] = w[i + 1]
  BY <1>0, HeadTailProperties
<1>2. Tail(w)[1] = w[2]
  BY <1>1
<1>3. Head(Tail(w)) = Tail(w)[1] /\ Tail(Tail(w)) = << >>
  BY <1>1, OneIsShort
<1> QED  BY <1>2, <1>3

LEMMA PowerIs ==
    ASSUME FieldAssumption, device \in {"inverter", "meter"}, points \in Registers, NEW available \in 0 .. Rated
    PROVE  M!Power(available) \in 0 .. Rated
<1>1. Rated \in Nat
  BY DEF FieldAssumption, M!ModbusAssumption
<1> QED
  BY <1>1 DEF Registers, M!Power, M!InverterPower, M!MeterPower, M!Low

LEMMA ModbusStep == ASSUME FieldAssumption, ModbusInv, M!Next PROVE ModbusInv'
<1>0. /\ device \in {"inverter", "meter"} /\ points \in Registers /\ tcp \in BOOLEAN
      /\ holder \in Threads \union {None} /\ sent \in Nat /\ tcpSpells \in 0 .. MaxSpells
      /\ todo \in [Threads -> Seq(Request)] /\ todo["poll"] \in {<< >>, <<M!ReadHolding>>}
      /\ outcome # None => outcome.status \in {"ACKED", "FAILED"} /\ outcome.sent \in Nat /\ outcome.sent <= sent
      /\ reading # None => reading.no \in Nat /\ reading.no <= sent /\ reading.power \in 0 .. Rated
      /\ Wire /\ Waited /\ InProgress /\ Stand
  BY DEF ModbusInv
<1>a. Rated \in Nat /\ MaxSpells \in Nat /\ MaxSpells < 65536 /\ None \notin Threads /\ None \notin 0 .. Rated
  BY DEF FieldAssumption, M!ModbusAssumption, Threads
<1>b. /\ toClient \in Seq(Reply) /\ toDevice \in Seq(Query) /\ Len(toClient) \in Nat /\ Len(toDevice) \in Nat
      /\ \A i \in 1 .. Len(toClient) : toClient[i].no = sent - Lag + i
      /\ \A i \in 1 .. Len(toDevice) : toDevice[i].no = sent - Len(toDevice) + i /\ Sound(toDevice[i].pdu)
      /\ Lag <= tcpSpells + 1 /\ (holder = None => Lag <= tcpSpells) /\ (~tcp => Lag = 0)
      /\ Lag = Len(toClient) + Len(toDevice) /\ Lag \in Nat /\ tcpSpells \in Nat
  <2>1. toClient \in Seq(Reply) /\ toDevice \in Seq(Query)
    BY <1>0 DEF Wire
  <2>2. Len(toClient) \in Nat /\ Len(toDevice) \in Nat /\ Lag = Len(toClient) + Len(toDevice)
    BY <2>1 DEF Lag
  <2>3. Lag \in Nat /\ tcpSpells \in Nat
    BY <1>0, <1>a, <2>2
  <2> QED  BY <1>0, <2>1, <2>2, <2>3 DEF Wire
<1>c. device' = device
  BY DEF M!Next, M!Execute, M!Poll, M!Send, M!Dispatch, M!Receive, M!RecvFails, M!Closes
<1>d. asked' = asked =>
        /\ M!Writes(asked)' = M!Writes(asked) /\ (Executable(asked)' <=> Executable(asked))
        /\ \A p : Shows(asked, p)' <=> Shows(asked, p)
  BY <1>c DEF M!Writes, M!InverterWrites, M!MeterWrites, M!LimitWrites, M!WriteRegister, M!Low, Executable,
              M!Commands, M!supported_commands, M!Limits, Shows
<1>e. "poll" \in Threads /\ "command" \in Threads /\ Threads = {"poll", "command"} /\ "poll" # "command"
  BY DEF Threads
<1>f. Registers' = Registers
  BY <1>c DEF Registers
<1>1. CASE M!Execute
  <2>1. /\ todo["command"] = << >>
        /\ UNCHANGED <<device, points, tcp, holder, sent, toDevice, toClient, reading, polls, tcpSpells>>
    BY <1>1 DEF M!Execute, M!wire
  <2>2. PICK c \in M!Commands :
          /\ asked' = c
          /\ \/ outcome' = M!Ack("FAILED") /\ todo' = todo
             \/ c.type = "read_only" /\ outcome' = M!Ack("ACKED") /\ todo' = todo
             \/ /\ c.type \in M!supported_commands /\ c.type # "read_only"
                /\ outcome' = None /\ todo' = [todo EXCEPT !["command"] = M!Writes(c)]
    BY <1>1 DEF M!Execute
  <2>3. holder # "command"
    BY <1>0, <1>a, <1>e, <2>1 DEF Waited
  <2>4. Wire' /\ (outcome' # None => outcome'.status \in {"ACKED", "FAILED"} /\ outcome'.sent \in Nat /\ outcome'.sent <= sent)
    BY <1>0, <1>c, <2>1, <2>2 DEF Wire, Lag, Sound, M!Ack
  <2>5. CASE todo' = todo
    <3>1. Waited' /\ InProgress'
      BY <1>0, <2>1, <2>5 DEF Waited, InProgress, Lag, Done
    <3>2. CASE outcome' = M!Ack("FAILED")
      BY <1>0, <1>f, <2>1, <2>4, <2>5, <3>1, <3>2 DEF ModbusInv, Stand, Acked, M!Ack
    <3>3. CASE asked'.type = "read_only"
      BY <1>0, <1>f, <2>1, <2>4, <2>5, <3>1, <3>3 DEF ModbusInv, Stand, Acked
    <3>4. CASE outcome' = None
      BY <1>0, <1>f, <2>1, <2>4, <2>5, <3>1, <3>4 DEF ModbusInv, Stand, Acked
    <3> QED  BY <2>2, <3>2, <3>3, <3>4
  <2>6. CASE todo' # todo
    <3>1. /\ asked' = c /\ c.type \in M!supported_commands /\ c.type # "read_only"
          /\ outcome' = None /\ todo' = [todo EXCEPT !["command"] = M!Writes(c)]
      BY <2>2, <2>6
    <3>2. Executable(c) /\ Executable(asked)'
      BY <1>c, <2>2, <3>1 DEF Executable, M!Commands, M!supported_commands, M!Limits
    <3>3. M!Writes(asked)' = M!Writes(c)
      BY <1>c, <3>1 DEF M!Writes, M!InverterWrites, M!MeterWrites, M!LimitWrites, M!WriteRegister, M!Low
    <3>4. M!Writes(c) \in Seq(Request)
      BY <1>0, <3>2, WritesAre
    <3>5. /\ todo' \in [Threads -> Seq(Request)] /\ todo'["command"] = M!Writes(c) /\ todo'["poll"] = todo["poll"]
      BY <1>0, <1>e, <3>1, <3>4
    <3>6. Waited'
      BY <1>0, <1>e, <2>1, <2>3, <3>5 DEF Waited, Lag, Done
    <3>7. InProgress' /\ Stand'
      BY <3>1, <3>2, <3>3, <3>5 DEF InProgress, Stand, Acked
    <3> QED  BY <1>0, <1>f, <2>1, <2>4, <3>5, <3>6, <3>7 DEF ModbusInv
  <2> QED  BY <2>5, <2>6
<1>2. CASE M!Poll
  <2>1. /\ todo["poll"] = << >> /\ todo' = [todo EXCEPT !["poll"] = <<M!ReadHolding>>]
        /\ UNCHANGED <<device, points, tcp, holder, sent, toDevice, toClient, asked, outcome, reading, tcpSpells>>
    BY <1>2 DEF M!Poll, M!wire
  <2>2. M!ReadHolding \in Request
    BY DEF M!ReadHolding, Request
  <2>3. todo' \in [Threads -> Seq(Request)] /\ todo'["poll"] = <<M!ReadHolding>> /\ todo'["command"] = todo["command"]
    BY <1>0, <1>e, <2>1, <2>2
  <2>4. holder # "poll"
    BY <1>0, <1>a, <1>e, <2>1 DEF Waited
  <2>5. Wire' /\ Waited'
    BY <1>0, <1>c, <1>e, <2>1, <2>3, <2>4 DEF Wire, Waited, Lag, Done, Sound
  <2>6. InProgress' /\ Stand'
    BY <1>0, <1>d, <2>1, <2>3 DEF InProgress, Stand, Acked, Stands
  <2> QED  BY <1>0, <1>f, <2>1, <2>3, <2>5, <2>6 DEF ModbusInv
<1>3. ASSUME NEW t \in Threads, M!Send(t), tcp PROVE ModbusInv'
  <2>1. /\ holder = None /\ todo[t] # << >> /\ sent' = sent + 1 /\ holder' = t
        /\ toDevice' = Append(toDevice, [no |-> sent + 1, pdu |-> Head(todo[t])])
        /\ UNCHANGED <<device, points, tcp, todo, outcome, toClient, asked, reading, tcpSpells>>
    BY <1>3 DEF M!Send
  <2>2. PICK pdu : pdu = Head(todo[t])
    OBVIOUS
  <2>3. pdu \in Request
    BY <1>0, <2>1, <2>2
  <2>4. /\ Sound(pdu)
        /\ t = "poll" => pdu.read
        /\ t = "command" /\ todo["command"] # M!Writes(asked) => pdu.point # M!Writes(asked)[1].point
    <3>1. CASE t = "poll"
      <4>1. todo[t] = <<M!ReadHolding>>
        BY <1>0, <2>1, <3>1
      <4>2. pdu = M!ReadHolding
        BY <2>2, <4>1
      <4>3. pdu.read
        BY <4>2 DEF M!ReadHolding
      <4> QED  BY <1>e, <3>1, <4>3 DEF Sound
    <3>2. CASE t = "command"
      <4>1. Executable(asked) /\ (todo[t] = M!Writes(asked) \/ todo[t] = Tail(M!Writes(asked)))
        BY <1>0, <2>1, <3>2 DEF InProgress
      <4>2. PICK w \in Seq(Request) : w = M!Writes(asked)
        BY <1>0, <4>1, WritesAre DEF Executable
      <4>3. /\ Len(w) \in {1, 2} /\ \A i \in 1 .. Len(w) : Sound(w[i])
            /\ Len(w) = 2 => w[1].point # w[2].point
        BY <1>0, <4>1, <4>2, WritesAre DEF Executable
      <4>4. CASE todo[t] = w
        <5>1. pdu = w[1]
          BY <2>1, <2>2, <4>4
        <5> QED  BY <1>e, <3>2, <4>2, <4>3, <4>4, <5>1
      <4>5. CASE todo[t] = Tail(w)
        <5>1. Len(w) = 2 /\ pdu = w[2]
          <6>1. Len(w) # 1
            BY <2>1, <4>2, <4>5
          <6> QED  BY <2>2, <4>2, <4>3, <4>5, <6>1
        <5> QED  BY <1>e, <3>2, <4>2, <4>3, <5>1
      <4> QED  BY <4>1, <4>2, <4>4, <4>5
    <3> QED  BY <1>e, <3>1, <3>2
  <2>5. /\ toDevice' \in Seq(Query) /\ Len(toDevice') = Len(toDevice) + 1
        /\ \A i \in 1 .. Len(toDevice) : toDevice'[i] = toDevice[i]
        /\ toDevice'[Len(toDevice) + 1].no = sent + 1 /\ toDevice'[Len(toDevice) + 1].pdu = pdu
    <3>1. PICK f : f = [no |-> sent + 1, pdu |-> pdu]
      OBVIOUS
    <3>2. f \in Query /\ f.no = sent + 1 /\ f.pdu = pdu
      BY <1>0, <2>3, <3>1 DEF Query
    <3>3. toDevice' = Append(toDevice, f)
      BY <2>1, <2>2, <3>1
    <3> QED  BY <1>b, <3>2, <3>3
  <2>6. Lag' = Lag + 1
    BY <1>b, <2>1, <2>5 DEF Lag
  <2>7. Wire'
    <3>0. sent \in Nat /\ Lag \in Nat /\ Len(toDevice) \in Nat /\ sent' - Lag' = sent - Lag
          /\ sent' - Len(toDevice') = sent - Len(toDevice)
      BY <1>0, <1>b, <2>1, <2>5, <2>6
    <3>1. ASSUME NEW i \in 1 .. Len(toClient') PROVE toClient'[i].no = sent' - Lag' + i
      <4>1. i \in 1 .. Len(toClient) /\ toClient'[i] = toClient[i]
        BY <2>1, <3>1
      <4>2. toClient[i].no = sent - Lag + i
        BY <1>b, <4>1
      <4> QED  BY <3>0, <4>1, <4>2
    <3>2. ASSUME NEW i \in 1 .. Len(toDevice') PROVE toDevice'[i].no = sent' - Len(toDevice') + i /\ Sound(toDevice'[i].pdu)
      <4>1. CASE i = Len(toDevice) + 1
        <5>1. toDevice'[i].no = sent + 1 /\ toDevice'[i].pdu = pdu
          BY <2>5, <4>1
        <5>2. sent' - Len(toDevice') + i = sent + 1
          BY <3>0, <4>1
        <5> QED  BY <2>4, <5>1, <5>2
      <4>2. CASE i # Len(toDevice) + 1
        <5>1. i \in 1 .. Len(toDevice)
          BY <1>b, <2>5, <3>2, <4>2
        <5>2. toDevice'[i] = toDevice[i] /\ toDevice[i].no = sent - Len(toDevice) + i /\ Sound(toDevice[i].pdu)
          BY <1>b, <2>5, <5>1
        <5> QED  BY <3>0, <5>1, <5>2
      <4> QED  BY <4>1, <4>2
    <3>3. Lag' <= tcpSpells' + 1 /\ holder' # None
      BY <1>a, <1>b, <2>1, <2>6
    <3>4. tcp' /\ toClient' \in Seq(Reply) /\ toDevice' \in Seq(Query)
      BY <1>3, <1>b, <2>1, <2>5
    <3> QED  BY <1>c, <3>1, <3>2, <3>3, <3>4 DEF Wire, Sound
  <2>8. Waited'
    <3>1. toDevice' # << >>
      <4>1. Len(toDevice') # Len(<< >>)
        BY <1>b, <2>5
      <4> QED  BY <4>1
    <3> QED  BY <1>b, <2>1, <2>2, <2>5, <2>6, <3>1 DEF Waited
  <2>9. \A w : Stands(w) /\ (pdu.read \/ pdu.point # w.point) => Stands(w)'
    <3>1. SUFFICES ASSUME NEW w, Stands(w), pdu.read \/ pdu.point # w.point PROVE Stands(w)'
      OBVIOUS
    <3>2. ASSUME NEW i \in 1 .. Len(toDevice'), ~toDevice'[i].pdu.read, toDevice'[i].pdu.point = w.point
          PROVE  toDevice'[i].pdu.value = w.value
      <4>1. i # Len(toDevice) + 1
        BY <2>5, <3>1, <3>2
      <4>2. i \in 1 .. Len(toDevice)
        BY <1>b, <2>5, <3>2, <4>1
      <4> QED  BY <2>5, <3>1, <3>2, <4>2 DEF Stands
    <3> QED  BY <2>1, <3>1, <3>2 DEF Stands
  <2>10. InProgress'
    <3>1. CASE todo["command"] # << >> /\ todo["command"] # M!Writes(asked)
      <4>1. Executable(asked) /\ Stands(M!Writes(asked)[1]) /\ todo["command"] = Tail(M!Writes(asked)) /\ outcome = None
        BY <1>0, <3>1 DEF InProgress
      <4>2. pdu.read \/ pdu.point # M!Writes(asked)[1].point
        BY <1>e, <2>4, <3>1
      <4>3. PICK w : w = M!Writes(asked)[1]
        OBVIOUS
      <4>4. Stands(w)'
        BY <2>9, <4>1, <4>2, <4>3
      <4>5. w = (M!Writes(asked)[1])'
        BY <1>d, <2>1, <4>3
      <4>6. Stands(M!Writes(asked)[1])'
        BY <4>4, <4>5 DEF Stands
      <4> QED  BY <1>d, <2>1, <4>1, <4>6, SMTT(30) DEF InProgress
    <3>2. CASE ~(todo["command"] # << >> /\ todo["command"] # M!Writes(asked))
      BY <1>0, <1>d, <2>1, <3>2 DEF InProgress
    <3> QED  BY <3>1, <3>2
  <2>11. Stand'
    <3>1. SUFFICES ASSUME Acked PROVE Stand'
      BY <2>1 DEF Stand, Acked
    <3>2. pdu.read
      BY <1>0, <1>e, <2>1, <2>4, <3>1 DEF Stand
    <3>3. PICK w : w = M!Writes(asked)
      OBVIOUS
    <3>4. \A i \in DOMAIN w : Stands(w[i])
      BY <1>0, <3>1, <3>3 DEF Stand
    <3>5. \A i \in DOMAIN w : Stands(w[i])'
      BY <2>9, <3>2, <3>4
    <3>6. M!Writes(asked)' = w /\ Executable(asked)'
      BY <1>0, <1>d, <2>1, <3>1, <3>3 DEF Stand
    <3>7. \A i \in DOMAIN M!Writes(asked)' : Stands(M!Writes(asked)[i])'
      BY <3>5, <3>6 DEF Stands
    <3> QED  BY <1>0, <1>d, <2>1, <3>1, <3>6, <3>7 DEF Stand
  <2>12. sent' \in Nat /\ sent <= sent'
    BY <1>0, <2>1
  <2>13. /\ outcome' # None => outcome'.status \in {"ACKED", "FAILED"} /\ outcome'.sent \in Nat /\ outcome'.sent <= sent'
         /\ reading' # None => reading'.no \in Nat /\ reading'.no <= sent' /\ reading'.power \in 0 .. Rated
    BY <1>0, <2>1
  <2> QED  BY <1>0, <1>f, <2>1, <2>7, <2>8, <2>10, <2>11, <2>12, <2>13 DEF ModbusInv
(* A call raises, and its thread does not wait any more.                     *)
<1>4. ASSUME NEW t \in Threads, M!Raises(t), todo[t] # << >>, holder \in {None, t}, holder' = None,
             toClient' \in {toClient, Tail(toClient)}, toClient' # toClient => toClient # << >> /\ holder = t, Lag' <= tcpSpells',
             tcpSpells' \in 0 .. MaxSpells,
             UNCHANGED <<device, points, tcp, sent, toDevice, asked, reading>>
      PROVE  ModbusInv'
  <2>1. /\ todo' \in [Threads -> Seq(Request)] /\ todo'[t] = << >>
        /\ \A u \in Threads : u # t => todo'[u] = todo[u]
        /\ outcome' = (IF t = "command" THEN M!Ack("FAILED") ELSE outcome)
    <3>1. << >> \in Seq(Request)
      OBVIOUS
    <3> QED  BY <1>0, <1>4, <3>1 DEF M!Raises
  <2>2. todo'["poll"] \in {<< >>, <<M!ReadHolding>>}
    BY <1>0, <1>e, <2>1
  <2>3. outcome' # None => outcome'.status \in {"ACKED", "FAILED"} /\ outcome'.sent \in Nat /\ outcome'.sent <= sent
    BY <1>0, <2>1 DEF M!Ack
  <2>4. /\ toClient' \in Seq(Reply) /\ Len(toClient') \in Nat
        /\ \E d \in {0, 1} : /\ Len(toClient') = Len(toClient) - d
                             /\ \A i \in 1 .. Len(toClient') : toClient'[i] = toClient[i + d]
    <3>1. CASE toClient' = toClient
      BY <1>b, <3>1
    <3>2. CASE toClient' = Tail(toClient) /\ toClient # << >>
      <4>1. /\ Tail(toClient) \in Seq(Reply) /\ Len(Tail(toClient)) = Len(toClient) - 1
            /\ \A i \in 1 .. Len(Tail(toClient)) : Tail(toClient)[i] = toClient[i + 1]
        BY <1>b, <3>2, HeadTailProperties
      <4> QED  BY <1>b, <3>2, <4>1
    <3> QED  BY <1>4, <3>1, <3>2
  <2>5. PICK d \in {0, 1} : Len(toClient') = Len(toClient) - d /\ \A i \in 1 .. Len(toClient') : toClient'[i] = toClient[i + d]
    BY <2>4
  <2>6. Lag' = Lag - d
    BY <1>4, <1>b, <2>4, <2>5 DEF Lag
  <2>7. Wire'
    <3>1. \A i \in 1 .. Len(toClient') : toClient'[i].no = sent' - Lag' + i
      <4>1. ASSUME NEW i \in 1 .. Len(toClient') PROVE toClient'[i].no = sent' - Lag' + i
        <5>1. i + d \in 1 .. Len(toClient) /\ toClient'[i] = toClient[i + d]
          BY <1>b, <2>4, <2>5
        <5>2. toClient[i + d].no = sent - Lag + (i + d)
          BY <1>b, <5>1
        <5>3. sent' = sent /\ sent \in Nat /\ Lag \in Nat /\ d \in Nat /\ i \in Nat
          BY <1>0, <1>4, <1>b
        <5> QED  BY <2>6, <5>1, <5>2, <5>3
      <4> QED  BY <4>1
    <3>2. \A i \in 1 .. Len(toDevice') : toDevice'[i].no = sent' - Len(toDevice') + i /\ Sound(toDevice'[i].pdu)
      BY <1>4, <1>b
    <3>3. ~tcp' => Lag' = 0
      <4>1. Lag' \in Nat
        BY <1>4, <1>b, <2>4 DEF Lag
      <4> QED  BY <1>4, <1>b, <2>6, <4>1
    <3>4. Lag' <= tcpSpells' + 1 /\ Lag' <= tcpSpells'
      <4>1. tcpSpells' \in Nat /\ Lag' \in Nat
        BY <1>4, <1>a, <1>b, <2>4 DEF Lag
      <4> QED  BY <1>4, <4>1
    <3>5. toClient' \in Seq(Reply) /\ toDevice' \in Seq(Query)
      BY <1>4, <1>b, <2>4
    <3> QED  BY <1>c, <3>1, <3>2, <3>3, <3>4, <3>5 DEF Wire, Sound
  <2>8. Waited'
    BY <1>4 DEF Waited
  <2>9. \A w : Stands(w) => Stands(w)'
    BY <1>4 DEF Stands
  <2>10. InProgress'
    <3>1. CASE t = "command"
      BY <2>1, <3>1 DEF InProgress
    <3>2. CASE t = "poll"
      <4>1. todo'["command"] = todo["command"] /\ outcome' = outcome
        BY <1>e, <2>1, <3>2
      <4> QED  BY <1>0, <1>4, <1>d, <2>9, <4>1 DEF InProgress, Stands
    <3> QED  BY <1>e, <3>1, <3>2
  <2>11. Stand'
    <3>1. CASE t = "command"
      BY <2>1, <3>1 DEF Stand, Acked, M!Ack
    <3>2. CASE t = "poll"
      <4>1. todo'["command"] = todo["command"] /\ outcome' = outcome
        BY <1>e, <2>1, <3>2
      <4>2. SUFFICES ASSUME Acked PROVE Stand'
        BY <1>4, <4>1 DEF Stand, Acked
      <4>3. PICK w : w = M!Writes(asked)
        OBVIOUS
      <4>4. \A i \in DOMAIN w : Stands(w[i])
        BY <1>0, <4>2, <4>3 DEF Stand
      <4>5. \A i \in DOMAIN w : Stands(w[i])'
        BY <2>9, <4>4
      <4>6. M!Writes(asked)' = w /\ Executable(asked)'
        BY <1>0, <1>4, <1>d, <4>2, <4>3 DEF Stand
      <4>7. \A i \in DOMAIN M!Writes(asked)' : Stands(M!Writes(asked)[i])'
        BY <4>5, <4>6 DEF Stands
      <4>8. \A i \in 1 .. Len(toClient') : toClient'[i].no > outcome.sent /\ toClient'[i].power # None => Shows(asked, toClient'[i].power)
        <5>1. ASSUME NEW i \in 1 .. Len(toClient') PROVE i + d \in 1 .. Len(toClient) /\ toClient'[i] = toClient[i + d]
          BY <1>b, <2>4, <2>5
        <5> QED  BY <1>0, <4>2, <5>1 DEF Stand
      <4> QED  BY <1>0, <1>4, <1>d, <4>1, <4>2, <4>6, <4>7, <4>8 DEF Stand
    <3> QED  BY <1>e, <3>1, <3>2
  <2> QED  BY <1>0, <1>4, <1>f, <2>1, <2>2, <2>3, <2>7, <2>8, <2>10, <2>11 DEF ModbusInv
<1>5. ASSUME NEW t \in Threads, M!Send(t), ~tcp PROVE ModbusInv'
  <2>1. /\ holder = None /\ todo[t] # << >> /\ M!Raises(t)
        /\ UNCHANGED <<device, points, tcp, holder, sent, toDevice, toClient, asked, reading, tcpSpells>>
    BY <1>5 DEF M!Send
  <2>2. Lag' <= tcpSpells' /\ tcpSpells' \in 0 .. MaxSpells
    BY <1>0, <1>5, <1>a, <1>b, <2>1 DEF Lag
  <2> QED  BY <1>4, <2>1, <2>2
<1>6. CASE M!RecvFails
  <2>1. /\ holder # None /\ toClient = << >> /\ holder' = None /\ M!Raises(holder)
        /\ IF tcp THEN tcpSpells < MaxSpells /\ tcpSpells' = tcpSpells + 1 ELSE tcpSpells' = tcpSpells
        /\ UNCHANGED <<device, points, tcp, sent, toDevice, toClient, asked, reading>>
    BY <1>6 DEF M!RecvFails
  <2>2. Lag' <= tcpSpells' /\ tcpSpells' \in 0 .. MaxSpells
    BY <1>0, <1>a, <1>b, <2>1 DEF Lag
  <2>3. holder \in Threads /\ todo[holder] # << >>
    BY <1>0, <2>1 DEF Waited
  <2> QED  BY <1>4, <2>1, <2>2, <2>3
<1>7. CASE M!Dispatch
  <2>1. /\ toDevice # << >> /\ toDevice' = Tail(toDevice)
        /\ UNCHANGED <<device, tcp, holder, sent, todo, asked, outcome, reading, tcpSpells>>
    BY <1>7 DEF M!Dispatch
  <2>2. PICK f : f = Head(toDevice)
    OBVIOUS
  <2>3. /\ Len(toDevice) >= 1 /\ f = toDevice[1] /\ toDevice' \in Seq(Query) /\ Len(toDevice') = Len(toDevice) - 1
        /\ \A i \in 1 .. Len(toDevice') : toDevice'[i] = toDevice[i + 1]
        /\ f \in Query
    <3>1. /\ Tail(toDevice) \in Seq(Query) /\ Len(Tail(toDevice)) = Len(toDevice) - 1
          /\ \A i \in 1 .. Len(Tail(toDevice)) : Tail(toDevice)[i] = toDevice[i + 1]
      BY <1>b, <2>1, HeadTailProperties
    <3>2. Len(toDevice) >= 1
      BY <1>b, <2>1
    <3>3. f = toDevice[1] /\ f \in Query
      BY <1>b, <2>1, <2>2, <3>2
    <3> QED  BY <2>1, <3>1, <3>2, <3>3
  <2>4. f.no = sent - Len(toDevice) + 1 /\ Sound(f.pdu) /\ f.pdu \in Request /\ f.no \in Nat
    BY <1>b, <2>3 DEF Query
  <2>5. PICK power \in (0 .. Rated) \union {None} :
          /\ toClient' = Append(toClient, [no |-> f.no, power |-> power])
          /\ \/ /\ f.pdu.read /\ points' = points /\ \E available \in 0 .. Rated : power = M!Power(available)
             \/ /\ ~f.pdu.read /\ power = None /\ points' = [points EXCEPT ![f.pdu.point] = f.pdu.value]
    <3>1. CASE f.pdu.read
      <4>1. PICK available \in 0 .. Rated :
              points' = points /\ toClient' = Append(toClient, [no |-> f.no, power |-> M!Power(available)])
        BY <1>7, <2>2, <3>1 DEF M!Dispatch
      <4>2. M!Power(available) \in 0 .. Rated
        BY <1>0, PowerIs
      <4> QED  BY <3>1, <4>1, <4>2
    <3>2. CASE ~f.pdu.read
      BY <1>7, <2>2, <3>2 DEF M!Dispatch
    <3> QED  BY <3>1, <3>2
  <2>6. f.pdu.read => power \in 0 .. Rated /\ power # None
    BY <1>0, <1>a, <2>5, PowerIs
  <2>7. /\ toClient' \in Seq(Reply) /\ Len(toClient') = Len(toClient) + 1
        /\ \A i \in 1 .. Len(toClient) : toClient'[i] = toClient[i]
        /\ toClient'[Len(toClient) + 1].no = f.no /\ toClient'[Len(toClient) + 1].power = power
    <3>1. PICK r : r = [no |-> f.no, power |-> power]
      OBVIOUS
    <3>2. r \in Reply /\ r.no = f.no /\ r.power = power
      BY <2>4, <2>5, <3>1 DEF Reply
    <3>3. toClient' = Append(toClient, r)
      BY <2>5, <3>1
    <3> QED  BY <1>b, <3>2, <3>3
  <2>8. Lag' = Lag /\ Lag >= 1 /\ tcp
    <3>1. Lag' = Lag /\ Lag >= 1
      BY <1>b, <2>3, <2>7 DEF Lag
    <3> QED  BY <1>b, <3>1
  <2>9. points' \in Registers
    <3>1. CASE device = "inverter"
      BY <1>0, <2>4, <2>5, <3>1 DEF Registers, Sound
    <3>2. CASE device # "inverter"
      BY <1>0, <2>4, <2>5, <3>2 DEF Registers, Sound
    <3> QED  BY <3>1, <3>2
  <2>10. Wire'
    <3>1. ASSUME NEW i \in 1 .. Len(toClient') PROVE toClient'[i].no = sent' - Lag' + i
      <4>1. CASE i = Len(toClient) + 1
        <5>1. toClient'[i].no = sent - Len(toDevice) + 1
          BY <2>4, <2>7, <4>1
        <5>2. sent - Lag + i = sent - Len(toDevice) + 1
          BY <1>0, <1>b, <4>1
        <5> QED  BY <2>1, <2>8, <5>1, <5>2
      <4>2. CASE i # Len(toClient) + 1
        <5>1. i \in 1 .. Len(toClient)
          BY <1>b, <2>7, <3>1, <4>2
        <5> QED  BY <1>b, <2>1, <2>7, <2>8, <5>1
      <4> QED  BY <4>1, <4>2
    <3>2. ASSUME NEW i \in 1 .. Len(toDevice') PROVE toDevice'[i].no = sent' - Len(toDevice') + i /\ Sound(toDevice'[i].pdu)
      <4>1. i + 1 \in 1 .. Len(toDevice) /\ toDevice'[i] = toDevice[i + 1]
        BY <1>b, <2>3, <3>2
      <4>2. toDevice[i + 1].no = sent - Len(toDevice) + (i + 1) /\ Sound(toDevice[i + 1].pdu)
        BY <1>b, <4>1
      <4>3. sent' - Len(toDevice') + i = sent - Len(toDevice) + (i + 1)
        BY <1>0, <1>b, <2>1, <2>3
      <4> QED  BY <4>1, <4>2, <4>3
    <3>3. Lag' <= tcpSpells' + 1 /\ (holder' = None => Lag' <= tcpSpells') /\ tcp'
      BY <1>b, <2>1, <2>8
    <3> QED  BY <1>c, <2>3, <2>7, <3>1, <3>2, <3>3 DEF Wire, Sound
  <2>11. Waited'
    <3>1. SUFFICES ASSUME holder # None PROVE Waited'
      BY <2>1 DEF Waited
    <3>2. /\ todo[holder] # << >> /\ toDevice[Len(toDevice)].pdu = Head(todo[holder])
      BY <1>0, <2>1, <2>8, <3>1 DEF Waited
    <3>3. CASE Len(toDevice) = 1
      <4>1. toDevice' = << >> /\ f.pdu = Head(todo[holder])
        BY <2>3, <3>2, <3>3
      <4>2. f.pdu.read => toClient'[Len(toClient')].power # None
        BY <2>6, <2>7
      <4>3. ~f.pdu.read => points'[f.pdu.point] = f.pdu.value
        <5>1. CASE device = "inverter"
          BY <1>0, <2>4, <2>5, <5>1 DEF Registers, Sound
        <5>2. CASE device # "inverter"
          BY <1>0, <2>4, <2>5, <5>2 DEF Registers, Sound
        <5> QED  BY <5>1, <5>2
      <4> QED  BY <1>b, <2>1, <2>8, <3>2, <4>1, <4>2, <4>3 DEF Waited, Done
    <3>4. CASE Len(toDevice) # 1
      <4>1. Len(toDevice') \in 1 .. Len(toDevice') /\ toDevice'[Len(toDevice')] = toDevice[Len(toDevice)] /\ toDevice' # << >>
        <5>1. Len(toDevice') \in 1 .. Len(toDevice') /\ Len(toDevice') # Len(<< >>)
          BY <1>b, <2>3, <3>4
        <5>2. toDevice'[Len(toDevice')] = toDevice[Len(toDevice)]
          BY <1>b, <2>3, <5>1
        <5> QED  BY <5>1, <5>2
      <4> QED  BY <1>b, <2>1, <2>8, <3>2, <4>1 DEF Waited
    <3> QED  BY <3>3, <3>4
  <2>12. ASSUME NEW w, w.read = FALSE, Sound(w), Stands(w) PROVE Stands(w)'
    <3>1. points'[w.point] = w.value
      <4>1. CASE ~f.pdu.read /\ f.pdu.point = w.point
        <5>1. f.pdu.value = w.value
          BY <1>b, <2>3, <2>12, <4>1 DEF Stands
        <5>2. w.point \in DOMAIN points
          BY <1>0, <2>12 DEF Sound, Registers
        <5> QED  BY <2>5, <4>1, <5>1, <5>2
      <4>2. CASE f.pdu.read
        BY <2>5, <2>12, <4>2 DEF Stands
      <4>3. CASE ~f.pdu.read /\ f.pdu.point # w.point
        <5>1. w.point \in DOMAIN points
          BY <1>0, <2>12 DEF Sound, Registers
        <5> QED  BY <2>5, <2>12, <4>3, <5>1 DEF Stands
      <4> QED  BY <4>1, <4>2, <4>3
    <3>2. ASSUME NEW i \in 1 .. Len(toDevice'), ~toDevice'[i].pdu.read, toDevice'[i].pdu.point = w.point
          PROVE  toDevice'[i].pdu.value = w.value
      <4>1. i + 1 \in 1 .. Len(toDevice) /\ toDevice'[i] = toDevice[i + 1]
        BY <1>b, <2>3, <3>2
      <4> QED  BY <2>12, <3>2, <4>1 DEF Stands
    <3> QED  BY <3>1, <3>2 DEF Stands
  <2>13. InProgress'
    <3>1. CASE todo["command"] # << >> /\ todo["command"] # M!Writes(asked)
      <4>1. Executable(asked) /\ Stands(M!Writes(asked)[1]) /\ todo["command"] = Tail(M!Writes(asked)) /\ outcome = None
        BY <1>0, <3>1 DEF InProgress
      <4>2. PICK w : w = M!Writes(asked)[1]
        OBVIOUS
      <4>3. w.read = FALSE /\ Sound(w) /\ Stands(w)
        <5>1. asked \in M!Commands
          BY <4>1 DEF Executable
        <5>2. /\ Len(M!Writes(asked)) \in {1, 2}
              /\ \A i \in 1 .. Len(M!Writes(asked)) : M!Writes(asked)[i].read = FALSE /\ Sound(M!Writes(asked)[i])
          BY <1>0, <4>1, <5>1, WritesAre
        <5> QED  BY <4>1, <4>2, <5>2
      <4>4. Stands(w)'
        BY <2>12, <4>3
      <4>5. M!Writes(asked)[1]' = w
        BY <1>d, <2>1, <4>2
      <4>6. Stands(M!Writes(asked)[1])'
        BY <4>4, <4>5 DEF Stands
      <4> QED  BY <1>d, <2>1, <4>1, <4>6 DEF InProgress
    <3>2. CASE ~(todo["command"] # << >> /\ todo["command"] # M!Writes(asked))
      BY <1>0, <1>d, <2>1, <3>2 DEF InProgress
    <3> QED  BY <3>1, <3>2
  <2>14. Stand'
    <3>1. SUFFICES ASSUME Acked PROVE Stand'
      BY <2>1 DEF Stand, Acked
    <3>2. Executable(asked) /\ todo["command"] = << >>
      BY <1>0, <3>1 DEF Stand
    <3>3. PICK w : w = M!Writes(asked)
      OBVIOUS
    <3>4. w \in Seq(Request) /\ \A i \in 1 .. Len(w) : w[i].read = FALSE /\ Sound(w[i])
      BY <1>0, <3>2, <3>3, WritesAre DEF Executable
    <3>5. \A i \in DOMAIN w : Stands(w[i])
      BY <1>0, <3>1, <3>3 DEF Stand
    <3>6. \A i \in DOMAIN w : Stands(w[i])'
      <4>1. ASSUME NEW i \in DOMAIN w PROVE Stands(w[i])'
        <5>1. PICK v : v = w[i]
          OBVIOUS
        <5>2. v.read = FALSE /\ Sound(v) /\ Stands(v)
          BY <3>4, <3>5, <4>1, <5>1
        <5>3. Stands(v)'
          BY <2>12, <5>2
        <5> QED  BY <5>1, <5>3
      <4> QED  BY <4>1
    <3>7. M!Writes(asked)' = w /\ Executable(asked)'
      BY <1>0, <1>d, <2>1, <3>2, <3>3
    <3>8. \A i \in DOMAIN M!Writes(asked)' : Stands(M!Writes(asked)[i])'
      BY <3>6, <3>7 DEF Stands
    <3>9. ASSUME NEW i \in 1 .. Len(toClient'), toClient'[i].no > outcome.sent, toClient'[i].power # None
          PROVE  Shows(asked, toClient'[i].power)
      <4>1. CASE i = Len(toClient) + 1
        <5>1. power # None /\ toClient'[i].power = power
          BY <2>7, <3>9, <4>1
        <5>2. PICK available \in 0 .. Rated : power = M!Power(available)
          BY <2>5, <5>1
        <5>3. Shows(asked, M!Power(available))
          BY <1>0, <3>2, <3>3, <3>5, OrderShows DEF Executable
        <5> QED  BY <5>1, <5>2, <5>3
      <4>2. CASE i # Len(toClient) + 1
        <5>1. i \in 1 .. Len(toClient)
          BY <1>b, <2>7, <3>9, <4>2
        <5> QED  BY <1>0, <2>7, <3>1, <3>9, <5>1 DEF Stand
      <4> QED  BY <4>1, <4>2
    <3> QED  BY <1>0, <1>d, <2>1, <3>1, <3>2, <3>7, <3>8, <3>9 DEF Stand
  <2> QED  BY <1>0, <1>f, <2>1, <2>9, <2>10, <2>11, <2>13, <2>14 DEF ModbusInv
<1>8. CASE M!Receive
  <2>1. /\ holder \in Threads /\ toClient # << >> /\ toClient' = Tail(toClient) /\ holder' = None
        /\ UNCHANGED <<device, points, tcp, sent, toDevice, asked, tcpSpells>>
        /\ IF M!Matches(Head(toClient)) THEN M!Succeeds(holder, Head(toClient))
           ELSE M!Raises(holder) /\ UNCHANGED reading
    BY <1>0, <1>8 DEF M!Receive
  <2>2. PICK a : a = Head(toClient)
    OBVIOUS
  <2>3. /\ Len(toClient) >= 1 /\ a = toClient[1] /\ a \in Reply /\ a.no = sent - Lag + 1 /\ a.no \in Nat
        /\ toClient' \in Seq(Reply) /\ Len(toClient') = Len(toClient) - 1
    <3>1. Tail(toClient) \in Seq(Reply) /\ Len(Tail(toClient)) = Len(toClient) - 1
      BY <1>b, <2>1, HeadTailProperties
    <3>2. Len(toClient) >= 1
      BY <1>b, <2>1
    <3>3. a = toClient[1] /\ a \in Reply
      BY <1>b, <2>1, <2>2, <3>2
    <3>4. a.no = sent - Lag + 1
      BY <1>b, <3>2, <3>3
    <3> QED  BY <2>1, <3>1, <3>2, <3>3, <3>4 DEF Reply
  <2>4. /\ holder # None /\ todo[holder] # << >> /\ tcp /\ Lag >= 1 /\ Lag <= tcpSpells + 1
        /\ toDevice = << >> => Done(Head(todo[holder]))
    <3>1. holder # None
      BY <1>a, <2>1
    <3>2. tcp
      BY <1>b, <2>3
    <3> QED  BY <1>0, <1>b, <3>1, <3>2 DEF Waited
  <2>5. CASE ~M!Matches(a)
    <3>1. M!Raises(holder) /\ reading' = reading
      BY <2>1, <2>2, <2>5
    <3>2. Lag' <= tcpSpells' /\ tcpSpells' \in 0 .. MaxSpells
      <4>1. Lag' = Lag - 1
        BY <1>b, <2>1, <2>3 DEF Lag
      <4> QED  BY <1>0, <1>b, <2>1, <2>4, <4>1
    <3> QED  BY <1>4, <2>1, <2>4, <3>1, <3>2
  <2>6. CASE M!Matches(a)
    <3>1. a.no = sent
      <4>1. a.no % 65536 = sent % 65536
        BY <2>6 DEF M!Matches
      <4>2. a.no <= sent /\ sent - a.no < 65536
        BY <1>0, <1>a, <1>b, <2>3, <2>4
      <4>3. PICK n \in Nat : n = a.no
        BY <2>3
      <4>4. n <= sent /\ sent - n < 65536 /\ n % 65536 = sent % 65536 /\ sent \in Nat
        BY <1>0, <4>1, <4>2, <4>3
      <4>5. n = sent
        BY <4>4, IdsDiffer
      <4> QED  BY <4>3, <4>5
    <3>2. Lag = 1 /\ Len(toClient) = 1 /\ toDevice = << >> /\ toClient' = << >>
      <4>1. Lag = 1
        BY <1>0, <1>b, <2>3, <3>1
      <4>2. Len(toClient) = 1 /\ Len(toDevice) = 0
        BY <1>b, <2>3, <4>1
      <4> QED  BY <1>b, <2>3, <4>1, <4>2
    <3>3. /\ todo' = [todo EXCEPT ![holder] = Tail(@)]
          /\ outcome' = (IF holder = "command" /\ todo'[holder] = << >> THEN M!Ack("ACKED") ELSE outcome)
          /\ reading' = (IF holder = "poll" THEN a ELSE reading)
      BY <2>1, <2>2, <2>6 DEF M!Succeeds
    <3>4. Wire' /\ Waited'
      <4>1. /\ Len(toClient') = 0 /\ Len(toDevice') = 0 /\ toDevice' = << >> /\ Lag' = 0 /\ Lag' \in Nat /\ 0 \in Nat
        BY <2>1, <3>2 DEF Lag
      <4>2. toClient' \in Seq(Reply) /\ toDevice' \in Seq(Query)
        BY <1>b, <2>1, <2>3
      <4>3. tcpSpells' \in Nat /\ holder' = None
        BY <1>b, <2>1
      <4>4. Lag' <= tcpSpells' /\ Lag' <= tcpSpells' + 1
        <5>1. Lag' \in Nat /\ Lag' = 0 /\ tcpSpells' \in Nat
          BY <4>1, <4>3
        <5>2. \A n \in Nat : 0 <= n /\ 0 <= n + 1
          OBVIOUS
        <5> QED  BY <5>1, <5>2, Zenon
      <4>5. Wire'
        <5>1. \A i \in 1 .. 0 : FALSE
          OBVIOUS
        <5> QED  BY <4>1, <4>2, <4>4, <5>1 DEF Wire
      <4> QED  BY <4>3, <4>5 DEF Waited
    <3>5. \A w : Stands(w) => Stands(w)'
      BY <2>1 DEF Stands
    <3>6. /\ todo' \in [Threads -> Seq(Request)] /\ todo'[holder] = Tail(todo[holder])
          /\ \A u \in Threads : u # holder => todo'[u] = todo[u]
      <4>1. Tail(todo[holder]) \in Seq(Request)
        BY <1>0, <2>1, <2>4, HeadTailProperties
      <4> QED  BY <1>0, <2>1, <3>3, <4>1
    <3>7. PICK w : w = M!Writes(asked) /\ M!Writes(asked)' = w
      BY <1>d, <2>1
    <3>8. CASE holder = "poll"
      <4>1. /\ todo'["command"] = todo["command"] /\ outcome' = outcome /\ reading' = a
        BY <1>e, <3>3, <3>6, <3>8
      <4>2. todo["poll"] = <<M!ReadHolding>>
        BY <1>0, <2>4, <3>8
      <4>3. todo'["poll"] = << >> /\ Head(todo["poll"]).read
        BY <3>6, <3>8, <4>2 DEF M!ReadHolding
      <4>4. a.power \in 0 .. Rated /\ a.power # None
        <5>1. a.power # None
          BY <2>3, <2>4, <3>2, <3>8, <4>3 DEF Done
        <5> QED  BY <2>3, <5>1 DEF Reply
      <4>5. InProgress'
        BY <1>0, <1>d, <2>1, <3>5, <3>7, <4>1 DEF InProgress, Stands
      <4>6. Stand'
        <5>1. SUFFICES ASSUME Acked PROVE Stand'
          BY <2>1, <4>1 DEF Stand, Acked
        <5>2. \A i \in DOMAIN w : Stands(w[i])
          BY <1>0, <3>7, <5>1 DEF Stand
        <5>3. \A i \in DOMAIN M!Writes(asked)' : Stands(M!Writes(asked)[i])'
          BY <3>5, <3>7, <5>2 DEF Stands
        <5>4. a.no > outcome.sent => Shows(asked, a.power)
          BY <1>0, <2>3, <3>2, <4>4, <5>1 DEF Stand
        <5>5. \A i \in 1 .. Len(toClient') : FALSE
          BY <3>2
        <5> QED  BY <1>0, <1>d, <2>1, <4>1, <5>1, <5>3, <5>4, <5>5 DEF Stand
      <4> QED  BY <1>0, <1>f, <2>1, <2>3, <3>1, <3>4, <3>6, <4>1, <4>3, <4>4, <4>5, <4>6 DEF ModbusInv
    <3>9. CASE holder = "command"
      <4>1. /\ todo'["poll"] = todo["poll"] /\ reading' = reading
        BY <1>e, <3>3, <3>6, <3>9
      <4>2. /\ outcome = None /\ Executable(asked)
            /\ \/ todo["command"] = w
               \/ todo["command"] = Tail(w) /\ Stands(w[1])
        <5>1. w[1] = M!Writes(asked)[1]
          BY <3>7
        <5>2. todo["command"] # << >>
          BY <2>4, <3>9
        <5>3. /\ outcome = None /\ Executable(asked)
              /\ \/ todo["command"] = M!Writes(asked)
                 \/ todo["command"] = Tail(M!Writes(asked)) /\ Stands(M!Writes(asked)[1])
          BY <1>0, <5>2 DEF InProgress
        <5>4. CASE todo["command"] = M!Writes(asked)
          <6>1. todo["command"] = w
            BY <3>7, <5>4
          <6> QED  BY <5>3, <6>1
        <5>5. CASE todo["command"] = Tail(M!Writes(asked)) /\ Stands(M!Writes(asked)[1])
          BY <3>7, <5>1, <5>3, <5>5
        <5> QED  BY <5>3, <5>4, <5>5
      <4>3. /\ w \in Seq(Request) /\ Len(w) \in {1, 2} /\ \A i \in 1 .. Len(w) : w[i].read = FALSE
        BY <1>0, <3>7, <4>2, WritesAre DEF Executable
      <4>4. Executable(asked)'
        BY <1>d, <2>1, <4>2
      <4>5. \A r : r = Head(todo["command"]) /\ ~r.read => Stands(r)
        BY <2>4, <3>2, <3>9 DEF Done, Stands
      <4>6. CASE todo["command"] = w /\ Len(w) = 2
        <5>1. Head(todo["command"]) = w[1] /\ todo'["command"] = Tail(w) /\ Len(Tail(w)) = 1
          BY <3>6, <3>9, <4>3, <4>6
        <5>2. Stands(w[1])
          BY <4>3, <4>5, <4>6, <5>1
        <5>3. todo'["command"] # << >>
          <6>1. Len(todo'["command"]) # Len(<< >>)
            BY <5>1, Len(<< >>) = 0, SMTT(30)
          <6> QED  BY <6>1, Zenon
        <5>4. outcome' = None
          BY <3>3, <3>9, <4>2, <5>3
        <5>5. Stands(M!Writes(asked)[1])'
          BY <3>5, <3>7, <5>2 DEF Stands
        <5>6. InProgress' /\ Stand'
          BY <3>7, <4>4, <5>1, <5>4, <5>5 DEF InProgress, Stand, Acked
        <5> QED  BY <1>0, <1>f, <2>1, <3>4, <3>6, <4>1, <5>4, <5>6 DEF ModbusInv
      <4>7. CASE ~(todo["command"] = w /\ Len(w) = 2)
        <5>1. Stands(w[Len(w)]) /\ todo'["command"] = << >> /\ \A i \in 1 .. Len(w) : Stands(w[i])
          <6>1. CASE Len(w) = 1
            <7>1. todo["command"] = w
              <8>1. Tail(w) = << >>
                BY <4>3, <6>1, OneIsShort
              <8> QED  BY <2>4, <3>9, <4>2, <8>1
            <7>2. Head(todo["command"]) = w[1] /\ Tail(todo["command"]) = << >>
              BY <4>3, <6>1, <7>1, OneIsShort
            <7>3. Stands(w[1])
              BY <4>3, <4>5, <6>1, <7>2
            <7>4. \A i \in 1 .. Len(w) : i = 1
              BY <6>1
            <7>5. todo'["command"] = << >>
              BY <3>6, <3>9, <7>2
            <7> QED  BY <6>1, <7>3, <7>4, <7>5
          <6>2. CASE Len(w) = 2
            <7>1. todo["command"] = Tail(w) /\ Stands(w[1])
              BY <4>2, <4>7, <6>2
            <7>2. Head(todo["command"]) = w[2] /\ Tail(todo["command"]) = << >>
              BY <4>3, <6>2, <7>1, TwoAreShort
            <7>3. Stands(w[2])
              BY <4>3, <4>5, <6>2, <7>2
            <7>4. \A i \in 1 .. Len(w) : i = 1 \/ i = 2
              BY <6>2
            <7>5. todo'["command"] = << >>
              BY <3>6, <3>9, <7>2
            <7> QED  BY <6>2, <7>1, <7>3, <7>4, <7>5
          <6> QED  BY <4>3, <6>1, <6>2
        <5>2. outcome' = M!Ack("ACKED")
          BY <3>3, <3>9, <5>1
        <5>3. /\ outcome' # None => outcome'.status \in {"ACKED", "FAILED"} /\ outcome'.sent \in Nat /\ outcome'.sent <= sent
              /\ outcome'.sent = sent
          BY <1>0, <5>2 DEF M!Ack
        <5>4. InProgress'
          BY <5>1 DEF InProgress
        <5>5. Stand'
          <6>1. \A i \in DOMAIN w : Stands(w[i])'
            BY <3>5, <4>3, <5>1
          <6>2. \A i \in DOMAIN M!Writes(asked)' : Stands(M!Writes(asked)[i])'
            BY <3>7, <6>1 DEF Stands
          <6>3. \A i \in 1 .. Len(toClient') : FALSE
            BY <3>2
          <6>4. ~(reading' # None /\ reading'.no > outcome'.sent)
            BY <1>0, <4>1, <5>3
          <6> QED  BY <4>4, <5>1, <6>2, <6>3, <6>4 DEF Stand
        <5> QED  BY <1>0, <1>f, <2>1, <3>4, <3>6, <4>1, <5>3, <5>4, <5>5 DEF ModbusInv
      <4> QED  BY <4>6, <4>7
    <3> QED  BY <1>e, <2>1, <3>8, <3>9
  <2> QED  BY <2>5, <2>6
<1>9. CASE M!Closes
  <2>1. /\ tcp' = FALSE /\ toDevice' = << >> /\ toClient' = << >>
        /\ tcpSpells < MaxSpells /\ tcpSpells' = tcpSpells + 1
        /\ UNCHANGED <<device, points, holder, sent, todo, asked, outcome, reading>>
    BY <1>9 DEF M!Closes
  <2>2. Len(toDevice') = 0 /\ Len(toClient') = 0 /\ Lag' = 0 /\ Lag' \in Nat /\ 0 \in Nat /\ tcpSpells' \in 0 .. MaxSpells /\ tcpSpells' \in Nat
    BY <1>a, <1>b, <2>1 DEF Lag
  <2>3. Wire' /\ Waited'
    <3>1. toClient' \in Seq(Reply) /\ toDevice' \in Seq(Query)
      BY <2>1
    <3>2. Lag' <= tcpSpells' + 1 /\ Lag' <= tcpSpells'
      <4>1. Lag' \in Nat /\ Lag' = 0 /\ tcpSpells' \in Nat
        BY <2>2
      <4>2. \A n \in Nat : 0 <= n /\ 0 <= n + 1
        OBVIOUS
      <4> QED  BY <4>1, <4>2, Zenon
    <3> QED  BY <1>0, <2>1, <2>2, <3>1, <3>2 DEF Wire, Waited
  <2>4. \A w : Stands(w) => Stands(w)'
    BY <2>1, <2>2 DEF Stands
  <2>5. PICK w : w = M!Writes(asked) /\ M!Writes(asked)' = w
    BY <1>d, <2>1
  <2>6. InProgress'
    BY <1>0, <1>d, <2>1, <2>4, <2>5 DEF InProgress, Stands
  <2>7. Stand'
    <3>1. SUFFICES ASSUME Acked PROVE Stand'
      BY <2>1 DEF Stand, Acked
    <3>2. \A i \in DOMAIN w : Stands(w[i])
      BY <1>0, <2>5, <3>1 DEF Stand
    <3>3. \A i \in DOMAIN M!Writes(asked)' : Stands(M!Writes(asked)[i])'
      BY <2>4, <2>5, <3>2 DEF Stands
    <3>4. \A i \in 1 .. Len(toClient') : FALSE
      BY <2>2
    <3> QED  BY <1>0, <1>d, <2>1, <3>1, <3>3, <3>4 DEF Stand
  <2> QED  BY <1>0, <1>f, <2>1, <2>2, <2>3, <2>6, <2>7 DEF ModbusInv
<1>10. ASSUME NEW t \in Threads, M!Send(t) PROVE ModbusInv'
  BY <1>3, <1>5, <1>10
<1> QED  BY <1>1, <1>2, <1>6, <1>7, <1>8, <1>9, <1>10 DEF M!Next, Threads

LEMMA ModbusTrue == ASSUME FieldAssumption, ModbusInv PROVE M!TypeOK /\ M!AckedStands
<1>1. M!TypeOK
  BY DEF ModbusInv, Waited, Threads, M!TypeOK
<1>2. ASSUME outcome # None, outcome.status = "ACKED", asked.type # "read_only"
      PROVE  /\ \A i \in DOMAIN M!Writes(asked) : points[M!Writes(asked)[i].point] = M!Writes(asked)[i].value
             /\ reading # None /\ reading.no > outcome.sent => Shows(asked, reading.power)
  BY <1>2 DEF ModbusInv, Stand, Acked, Stands
<1> QED  BY <1>1, <1>2 DEF M!AckedStands, Shows

-----------------------------------------------------------------------------
(* The RTU and its driver: Iec104.                                           *)

Requests == I!Commands \union {[type |-> "C_IC"]}
Asdus ==
    [type : {"M_ME"}, value : {0} \union Setpoints] \union [type : {"M_SP"}, value : BOOLEAN]
      \union [type : {"ACTCON", "ACTTERM"}, of : Requests]
Numbers == I!Numbers
Statuses == {"ACKED", "FAILED"}
Pairs == (0 .. 255) \X (0 .. 255)
FramesOf(S) == [no : Pairs, asdu : S]

\* The frames of a direction bear the numbers from n on.
Counts(frames, n) == \A i \in 1 .. Len(frames) : I!Number(frames[i].no) = I!After(n, i - 1)

\* The last report of the breaker under way is of its position, and so is the last one read.
SaysLast(frames, b) ==
    \E i \in 1 .. Len(frames) :
       /\ frames[i].asdu.type = "M_SP" /\ frames[i].asdu.value = b
       /\ \A j \in 1 .. Len(frames) : j > i => frames[j].asdu.type # "M_SP"
SaysNothing(frames) == \A i \in 1 .. Len(frames) : frames[i].asdu.type # "M_SP"
Reported(frames, read, b) == SaysLast(frames, b) \/ (SaysNothing(frames) /\ read = b)

IecTypes ==
    /\ session \in BOOLEAN /\ ns \in Numbers /\ nr \in Numbers /\ rtuNs \in Numbers /\ rtuNr \in Numbers
    /\ toRtu \in Seq(FramesOf(Requests)) /\ toDriver \in Seq(FramesOf(Asdus))
    /\ breaker \in BOOLEAN /\ seenBreaker \in BOOLEAN /\ actcon \in BOOLEAN
    /\ setpoint \in {0} \union Setpoints /\ seenSetpoint \in {0} \union Setpoints
    /\ waiting \in I!Commands \union {I!Idle} /\ results \in Seq([of : I!Commands, status : Statuses])
    /\ Len(results) <= MaxCommands /\ (waiting # I!Idle => Len(results) < MaxCommands)

IecInStep ==
    session =>
      /\ Counts(toRtu, rtuNr) /\ ns = I!After(rtuNr, Len(toRtu))
      /\ Counts(toDriver, nr) /\ rtuNs = I!After(nr, Len(toDriver))
      /\ Reported(toDriver, seenBreaker, breaker)

IecInv == IecTypes /\ IecInStep

(* The numbers of 15 bits.                                                   *)
LEMMA NumbersAre == ASSUME NEW k PROVE k \in Numbers <=> k \in Nat /\ k < 32768
<1>1. PICK top : top = 32767
  OBVIOUS
<1>2. Numbers = 0 .. top
  BY <1>1 DEF Numbers, I!Numbers
<1>3. top \in Nat /\ top + 1 = 32768
  BY <1>1
<1> QED  BY <1>2, <1>3

(* Numbers come through the control field, and counting on adds up.          *)
LEMMA NumberOfOctets ==
    ASSUME NEW n \in Numbers PROVE I!Octets(n) \in Pairs /\ I!Number(I!Octets(n)) = n
<1>1. PICK low, high : low = (2 * n) % 256 /\ high = (n \div 128) % 256
  OBVIOUS
<1>2. n \in Nat /\ n < 32768
  BY NumbersAre
<1>3. n \div 128 \in Nat /\ n \div 128 < 256
  BY <1>2
<1>4. high = n \div 128 /\ high \in 0 .. 255 /\ low \in 0 .. 255
  <2>1. (n \div 128) % 256 = n \div 128
    BY <1>3
  <2>2. \A k \in Nat : k % 256 \in 0 .. 255
    OBVIOUS
  <2>3. 2 * n \in Nat
    BY <1>2
  <2> QED  BY <1>1, <1>3, <2>1, <2>2, <2>3
<1>5. (low + 256 * high) \div 2 = n
  <2>1. (2 * n) % 256 = 2 * (n % 128)
    BY <1>2
  <2>3. n = 128 * (n \div 128) + (n % 128)
    BY <1>2
  <2>2. low + 256 * high = 2 * n
    BY <1>1, <1>2, <1>4, <2>1, <2>3
  <2> QED  BY <1>2, <2>2
<1>6. I!Octets(n) = <<low, high>>
  BY <1>1 DEF I!Octets
<1> QED  BY <1>4, <1>5, <1>6 DEF I!Number, Pairs

LEMMA NumbersAreNat == Numbers \subseteq Nat
BY NumbersAre

LEMMA CountingOn ==
    ASSUME NEW n \in Nat, NEW d \in Nat, NEW e \in Nat
    PROVE  I!After(I!After(n, d), e) = I!After(n, d + e)
BY DEF I!After

LEMMA AfterIsNumber ==
    ASSUME NEW n \in Nat, NEW d \in Nat
    PROVE  I!After(n, d) \in Numbers /\ I!After(n, d) \in Nat
<1>1. (n + d) % 32768 \in Nat /\ (n + d) % 32768 < 32768
  OBVIOUS
<1> QED  BY <1>1, NumbersAre DEF I!After

LEMMA AfterNothing == ASSUME NEW k \in Numbers PROVE k = I!After(k, 0)
<1>1. k \in Nat /\ k < 32768
  BY NumbersAre
<1>2. (k + 0) % 32768 = k
  BY <1>1
<1> QED  BY <1>2 DEF I!After

(* A frame is added to those under way.                                      *)
LEMMA AnotherFrame ==
    ASSUME NEW S, NEW frames \in Seq(FramesOf(S)), NEW n \in Numbers, Counts(frames, n), NEW asdu \in S,
           NEW m, m = I!After(n, Len(frames))
    PROVE  /\ Append(frames, I!Frame(m, asdu)) \in Seq(FramesOf(S))
           /\ Counts(Append(frames, I!Frame(m, asdu)), n)
           /\ I!NextNo(m) = I!After(n, Len(Append(frames, I!Frame(m, asdu)))) /\ I!NextNo(m) \in Numbers
<1>0. n \in Nat /\ Len(frames) \in Nat
  BY NumbersAre
<1>1. n \in Nat /\ Len(frames) \in Nat /\ m \in Numbers /\ 1 \in Nat
  BY <1>0, AfterIsNumber
<1>2. PICK f : f = I!Frame(m, asdu)
  OBVIOUS
<1>3. f \in FramesOf(S) /\ I!Number(f.no) = m
  BY <1>1, <1>2, NumberOfOctets DEF I!Frame, FramesOf
<1>4. PICK longer : longer = Append(frames, f)
  OBVIOUS
<1>5. /\ longer \in Seq(FramesOf(S)) /\ Len(longer) = Len(frames) + 1
      /\ \A i \in 1 .. Len(frames) : longer[i] = frames[i]
      /\ longer[Len(frames) + 1] = f
  BY <1>3, <1>4
<1>6. ASSUME NEW i \in 1 .. Len(longer) PROVE I!Number(longer[i].no) = I!After(n, i - 1)
  <2>1. CASE i = Len(frames) + 1
    <3>1. i - 1 = Len(frames)
      BY <1>1, <2>1
    <3> QED  BY <1>3, <1>5, <2>1, <3>1
  <2>2. CASE i # Len(frames) + 1
    <3>1. i \in 1 .. Len(frames)
      BY <1>1, <1>5, <2>2
    <3> QED  BY <1>5, <3>1 DEF Counts
  <2> QED  BY <2>1, <2>2
<1>7. I!NextNo(m) = I!After(n, Len(frames) + 1) /\ I!NextNo(m) \in Numbers
  BY <1>1, CountingOn, AfterIsNumber DEF I!NextNo
<1> QED  BY <1>2, <1>4, <1>5, <1>6, <1>7 DEF Counts

(* Several frames are added.                                                 *)
LEMMA MoreFrames ==
    ASSUME toDriver \in Seq(FramesOf(Asdus)), nr \in Numbers, Counts(toDriver, nr),
           rtuNs = I!After(nr, Len(toDriver)), NEW asdus \in Seq(Asdus), Len(asdus) >= 1,
           NEW out, out = I!Frames(rtuNs, asdus)
    PROVE  /\ out \in Seq(FramesOf(Asdus)) /\ Len(out) = Len(asdus)
           /\ \A i \in 1 .. Len(asdus) : out[i].asdu = asdus[i]
           /\ Counts(toDriver \o out, nr)
           /\ I!NextNo(I!Number(I!Last(out).no)) = I!After(nr, Len(toDriver \o out))
           /\ I!NextNo(I!Number(I!Last(out).no)) \in Numbers
<1>0. nr \in Nat /\ Len(toDriver) \in Nat /\ Len(asdus) \in Nat
  BY NumbersAre
<1>1. nr \in Nat /\ Len(toDriver) \in Nat /\ Len(asdus) \in Nat /\ rtuNs \in Numbers /\ rtuNs \in Nat
  BY <1>0, AfterIsNumber
<1>2. out = [i \in 1 .. Len(asdus) |-> I!Frame(I!After(rtuNs, i - 1), asdus[i])]
  BY DEF I!Frames
<1>3. ASSUME NEW i \in 1 .. Len(asdus)
      PROVE  /\ I!After(rtuNs, i - 1) = I!After(nr, Len(toDriver) + (i - 1)) /\ I!After(rtuNs, i - 1) \in Numbers
             /\ I!Frame(I!After(rtuNs, i - 1), asdus[i]) \in FramesOf(Asdus)
             /\ I!Number(I!Frame(I!After(rtuNs, i - 1), asdus[i]).no) = I!After(rtuNs, i - 1)
             /\ I!Frame(I!After(rtuNs, i - 1), asdus[i]).asdu = asdus[i]
  <2>1. i - 1 \in Nat /\ asdus[i] \in Asdus
    BY <1>1
  <2>2. I!After(rtuNs, i - 1) = I!After(nr, Len(toDriver) + (i - 1)) /\ I!After(rtuNs, i - 1) \in Numbers
    <3>1. PICK d \in Nat, k \in Nat : d = i - 1 /\ k = Len(toDriver)
      BY <1>1, <2>1
    <3>2. I!After(I!After(nr, k), d) = I!After(nr, k + d) /\ I!After(rtuNs, d) \in Numbers
      <4>1. I!After(I!After(nr, k), d) = I!After(nr, k + d)
        BY <1>1, CountingOn
      <4>2. I!After(rtuNs, d) \in Numbers
        BY <1>1, AfterIsNumber
      <4> QED  BY <4>1, <4>2
    <3> QED  BY <3>1, <3>2
  <2>3. PICK k \in Numbers : k = I!After(rtuNs, i - 1)
    BY <2>2
  <2>4. I!Octets(k) \in Pairs /\ I!Number(I!Octets(k)) = k
    BY NumberOfOctets
  <2> QED  BY <2>1, <2>2, <2>3, <2>4 DEF I!Frame, FramesOf
<1>4. /\ out \in Seq(FramesOf(Asdus)) /\ Len(out) = Len(asdus)
      /\ \A i \in 1 .. Len(asdus) : out[i].asdu = asdus[i] /\ I!Number(out[i].no) = I!After(nr, Len(toDriver) + (i - 1))
  <2>1. \A i \in 1 .. Len(asdus) : out[i] = I!Frame(I!After(rtuNs, i - 1), asdus[i])
    BY <1>2
  <2>2. \A i \in 1 .. Len(asdus) : out[i] \in FramesOf(Asdus)
    BY <1>3, <2>1
  <2>3. out \in [1 .. Len(asdus) -> FramesOf(Asdus)]
    BY <1>2, <1>3
  <2>4. out \in Seq(FramesOf(Asdus)) /\ Len(out) = Len(asdus)
    <3>1. Len(out) = Len(asdus)
      BY <1>1, <1>2
    <3> QED  BY <1>1, <2>3, <3>1
  <2> QED  BY <1>3, <2>1, <2>4
<1>5. PICK longer : longer = toDriver \o out
  OBVIOUS
<1>6. /\ Len(longer) = Len(toDriver) + Len(asdus)
      /\ \A i \in 1 .. Len(longer) : longer[i] = IF i <= Len(toDriver) THEN toDriver[i] ELSE out[i - Len(toDriver)]
  <2>2. toDriver \in Seq(FramesOf(Asdus)) /\ out \in Seq(FramesOf(Asdus)) /\ Len(out) = Len(asdus)
    BY <1>4
  <2>3. /\ Len(toDriver \o out) = Len(toDriver) + Len(out)
        /\ \A i \in 1 .. Len(toDriver) + Len(out) :
              (toDriver \o out)[i] = IF i <= Len(toDriver) THEN toDriver[i] ELSE out[i - Len(toDriver)]
    <3>0. toDriver \in Seq(FramesOf(Asdus)) /\ out \in Seq(FramesOf(Asdus))
      BY <2>2
    <3>1. Len(toDriver \o out) = Len(toDriver) + Len(out)
      BY <3>0, ConcatProperties, Zenon
    <3>2. ASSUME NEW i \in 1 .. Len(toDriver) + Len(out)
          PROVE  (toDriver \o out)[i] = IF i <= Len(toDriver) THEN toDriver[i] ELSE out[i - Len(toDriver)]
      BY <2>2, ConcatProperties
    <3> QED  BY <3>1, <3>2
  <2> QED  BY <1>5, <2>2, <2>3
<1>7. ASSUME NEW i \in 1 .. Len(longer) PROVE I!Number(longer[i].no) = I!After(nr, i - 1)
  <2>1. CASE i <= Len(toDriver)
    <3>1. i \in 1 .. Len(toDriver) /\ longer[i] = toDriver[i]
      BY <1>1, <1>6, <2>1
    <3> QED  BY <3>1 DEF Counts
  <2>2. CASE ~(i <= Len(toDriver))
    <3>1. i - Len(toDriver) \in 1 .. Len(asdus) /\ longer[i] = out[i - Len(toDriver)]
      BY <1>1, <1>6, <2>2
    <3>2. Len(toDriver) + ((i - Len(toDriver)) - 1) = i - 1
      BY <1>1
    <3> QED  BY <1>4, <3>1, <3>2
  <2> QED  BY <2>1, <2>2
<1>8. PICK last : last = I!Number(I!Last(out).no)
  OBVIOUS
<1>9. last = I!After(nr, Len(toDriver) + (Len(asdus) - 1))
  <2>1. Len(asdus) \in 1 .. Len(asdus)
    BY <1>1
  <2>2. I!Last(out) = out[Len(asdus)]
    BY <1>4 DEF I!Last
  <2> QED  BY <1>4, <1>8, <2>1, <2>2
<1>10. I!NextNo(last) = I!After(nr, Len(toDriver) + Len(asdus)) /\ I!NextNo(last) \in Numbers
  <2>1. Len(toDriver) + (Len(asdus) - 1) \in Nat /\ 1 \in Nat /\ (Len(toDriver) + (Len(asdus) - 1)) + 1 = Len(toDriver) + Len(asdus)
    BY <1>1
  <2>2. PICK d \in Nat : d = Len(toDriver) + (Len(asdus) - 1) /\ d + 1 = Len(toDriver) + Len(asdus)
    BY <2>1
  <2>3. I!After(I!After(nr, d), 1) = I!After(nr, d + 1) /\ I!After(nr, d + 1) \in Numbers
    <3>1. d + 1 \in Nat /\ 1 \in Nat
      BY <2>2
    <3> QED  BY <1>1, <2>2, <3>1, CountingOn, AfterIsNumber
  <2> QED  BY <1>9, <2>2, <2>3 DEF I!NextNo
<1> QED  BY <1>4, <1>5, <1>6, <1>7, <1>8, <1>10 DEF Counts

(* The first frame is read.                                                  *)
LEMMA OneFrameLess ==
    ASSUME NEW S, NEW frames \in Seq(FramesOf(S)), frames # << >>, NEW n \in Numbers, Counts(frames, n)
    PROVE  /\ Tail(frames) \in Seq(FramesOf(S)) /\ Counts(Tail(frames), I!NextNo(n))
           /\ I!NextNo(n) \in Numbers /\ I!After(n, Len(frames)) = I!After(I!NextNo(n), Len(Tail(frames)))
           /\ Head(frames) = frames[1] /\ Head(frames).asdu \in S
           /\ Len(Tail(frames)) = Len(frames) - 1 /\ \A i \in 1 .. Len(Tail(frames)) : Tail(frames)[i] = frames[i + 1]
<1>1. /\ Tail(frames) \in Seq(FramesOf(S)) /\ Len(Tail(frames)) = Len(frames) - 1
      /\ \A i \in 1 .. Len(Tail(frames)) : Tail(frames)[i] = frames[i + 1]
  BY HeadTailProperties
<1>2. n \in Nat /\ Len(frames) \in Nat /\ Len(frames) >= 1 /\ 1 \in Nat
  BY NumbersAre
<1>3. Head(frames) = frames[1] /\ Head(frames) \in FramesOf(S) /\ Head(frames).asdu \in S
  <2>1. Head(frames) \in FramesOf(S)
    BY HeadTailProperties
  <2> QED  BY <1>2, <2>1 DEF FramesOf
<1>4. ASSUME NEW i \in 1 .. Len(Tail(frames)) PROVE I!Number(Tail(frames)[i].no) = I!After(I!NextNo(n), i - 1)
  <2>1. i + 1 \in 1 .. Len(frames) /\ i - 1 \in Nat /\ 1 + (i - 1) = i /\ (i + 1) - 1 = i
    BY <1>1, <1>2
  <2>2. I!Number(Tail(frames)[i].no) = I!After(n, i)
    BY <1>1, <2>1 DEF Counts
  <2>3. I!After(I!After(n, 1), i - 1) = I!After(n, 1 + (i - 1))
    BY <1>2, <2>1, CountingOn
  <2> QED  BY <2>1, <2>2, <2>3 DEF I!NextNo
<1>5. I!NextNo(n) \in Numbers /\ I!After(n, Len(frames)) = I!After(I!NextNo(n), Len(Tail(frames)))
  <2>1. Len(Tail(frames)) \in Nat /\ 1 + Len(Tail(frames)) = Len(frames)
    BY <1>1, <1>2
  <2> QED  BY <1>2, <2>1, CountingOn, AfterIsNumber DEF I!NextNo
<1> QED  BY <1>1, <1>3, <1>4, <1>5, SMTT(30) DEF Counts

LEMMA IecInit == ASSUME FieldAssumption, I!Init PROVE IecInv
<1>1. IecStarts \subseteq Numbers /\ MaxCommands \in Nat
  BY DEF FieldAssumption, I!IecAssumption, Numbers
<1>2. PICK n \in IecStarts : ns = n /\ rtuNr = n
  BY DEF I!Init
<1>3. PICK m \in IecStarts : nr = m /\ rtuNs = m
  BY DEF I!Init
<1>4. /\ session = TRUE /\ toRtu = << >> /\ toDriver = << >> /\ breaker = TRUE /\ setpoint = 0
      /\ seenBreaker = TRUE /\ seenSetpoint = 0 /\ actcon = FALSE /\ waiting = I!Idle /\ results = << >>
  BY DEF I!Init
<1>5. /\ << >> \in Seq(FramesOf(Requests)) /\ << >> \in Seq(FramesOf(Asdus))
      /\ << >> \in Seq([of : I!Commands, status : Statuses]) /\ Len(<< >>) = 0
  OBVIOUS
<1>6. IecTypes
  <2>1. ns \in Numbers /\ rtuNr \in Numbers /\ nr \in Numbers /\ rtuNs \in Numbers
    BY <1>1, <1>2, <1>3
  <2>2. session \in BOOLEAN /\ breaker \in BOOLEAN /\ seenBreaker \in BOOLEAN /\ actcon \in BOOLEAN
    BY <1>4
  <2>3. setpoint \in {0} \union Setpoints /\ seenSetpoint \in {0} \union Setpoints
    BY <1>4
  <2>4. toRtu \in Seq(FramesOf(Requests)) /\ toDriver \in Seq(FramesOf(Asdus))
    BY <1>4, <1>5
  <2>5. results \in Seq([of : I!Commands, status : Statuses]) /\ Len(results) <= MaxCommands
    <3>1. 0 <= MaxCommands
      BY <1>1
    <3>2. Len(results) = 0
      BY <1>4
    <3> QED  BY <1>4, <1>5, <3>1, <3>2
  <2>6. waiting \in I!Commands \union {I!Idle} /\ ~(waiting # I!Idle)
    BY <1>4
  <2> QED  BY <2>1, <2>2, <2>3, <2>4, <2>5, <2>6, SMTT(30) DEF IecTypes
<1>7. \A k \in Numbers : k = I!After(k, 0)
  BY AfterNothing, Zenon
<1>8. SaysNothing(<< >>) /\ Counts(<< >>, nr) /\ Counts(<< >>, rtuNr)
  BY <1>5 DEF SaysNothing, Counts
<1>9. ns = I!After(rtuNr, Len(toRtu)) /\ rtuNs = I!After(nr, Len(toDriver))
  BY <1>1, <1>2, <1>3, <1>4, <1>5, <1>7
<1> QED  BY <1>4, <1>6, <1>8, <1>9 DEF IecInv, IecInStep, Reported

(* One ASDU and two more.                                                    *)
LEMMA ThenTwo ==
    ASSUME NEW S, NEW x \in S, NEW y \in S, NEW z \in S, NEW a, a = <<x>> \o <<y, z>>
    PROVE  a \in Seq(S) /\ Len(a) = 3 /\ a[1] = x /\ a[2] = y /\ a[3] = z
<1>1. <<x>> \in Seq(S) /\ <<y, z>> \in Seq(S) /\ Len(<<x>>) = 1 /\ Len(<<y, z>>) = 2
  OBVIOUS
<1>2. a \in Seq(S) /\ Len(a) = 3
  BY <1>1, ConcatProperties
<1>3. ASSUME NEW i \in 1 .. 1 + 2 PROVE a[i] = IF i <= 1 THEN <<x>>[i] ELSE <<y, z>>[i - 1]
  BY <1>1, ConcatProperties
<1>4. <<x>>[1] = x /\ <<y, z>>[1] = y /\ <<y, z>>[2] = z
  OBVIOUS
<1>5. 1 \in 1 .. 1 + 2 /\ 2 \in 1 .. 1 + 2 /\ 3 \in 1 .. 1 + 2
  OBVIOUS
<1>6. a[1] = <<x>>[1] /\ a[2] = <<y, z>>[1] /\ a[3] = <<y, z>>[2]
  BY <1>3, <1>5
<1> QED  BY <1>2, <1>4, <1>6

LEMMA ThenOne ==
    ASSUME NEW S, NEW s \in Seq(S), NEW x \in S, NEW a, a = s \o <<x>>
    PROVE  /\ a \in Seq(S) /\ Len(a) = Len(s) + 1 /\ a[Len(s) + 1] = x
           /\ \A i \in 1 .. Len(s) : a[i] = s[i]
<1>1. <<x>> \in Seq(S) /\ Len(<<x>>) = 1 /\ <<x>>[1] = x /\ Len(s) \in Nat
  OBVIOUS
<1>2. a \in Seq(S) /\ Len(a) = Len(s) + 1
  BY <1>1, ConcatProperties
<1>3. ASSUME NEW i \in 1 .. Len(s) + 1 PROVE a[i] = IF i <= Len(s) THEN s[i] ELSE <<x>>[i - Len(s)]
  BY <1>1, ConcatProperties
<1>4. a[Len(s) + 1] = <<x>>[1]
  BY <1>1, <1>3
<1> QED  BY <1>1, <1>2, <1>3, <1>4

(* What the station answers: the position of the breaker comes last.         *)
LEMMA AnswerIs ==
    ASSUME NEW c \in Requests, breaker \in BOOLEAN, setpoint \in {0} \union Setpoints
    PROVE  LET b == IF c.type = "C_SC" THEN c.value ELSE breaker
           IN  /\ b \in BOOLEAN /\ (c.type = "C_SE" => c.value \in Setpoints)
               /\ I!Answer(c) \in Seq(Asdus) /\ Len(I!Answer(c)) >= 1
               /\ \/ /\ \A i \in 1 .. Len(I!Answer(c)) : I!Answer(c)[i].type # "M_SP"
                     /\ b = breaker
                  \/ \E k \in 1 .. Len(I!Answer(c)) :
                       /\ I!Answer(c)[k].type = "M_SP" /\ I!Answer(c)[k].value = b
                       /\ \A i \in 1 .. Len(I!Answer(c)) : i > k => I!Answer(c)[i].type # "M_SP"
<1> DEFINE b == IF c.type = "C_SC" THEN c.value ELSE breaker
<1>1. \/ c.type = "C_IC"
      \/ c.type = "C_SC" /\ c.value \in BOOLEAN
      \/ c.type = "C_SE" /\ c.value \in Setpoints
  BY DEF Requests, I!Commands
<1>2. b \in BOOLEAN /\ (c.type = "C_SE" => c.value \in Setpoints)
  BY <1>1
<1>3. PICK con, me, sp, term :
         /\ con = [type |-> "ACTCON", of |-> c] /\ term = [type |-> "ACTTERM", of |-> c]
         /\ me = [type |-> "M_ME", value |-> setpoint] /\ sp = [type |-> "M_SP", value |-> b]
  OBVIOUS
<1>4. /\ con \in Asdus /\ me \in Asdus /\ sp \in Asdus /\ term \in Asdus
      /\ con.type # "M_SP" /\ me.type # "M_SP" /\ term.type # "M_SP" /\ sp.type = "M_SP" /\ sp.value = b
  BY <1>2, <1>3 DEF Asdus
<1>5. CASE c.type = "C_IC"
  <2>1. I!Answer(c) = (<<con>> \o <<me, sp>>) \o <<term>>
    BY <1>3, <1>5 DEF I!Answer, I!Dataset
  <2>2. PICK a : a = (<<con>> \o <<me, sp>>) \o <<term>>
    OBVIOUS
  <2>3. I!Answer(c) = a
    BY <2>1, <2>2
  <2>4. a \in Seq(Asdus) /\ Len(a) = 4 /\ a[3] = sp /\ a[4] = term
    <3>1. PICK three : three = <<con>> \o <<me, sp>>
      OBVIOUS
    <3>2. three \in Seq(Asdus) /\ Len(three) = 3 /\ three[3] = sp
      BY <1>4, <3>1, ThenTwo
    <3>3. a = three \o <<term>>
      BY <2>2, <3>1
    <3>4. three \in Seq(Asdus) /\ term \in Asdus
      BY <1>4, <3>2
    <3>5. /\ a \in Seq(Asdus) /\ Len(a) = Len(three) + 1 /\ a[Len(three) + 1] = term
          /\ \A i \in 1 .. Len(three) : a[i] = three[i]
      BY <3>3, <3>4, ThenOne
    <3> QED  BY <3>2, <3>5
  <2>5. 3 \in 1 .. Len(a) /\ \A i \in 1 .. Len(a) : i > 3 => i = 4
    BY <2>4
  <2>6. a[3].type = "M_SP" /\ a[3].value = b /\ a[4].type # "M_SP"
    BY <1>4, <2>4, Zenon
  <2> QED  BY <1>2, <2>3, <2>4, <2>5, <2>6
<1>6. CASE c.type = "C_SC"
  <2>1. I!Answer(c) = <<con>> \o <<me, sp>>
    BY <1>3, <1>6 DEF I!Answer, I!Dataset
  <2>2. PICK a : a = <<con>> \o <<me, sp>>
    OBVIOUS
  <2>3. I!Answer(c) = a
    BY <2>1, <2>2
  <2>4. a \in Seq(Asdus) /\ Len(a) = 3 /\ a[3] = sp
    BY <1>4, <2>2, ThenTwo
  <2>5. /\ 3 \in 1 .. Len(a) /\ a[3].type = "M_SP" /\ a[3].value = b
        /\ \A i \in 1 .. Len(a) : i > 3 => a[i].type # "M_SP"
    BY <1>4, <2>4
  <2> QED  BY <1>2, <2>2, <2>3, <2>4, <2>5
<1>7. CASE c.type = "C_SE"
  <2>1. I!Answer(c) = <<con>>
    BY <1>3, <1>7 DEF I!Answer
  <2>2. PICK a : a = <<con>>
    OBVIOUS
  <2>3. a \in Seq(Asdus) /\ Len(a) = 1 /\ a[1] = con
    BY <1>4, <2>2
  <2>4. \A i \in 1 .. Len(a) : a[i].type # "M_SP"
    BY <1>4, <2>3
  <2>5. b = breaker
    BY <1>7
  <2> QED  BY <1>2, <2>1, <2>2, <2>3, <2>4, <2>5
<1> QED  BY <1>1, <1>5, <1>6, <1>7

LEMMA IecStep == ASSUME FieldAssumption, IecInv, I!Next PROVE IecInv'
<1>0. /\ session \in BOOLEAN /\ ns \in Numbers /\ nr \in Numbers /\ rtuNs \in Numbers /\ rtuNr \in Numbers
      /\ toRtu \in Seq(FramesOf(Requests)) /\ toDriver \in Seq(FramesOf(Asdus))
      /\ breaker \in BOOLEAN /\ seenBreaker \in BOOLEAN /\ actcon \in BOOLEAN
      /\ setpoint \in {0} \union Setpoints /\ seenSetpoint \in {0} \union Setpoints
      /\ waiting \in I!Commands \union {I!Idle} /\ results \in Seq([of : I!Commands, status : Statuses])
      /\ Len(results) <= MaxCommands /\ (waiting # I!Idle => Len(results) < MaxCommands)
  BY DEF IecInv, IecTypes
<1>a. session =>
        /\ Counts(toRtu, rtuNr) /\ ns = I!After(rtuNr, Len(toRtu))
        /\ Counts(toDriver, nr) /\ rtuNs = I!After(nr, Len(toDriver))
        /\ Reported(toDriver, seenBreaker, breaker)
  BY DEF IecInv, IecInStep
<1>b. MaxCommands \in Nat
  BY DEF FieldAssumption, I!IecAssumption
<1>1. ASSUME NEW c \in Requests, session, toRtu' = Append(toRtu, I!Frame(ns, c)), ns' = I!NextNo(ns),
             UNCHANGED <<session, toDriver, nr, rtuNs, rtuNr, breaker, setpoint, seenBreaker, seenSetpoint, results>>,
             actcon' \in BOOLEAN, waiting' = waiting \/ (waiting' \in I!Commands /\ Len(results) < MaxCommands)
      PROVE  IecInv'
  <2>1. /\ toRtu' \in Seq(FramesOf(Requests)) /\ Counts(toRtu', rtuNr)
        /\ ns' = I!After(rtuNr, Len(toRtu')) /\ ns' \in Numbers
    BY <1>0, <1>1, <1>a, AnotherFrame
  <2>2. IecTypes'
    BY <1>0, <1>1, <2>1 DEF IecTypes
  <2>3. IecInStep'
    BY <1>1, <1>a, <2>1 DEF IecInStep, Counts, Reported, SaysLast, SaysNothing
  <2> QED  BY <2>2, <2>3 DEF IecInv
<1>2. CASE I!Interrogate
  <2>1. [type |-> "C_IC"] \in Requests
    BY DEF Requests
  <2> QED  BY <1>0, <1>1, <1>2, <2>1 DEF I!Interrogate
<1>3. ASSUME NEW c \in I!Commands, NEW st \in Statuses, results' = Append(results, [of |-> c, status |-> st]),
             Len(results) < MaxCommands, waiting' = I!Idle, actcon' \in BOOLEAN,
             UNCHANGED <<session, toRtu, toDriver, ns, nr, rtuNs, rtuNr, breaker, setpoint, seenBreaker, seenSetpoint>>
      PROVE  IecInv'
  <2>1. [of |-> c, status |-> st] \in [of : I!Commands, status : Statuses]
    OBVIOUS
  <2>2. results' \in Seq([of : I!Commands, status : Statuses]) /\ Len(results') = Len(results) + 1
    BY <1>0, <1>3, <2>1
  <2>3. Len(results') <= MaxCommands
    BY <1>0, <1>3, <1>b, <2>2
  <2>4. IecTypes'
    BY <1>0, <1>3, <2>2, <2>3 DEF IecTypes
  <2>5. IecInStep'
    BY <1>3, <1>a DEF IecInStep, Counts, Reported, SaysLast, SaysNothing
  <2> QED  BY <2>4, <2>5 DEF IecInv
<1>4. ASSUME NEW c \in I!Commands, I!Send(c) PROVE IecInv'
  <2>1. waiting = I!Idle /\ Len(results) < MaxCommands /\ actcon' = FALSE
    BY <1>4 DEF I!Send
  <2>2. CASE session
    BY <1>1, <1>4, <2>1, <2>2 DEF I!Send, Requests
  <2>3. CASE ~session
    <3>1. /\ results' = Append(results, [of |-> c, status |-> "FAILED"]) /\ waiting' = I!Idle /\ actcon' \in BOOLEAN
          /\ UNCHANGED <<session, toRtu, toDriver, ns, nr, rtuNs, rtuNr, breaker, setpoint, seenBreaker, seenSetpoint>>
      BY <1>4, <2>1, <2>3 DEF I!Send
    <3>2. PICK st \in Statuses : st = "FAILED"
      BY DEF Statuses
    <3> QED  BY <1>3, <2>1, <3>1, <3>2
  <2> QED  BY <2>2, <2>3
<1>5. CASE I!Confirmed \/ I!TimesOut
  <2>1. waiting # I!Idle /\ waiting \in I!Commands /\ Len(results) < MaxCommands
    BY <1>0, <1>5 DEF I!Confirmed, I!TimesOut, I!Finish
  <2>2. PICK st \in Statuses : I!Finish(st)
    <3>1. I!Finish("ACKED") \/ I!Finish("FAILED")
      BY <1>5 DEF I!Confirmed, I!TimesOut
    <3>2. "ACKED" \in Statuses /\ "FAILED" \in Statuses
      BY DEF Statuses
    <3> QED  BY <3>1, <3>2, Zenon
  <2> QED  BY <1>0, <1>3, <2>1, <2>2 DEF I!Finish
<1>6. CASE I!Receive
  <2>1. /\ toDriver # << >> /\ toDriver' = Tail(toDriver) /\ nr' = I!NextNo(nr)
        /\ seenBreaker' = (IF Head(toDriver).asdu.type = "M_SP" THEN Head(toDriver).asdu.value ELSE seenBreaker)
        /\ seenSetpoint' = (IF Head(toDriver).asdu.type = "M_ME" THEN Head(toDriver).asdu.value ELSE seenSetpoint)
        /\ actcon' = (actcon \/ Head(toDriver).asdu.type \in {"ACTCON", "ACTTERM"})
        /\ UNCHANGED <<session, toRtu, ns, rtuNs, rtuNr, breaker, setpoint, waiting, results>>
    BY <1>6 DEF I!Receive
  <2>2. PICK asdu : asdu = Head(toDriver).asdu
    OBVIOUS
  <2>3. /\ Head(toDriver) = toDriver[1] /\ Len(toDriver) >= 1 /\ asdu \in Asdus /\ toDriver' \in Seq(FramesOf(Asdus))
        /\ Len(toDriver') = Len(toDriver) - 1 /\ \A i \in 1 .. Len(toDriver') : toDriver'[i] = toDriver[i + 1]
    <3>1. /\ Head(toDriver) \in FramesOf(Asdus) /\ Tail(toDriver) \in Seq(FramesOf(Asdus))
          /\ Len(Tail(toDriver)) = Len(toDriver) - 1
          /\ \A i \in 1 .. Len(Tail(toDriver)) : Tail(toDriver)[i] = toDriver[i + 1]
      BY <1>0, <2>1, HeadTailProperties
    <3>2. Head(toDriver) = toDriver[1] /\ Len(toDriver) >= 1
      BY <1>0, <2>1
    <3>3. asdu \in Asdus
      BY <2>2, <3>1 DEF FramesOf
    <3> QED  BY <2>1, <3>1, <3>2, <3>3
  <2>4. /\ asdu.type = "M_SP" => asdu.value \in BOOLEAN
        /\ asdu.type = "M_ME" => asdu.value \in {0} \union Setpoints
    BY <2>3 DEF Asdus
  <2>5. nr' \in Numbers
    <3>1. nr \in Nat /\ 1 \in Nat
      BY <1>0, NumbersAreNat
    <3> QED  BY <2>1, <3>1, AfterIsNumber DEF I!NextNo
  <2>6. IecTypes'
    BY <1>0, <2>1, <2>2, <2>3, <2>4, <2>5 DEF IecTypes
  <2>7. IecInStep'
    <3>1. SUFFICES ASSUME session PROVE IecInStep'
      BY <2>1 DEF IecInStep
    <3>2. Counts(Tail(toDriver), I!NextNo(nr)) /\ I!After(nr, Len(toDriver)) = I!After(I!NextNo(nr), Len(Tail(toDriver)))
      BY <1>0, <1>a, <2>1, <3>1, OneFrameLess
    <3>3. Reported(toDriver, seenBreaker, breaker) /\ Len(toDriver) \in Nat
      BY <1>0, <1>a, <3>1
    <3>4. Reported(toDriver', seenBreaker', breaker)
      <4>1. CASE SaysNothing(toDriver) /\ seenBreaker = breaker
        <5>1. asdu.type # "M_SP" /\ \A i \in 1 .. Len(toDriver') : i + 1 \in 1 .. Len(toDriver)
          BY <2>2, <2>3, <3>3, <4>1 DEF SaysNothing
        <5> QED  BY <2>1, <2>2, <2>3, <4>1, <5>1 DEF Reported, SaysNothing
      <4>2. CASE SaysLast(toDriver, breaker)
        <5>1. PICK i \in 1 .. Len(toDriver) :
                /\ toDriver[i].asdu.type = "M_SP" /\ toDriver[i].asdu.value = breaker
                /\ \A j \in 1 .. Len(toDriver) : j > i => toDriver[j].asdu.type # "M_SP"
          BY <4>2 DEF SaysLast
        <5>2. CASE i = 1
          <6>1. seenBreaker' = breaker
            BY <2>1, <2>3, <5>1, <5>2
          <6>2. ASSUME NEW j \in 1 .. Len(toDriver') PROVE toDriver'[j].asdu.type # "M_SP"
            <7>1. j + 1 \in 1 .. Len(toDriver) /\ j + 1 > i /\ toDriver'[j] = toDriver[j + 1]
              BY <2>3, <3>3, <5>2, <6>2
            <7> QED  BY <5>1, <7>1
          <6> QED  BY <6>1, <6>2 DEF Reported, SaysNothing
        <5>3. CASE i # 1
          <6>1. /\ i - 1 \in 1 .. Len(toDriver') /\ (i - 1) + 1 = i /\ toDriver'[i - 1] = toDriver[i]
            BY <2>3, <3>3, <5>1, <5>3
          <6>2. ASSUME NEW j \in 1 .. Len(toDriver'), j > i - 1 PROVE toDriver'[j].asdu.type # "M_SP"
            <7>1. j + 1 \in 1 .. Len(toDriver) /\ j + 1 > i /\ toDriver'[j] = toDriver[j + 1]
              BY <2>3, <3>3, <6>2
            <7> QED  BY <5>1, <7>1
          <6> QED  BY <5>1, <6>1, <6>2 DEF Reported, SaysLast
        <5> QED  BY <5>2, <5>3
      <4> QED  BY <3>3, <4>1, <4>2 DEF Reported
    <3> QED  BY <1>a, <2>1, <3>1, <3>2, <3>4 DEF IecInStep, Counts, Reported, SaysLast, SaysNothing
  <2> QED  BY <2>6, <2>7 DEF IecInv
<1>7. CASE I!Serve
  <2>1. PICK c, b, out :
          /\ toRtu # << >> /\ c = Head(toRtu).asdu /\ out = I!Frames(rtuNs, I!Answer(c))
          /\ toRtu' = Tail(toRtu) /\ rtuNr' = I!NextNo(rtuNr)
          /\ b = (IF c.type = "C_SC" THEN c.value ELSE breaker) /\ breaker' = b
          /\ setpoint' = (IF c.type = "C_SE" THEN c.value ELSE setpoint)
          /\ IF session THEN toDriver' = toDriver \o out /\ rtuNs' = I!NextNo(I!Number(I!Last(out).no))
                        ELSE UNCHANGED <<toDriver, rtuNs>>
          /\ UNCHANGED <<session, ns, nr, seenBreaker, seenSetpoint, actcon, waiting, results>>
    BY <1>7 DEF I!Serve
  <2>2. toRtu' \in Seq(FramesOf(Requests)) /\ c \in Requests /\ rtuNr' \in Numbers
    <3>1. Head(toRtu) \in FramesOf(Requests) /\ Tail(toRtu) \in Seq(FramesOf(Requests))
      BY <1>0, <2>1, HeadTailProperties
    <3>2. rtuNr \in Nat /\ 1 \in Nat
      BY <1>0, NumbersAreNat
    <3>3. rtuNr' \in Numbers
      BY <2>1, <3>2, AfterIsNumber DEF I!NextNo
    <3> QED  BY <2>1, <3>1, <3>3 DEF FramesOf
  <2>3. PICK says : says = I!Answer(c)
    OBVIOUS
  <2>4. /\ b \in BOOLEAN /\ (c.type = "C_SE" => c.value \in Setpoints)
        /\ says \in Seq(Asdus) /\ Len(says) >= 1
        /\ \/ (\A i \in 1 .. Len(says) : says[i].type # "M_SP") /\ b = breaker
           \/ \E k \in 1 .. Len(says) :
                /\ says[k].type = "M_SP" /\ says[k].value = b
                /\ \A i \in 1 .. Len(says) : i > k => says[i].type # "M_SP"
    BY <1>0, <2>1, <2>2, <2>3, AnswerIs
  <2>5. CASE ~session
    <3>1. IecTypes'
      BY <1>0, <2>1, <2>2, <2>4, <2>5 DEF IecTypes
    <3> QED  BY <2>1, <2>5, <3>1 DEF IecInv, IecInStep
  <2>6. CASE session
    <3>1. /\ out \in Seq(FramesOf(Asdus)) /\ Len(out) = Len(says)
          /\ \A i \in 1 .. Len(says) : out[i].asdu = says[i]
          /\ Counts(toDriver \o out, nr) /\ rtuNs' = I!After(nr, Len(toDriver \o out)) /\ rtuNs' \in Numbers
      <4>1. Counts(toDriver, nr) /\ rtuNs = I!After(nr, Len(toDriver)) /\ out = I!Frames(rtuNs, says)
        BY <1>a, <2>1, <2>3, <2>6
      <4>2. toDriver \in Seq(FramesOf(Asdus)) /\ nr \in Numbers /\ says \in Seq(Asdus) /\ Len(says) >= 1
        BY <1>0, <2>4
      <4>3. /\ out \in Seq(FramesOf(Asdus)) /\ Len(out) = Len(says)
            /\ \A i \in 1 .. Len(says) : out[i].asdu = says[i]
            /\ Counts(toDriver \o out, nr)
            /\ I!NextNo(I!Number(I!Last(out).no)) = I!After(nr, Len(toDriver \o out))
            /\ I!NextNo(I!Number(I!Last(out).no)) \in Numbers
        BY <4>1, <4>2, MoreFrames
      <4>4. rtuNs' = I!NextNo(I!Number(I!Last(out).no))
        BY <2>1, <2>6
      <4> QED  BY <4>3, <4>4
    <3>2. Counts(Tail(toRtu), I!NextNo(rtuNr)) /\ I!After(rtuNr, Len(toRtu)) = I!After(I!NextNo(rtuNr), Len(Tail(toRtu)))
      BY <1>0, <1>a, <2>1, <2>6, OneFrameLess
    <3>3. PICK longer : longer = toDriver \o out
      OBVIOUS
    <3>4. longer \in Seq(FramesOf(Asdus)) /\ Len(longer) = Len(toDriver) + Len(says)
      <4>1. toDriver \o out \in Seq(FramesOf(Asdus)) /\ Len(toDriver \o out) = Len(toDriver) + Len(out)
        BY <1>0, <3>1, ConcatProperties
      <4> QED  BY <3>1, <3>3, <4>1
    <3>5. ASSUME NEW i \in 1 .. Len(longer)
          PROVE  longer[i] = IF i <= Len(toDriver) THEN toDriver[i] ELSE out[i - Len(toDriver)]
      <4>1. i \in 1 .. Len(toDriver) + Len(out)
        BY <3>1, <3>4
      <4> QED  BY <1>0, <3>1, <3>3, <4>1, ConcatProperties
    <3>6. Len(toDriver) \in Nat /\ Len(says) \in Nat
      BY <1>0, <2>4
    <3>7. ASSUME NEW i \in 1 .. Len(longer), i > Len(toDriver)
          PROVE  i - Len(toDriver) \in 1 .. Len(says) /\ longer[i].asdu = says[i - Len(toDriver)]
      <4>1. i - Len(toDriver) \in 1 .. Len(says) /\ ~(i <= Len(toDriver))
        BY <3>4, <3>6, <3>7
      <4> QED  BY <3>1, <3>5, <4>1
    <3>8. Reported(longer, seenBreaker, b)
      <4>1. CASE (\A i \in 1 .. Len(says) : says[i].type # "M_SP") /\ b = breaker
        <5>1. \A i \in 1 .. Len(longer) : i > Len(toDriver) => longer[i].asdu.type # "M_SP"
          BY <3>7, <4>1
        <5>2. \A i \in 1 .. Len(toDriver) : i \in 1 .. Len(longer) /\ longer[i] = toDriver[i]
          <6>1. ASSUME NEW i \in 1 .. Len(toDriver) PROVE i \in 1 .. Len(longer) /\ i <= Len(toDriver)
            BY <3>4, <3>6
          <6> QED  BY <3>5, <6>1
        <5>3. \A i \in 1 .. Len(longer) : i \in 1 .. Len(toDriver) \/ i > Len(toDriver)
          BY <3>4, <3>6
        <5>4. CASE SaysNothing(toDriver) /\ seenBreaker = breaker
          <6>1. SaysNothing(longer)
            BY <5>1, <5>2, <5>3, <5>4 DEF SaysNothing
          <6> QED  BY <4>1, <5>4, <6>1 DEF Reported
        <5>5. CASE SaysLast(toDriver, breaker)
          <6>1. PICK i \in 1 .. Len(toDriver) :
                  /\ toDriver[i].asdu.type = "M_SP" /\ toDriver[i].asdu.value = breaker
                  /\ \A j \in 1 .. Len(toDriver) : j > i => toDriver[j].asdu.type # "M_SP"
            BY <5>5 DEF SaysLast
          <6>2. \A j \in 1 .. Len(longer) : j > i => longer[j].asdu.type # "M_SP"
            BY <5>1, <5>2, <5>3, <6>1
          <6>3. SaysLast(longer, b)
            BY <4>1, <5>2, <6>1, <6>2 DEF SaysLast
          <6> QED  BY <6>3 DEF Reported
        <5> QED  BY <1>a, <2>6, <5>4, <5>5 DEF Reported
      <4>2. CASE \E k \in 1 .. Len(says) :
                   /\ says[k].type = "M_SP" /\ says[k].value = b
                   /\ \A i \in 1 .. Len(says) : i > k => says[i].type # "M_SP"
        <5>1. PICK k \in 1 .. Len(says) :
                /\ says[k].type = "M_SP" /\ says[k].value = b
                /\ \A i \in 1 .. Len(says) : i > k => says[i].type # "M_SP"
          BY <4>2
        <5>2. PICK n : n = Len(toDriver) + k
          OBVIOUS
        <5>3. n \in 1 .. Len(longer) /\ n > Len(toDriver) /\ n - Len(toDriver) = k
          BY <3>4, <3>6, <5>1, <5>2
        <5>4. longer[n].asdu = says[k]
          BY <3>7, <5>3
        <5>5. ASSUME NEW j \in 1 .. Len(longer), j > n PROVE longer[j].asdu.type # "M_SP"
          <6>1. j > Len(toDriver) /\ j - Len(toDriver) > k
            BY <3>4, <3>6, <5>1, <5>2, <5>5
          <6> QED  BY <3>7, <5>1, <6>1
        <5>6. SaysLast(longer, b)
          BY <5>1, <5>3, <5>4, <5>5 DEF SaysLast
        <5> QED  BY <5>6 DEF Reported
      <4> QED  BY <2>4, <4>1, <4>2
    <3>9. toDriver' = longer /\ Counts(longer, nr) /\ rtuNs' = I!After(nr, Len(longer))
      BY <2>1, <2>6, <3>1, <3>3
    <3>10. IecTypes'
      BY <1>0, <2>1, <2>2, <2>4, <3>1, <3>4, <3>9 DEF IecTypes
    <3>11. IecInStep'
      BY <1>a, <2>1, <2>6, <3>2, <3>8, <3>9 DEF IecInStep, Counts, Reported, SaysLast, SaysNothing
    <3> QED  BY <3>10, <3>11 DEF IecInv
  <2> QED  BY <2>5, <2>6
<1>8. CASE I!Break
  <2>1. PICK n \in 0 .. Len(toRtu) :
          /\ session' = FALSE /\ toDriver' = << >> /\ toRtu' = SubSeq(toRtu, 1, n)
          /\ UNCHANGED <<ns, nr, rtuNs, rtuNr, breaker, setpoint, seenBreaker, seenSetpoint, actcon, waiting, results>>
    BY <1>8 DEF I!Break
  <2>2. toRtu' \in Seq(FramesOf(Requests)) /\ toDriver' \in Seq(FramesOf(Asdus))
    <3>1. \A i \in 1 .. n : toRtu[i] \in FramesOf(Requests)
      BY <1>0
    <3>2. SubSeq(toRtu, 1, n) \in Seq(FramesOf(Requests))
      BY <1>0, <3>1, SubSeqProperties
    <3> QED  BY <2>1, <3>2
  <2>3. IecTypes'
    BY <1>0, <2>1, <2>2 DEF IecTypes
  <2> QED  BY <2>1, <2>3 DEF IecInv, IecInStep
<1> QED  BY <1>2, <1>4, <1>5, <1>6, <1>7, <1>8 DEF I!Next

LEMMA IecTrue == ASSUME FieldAssumption, IecInv PROVE I!TypeOK /\ I!NumbersInStep /\ I!BreakerIsReported
<1>1. I!TypeOK
  <2>1. ns \in Numbers /\ nr \in Numbers /\ rtuNs \in Numbers /\ rtuNr \in Numbers
    BY DEF IecInv, IecTypes
  <2>2. breaker \in BOOLEAN /\ seenBreaker \in BOOLEAN /\ actcon \in BOOLEAN /\ session \in BOOLEAN
    BY DEF IecInv, IecTypes
  <2>3. setpoint \in {0} \union Setpoints /\ seenSetpoint \in {0} \union Setpoints
    BY DEF IecInv, IecTypes
  <2>4. waiting \in I!Commands \union {I!Idle} /\ Len(results) <= MaxCommands
    BY DEF IecInv, IecTypes
  <2>5. {ns, nr, rtuNs, rtuNr} \subseteq I!Numbers
    BY <2>1, Zenon DEF Numbers
  <2>6. {breaker, seenBreaker, actcon, session} \subseteq BOOLEAN
    BY <2>2, Zenon
  <2>7. {setpoint, seenSetpoint} \subseteq {0} \union Setpoints
    BY <2>3, Zenon
  <2> QED  BY <2>4, <2>5, <2>6, <2>7, Zenon DEF I!TypeOK
<1>2. I!NumbersInStep
  <2>1. nr \in Nat /\ rtuNr \in Nat
    BY NumbersAreNat DEF IecInv, IecTypes
  <2>2. ASSUME NEW n \in Nat, NEW i \in Nat, i >= 1 PROVE I!After(n, i - 1) = (n + i - 1) % 32768
    <3>1. n + (i - 1) = n + i - 1
      BY <2>2
    <3> QED  BY <3>1 DEF I!After
  <2> QED  BY <2>1, <2>2 DEF IecInv, IecInStep, Counts, I!After, I!NumbersInStep
<1>3. I!BreakerIsReported
  <2>1. SUFFICES ASSUME session PROVE I!BreakerIsReported
    BY DEF I!BreakerIsReported
  <2>2. Reported(toDriver, seenBreaker, breaker) /\ toDriver \in Seq(FramesOf(Asdus))
    BY <2>1 DEF IecInv, IecTypes, IecInStep
  <2>3. DOMAIN toDriver = 1 .. Len(toDriver) /\ Len(toDriver) \in Nat
    BY <2>2
  <2>4. PICK reports : reports = {i \in DOMAIN toDriver : toDriver[i].asdu.type = "M_SP"}
    OBVIOUS
  <2>5. IF reports = {} THEN seenBreaker = breaker
        ELSE \E i \in reports : (\A j \in reports : j <= i) /\ toDriver[i].asdu.value = breaker
    <3>1. CASE SaysNothing(toDriver) /\ seenBreaker = breaker
      BY <2>3, <2>4, <3>1 DEF SaysNothing
    <3>2. CASE SaysLast(toDriver, breaker)
      <4>1. PICK i \in 1 .. Len(toDriver) :
              /\ toDriver[i].asdu.type = "M_SP" /\ toDriver[i].asdu.value = breaker
              /\ \A j \in 1 .. Len(toDriver) : j > i => toDriver[j].asdu.type # "M_SP"
        BY <3>2 DEF SaysLast
      <4>2. i \in reports /\ \A j \in reports : j <= i
        BY <2>3, <2>4, <4>1
      <4> QED  BY <4>1, <4>2
    <3> QED  BY <2>2, <3>1, <3>2 DEF Reported
  <2> QED  BY <2>1, <2>4, <2>5 DEF I!BreakerIsReported
<1> QED  BY <1>1, <1>2, <1>3


-----------------------------------------------------------------------------
(* The parts together. A step of one leaves the state of the others alone.   *)

WireInv == DlmsInv /\ ModbusInv /\ IecInv

LEMMA DlmsStays == ASSUME DlmsInv, UNCHANGED dlms PROVE DlmsInv'
BY DEF dlms, DlmsInv, Reads, OneAnswer, GetRequest, GetResponse, Wanted

LEMMA ModbusStays == ASSUME ModbusInv, UNCHANGED modbus PROVE ModbusInv'
<1>1. UNCHANGED <<device, points, tcp, holder, sent, toDevice, toClient, todo, asked, outcome, reading, tcpSpells>>
  BY DEF modbus
<1>2. /\ (points \in Registers)' /\ \A w : Stands(w)' <=> Stands(w)
      /\ \A c : (Executable(c)' <=> Executable(c)) /\ M!Writes(c)' = M!Writes(c)
  BY <1>1 DEF ModbusInv, Registers, Stands, Executable, M!Writes, M!Commands, M!supported_commands
<1>3. Wire'
  BY <1>1 DEF ModbusInv, Wire, Lag, Sound
<1>4. Waited'
  BY <1>1 DEF ModbusInv, Waited, Lag, Done
<1>5. InProgress' /\ Stand'
  BY <1>1, <1>2 DEF ModbusInv, InProgress, Stand, Acked, Shows
<1> QED  BY <1>1, <1>2, <1>3, <1>4, <1>5 DEF ModbusInv

LEMMA IecStays == ASSUME IecInv, UNCHANGED iec104 PROVE IecInv'
<1>1. UNCHANGED <<session, toRtu, toDriver, ns, nr, rtuNs, rtuNr, breaker, setpoint, seenBreaker, seenSetpoint,
                  actcon, waiting, results>>
  BY DEF iec104
<1> QED  BY <1>1 DEF IecInv, IecTypes, IecInStep, Counts, Reported, SaysLast, SaysNothing

LEMMA WireStep ==
    ASSUME FieldAssumption, WireInv, [Next]_steps
    PROVE  WireInv'
<1>1. CASE I!Next /\ UNCHANGED <<dlms, modbus>>
  BY <1>1, IecStep, DlmsStays, ModbusStays DEF WireInv
<1>2. CASE L!Next /\ UNCHANGED <<iec104, modbus>>
  BY <1>2, IecStays, DlmsStep, ModbusStays DEF WireInv
<1>3. CASE M!Next /\ UNCHANGED <<iec104, dlms>>
  BY <1>3, IecStays, DlmsStays, ModbusStep DEF WireInv
<1>4. CASE UNCHANGED <<iec104, dlms, modbus>>
  BY <1>4, IecStays, DlmsStays, ModbusStays DEF WireInv
<1> QED
  BY <1>1, <1>2, <1>3, <1>4 DEF steps, Next, Telemetry, Charging, OpcUa, Derms, Path, Iec104, Dlms, Modbus

(* What is under way between the drivers and their devices fits what each    *)
(* end expects: the answers of a DLMS read, the transaction numbers of       *)
(* Modbus with the writes that an order has still to make, and the frame     *)
(* numbers of IEC 104 with the last report of the breaker.                   *)
THEOREM WireInvariance == Spec => []WireInv
<1>1. Init => WireInv
  BY FieldAssumption, IecInit, DlmsInit, ModbusInit DEF Init, WireInv
<1>2. WireInv /\ [Next]_<<part, telemetry, charging_, opcua, derms, path, iec104, dlms, modbus>> => WireInv'
  BY FieldAssumption, WireStep DEF steps
<1> QED  BY <1>1, <1>2, PTL DEF Spec

(* The frames of an IEC 104 session carry the numbers the other end expects, *)
(* also where the 15 bits wrap, with the breaker's position reported last;   *)
(* and a DLMS read that met no spell publishes what was asked for, in order. *)
THEOREM SessionsInStepHolds == Spec => []SessionsInStep
<1>1. WireInv => SessionsInStep
  BY FieldAssumption, IecTrue, DlmsTrue DEF WireInv, SessionsInStep
<1> QED  BY <1>1, WireInvariance, PTL

(* What a Modbus device acknowledged stands in its registers: a request that *)
(* was given up and is carried out late never undoes a later order.          *)
THEOREM AckedStandsHolds == Spec => []AckedStands
<1>1. WireInv => AckedStands
  BY FieldAssumption, ModbusTrue DEF WireInv, AckedStands
<1> QED  BY <1>1, WireInvariance, PTL
=============================================================================
