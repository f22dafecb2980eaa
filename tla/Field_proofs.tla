---------------------------- MODULE Field_proofs ----------------------------
(* Proofs about the parts that face the field, each for any number of its    *)
(* requests, commands, connections or items. The parts share no state, and   *)
(* so each has an invariant of its own.                                      *)
EXTENDS MCField, FiniteSetTheorems, SequenceTheorems, TLAPS

steps == <<part, telemetry, charging_, opcua, derms, path, iec104, dlms, modbus>>

-----------------------------------------------------------------------------
(* The requests to the energy resources of a site: Derms.                    *)

Phases == {"new", "dispatch", "executed", "late", "refused", "died", "done", "done late"}
Writing == [id : Orders, left : SUBSET {"mode", "target"}]

(* What the phase of a request tells of its row, and whether the command     *)
(* path has it.                                                              *)
RowFits(q) ==
    /\ step[q] = "new" => row[q] = None /\ q \notin commanded
    /\ step[q] # "new" => order[q] \in D!Order
    /\ step[q] \in {"dispatch", "refused"} => row[q] = "CREATED" /\ q \notin commanded
    /\ step[q] \in {"executed", "late"} => row[q] = "CREATED" /\ q \in commanded
    /\ step[q] = "died" => row[q] = "CREATED"
    /\ step[q] = "done" => (row[q] = "EXECUTED" /\ q \in commanded) \/ (row[q] = "FAILED" /\ q \notin commanded)
    /\ step[q] = "done late" => row[q] = "FAILED" /\ q \in commanded

\* A decision fits the state of charge it was made on.
Fits(o) ==
    o.seen \notin {None, 0, 9, 10} =>
      /\ o.command = "charge" => o.seen < o.target
      /\ (o.command = "discharge" /\ o.target # None) => o.seen > o.target /\ (o.kind # "dispatch" => o.target >= 2)
      /\ (o.kind \in {"peak", "response"} /\ o.command = "discharge") => ~D!TooLow(o.seen)

\* The order has a target that the driver writes.
Bounds(q) == order[q].command # "idle" /\ order[q].target # None

\* No other request was answered.
Alone(q) == \A p \in Orders \ {q} : ack[p] = None

\* The driver, which has q in hand or is done with it, has written this register.
Has(register) == writing = None \/ register \notin writing.left

\* What it has written of q is what the registers hold; the target comes last.
Written(q) ==
    /\ Has("mode") => registers.mode = D!ModeOf(order[q].command)
    /\ Has("mode") /\ Has("target") /\ Bounds(q) => registers.target = order[q].target
    /\ ~Has("mode") /\ Bounds(q) => ~Has("target")

(* The driver has q in hand.                                                 *)
InHand(q) ==
    (writing # None /\ writing.id = q) =>
      /\ ack[q] = None
      /\ "target" \in writing.left => Bounds(q)
      /\ order[q].command # "stop_charging"
      /\ Alone(q) => Written(q)

DermsInv ==
    /\ D!TypeOK /\ step \in [Orders -> Phases] /\ writing \in Writing \union {None}
    /\ \A q \in Orders : RowFits(q)
    /\ \A q \in Orders : step[q] # "new" => Fits(order[q])
    /\ \A q \in Orders : step[q] = "new" => order[q] = None
    /\ \A q \in Orders : ack[q] # None => q \in commanded
    /\ \A q \in Orders : InHand(q)
    /\ \A q \in Orders : (ack[q] = "ACKED" /\ writing = None /\ Alone(q)) => Written(q)

LEMMA DecisionsFit ==
    ASSUME FieldAssumption, D!TypeOK, NEW d \in D!Decisions
    PROVE  d \in D!Order /\ Fits(d)
<1>0. /\ StartLevels \subseteq 0 .. 10 /\ Targets \subseteq 0 .. 10 /\ None \notin 0 .. 10
      /\ cached \in 0 .. 10 \/ cached = None
  BY DEF FieldAssumption, D!DermsAssumption, D!TypeOK, D!Soc
<1>1. /\ D!OrHalf(cached) \in 0 .. 10 /\ (cached # None => D!OrHalf(cached) = cached)
      /\ D!FalsyOrHalf(cached) \in 0 .. 10 /\ (cached \notin {None, 0} => D!FalsyOrHalf(cached) = cached)
  BY <1>0 DEF D!OrHalf, D!FalsyOrHalf
<1>2. \A kind, command, target :
        /\ kind \in {"dispatch", "peak", "response", "optimize"}
        /\ command \in {"charge", "discharge", "idle", "stop_charging"}
        /\ target \in 0 .. 10 \/ target = None
        => D!Decision(kind, command, target) \in D!Order
  BY <1>0 DEF D!Decision, D!Order, D!Soc
<1>3. ASSUME NEW t \in Targets, d = D!BatteryDispatch(t) PROVE d \in D!Order /\ Fits(d)
  <2>1. PICK command \in {"charge", "discharge", "idle"} :
          /\ d = D!Decision("dispatch", command, t)
          /\ command = "charge" => D!OrHalf(cached) < t
          /\ command = "discharge" => D!OrHalf(cached) > t
    BY <1>0, <1>1, <1>3 DEF D!BatteryDispatch
  <2>2. d \in D!Order
    BY <1>0, <1>2, <2>1
  <2>3. d.kind = "dispatch" /\ d.seen = cached /\ d.command = command /\ d.target = t
    BY <2>1 DEF D!Decision
  <2>4. Fits(d)
    BY <1>0, <1>1, <2>1, <2>3 DEF Fits
  <2> QED  BY <2>2, <2>4
<1>4. ASSUME d \in D!PeakShaving(D!OrHalf(cached)) PROVE d \in D!Order /\ Fits(d)
  <2> DEFINE s == D!OrHalf(cached)
  <2>1. d = D!Decision("peak", "discharge", D!Larger(s - 1, 2)) /\ ~D!TooLow(s)
    BY <1>4 DEF D!PeakShaving
  <2>2. D!Larger(s - 1, 2) \in 2 .. 10 /\ s > 2 /\ D!Larger(s - 1, 2) < s
    BY <1>1, <2>1 DEF D!Larger, D!TooLow
  <2>3. d \in D!Order
    BY <1>2, <2>1, <2>2
  <2>4. d.kind = "peak" /\ d.seen = cached /\ d.command = "discharge" /\ d.target = D!Larger(s - 1, 2)
    BY <2>1 DEF D!Decision
  <2>5. Fits(d)
    BY <1>0, <1>1, <2>1, <2>2, <2>4 DEF Fits
  <2> QED  BY <2>3, <2>5
<1>5. ASSUME d \in D!DemandResponse(D!FalsyOrHalf(cached)) PROVE d \in D!Order /\ Fits(d)
  <2>1. d = D!Decision("response", "discharge", None) /\ ~D!TooLow(D!FalsyOrHalf(cached))
    BY <1>5 DEF D!DemandResponse
  <2>2. d \in D!Order
    BY <1>2, <2>1
  <2>3. d.kind = "response" /\ d.seen = cached /\ d.command = "discharge" /\ d.target = None
    BY <2>1 DEF D!Decision
  <2> QED  BY <1>0, <1>1, <2>1, <2>2, <2>3 DEF Fits
<1>6. ASSUME NEW o \in {"maximize_solar", "min_cost", "balance"}, d = D!LoadOptimization(o, D!FalsyOrHalf(cached))
      PROVE  d \in D!Order /\ Fits(d)
  <2> DEFINE s == D!FalsyOrHalf(cached)
  <2>0. D!Larger(s - 2, 2) \in 2 .. 10 /\ D!Smaller(s + 2, 9) \in 2 .. 9 /\ (s < 9 => s < D!Smaller(s + 2, 9))
        /\ (s >= 5 => s > D!Larger(s - 2, 2))
    BY <1>1 DEF D!Larger, D!Smaller
  <2>1. PICK command \in {"charge", "discharge"}, t \in 2 .. 10 :
          /\ d = D!Decision("optimize", command, t)
          /\ command = "charge" => s < t \/ s >= 9
          /\ command = "discharge" => s > t
    <3>1. CASE o = "maximize_solar"
      <4>1. d = D!Decision("optimize", "charge", D!Smaller(s + 2, 9))
        BY <1>6, <3>1 DEF D!LoadOptimization
      <4> QED  BY <1>1, <2>0, <4>1
    <3>2. CASE o # "maximize_solar"
      <4>1. \E level \in {5, 6} : d = IF s < level THEN D!Decision("optimize", "charge", level)
                                      ELSE D!Decision("optimize", "discharge", D!Larger(s - 2, 2))
        BY <1>6, <3>2 DEF D!LoadOptimization
      <4> QED  BY <1>1, <2>0, <4>1
    <3> QED  BY <3>1, <3>2
  <2>2. d \in D!Order
    BY <1>2, <2>1
  <2>3. d.kind = "optimize" /\ d.seen = cached /\ d.command = command /\ d.target = t
    BY <2>1 DEF D!Decision
  <2>4. Fits(d)
    BY <1>0, <1>1, <2>1, <2>3 DEF Fits
  <2> QED  BY <2>2, <2>4
<1>7. ASSUME d = [D!Decision("response", "stop_charging", None) EXCEPT !.seen = None] PROVE d \in D!Order /\ Fits(d)
  <2>1. d = [kind |-> "response", seen |-> None, command |-> "stop_charging", target |-> None]
    BY <1>7 DEF D!Decision
  <2> QED  BY <2>1 DEF D!Order, Fits
<1> QED
  BY <1>3, <1>4, <1>5, <1>6, <1>7 DEF D!Decisions

LEMMA DermsInit == ASSUME FieldAssumption, D!Init PROVE DermsInv
<1>1. /\ row = [q \in Orders |-> None] /\ order = [q \in Orders |-> None] /\ step = [q \in Orders |-> "new"]
      /\ ack = [q \in Orders |-> None] /\ commanded = {} /\ writing = None
  BY DEF D!Init
<1>2. D!TypeOK
  BY <1>1 DEF FieldAssumption, D!DermsAssumption, D!Init, D!TypeOK, D!Soc, D!Modes
<1>3. step \in [Orders -> Phases]
  BY <1>1 DEF Phases
<1>4. \A q \in Orders : RowFits(q)
  BY <1>1 DEF RowFits
<1>5. \A q \in Orders : step[q] = "new" /\ order[q] = None /\ ack[q] = None
  BY <1>1
<1>6. None # "ACKED"
  BY DEF FieldAssumption, D!DermsAssumption
<1>7. \A q \in Orders : InHand(q)
  BY <1>1 DEF InHand
<1> QED  BY <1>1, <1>2, <1>3, <1>4, <1>5, <1>6, <1>7 DEF DermsInv

(* A step of the request handlers that leaves the decisions, the answers and *)
(* the battery alone.                                                        *)
LEMMA RequestMoves ==
    ASSUME DermsInv, NEW q \in Orders, NEW s \in Phases \ {"new"}, NEW r \in {"CREATED", "EXECUTED", "FAILED"},
           step[q] # "new", step' = [step EXCEPT ![q] = s], row' = [row EXCEPT ![q] = r],
           commanded' \in {commanded, commanded \union {q}}, RowFits(q)', mishaps' \in 0 .. MaxMishaps,
           UNCHANGED <<online, soc, registers, cached, order, writing, ack, moves>>
    PROVE  DermsInv'
<1>1. /\ step' \in [Orders -> Phases] /\ step'[q] = s /\ row' \in [Orders -> {"CREATED", "EXECUTED", "FAILED", None}]
      /\ \A p \in Orders : p # q => step'[p] = step[p] /\ row'[p] = row[p] /\ (p \in commanded' <=> p \in commanded)
  BY DEF DermsInv, D!TypeOK
<1>2. D!TypeOK'
  BY <1>1 DEF DermsInv, D!TypeOK, Phases
<1>3. \A p \in Orders : RowFits(p)'
  BY <1>1 DEF DermsInv, RowFits
<1>4. \A p \in Orders : (step'[p] # "new" => Fits(order[p])) /\ (step'[p] = "new" => order[p] = None)
  BY <1>1 DEF DermsInv
<1>5. \A p \in Orders : (Written(p)' <=> Written(p)) /\ (Alone(p)' <=> Alone(p)) /\ (InHand(p)' <=> InHand(p))
  BY DEF Written, Has, Bounds, Alone, InHand
<1>6. \A p \in Orders : ack'[p] # None => p \in commanded'
  BY DEF DermsInv
<1>7. writing' \in Writing \union {None}
  BY DEF DermsInv
<1> HIDE DEF D!TypeOK, RowFits, Alone, Written, InHand
<1> QED
  BY <1>1, <1>2, <1>3, <1>4, <1>5, <1>6, <1>7 DEF DermsInv, Fits

(* A step of the driver and the battery.                                     *)
LEMMA DriverMoves ==
    ASSUME DermsInv, UNCHANGED <<step, row, order, commanded>>, D!TypeOK',
           writing' \in Writing \union {None},
           \A q \in Orders : ack'[q] # None => q \in commanded,
           \A q \in Orders : InHand(q)',
           \A q \in Orders : (ack'[q] = "ACKED" /\ writing' = None /\ Alone(q)') => Written(q)'
    PROVE  DermsInv'
<1>1. \A q \in Orders : RowFits(q)'
  BY DEF DermsInv, RowFits
<1>2. \A q \in Orders : (step'[q] # "new" => Fits(order'[q])) /\ (step'[q] = "new" => order'[q] = None)
  BY DEF DermsInv
<1>3. step' \in [Orders -> Phases]
  BY DEF DermsInv
<1> QED  BY <1>1, <1>2, <1>3 DEF DermsInv, Fits

LEMMA DermsStep ==
    ASSUME FieldAssumption, DermsInv, D!Next
    PROVE  DermsInv'
<1>0. /\ D!TypeOK /\ step \in [Orders -> Phases] /\ writing \in Writing \union {None}
      /\ None \notin 0 .. 10 /\ None \notin Writing /\ None \notin D!Order
      /\ None \notin {"CREATED", "EXECUTED", "FAILED", "ACKED"}
      /\ \A q \in Orders : RowFits(q) /\ (step[q] = "new" => order[q] = None)
      /\ mishaps \in 0 .. MaxMishaps /\ MaxMishaps \in Nat
  BY DEF DermsInv, FieldAssumption, D!DermsAssumption, D!Soc, Writing, D!TypeOK
<1>1. ASSUME NEW q \in Orders, D!InsertRequest(q) PROVE DermsInv'
  <2>1. PICK d \in D!Decisions : order' = [order EXCEPT ![q] = d]
    BY <1>1 DEF D!InsertRequest
  <2>2. /\ step[q] = "new" /\ row' = [row EXCEPT ![q] = "CREATED"] /\ step' = [step EXCEPT ![q] = "dispatch"]
        /\ UNCHANGED <<online, soc, registers, cached, commanded, writing, ack, moves, mishaps>>
    BY <1>1 DEF D!InsertRequest
  <2>3. d \in D!Order /\ Fits(d)
    BY <1>0, DecisionsFit
  <2>4. /\ order'[q] = d /\ row'[q] = "CREATED" /\ step'[q] = "dispatch" /\ step' \in [Orders -> Phases]
        /\ order' \in [Orders -> D!Order \union {None}]
        /\ row' \in [Orders -> {"CREATED", "EXECUTED", "FAILED", None}]
        /\ \A p \in Orders : p # q => order'[p] = order[p] /\ row'[p] = row[p] /\ step'[p] = step[p]
    BY <1>0, <2>1, <2>2, <2>3 DEF Phases, D!TypeOK
  <2>5. D!TypeOK'
    BY <2>2, <2>4 DEF DermsInv, D!TypeOK, Phases
  <2>6. q \notin commanded /\ ack[q] = None /\ (writing # None => writing.id # q)
    BY <1>0, <2>2 DEF RowFits, DermsInv, D!TypeOK
  <2>7. \A p \in Orders : RowFits(p)'
    BY <1>0, <2>2, <2>3, <2>4, <2>6 DEF RowFits
  <2>8. \A p \in Orders : (step'[p] # "new" => Fits(order'[p])) /\ (step'[p] = "new" => order'[p] = None)
    BY <2>3, <2>4 DEF DermsInv
  <2>9. \A p \in Orders : p # q => (Written(p)' <=> Written(p)) /\ (Bounds(p)' <=> Bounds(p))
    BY <2>2, <2>4 DEF Written, Has, Bounds
  <2>10. ASSUME NEW p \in Orders PROVE InHand(p)'
    <3>1. CASE p = q
      BY <2>2, <2>6, <3>1 DEF InHand
    <3>2. CASE p # q
      BY <2>2, <2>4, <2>9, <3>2 DEF DermsInv, InHand, Alone
    <3> QED  BY <3>1, <3>2
  <2>11. \A p \in Orders : (ack'[p] = "ACKED" /\ writing' = None /\ Alone(p)') => Written(p)'
    BY <1>0, <2>2, <2>6, <2>9 DEF DermsInv, Alone
  <2> QED
    BY <1>0, <2>2, <2>4, <2>5, <2>7, <2>8, <2>10, <2>11 DEF DermsInv, Fits
<1>2. ASSUME NEW q \in Orders, D!Dispatch(q) PROVE DermsInv'
  <2>1. /\ step[q] = "dispatch" /\ commanded' = commanded \union {q} /\ step' = [step EXCEPT ![q] = "executed"]
        /\ UNCHANGED <<online, soc, registers, cached, order, row, writing, ack, moves, mishaps>>
    BY <1>2 DEF D!Dispatch
  <2>2. row[q] = "CREATED" /\ order[q] \in D!Order /\ row' = [row EXCEPT ![q] = "CREATED"] /\ step'[q] = "executed"
    BY <1>0, <2>1 DEF RowFits, D!TypeOK
  <2>3. RowFits(q)'
    BY <2>1, <2>2 DEF RowFits
  <2> QED  BY <1>0, <2>1, <2>2, <2>3, RequestMoves DEF Phases
<1>3. ASSUME NEW q \in Orders, NEW late \in BOOLEAN, D!DispatchRefused(q, late) PROVE DermsInv'
  <2>1. /\ step[q] = "dispatch" /\ mishaps' \in 0 .. MaxMishaps
        /\ commanded' = (IF late THEN commanded \union {q} ELSE commanded)
        /\ step' = [step EXCEPT ![q] = IF late THEN "late" ELSE "refused"]
        /\ UNCHANGED <<online, soc, registers, cached, order, row, writing, ack, moves>>
    BY <1>0, <1>3 DEF D!DispatchRefused, D!Mishap
  <2>2. /\ row[q] = "CREATED" /\ q \notin commanded /\ order[q] \in D!Order /\ row' = [row EXCEPT ![q] = "CREATED"]
        /\ step'[q] = IF late THEN "late" ELSE "refused"
    BY <1>0, <2>1 DEF RowFits, D!TypeOK
  <2>3. RowFits(q)'
    <3>1. CASE late
      <4>1. step'[q] = "late" /\ q \in commanded' /\ row'[q] = "CREATED" /\ order'[q] \in D!Order
        BY <2>1, <2>2, <3>1
      <4> QED  BY <4>1 DEF RowFits
    <3>2. CASE ~late
      <4>1. step'[q] = "refused" /\ q \notin commanded' /\ row'[q] = "CREATED" /\ order'[q] \in D!Order
        BY <2>1, <2>2, <3>2
      <4> QED  BY <4>1 DEF RowFits
    <3> QED  BY <3>1, <3>2
  <2> QED  BY <1>0, <2>1, <2>2, <2>3, RequestMoves DEF Phases
<1>4. ASSUME NEW q \in Orders, D!UpdateStatus(q) PROVE DermsInv'
  <2>1. /\ step[q] \in {"executed", "late", "refused"}
        /\ row' = [row EXCEPT ![q] = IF step[q] = "executed" THEN "EXECUTED" ELSE "FAILED"]
        /\ step' = [step EXCEPT ![q] = IF step[q] = "late" THEN "done late" ELSE "done"]
        /\ UNCHANGED <<online, soc, registers, cached, order, commanded, writing, ack, moves, mishaps>>
    BY <1>4 DEF D!UpdateStatus
  <2>2. /\ row'[q] = (IF step[q] = "executed" THEN "EXECUTED" ELSE "FAILED")
        /\ step'[q] = (IF step[q] = "late" THEN "done late" ELSE "done") /\ order[q] \in D!Order
    BY <1>0, <2>1 DEF RowFits, D!TypeOK
  <2>3. RowFits(q)'
    BY <1>0, <2>1, <2>2 DEF RowFits
  <2> QED  BY <1>0, <2>1, <2>3, RequestMoves DEF Phases
<1>5. ASSUME NEW q \in Orders, D!RequestDies(q) PROVE DermsInv'
  <2>1. /\ step[q] \in {"dispatch", "executed", "late", "refused"} /\ mishaps' \in 0 .. MaxMishaps
        /\ step' = [step EXCEPT ![q] = "died"]
        /\ UNCHANGED <<online, soc, registers, cached, order, row, commanded, writing, ack, moves>>
    BY <1>0, <1>5 DEF D!RequestDies, D!Mishap
  <2>2. row[q] = "CREATED" /\ order[q] \in D!Order /\ row' = [row EXCEPT ![q] = "CREATED"] /\ step'[q] = "died"
    BY <1>0, <2>1, ZenonT(40) DEF RowFits, D!TypeOK
  <2>3. RowFits(q)'
    BY <2>1, <2>2 DEF RowFits
  <2> QED  BY <1>0, <2>1, <2>2, <2>3, RequestMoves DEF Phases
<1>6. ASSUME NEW q \in Orders, D!ExecuteCommand(q) PROVE DermsInv'
  <2>1. PICK rest \in SUBSET {"mode", "target"} :
          /\ writing' = [id |-> q, left |-> rest] /\ "mode" \in rest /\ ("target" \in rest <=> Bounds(q))
    BY <1>6 DEF D!ExecuteCommand, Bounds
  <2>2. /\ q \in commanded /\ ack[q] = None /\ order[q].command # "stop_charging"
        /\ UNCHANGED <<online, soc, registers, cached, order, row, step, commanded, ack, moves, mishaps>>
    BY <1>6 DEF D!ExecuteCommand
  <2>3. writing' \in Writing /\ writing'.id = q /\ writing'.left = rest
    BY <2>1 DEF Writing
  <2>4. D!TypeOK'
    BY <1>0, <2>2, <2>3 DEF D!TypeOK
  <2>5. writing' # None /\ Written(q)'
    BY <1>0, <2>1, <2>2, <2>3 DEF Written, Has, Bounds
  <2>6. \A p \in Orders : InHand(p)'
    BY <2>1, <2>2, <2>3, <2>5 DEF InHand, Bounds
  <2> QED  BY <2>1, <2>2, <2>3, <2>4, <2>5, <2>6, DriverMoves DEF DermsInv
<1>7. ASSUME D!WriteControl PROVE DermsInv'
  <2>1. PICK q \in Orders, rest \in SUBSET {"mode", "target"} :
          /\ writing = [id |-> q, left |-> rest] /\ writing.id = q /\ writing.left = rest /\ rest # {} /\ writing # None
    BY <1>0, <1>7 DEF D!WriteControl, Writing
  <2>2. /\ q \in commanded /\ ack[q] = None /\ order[q].command # "stop_charging" /\ (Alone(q) => Written(q))
        /\ "target" \in rest => Bounds(q)
        /\ order[q] \in D!Order /\ registers \in [mode : D!Modes, target : 0 .. 10]
    <3>1. InHand(q) /\ q \in commanded /\ RowFits(q)
      BY <1>0, <2>1 DEF DermsInv, D!TypeOK
    <3>2. order[q] \in D!Order
      BY <1>0, <3>1 DEF RowFits
    <3> QED  BY <1>0, <2>1, <3>1, <3>2 DEF InHand, D!TypeOK, D!Soc
  <2>3. UNCHANGED <<online, soc, cached, order, row, step, commanded, ack, moves, mishaps>>
    BY <1>7 DEF D!WriteControl
  <2>4. CASE "mode" \in rest
    <3>1. /\ registers' = [registers EXCEPT !.mode = D!ModeOf(order[q].command)]
          /\ writing' = [writing EXCEPT !.left = @ \ {"mode"}]
      BY <1>7, <2>1, <2>4 DEF D!WriteControl
    <3>2. writing' = [id |-> q, left |-> rest \ {"mode"}]
      BY <2>1, <3>1
    <3>3. writing' \in Writing /\ writing'.id = q /\ writing'.left = rest \ {"mode"}
      BY <3>2 DEF Writing
    <3>4. D!ModeOf(order[q].command) \in D!Modes
      BY <2>2 DEF D!ModeOf, D!Modes, D!Order
    <3>5. /\ registers' \in [mode : D!Modes, target : D!Soc] /\ registers'.mode = D!ModeOf(order[q].command)
      BY <2>2, <3>1, <3>4 DEF D!Soc
    <3>6. D!TypeOK'
      BY <1>0, <2>2, <2>3, <3>3, <3>5 DEF D!TypeOK
    <3>7. Alone(q)' => Written(q)'
      BY <1>0, <2>1, <2>2, <2>3, <2>4, <3>3, <3>5 DEF Alone, Written, Has, Bounds
    <3>8. \A p \in Orders : InHand(p)'
      BY <1>0, <2>2, <2>3, <3>3, <3>7 DEF InHand, Bounds
    <3> QED  BY <1>0, <2>2, <2>3, <3>3, <3>6, <3>8, DriverMoves DEF DermsInv
  <2>5. CASE "mode" \notin rest
    <3>1. /\ registers' = [registers EXCEPT !.target = order[q].target]
          /\ writing' = [writing EXCEPT !.left = {}] /\ "target" \in rest
      BY <1>7, <2>1, <2>5 DEF D!WriteControl
    <3>2. writing' = [id |-> q, left |-> {}]
      BY <2>1, <3>1
    <3>3. writing' \in Writing /\ writing'.id = q /\ writing'.left = {}
      BY <3>2 DEF Writing
    <3>4. order[q].target \in 0 .. 10
      BY <2>2, <3>1 DEF D!Order, D!Soc, Bounds
    <3>5. /\ registers' \in [mode : D!Modes, target : D!Soc] /\ registers'.target = order[q].target
          /\ registers'.mode = registers.mode
      BY <2>2, <3>1, <3>4 DEF D!Soc
    <3>6. D!TypeOK'
      BY <1>0, <2>2, <2>3, <3>3, <3>5 DEF D!TypeOK
    <3>7. Alone(q)' => Written(q)'
      BY <1>0, <2>1, <2>2, <2>3, <2>5, <3>3, <3>5 DEF Alone, Written, Has, Bounds
    <3>8. \A p \in Orders : InHand(p)'
      BY <1>0, <2>2, <2>3, <3>3, <3>7 DEF InHand, Bounds
    <3> QED  BY <1>0, <2>2, <2>3, <3>3, <3>6, <3>8, DriverMoves DEF DermsInv
  <2> QED  BY <2>4, <2>5
<1>8. ASSUME D!WriteFails \/ D!Answer PROVE DermsInv'
  <2>1. PICK q \in Orders, verdict \in {"ACKED", "FAILED"} :
          /\ writing # None /\ writing.id = q /\ writing' = None /\ ack' = [ack EXCEPT ![q] = verdict]
          /\ verdict = "ACKED" => writing.left = {}
          /\ mishaps' \in 0 .. MaxMishaps
          /\ UNCHANGED <<online, soc, registers, cached, order, row, step, commanded, moves>>
    BY <1>0, <1>8 DEF D!WriteFails, D!Answer, D!Mishap, Writing
  <2>2. q \in commanded /\ (Alone(q) => Written(q))
    BY <1>0, <2>1 DEF DermsInv, D!TypeOK, InHand
  <2>3. /\ ack' \in [Orders -> {"ACKED", "FAILED", None}] /\ ack'[q] = verdict
        /\ \A p \in Orders : p # q => ack'[p] = ack[p]
    BY <1>0, <2>1 DEF D!TypeOK
  <2>4. D!TypeOK'
    BY <1>0, <2>1, <2>3 DEF D!TypeOK
  <2>5. \A p \in Orders : ack'[p] # None => p \in commanded
    BY <2>2, <2>3 DEF DermsInv
  <2>6. ASSUME NEW p \in Orders, ack'[p] = "ACKED", Alone(p)' PROVE Written(p)'
    <3>1. p = q
      BY <1>0, <2>3, <2>6 DEF Alone
    <3>2. verdict = "ACKED" /\ Alone(q)
      BY <2>3, <2>6, <3>1 DEF Alone
    <3> QED  BY <1>0, <2>1, <2>2, <3>1, <3>2 DEF Written, Has, Bounds
  <2>7. \A p \in Orders : InHand(p)'
    BY <2>1 DEF InHand
  <2> QED  BY <2>1, <2>4, <2>5, <2>6, <2>7, DriverMoves
<1>9. ASSUME D!Integrate \/ D!ReadBattery \/ D!TwinExpires \/ \E d \in {"battery", "ev_charger"} : D!DeviceOffline(d)
      PROVE  DermsInv'
  <2>1. UNCHANGED <<registers, order, row, step, commanded, writing, ack>>
    BY <1>9 DEF D!Integrate, D!ReadBattery, D!TwinExpires, D!DeviceOffline
  <2>2. D!TypeOK'
    <3>1. CASE D!Integrate
      <4>a. registers.target \in 0 .. 10 /\ soc \in 0 .. 10 /\ moves \in 0 .. MaxMoves /\ MaxMoves \in Nat
        BY <1>0 DEF D!TypeOK, D!Soc, FieldAssumption, D!DermsAssumption
      <4>1. D!Ceiling \in 0 .. 10 /\ D!Floor \in 0 .. 10
        BY <4>a DEF D!Ceiling, D!Floor
      <4>2. soc' \in 0 .. 10 /\ moves' \in 0 .. MaxMoves /\ UNCHANGED <<online, cached, mishaps>>
        BY <3>1, <4>a, <4>1 DEF D!Integrate
      <4> QED  BY <1>0, <2>1, <4>2 DEF D!TypeOK, D!Soc
    <3>2. CASE ~D!Integrate
      <4>1. /\ soc' = soc /\ moves' = moves /\ cached' \in D!Soc \union {None} /\ mishaps' \in 0 .. MaxMishaps
            /\ online' \subseteq {"battery", "ev_charger"}
        <5>1. /\ soc \in D!Soc /\ cached \in D!Soc \union {None} /\ online \subseteq {"battery", "ev_charger"}
              /\ D!Mishap => mishaps' \in 0 .. MaxMishaps
          <6>1. D!Mishap => mishaps' \in 0 .. MaxMishaps
            BY <1>0 DEF D!Mishap
          <6> QED  BY <1>0, <6>1 DEF D!TypeOK
        <5>2. CASE D!ReadBattery
          BY <1>0, <5>1, <5>2 DEF D!ReadBattery
        <5>3. CASE D!TwinExpires
          BY <5>1, <5>3 DEF D!TwinExpires
        <5>4. CASE \E d \in {"battery", "ev_charger"} : D!DeviceOffline(d)
          BY <5>1, <5>4 DEF D!DeviceOffline
        <5> QED  BY <1>9, <3>2, <5>2, <5>3, <5>4
      <4> QED  BY <1>0, <2>1, <4>1 DEF D!TypeOK
    <3> QED  BY <3>1, <3>2
  <2>3. /\ \A q \in Orders : (Alone(q)' <=> Alone(q)) /\ (Written(q)' <=> Written(q))
    BY <2>1 DEF Alone, Written, Has, Bounds
  <2>4. \A q \in Orders : InHand(q)'
    BY <2>1, <2>3 DEF DermsInv, InHand, Bounds
  <2> QED  BY <1>0, <2>1, <2>2, <2>3, <2>4, DriverMoves DEF DermsInv
<1> QED
  BY <1>1, <1>2, <1>3, <1>4, <1>5, <1>6, <1>7, <1>8, <1>9 DEF D!Next

LEMMA DermsTrue ==
    ASSUME FieldAssumption, DermsInv
    PROVE  D!TypeOK /\ D!RequestsAreTrue /\ D!OrdersFit
<1>1. None \notin D!Order /\ None \notin {"CREATED", "EXECUTED", "FAILED"}
  BY DEF FieldAssumption, D!DermsAssumption
<1>2. ASSUME NEW q \in Orders
      PROVE  /\ row[q] = "EXECUTED" => q \in commanded
             /\ q \in commanded => row[q] # None
             /\ (row[q] = "FAILED" /\ q \in commanded) => step[q] = "done late"
  <2>1. RowFits(q) /\ step[q] \in Phases
    BY DEF DermsInv
  <2> QED  BY <1>1, <2>1 DEF RowFits, Phases
<1>3. ASSUME NEW q \in Orders, ack[q] = "ACKED", writing = None, \A p \in Orders \ {q} : ack[p] = None
      PROVE  /\ registers.mode = D!ModeOf(order[q].command)
             /\ (order[q].command # "idle" /\ order[q].target # None) => registers.target = order[q].target
  BY <1>3 DEF DermsInv, Alone, Written, Has, Bounds
<1>4. D!OrdersFit
  BY DEF D!OrdersFit, DermsInv, Fits
<1> QED  BY <1>2, <1>3, <1>4 DEF D!RequestsAreTrue, DermsInv

-----------------------------------------------------------------------------
(* The OPC UA connector: OpcUa.                                              *)

Clean == \A i \in U!Indices : monitored[i] \in {None, U!Variable(i)}
NoItems == \A s \in U!SessionIds : sessions[s] = None \/ sessions[s] = {}

(* While the namespace array was read in this session, the names are right,  *)
(* or there is nothing that the server could notify about: it restarted, and *)
(* what is noted may be named after its former numbering.                    *)
OpcUaInv ==
    /\ numbering \in U!Numberings /\ indices \in U!Numberings \union {None}
    /\ sessions \in [U!SessionIds -> (SUBSET U!Indices) \union {None}]
    /\ pc \in {"connect", "namespaces", "create", "note", "watch"}
    /\ client \in U!SessionIds \union {None} /\ sessionUp \in BOOLEAN /\ fresh \in BOOLEAN
    /\ left \in Seq(U!ItemSet) /\ (pc \in {"create", "note"} => left # << >>)
    /\ monitored \in [U!Indices -> U!ItemSet \union {None}]
    /\ pc = "note" => indices # None
    /\ fresh => Clean \/ NoItems
    /\ fresh /\ pc \in {"create", "note"} => (indices = numbering /\ Clean) \/ NoItems
    /\ fresh /\ pc \in {"create", "note"} /\ U!Alive(client) => indices = numbering /\ Clean

(* A variable has one index, and the index belongs to that variable.         *)
LEMMA VariableOfIndex ==
    ASSUME NEW f \in U!Numberings, f = numbering, NEW x \in U!ItemSet
    PROVE  f[x] \in U!Indices /\ U!Variable(f[x]) = x
<1>1. /\ f \in [U!ItemSet -> U!Indices]
      /\ \A a, b \in U!ItemSet : f[a] = f[b] => a = b
  BY DEF U!Numberings, U!IsInjective
<1>2. \A y \in U!ItemSet : numbering[y] = f[x] <=> y = x
  BY <1>1
<1> QED  BY <1>1, <1>2 DEF U!Variable

LEMMA OpcUaInit == ASSUME FieldAssumption, U!Init PROVE OpcUaInv
<1>1. monitored \in [U!Indices -> U!ItemSet \union {None}] /\ sessions \in [U!SessionIds -> (SUBSET U!Indices) \union {None}]
  BY DEF U!Init
<1>2. left \in Seq(U!ItemSet)
  BY DEF U!Init
<1> QED  BY <1>1, <1>2 DEF U!Init, OpcUaInv

LEMMA OpcUaStep ==
    ASSUME FieldAssumption, OpcUaInv, U!Next
    PROVE  OpcUaInv'
<1>0. /\ numbering \in U!Numberings /\ indices \in U!Numberings \union {None}
      /\ sessions \in [U!SessionIds -> (SUBSET U!Indices) \union {None}]
      /\ pc \in {"connect", "namespaces", "create", "note", "watch"}
      /\ client \in U!SessionIds \union {None} /\ sessionUp \in BOOLEAN /\ fresh \in BOOLEAN
      /\ left \in Seq(U!ItemSet) /\ (pc \in {"create", "note"} => left # << >>)
      /\ monitored \in [U!Indices -> U!ItemSet \union {None}]
      /\ pc = "note" => indices # None
      /\ fresh => Clean \/ NoItems
      /\ fresh /\ pc \in {"create", "note"} => (indices = numbering /\ Clean) \/ NoItems
      /\ fresh /\ pc \in {"create", "note"} /\ U!Alive(client) => indices = numbering /\ Clean
  BY DEF OpcUaInv
<1>a. Items \in Seq(U!ItemSet) /\ Items # << >> /\ None \notin U!SessionIds /\ \A held \in SUBSET U!Indices : held # None
  BY DEF FieldAssumption, U!OpcUaAssumption
<1>b. numbering' = numbering => \A i : U!Variable(i)' = U!Variable(i)
  BY DEF U!Variable
<1>1. CASE U!Restart
  <2>1. /\ numbering' \in U!Numberings /\ sessions' = [s \in U!SessionIds |-> None]
        /\ UNCHANGED <<pc, client, sessionUp, indices, fresh, left, monitored>>
    BY <1>1 DEF U!Restart
  <2>2. NoItems' /\ ~U!Alive(client)'
    BY <1>0, <2>1 DEF NoItems, U!Alive
  <2> QED  BY <1>0, <2>1, <2>2 DEF OpcUaInv
<1>2. ASSUME NEW s \in U!SessionIds, U!SessionLost(s) PROVE OpcUaInv'
  <2>1. /\ sessions' = [sessions EXCEPT ![s] = None]
        /\ UNCHANGED <<numbering, pc, client, sessionUp, indices, fresh, left, monitored>>
    BY <1>2 DEF U!SessionLost
  <2>2. /\ sessions' \in [U!SessionIds -> (SUBSET U!Indices) \union {None}]
        /\ NoItems => NoItems'
        /\ U!Alive(client)' => U!Alive(client)
    BY <1>0, <2>1 DEF NoItems, U!Alive
  <2>3. Clean => Clean'
    BY <1>b, <2>1 DEF Clean
  <2> QED  BY <1>0, <2>1, <2>2, <2>3 DEF OpcUaInv
<1>3. CASE U!Connect
  <2>1. PICK s \in U!SessionIds : sessions' = [sessions EXCEPT ![s] = {}] /\ client' = s
    BY <1>3 DEF U!Connect
  <2>2. pc' = "namespaces" /\ sessionUp' = TRUE /\ UNCHANGED <<numbering, indices, fresh, left, monitored>>
    BY <1>3 DEF U!Connect
  <2>3. sessions' \in [U!SessionIds -> (SUBSET U!Indices) \union {None}] /\ (NoItems => NoItems')
    BY <1>0, <2>1 DEF NoItems
  <2>4. Clean => Clean'
    BY <1>b, <2>2 DEF Clean
  <2> QED  BY <1>0, <2>1, <2>2, <2>3, <2>4 DEF OpcUaInv
<1>4. ASSUME NEW ok \in BOOLEAN, U!ResolveNamespaces(ok) PROVE OpcUaInv'
  <2>1. /\ indices' = (IF ok THEN numbering ELSE indices) /\ fresh' = ok /\ pc' = "create" /\ left' = Items
        /\ monitored' = [i \in U!Indices |-> None]
        /\ UNCHANGED <<numbering, sessions, client, sessionUp>>
    BY <1>4 DEF U!ResolveNamespaces
  <2>2. Clean' /\ monitored' \in [U!Indices -> U!ItemSet \union {None}]
    BY <2>1 DEF Clean
  <2> QED  BY <1>0, <1>a, <2>1, <2>2 DEF OpcUaInv
<1>5. CASE U!CreateItem
  <2>1. /\ pc = "create" /\ U!Alive(client) /\ indices # None /\ pc' = "note"
        /\ sessions' = [sessions EXCEPT ![client] = @ \union {indices[Head(left)]}]
        /\ UNCHANGED <<numbering, client, sessionUp, indices, fresh, left, monitored>>
    BY <1>5 DEF U!CreateItem
  <2>2. Head(left) \in U!ItemSet /\ client \in U!SessionIds /\ sessions[client] # None
    BY <1>0, <2>1 DEF U!Alive
  <2>3. indices[Head(left)] \in U!Indices
    BY <1>0, <2>1, <2>2 DEF U!Numberings
  <2>4. sessions' \in [U!SessionIds -> (SUBSET U!Indices) \union {None}]
    BY <1>0, <2>1, <2>2, <2>3
  <2>5. Clean => Clean'
    BY <1>b, <2>1 DEF Clean
  <2>6. fresh => indices = numbering /\ Clean
    BY <1>0, <2>1
  <2> QED  BY <1>0, <2>1, <2>4, <2>5, <2>6 DEF OpcUaInv
<1>6. CASE U!NoteHandle
  <2>1. /\ pc = "note" /\ monitored' = [monitored EXCEPT ![indices[Head(left)]] = Head(left)] /\ left' = Tail(left)
        /\ pc' = (IF Len(left) = 1 THEN "watch" ELSE "create")
        /\ UNCHANGED <<numbering, sessions, client, sessionUp, indices, fresh>>
    BY <1>6 DEF U!NoteHandle
  <2>2. Head(left) \in U!ItemSet /\ Tail(left) \in Seq(U!ItemSet) /\ (Len(left) # 1 => Tail(left) # << >>)
    <3>1. left \in Seq(U!ItemSet) /\ left # << >>
      BY <1>0, <2>1
    <3>2. Head(left) \in U!ItemSet /\ Tail(left) \in Seq(U!ItemSet)
      BY <3>1
    <3>3. Len(Tail(left)) = Len(left) - 1 /\ Len(left) \in Nat
      BY <3>1
    <3>4. Len(left) # 1 => Len(Tail(left)) # Len(<< >>)
      BY <3>3
    <3> QED  BY <3>2, <3>4
  <2>3. indices[Head(left)] \in U!Indices
    BY <1>0, <2>1, <2>2 DEF U!Numberings
  <2>4. monitored' \in [U!Indices -> U!ItemSet \union {None}]
    BY <1>0, <2>1, <2>2, <2>3
  <2>5. indices = numbering /\ Clean => Clean'
    <3>1. SUFFICES ASSUME indices = numbering, Clean PROVE Clean'
      OBVIOUS
    <3>2. indices = numbering /\ Clean
      BY <3>1
    <3>3. U!Variable(indices[Head(left)]) = Head(left)
      BY <1>0, <2>2, <3>2, VariableOfIndex
    <3> QED  BY <1>0, <1>b, <2>1, <2>3, <3>2, <3>3 DEF Clean
  <2>6. (NoItems => NoItems') /\ (U!Alive(client)' => U!Alive(client))
    BY <2>1 DEF NoItems, U!Alive
  <2> QED  BY <1>0, <2>1, <2>2, <2>4, <2>5, <2>6 DEF OpcUaInv
<1>7. CASE U!SubscribeFails
  <2>1. /\ sessions' \in {sessions, [sessions EXCEPT ![client] = None]}
        /\ client' = None /\ sessionUp' = FALSE /\ pc' = "connect"
        /\ UNCHANGED <<numbering, indices, fresh, left, monitored>>
    BY <1>7 DEF U!SubscribeFails
  <2>2. sessions' \in [U!SessionIds -> (SUBSET U!Indices) \union {None}] /\ (NoItems => NoItems')
    BY <1>0, <2>1 DEF NoItems
  <2>3. Clean => Clean'
    BY <1>b, <2>1 DEF Clean
  <2> QED  BY <1>0, <2>1, <2>2, <2>3 DEF OpcUaInv
<1>8. CASE U!RenewFails \/ U!ConnectionLost
  <2>1. /\ pc' \in {"watch", "connect"} /\ sessionUp' \in BOOLEAN
        /\ UNCHANGED <<numbering, sessions, client, indices, fresh, left, monitored>>
    BY <1>0, <1>8 DEF U!RenewFails, U!ConnectionLost
  <2>2. (Clean => Clean') /\ (NoItems => NoItems')
    BY <1>b, <2>1 DEF Clean, NoItems
  <2> QED  BY <1>0, <2>1, <2>2 DEF OpcUaInv
<1> QED
  BY <1>1, <1>2, <1>3, <1>4, <1>5, <1>6, <1>7, <1>8 DEF U!Next, U!Worker

-----------------------------------------------------------------------------
(* The central system and its charger: ChargePoints.                         *)

Frame == [type : {"StartTransaction", "StopTransaction", "RESULT"}, id : ChargerCommands \union {None}]
ChargerFrame == [id : ChargerCommands, txn : Nat]

(* With these frames still to be read, the registry will know in the end     *)
(* whether a transaction is open: the last of them that starts or stops one  *)
(* says so, or else the entry does now.                                      *)
SaysAt(frames, txn, isOpen, k) ==
    /\ \A i \in k + 1 .. Len(frames) : frames[i].type = "RESULT"
    /\ k = 0 => ((txn # 0) <=> isOpen)
    /\ k # 0 => /\ frames[k].type \in {"StartTransaction", "StopTransaction"}
                /\ (frames[k].type = "StartTransaction") <=> isOpen
Says(frames, txn, isOpen) == \E k \in 0 .. Len(frames) : SaysAt(frames, txn, isOpen, k)

(* A connection that the server does not read yet has carried nothing.       *)
Untouched(s) ==
    thread[s] \in {"none", "accepted"} =>
      /\ toServer[s] = << >> /\ toCharger[s] = << >> /\ open[s] = FALSE
      /\ point # None => point.socket # s

(* The charger keeps the connection that is registered, and only that is     *)
(* read.                                                                     *)
Registered ==
    /\ point # None /\ socket = point.socket
    /\ \A s \in P!Sockets \ {socket} : thread[s] \in {"none", "closed"}

ChargeInv ==
    /\ P!TypeOK /\ thread = [s \in P!Sockets |-> thread[s]]
    /\ toServer \in [P!Sockets -> Seq(Frame)] /\ toCharger \in [P!Sockets -> Seq(ChargerFrame)]
    /\ open \in [P!Sockets -> BOOLEAN] /\ done \subseteq ChargerCommands
    /\ answer = [c \in ChargerCommands |-> answer[c]] /\ P!AckedWasDone
    /\ result = "Accepted" => awaited \in done
    /\ \A s \in P!Sockets : \A i \in DOMAIN toServer[s] :
          toServer[s][i].type = "RESULT" => toServer[s][i].id \in done
    /\ \A s \in P!Sockets : Untouched(s)
    /\ Registered => Says(toServer[socket], point.txn, open[socket])

LEMMA SaysAfterHead ==
    ASSUME NEW f \in Seq(Frame), f # << >>, NEW txn \in Nat, NEW next \in Nat, NEW o \in BOOLEAN, Says(f, txn, o),
           Head(f).type = "StartTransaction" => next > 0,
           Head(f).type = "StopTransaction" => next = 0,
           Head(f).type = "RESULT" => next = txn
    PROVE  Says(Tail(f), next, o)
<1>a. PICK k \in 0 .. Len(f) : SaysAt(f, txn, o, k)
  BY DEF Says
<1>1. /\ \A i \in k + 1 .. Len(f) : f[i].type = "RESULT"
      /\ k = 0 => ((txn # 0) <=> o)
      /\ k # 0 => /\ f[k].type \in {"StartTransaction", "StopTransaction"}
                  /\ (f[k].type = "StartTransaction") <=> o
  BY <1>a DEF SaysAt
<1>2. /\ Tail(f) \in Seq(Frame) /\ Len(Tail(f)) = Len(f) - 1 /\ Len(f) \in Nat \ {0} /\ Head(f) = f[1]
      /\ \A i \in 1 .. Len(f) - 1 : Tail(f)[i] = f[i + 1]
  OBVIOUS
<1>3. \A i \in k .. Len(f) - 1 : i >= 1 => Tail(f)[i].type = "RESULT"
  BY <1>1, <1>2
<1>4. CASE k \in {0, 1}
  <2>1. (next # 0) <=> o
    BY <1>1, <1>2, <1>4
  <2>2. \A i \in 0 + 1 .. Len(Tail(f)) : Tail(f)[i].type = "RESULT"
    BY <1>2, <1>3, <1>4
  <2>3. 0 \in 0 .. Len(Tail(f))
    BY <1>2
  <2>4. SaysAt(Tail(f), next, o, 0)
    BY <2>1, <2>2 DEF SaysAt
  <2> QED  BY <2>3, <2>4 DEF Says
<1>5. CASE k > 1
  <2>1. k - 1 \in 0 .. Len(Tail(f)) /\ k - 1 # 0 /\ Tail(f)[k - 1] = f[k]
    BY <1>1, <1>2, <1>5
  <2>2. \A i \in (k - 1) + 1 .. Len(Tail(f)) : Tail(f)[i].type = "RESULT"
    BY <1>1, <1>2, <1>3, <1>5
  <2>3. SaysAt(Tail(f), next, o, k - 1)
    BY <1>1, <1>5, <2>1, <2>2 DEF SaysAt
  <2> QED  BY <2>1, <2>3 DEF Says
<1> QED  BY <1>4, <1>5

LEMMA SaysAfterTold ==
    ASSUME FieldAssumption, NEW f \in Seq(Frame), NEW txn \in Nat, NEW o \in BOOLEAN,
           NEW c \in ChargerCommands, NEW o2 \in BOOLEAN,
           o2 = CASE ChargerKinds[c] = "start_charging" -> TRUE
                  [] ChargerKinds[c] = "stop_charging"  -> FALSE
                  [] OTHER                              -> o
    PROVE  /\ f \o P!Told(c) \in Seq(Frame)
           /\ Says(f, txn, o) => Says(f \o P!Told(c), txn, o2)
           /\ \A i \in DOMAIN (f \o P!Told(c)) : (f \o P!Told(c))[i].type = "RESULT" =>
                 (f \o P!Told(c))[i].id = c \/ \E j \in DOMAIN f : f[j].type = "RESULT" /\ (f \o P!Told(c))[i].id = f[j].id
<1> DEFINE r == [type |-> "RESULT", id |-> c]
           b == [type |-> IF ChargerKinds[c] = "start_charging" THEN "StartTransaction" ELSE "StopTransaction", id |-> None]
<1>1. r \in Frame /\ b \in Frame /\ r.type = "RESULT" /\ r.id = c
      /\ b.type = (IF ChargerKinds[c] = "start_charging" THEN "StartTransaction" ELSE "StopTransaction")
  BY DEF Frame
<1>2. CASE ChargerKinds[c] \in {"start_charging", "stop_charging"}
  <2>a. P!Told(c) = <<b>> \o <<r>>
    BY <1>2 DEF P!Told
  <2>2. o2 = (ChargerKinds[c] = "start_charging")
    BY <1>2
  <2> HIDE DEF r, b
  <2>b. PICK told : told = <<b>> \o <<r>>
    OBVIOUS
  <2>c. told \in Seq(Frame) /\ Len(told) = 2 /\ told[1] = b /\ told[2] = r
    <3>1. PICK u, v : u = <<b>> /\ v = <<r>>
      OBVIOUS
    <3>2. u \in Seq(Frame) /\ v \in Seq(Frame) /\ Len(u) = 1 /\ Len(v) = 1 /\ u[1] = b /\ v[1] = r
      BY <1>1, <3>1
    <3>3. told = u \o v
      BY <2>b, <3>1
    <3>4. told \in Seq(Frame) /\ Len(told) = Len(u) + Len(v)
      BY <3>2, <3>3, ConcatProperties
    <3>5. told[1] = u[1] /\ told[2] = v[1]
      BY <3>2, <3>3, ConcatProperties, SMTT(30)
    <3> QED  BY <3>2, <3>4, <3>5
  <2>3. PICK g : g = f \o told
    OBVIOUS
  <2>1. P!Told(c) = told
    BY <2>a, <2>b
  <2>4. /\ g \in Seq(Frame) /\ Len(g) = Len(f) + 2 /\ Len(f) \in Nat
        /\ \A i \in 1 .. Len(f) : g[i] = f[i]
        /\ g[Len(f) + 1] = b /\ g[Len(f) + 2] = r
    <3>1. g \in Seq(Frame) /\ Len(g) = Len(f) + 2 /\ Len(f) \in Nat
      <4>1. f \o told \in Seq(Frame) /\ Len(f \o told) = Len(f) + Len(told)
        BY <2>c, ConcatProperties
      <4>2. Len(f) \in Nat
        OBVIOUS
      <4> QED  BY <2>c, <2>3, <4>1, <4>2
    <3>2. \A i \in 1 .. Len(f) : g[i] = f[i]
      BY <2>c, <2>3, <3>1
    <3>3. g[Len(f) + 1] = told[1]
      BY <2>c, <2>3, <3>1
    <3>4. g[Len(f) + 2] = told[2]
      BY <2>c, <2>3, <3>1
    <3> QED  BY <2>c, <3>1, <3>2, <3>3, <3>4
  <2>5. Says(g, txn, o2)
    <3>1. \A i \in (Len(f) + 1) + 1 .. Len(g) : g[i].type = "RESULT"
      BY <1>1, <2>4
    <3>2. Len(f) + 1 \in 0 .. Len(g) /\ Len(f) + 1 # 0
      BY <2>4
    <3>3. g[Len(f) + 1].type \in {"StartTransaction", "StopTransaction"} /\ ((g[Len(f) + 1].type = "StartTransaction") <=> o2)
      BY <1>1, <2>2, <2>4
    <3>4. SaysAt(g, txn, o2, Len(f) + 1)
      BY <3>1, <3>2, <3>3 DEF SaysAt
    <3> QED  BY <3>2, <3>4 DEF Says
  <2>6. ASSUME NEW i \in DOMAIN g, g[i].type = "RESULT"
        PROVE  g[i].id = c \/ \E j \in DOMAIN f : f[j].type = "RESULT" /\ g[i].id = f[j].id
    <3>1. i \in 1 .. Len(f) \/ i = Len(f) + 1 \/ i = Len(f) + 2
      BY <2>4
    <3> QED  BY <1>1, <2>4, <2>6, <3>1
  <2> QED  BY <2>1, <2>3, <2>4, <2>5, <2>6
<1>3. CASE ~(ChargerKinds[c] \in {"start_charging", "stop_charging"})
  <2>a. P!Told(c) = << >> \o <<r>>
    BY <1>3 DEF P!Told
  <2>2. o2 = o
    BY <1>3
  <2> HIDE DEF r, b
  <2>1. P!Told(c) = <<r>>
    BY <2>a
  <2>3. PICK g : g = f \o <<r>>
    OBVIOUS
  <2>4. /\ g \in Seq(Frame) /\ Len(g) = Len(f) + 1 /\ Len(f) \in Nat
        /\ \A i \in 1 .. Len(f) : g[i] = f[i]
        /\ g[Len(f) + 1] = r
    BY <1>1, <2>3
  <2>5. ASSUME Says(f, txn, o) PROVE Says(g, txn, o2)
    <3>1. PICK k \in 0 .. Len(f) : SaysAt(f, txn, o, k)
      BY <2>5 DEF Says
    <3>2. \A i \in k + 1 .. Len(g) : g[i].type = "RESULT"
      BY <1>1, <2>4, <3>1 DEF SaysAt
    <3>3. k \in 0 .. Len(g) /\ (k # 0 => g[k] = f[k])
      BY <2>4
    <3>4. SaysAt(g, txn, o, k)
      BY <3>1, <3>2, <3>3 DEF SaysAt
    <3> QED  BY <2>2, <3>3, <3>4 DEF Says
  <2>6. ASSUME NEW i \in DOMAIN g, g[i].type = "RESULT"
        PROVE  g[i].id = c \/ \E j \in DOMAIN f : f[j].type = "RESULT" /\ g[i].id = f[j].id
    <3>1. i \in 1 .. Len(f) \/ i = Len(f) + 1
      BY <2>4
    <3> QED  BY <1>1, <2>4, <2>6, <3>1
  <2> QED  BY <2>1, <2>3, <2>4, <2>5, <2>6
<1> QED  BY <1>2, <1>3

LEMMA ChargeInit == ASSUME FieldAssumption, P!Init PROVE ChargeInv
<1>1. /\ \A s \in P!Sockets : thread[s] = "none" /\ toServer[s] = << >> /\ toCharger[s] = << >> /\ open[s] = FALSE
      /\ point = None /\ awaited = None /\ result = None /\ socket = None /\ counter = 0 /\ charging = FALSE
      /\ \A c \in ChargerCommands : answer[c] = None
  BY DEF P!Init
<1>2. None \notin {"Accepted", "ACKED", "FAILED", "ignored"}
  BY DEF FieldAssumption, P!ChargeAssumption
<1>3. P!TypeOK
  BY <1>1 DEF P!TypeOK
<1>4. P!AckedWasDone /\ (result = "Accepted" => awaited \in done)
  BY <1>1, <1>2 DEF P!AckedWasDone
<1>5. /\ toServer \in [P!Sockets -> Seq(Frame)] /\ toCharger \in [P!Sockets -> Seq(ChargerFrame)]
      /\ open \in [P!Sockets -> BOOLEAN] /\ done \subseteq ChargerCommands
  BY DEF P!Init
<1>6. thread = [s \in P!Sockets |-> thread[s]] /\ answer = [c \in ChargerCommands |-> answer[c]]
  BY DEF P!Init
<1>7. \A s \in P!Sockets : Untouched(s)
  BY <1>1 DEF Untouched
<1>8. \A s \in P!Sockets : \A i \in DOMAIN toServer[s] :
          toServer[s][i].type = "RESULT" => toServer[s][i].id \in done
  BY <1>1
<1>9. ~Registered
  BY <1>1 DEF Registered
<1> QED  BY <1>3, <1>4, <1>5, <1>6, <1>7, <1>8, <1>9 DEF ChargeInv

(* A step that leaves the frames and transactions as they are.               *)
LEMMA CommandsMove ==
    ASSUME ChargeInv, UNCHANGED <<thread, socket, toServer, open, point, counter, done>>,
           toCharger' \in [P!Sockets -> Seq(ChargerFrame)], charging' \in BOOLEAN,
           \A s \in P!Sockets : thread[s] \in {"none", "accepted"} => toCharger'[s] = toCharger[s],
           awaited' \in ChargerCommands \union {None}, result' \in {None, "Accepted"},
           result' = "Accepted" => awaited' \in done,
           answer' = [c \in ChargerCommands |-> answer'[c]],
           \A c \in ChargerCommands : /\ answer'[c] \in {None, "ACKED", "FAILED", "ignored"}
                                      /\ answer'[c] = "ACKED" => c \in done
    PROVE  ChargeInv'
<1>1. P!TypeOK' /\ P!AckedWasDone'
  BY DEF ChargeInv, P!TypeOK, P!AckedWasDone
<1>2. \A s \in P!Sockets : Untouched(s)'
  BY DEF ChargeInv, Untouched
<1>3. Registered' => Says(toServer[socket], point.txn, open[socket])
  BY DEF ChargeInv, Registered
<1>4. Registered' => Says(toServer'[socket'], point'.txn, open'[socket'])
  BY <1>3
<1> QED  BY <1>1, <1>2, <1>4 DEF ChargeInv

(* The server reads a frame of s.                                            *)
LEMMA FrameRead ==
    ASSUME FieldAssumption, ChargeInv, NEW s \in P!Sockets, NEW next \in Nat, thread[s] = "reading", toServer[s] # << >>,
           toServer' = [toServer EXCEPT ![s] = Tail(@)],
           \/ Head(toServer[s]).type = "StartTransaction" /\ next > 0 /\ point' = P!WithTxn(next)
           \/ Head(toServer[s]).type = "StopTransaction" /\ next = 0 /\ point' = P!WithTxn(next)
           \/ Head(toServer[s]).type = "RESULT" /\ point' = point /\ (point # None => next = point.txn),
           counter' \in Nat, result' \in {None, "Accepted"}, result' = "Accepted" => awaited \in done,
           UNCHANGED <<thread, socket, toCharger, charging, open, awaited, answer, done>>
    PROVE  ChargeInv'
<1>0. /\ P!TypeOK /\ toServer \in [P!Sockets -> Seq(Frame)] /\ \A r \in P!Sockets : Untouched(r)
      /\ open \in [P!Sockets -> BOOLEAN] /\ None \notin P!Sockets /\ None \notin P!Point
  BY DEF ChargeInv, FieldAssumption, P!ChargeAssumption
<1>1. /\ point' \in P!Point \union {None} /\ (point' = None <=> point = None)
      /\ point # None => point'.socket = point.socket /\ point'.txn = next
  <2>1. CASE point' = point
    BY <1>0, <2>1 DEF P!TypeOK, P!WithTxn, P!Point
  <2>2. CASE point' = P!WithTxn(next)
    <3>1. point \in P!Point => [point EXCEPT !.txn = next] \in P!Point /\ [point EXCEPT !.txn = next].txn = next
                               /\ [point EXCEPT !.txn = next].socket = point.socket
      BY DEF P!Point
    <3> QED  BY <1>0, <2>2, <3>1 DEF P!TypeOK, P!WithTxn
  <2> QED  BY <2>1, <2>2
<1>2. /\ toServer' \in [P!Sockets -> Seq(Frame)] /\ toServer'[s] = Tail(toServer[s])
      /\ \A r \in P!Sockets : r # s => toServer'[r] = toServer[r]
  <2>1. Tail(toServer[s]) \in Seq(Frame)
    BY <1>0
  <2> QED  BY <1>0, <2>1
<1>3. P!TypeOK' /\ P!AckedWasDone'
  BY <1>0, <1>1 DEF ChargeInv, P!TypeOK, P!AckedWasDone
<1>4. \A r \in P!Sockets : Untouched(r)'
  BY <1>0, <1>1, <1>2 DEF Untouched
<1>5. ASSUME NEW r \in P!Sockets, NEW i \in DOMAIN toServer'[r], toServer'[r][i].type = "RESULT"
      PROVE  toServer'[r][i].id \in done
  <2>1. CASE r = s
    <3>1. /\ i + 1 \in DOMAIN toServer[s] /\ Tail(toServer[s])[i] = toServer[s][i + 1]
      BY <1>0, <1>2, <1>5, <2>1
    <3> QED  BY <1>2, <1>5, <2>1, <3>1 DEF ChargeInv
  <2>2. CASE r # s
    BY <1>2, <1>5, <2>2 DEF ChargeInv
  <2> QED  BY <2>1, <2>2
<1>6. Registered' => Says(toServer'[socket], point'.txn, open[socket])
  <2>1. SUFFICES ASSUME Registered' PROVE Says(toServer'[socket], point'.txn, open[socket])
    OBVIOUS
  <2>2. Registered
    BY <1>1, <2>1 DEF Registered
  <2>3. socket = s /\ point # None /\ point.txn \in Nat
    BY <1>0, <2>2 DEF Registered, P!TypeOK, P!Point
  <2>4. Says(toServer[s], point.txn, open[s])
    BY <2>2, <2>3 DEF ChargeInv
  <2>5. Says(Tail(toServer[s]), next, open[s])
    BY <1>0, <2>3, <2>4, SaysAfterHead
  <2> QED  BY <1>1, <1>2, <2>3, <2>5
<1> QED  BY <1>2, <1>3, <1>4, <1>5, <1>6 DEF ChargeInv

LEMMA ChargeStep ==
    ASSUME FieldAssumption, ChargeInv, P!Next
    PROVE  ChargeInv'
<1>0. /\ P!TypeOK /\ thread = [s \in P!Sockets |-> thread[s]]
      /\ toServer \in [P!Sockets -> Seq(Frame)] /\ toCharger \in [P!Sockets -> Seq(ChargerFrame)]
      /\ open \in [P!Sockets -> BOOLEAN] /\ done \subseteq ChargerCommands /\ P!AckedWasDone
      /\ answer = [c \in ChargerCommands |-> answer[c]]
      /\ \A s \in P!Sockets : Untouched(s)
      /\ \A s \in P!Sockets : \A i \in DOMAIN toServer[s] :
            toServer[s][i].type = "RESULT" => toServer[s][i].id \in done
      /\ result = "Accepted" => awaited \in done
      /\ Registered => Says(toServer[socket], point.txn, open[socket])
  BY DEF ChargeInv
<1>a. /\ None \notin P!Sockets /\ None \notin P!Point /\ None \notin ChargerCommands
      /\ None \notin {"Accepted", "ACKED", "FAILED", "ignored"}
      /\ ChargerKinds \in [ChargerCommands -> {"start_charging", "stop_charging", "set_limit"}]
  BY DEF FieldAssumption, P!ChargeAssumption
<1>b. /\ socket \in P!Sockets \union {None} /\ point \in P!Point \union {None} /\ counter \in Nat
      /\ awaited \in ChargerCommands \union {None} /\ result \in {None, "Accepted"} /\ charging \in BOOLEAN
      /\ \A c \in ChargerCommands : answer[c] \in {None, "ACKED", "FAILED", "ignored"}
      /\ point # None => point.socket \in P!Sockets /\ point.txn \in Nat
  BY <1>0 DEF P!TypeOK, P!Point
<1>1. CASE P!Dial
  <2>1. PICK s \in P!Sockets : thread[s] = "none" /\ socket' = s /\ thread' = [thread EXCEPT ![s] = "accepted"]
    BY <1>1 DEF P!Dial
  <2>2. UNCHANGED <<toServer, toCharger, charging, open, point, counter, awaited, result, answer, done>>
    BY <1>1 DEF P!Dial
  <2>3. /\ thread' = [r \in P!Sockets |-> thread'[r]] /\ thread'[s] = "accepted"
        /\ \A r \in P!Sockets : r # s => thread'[r] = thread[r]
    BY <1>0, <2>1
  <2>4. P!TypeOK' /\ P!AckedWasDone'
    BY <1>0, <2>1, <2>2, <2>3 DEF P!TypeOK, P!AckedWasDone
  <2>5. \A r \in P!Sockets : Untouched(r)'
    BY <1>0, <2>1, <2>2, <2>3 DEF Untouched
  <2>6. ~Registered'
    BY <1>0, <2>1, <2>2 DEF Registered, Untouched
  <2> QED  BY <1>0, <2>2, <2>3, <2>4, <2>5, <2>6 DEF ChargeInv
<1>2. ASSUME NEW s \in P!Sockets, P!OnConnect(s) PROVE ChargeInv'
  <2>1. /\ thread[s] = "accepted" /\ thread' = [thread EXCEPT ![s] = "reading"] /\ point' = [socket |-> s, txn |-> 0]
        /\ UNCHANGED <<socket, toServer, toCharger, charging, open, counter, awaited, result, answer, done>>
    BY <1>2 DEF P!OnConnect
  <2>2. /\ thread' = [r \in P!Sockets |-> thread'[r]] /\ thread'[s] = "reading"
        /\ \A r \in P!Sockets : r # s => thread'[r] = thread[r]
        /\ point' \in P!Point /\ point'.socket = s /\ point'.txn = 0
    BY <1>0, <2>1 DEF P!Point
  <2>3. P!TypeOK' /\ P!AckedWasDone'
    BY <1>0, <2>1, <2>2 DEF P!TypeOK, P!AckedWasDone
  <2>4. \A r \in P!Sockets : Untouched(r)'
    BY <1>0, <2>1, <2>2 DEF Untouched
  <2>5. Registered' => Says(toServer'[socket'], point'.txn, open'[socket'])
    <3>1. toServer[s] = << >> /\ open[s] = FALSE
      BY <1>0, <2>1 DEF Untouched
    <3>2. SaysAt(<< >>, 0, FALSE, 0)
      BY DEF SaysAt
    <3>3. Len(<< >>) = 0 /\ 0 \in 0 .. 0
      OBVIOUS
    <3>4. Says(<< >>, 0, FALSE)
      BY <3>2, <3>3 DEF Says
    <3> QED  BY <2>1, <2>2, <3>1, <3>4 DEF Registered
  <2> QED  BY <1>0, <2>1, <2>2, <2>3, <2>4, <2>5 DEF ChargeInv
<1>3. CASE P!Drop
  <2>1. /\ socket # None /\ socket' = None /\ toCharger' = [toCharger EXCEPT ![socket] = << >>]
        /\ UNCHANGED <<thread, toServer, charging, open, point, counter, awaited, result, answer, done>>
    BY <1>3 DEF P!Drop
  <2>2. /\ toCharger' \in [P!Sockets -> Seq(ChargerFrame)] /\ \A r \in P!Sockets : toCharger'[r] \in {toCharger[r], << >>}
    <3>1. << >> \in Seq(ChargerFrame)
      OBVIOUS
    <3> QED  BY <1>0, <2>1, <3>1
  <2>3. P!TypeOK' /\ P!AckedWasDone'
    BY <1>0, <2>1 DEF P!TypeOK, P!AckedWasDone
  <2>4. \A r \in P!Sockets : Untouched(r)'
    BY <1>0, <2>1, <2>2 DEF Untouched
  <2>5. ~Registered'
    BY <1>a, <1>b, <2>1 DEF Registered
  <2> QED  BY <1>0, <2>1, <2>2, <2>3, <2>4, <2>5 DEF ChargeInv
<1>4. ASSUME NEW s \in P!Sockets, P!OnClose(s) PROVE ChargeInv'
  <2>1. /\ thread[s] = "reading" /\ thread' = [thread EXCEPT ![s] = "closed"] /\ point' = None
        /\ toServer' = [toServer EXCEPT ![s] = << >>]
        /\ UNCHANGED <<socket, toCharger, charging, open, counter, awaited, result, answer, done>>
    BY <1>4 DEF P!OnClose
  <2>2. /\ thread' = [r \in P!Sockets |-> thread'[r]] /\ thread'[s] = "closed"
        /\ \A r \in P!Sockets : r # s => thread'[r] = thread[r]
    BY <1>0, <2>1
  <2>3. /\ toServer' \in [P!Sockets -> Seq(Frame)] /\ toServer'[s] = << >>
        /\ \A r \in P!Sockets : r # s => toServer'[r] = toServer[r]
    <3>1. << >> \in Seq(Frame)
      OBVIOUS
    <3> QED  BY <1>0, <2>1, <3>1
  <2>4. P!TypeOK' /\ P!AckedWasDone'
    BY <1>0, <2>1, <2>2 DEF P!TypeOK, P!AckedWasDone
  <2>5. \A r \in P!Sockets : Untouched(r)'
    BY <1>0, <2>1, <2>2, <2>3 DEF Untouched
  <2>6. ~Registered'
    BY <2>1 DEF Registered
  <2>7. \A r \in P!Sockets : \A i \in DOMAIN toServer'[r] :
            toServer'[r][i].type = "RESULT" => toServer'[r][i].id \in done
    BY <1>0, <2>3
  <2> QED  BY <1>0, <2>1, <2>2, <2>3, <2>4, <2>5, <2>6, <2>7 DEF ChargeInv
<1>5. ASSUME NEW s \in P!Sockets, P!HandleCall(s) PROVE ChargeInv'
  <2>1. /\ thread[s] = "reading" /\ toServer[s] # << >> /\ Head(toServer[s]).type # "RESULT"
        /\ toServer' = [toServer EXCEPT ![s] = Tail(@)]
        /\ UNCHANGED <<thread, socket, toCharger, charging, open, awaited, result, answer, done>>
    BY <1>5 DEF P!HandleCall
  <2>2. Head(toServer[s]) \in Frame
    BY <1>0, <2>1
  <2>3. CASE Head(toServer[s]).type = "StartTransaction"
    <3>1. counter' = counter + 1 /\ point' = P!WithTxn(counter + 1)
      BY <1>5, <2>3 DEF P!HandleCall
    <3>2. PICK next \in Nat : next = counter + 1
      BY <1>b
    <3>3. /\ next > 0 /\ point' = P!WithTxn(next) /\ counter' \in Nat
          /\ result' \in {None, "Accepted"} /\ (result' = "Accepted" => awaited \in done)
      BY <1>0, <1>b, <2>1, <3>1, <3>2
    <3> QED  BY <2>1, <2>3, <3>3, FrameRead
  <2>4. CASE Head(toServer[s]).type # "StartTransaction"
    <3>1. counter' = counter /\ point' = P!WithTxn(0)
      BY <1>5, <2>4 DEF P!HandleCall
    <3>2. Head(toServer[s]).type = "StopTransaction"
      BY <2>1, <2>2, <2>4 DEF Frame
    <3>3. counter' \in Nat /\ result' \in {None, "Accepted"} /\ (result' = "Accepted" => awaited \in done) /\ 0 \in Nat
      BY <1>0, <1>b, <2>1, <3>1
    <3> QED  BY <2>1, <3>1, <3>2, <3>3, FrameRead
  <2> QED  BY <2>3, <2>4
<1>6. ASSUME NEW s \in P!Sockets, P!ResolvePending(s) PROVE ChargeInv'
  <2>1. /\ thread[s] = "reading" /\ toServer[s] # << >> /\ Head(toServer[s]).type = "RESULT"
        /\ result' = (IF Head(toServer[s]).id = awaited THEN "Accepted" ELSE result)
        /\ toServer' = [toServer EXCEPT ![s] = Tail(@)]
        /\ UNCHANGED <<thread, socket, toCharger, charging, open, point, counter, awaited, answer, done>>
    BY <1>6 DEF P!ResolvePending
  <2>2. Head(toServer[s]).id \in done
    <3>1. 1 \in DOMAIN toServer[s] /\ Head(toServer[s]) = toServer[s][1]
      BY <1>0, <2>1
    <3> QED  BY <1>0, <2>1, <3>1
  <2>3. result' \in {None, "Accepted"} /\ (result' = "Accepted" => awaited \in done)
    BY <1>0, <1>b, <2>1, <2>2
  <2>4. PICK next \in Nat : point # None => next = point.txn
    BY <1>b
  <2>5. counter' \in Nat /\ point' = point /\ (result' = "Accepted" => awaited \in done) /\ result' \in {None, "Accepted"}
    BY <1>b, <2>1, <2>3
  <2>6. UNCHANGED <<thread, socket, toCharger, charging, open, awaited, answer, done>>
    BY <2>1
  <2> QED  BY <2>1, <2>4, <2>5, <2>6, FrameRead
<1>7. ASSUME NEW c \in ChargerCommands, P!OnCommand(c) PROVE ChargeInv'
  <2>1. /\ awaited = None /\ answer[c] = None /\ result' = None
        /\ UNCHANGED <<thread, socket, toServer, charging, open, point, counter, done>>
    BY <1>7 DEF P!OnCommand
  <2>2. awaited' \in ChargerCommands \union {None}
    BY <1>7, <2>1 DEF P!OnCommand
  <2>3. /\ answer' = [d \in ChargerCommands |-> answer'[d]]
        /\ \A d \in ChargerCommands : answer'[d] \in {answer[d], "ignored", "FAILED"}
    <3>1. answer' = answer \/ \E v \in {"ignored", "FAILED"} : answer' = [answer EXCEPT ![c] = v]
      BY <1>7 DEF P!OnCommand
    <3> QED  BY <1>0, <3>1
  <2>4. /\ toCharger' \in [P!Sockets -> Seq(ChargerFrame)]
        /\ \A s \in P!Sockets : thread[s] \in {"none", "accepted"} => toCharger'[s] = toCharger[s]
    <3>1. CASE toCharger' = toCharger
      BY <1>0, <3>1
    <3>2. CASE toCharger' # toCharger
      <4>1. /\ point # None /\ socket = point.socket
            /\ toCharger' = [toCharger EXCEPT ![socket] = Append(@, [id |-> c, txn |-> point.txn])]
        BY <1>7, <3>2 DEF P!OnCommand
      <4>2. [id |-> c, txn |-> point.txn] \in ChargerFrame
        BY <1>b, <4>1 DEF ChargerFrame
      <4>3. Append(toCharger[socket], [id |-> c, txn |-> point.txn]) \in Seq(ChargerFrame)
        BY <1>0, <1>b, <4>1, <4>2, AppendProperties
      <4>4. thread[socket] \notin {"none", "accepted"}
        BY <1>0, <1>b, <4>1 DEF Untouched
      <4> QED  BY <1>0, <1>b, <4>1, <4>3, <4>4
    <3> QED  BY <3>1, <3>2
  <2> QED  BY <1>0, <1>a, <1>b, <2>1, <2>2, <2>3, <2>4, CommandsMove DEF P!AckedWasDone
<1>8. CASE P!Acknowledge \/ P!TimesOut
  <2>1. PICK verdict \in {"ACKED", "FAILED"} :
          /\ awaited # None /\ answer' = [answer EXCEPT ![awaited] = verdict] /\ awaited' = None /\ result' = None
          /\ verdict = "ACKED" => awaited \in done
          /\ UNCHANGED <<thread, socket, toServer, toCharger, charging, open, point, counter, done>>
    BY <1>0, <1>8 DEF P!Acknowledge, P!TimesOut, P!Answer
  <2>2. \A d \in ChargerCommands : /\ answer'[d] \in {None, "ACKED", "FAILED", "ignored"}
                                   /\ answer'[d] = "ACKED" => d \in done
    BY <1>0, <1>b, <2>1 DEF P!AckedWasDone
  <2>3. answer' = [d \in ChargerCommands |-> answer'[d]]
    BY <1>0, <2>1
  <2> QED  BY <1>0, <1>a, <1>b, <2>1, <2>2, <2>3, CommandsMove
<1>9. CASE P!CarryOut
  <2>1. socket \in P!Sockets /\ toCharger[socket] # << >>
    BY <1>9, <1>b DEF P!CarryOut
  <2>2. PICK c : c = Head(toCharger[socket]).id
    OBVIOUS
  <2>3. c \in ChargerCommands /\ Tail(toCharger[socket]) \in Seq(ChargerFrame)
    <3>1. Head(toCharger[socket]) \in ChargerFrame /\ Tail(toCharger[socket]) \in Seq(ChargerFrame)
      BY <1>0, <2>1
    <3> QED  BY <2>2, <3>1 DEF ChargerFrame
  <2>4. PICK o2 : o2 = (CASE ChargerKinds[c] = "start_charging" -> TRUE
                          [] ChargerKinds[c] = "stop_charging"  -> FALSE
                          [] OTHER                              -> open[socket])
    OBVIOUS
  <2>5. o2 \in BOOLEAN
    BY <1>0, <1>a, <2>1, <2>3, <2>4
  <2>6. /\ charging' \in BOOLEAN /\ open' = [open EXCEPT ![socket] = o2] /\ done' = done \union {c}
        /\ toServer' = [toServer EXCEPT ![socket] = @ \o P!Told(c)]
        /\ toCharger' = [toCharger EXCEPT ![socket] = Tail(@)]
        /\ UNCHANGED <<thread, socket, point, counter, awaited, result, answer>>
    BY <1>0, <1>9, <1>a, <1>b, <2>1, <2>2, <2>3, <2>4 DEF P!CarryOut
  <2> DEFINE f == toServer[socket]
             g == toServer[socket] \o P!Told(c)
  <2>7. f \in Seq(Frame) /\ open[socket] \in BOOLEAN
    BY <1>0, <2>1
  <2>8. /\ g \in Seq(Frame)
        /\ \A i \in DOMAIN g : g[i].type = "RESULT" =>
              g[i].id = c \/ \E j \in DOMAIN f : f[j].type = "RESULT" /\ g[i].id = f[j].id
    BY <2>3, <2>4, <2>5, <2>7, 0 \in Nat, SaysAfterTold
  <2>9. /\ toServer' \in [P!Sockets -> Seq(Frame)] /\ toServer'[socket] = g
        /\ toCharger' \in [P!Sockets -> Seq(ChargerFrame)]
        /\ open' \in [P!Sockets -> BOOLEAN] /\ open'[socket] = o2
        /\ \A r \in P!Sockets : r # socket => toServer'[r] = toServer[r] /\ toCharger'[r] = toCharger[r] /\ open'[r] = open[r]
    BY <1>0, <2>1, <2>3, <2>5, <2>6, <2>8
  <2>10. P!TypeOK' /\ P!AckedWasDone'
    BY <1>0, <1>b, <2>6 DEF P!TypeOK, P!AckedWasDone
  <2>11. thread[socket] \notin {"none", "accepted"}
    BY <1>0, <2>1 DEF Untouched
  <2>12. \A r \in P!Sockets : Untouched(r)'
    BY <1>0, <2>6, <2>9, <2>11 DEF Untouched
  <2>13. \A r \in P!Sockets : \A i \in DOMAIN toServer'[r] :
            toServer'[r][i].type = "RESULT" => toServer'[r][i].id \in done'
    <3>1. ASSUME NEW i \in DOMAIN g, g[i].type = "RESULT" PROVE g[i].id \in done'
      BY <1>0, <2>1, <2>6, <2>8, <3>1
    <3> HIDE DEF g
    <3>2. ASSUME NEW r \in P!Sockets, NEW i \in DOMAIN toServer'[r], toServer'[r][i].type = "RESULT"
          PROVE  toServer'[r][i].id \in done'
      <4>1. CASE r = socket
        BY <2>9, <3>1, <3>2, <4>1
      <4>2. CASE r # socket
        BY <1>0, <2>6, <2>9, <3>2, <4>2
      <4> QED  BY <4>1, <4>2
    <3> QED  BY <3>2
  <2>14. Registered' => Says(toServer'[socket'], point'.txn, open'[socket'])
    <3>1. SUFFICES ASSUME Registered' PROVE Says(g, point.txn, o2)
      BY <2>6, <2>9
    <3>2. Says(f, point.txn, open[socket]) /\ point.txn \in Nat
      BY <1>0, <1>b, <2>6, <3>1 DEF Registered
    <3> QED  BY <2>3, <2>4, <2>5, <2>7, <3>2, SaysAfterTold
  <2>15. /\ done' \subseteq ChargerCommands /\ (result' = "Accepted" => awaited' \in done')
         /\ thread' = [s \in P!Sockets |-> thread'[s]] /\ answer' = [d \in ChargerCommands |-> answer'[d]]
    BY <1>0, <2>3, <2>6
  <2> QED  BY <2>9, <2>10, <2>12, <2>13, <2>14, <2>15 DEF ChargeInv
<1>10. CASE P!VehicleFull
  <2>1. /\ charging' = FALSE
        /\ UNCHANGED <<thread, socket, toServer, toCharger, open, point, counter, awaited, result, answer, done>>
    BY <1>10 DEF P!VehicleFull
  <2> QED  BY <1>0, <1>b, <2>1, CommandsMove DEF P!AckedWasDone
<1> QED
  BY <1>1, <1>2, <1>3, <1>4, <1>5, <1>6, <1>7, <1>8, <1>9, <1>10 DEF P!Next

LEMMA ChargeTrue ==
    ASSUME FieldAssumption, ChargeInv
    PROVE  P!TypeOK /\ P!AckedWasDone /\ P!TransactionsInStep
<1>1. ASSUME point # None, socket = point.socket, toServer[socket] = << >>,
             \A s \in P!Sockets \ {socket} : thread[s] \in {"none", "closed"}
      PROVE  point.txn # 0 <=> open[socket]
  <2>1. Says(<< >>, point.txn, open[socket])
    BY <1>1 DEF ChargeInv, Registered
  <2>2. Len(<< >>) = 0 /\ 0 .. 0 = {0}
    OBVIOUS
  <2>3. SaysAt(<< >>, point.txn, open[socket], 0)
    BY <2>1, <2>2 DEF Says
  <2> QED  BY <2>3 DEF SaysAt
<1> QED  BY <1>1 DEF ChargeInv, P!TransactionsInStep

LEMMA OpcUaTrue ==
    ASSUME FieldAssumption, OpcUaInv
    PROVE  U!TypeOK /\ U!RightlyNamed
<1>1. U!TypeOK
  BY DEF OpcUaInv, U!TypeOK
<1>2. U!RightlyNamed
  <2>1. SUFFICES ASSUME fresh, NEW s \in U!SessionIds, sessions[s] # None, NEW i \in sessions[s]
                 PROVE  monitored[i] \in {None, U!Variable(i)}
    BY DEF U!RightlyNamed
  <2>2. i \in U!Indices
    BY <2>1 DEF OpcUaInv
  <2> QED  BY <2>1, <2>2 DEF OpcUaInv, Clean, NoItems
<1> QED  BY <1>1, <1>2

-----------------------------------------------------------------------------
(* The way of a reading: Telemetry. A horizon separates the cycles whose     *)
(* readings left the runner from those it still holds.                       *)

\* Messages on their way to the ingestor's workers, and all keys there are.
Pipe == T!Elements(queue) \cup T!Elements(inbox)
AllKeys == {T!Key(m) : m \in T!Elements(raw) \cup Pipe} \cup T!Elements(mdm.seen) \cup T!Elements(seen)

\* A worker has the reading of cycle t; a worker has not posted yet; the reading of t got past MDM.
AtWork(w, t) == worker[w] # None /\ worker[w].msg.at = t
Posting(w) == worker[w] # None /\ worker[w].step = "post"
Entered(t) == (\E m \in Pipe : m.at = t) \/ (\E w \in Workers : AtWork(w, t)) \/ table[t].copies > 0

Behind(h) ==
    /\ mdm.last <= h
    /\ \A k \in AllKeys : k[1] <= h
    /\ \A w \in Workers : worker[w] # None => worker[w].msg.at <= h
    /\ \A t \in T!Cycles : table[t].copies > 0 => t <= h
Ahead(h) ==
    /\ \A i \in DOMAIN ring : h < ring[i].at /\ ring[i].at <= cycle
    /\ sending # None => h < sending.at /\ sending.at <= cycle
Horizon == \E h \in 0 .. cycle : Behind(h) /\ Ahead(h)

RingInOrder ==
    /\ \A i, j \in DOMAIN ring : i < j => ring[i].at < ring[j].at
    /\ sending # None => \A i \in DOMAIN ring : ring[i].at < sending.at

\* A cycle has one key, although a restarted runner counts from 0 again.
OneKey == \A k, l \in AllKeys : k[1] = l[1] => k = l

(* What lies before MDM was delivered before, or is later than all that MDM  *)
(* passed on and than what lies before it.                                   *)
Repeated(j) == T!Key(raw[j]) \in T!Elements(mdm.seen) \/ \E i \in 1 .. j - 1 : T!Key(raw[i]) = T!Key(raw[j])
New(j) == /\ mdm.last < raw[j].at /\ ~Entered(raw[j].at)
          /\ \A i \in 1 .. j - 1 : raw[i].at < raw[j].at
RawInv == \A j \in DOMAIN raw : Repeated(j) \/ New(j)

MdmInv ==
    /\ Len(mdm.seen) <= mdm.last
    /\ mdm.accepted \subseteq 1 .. mdm.last
    /\ mdm.last # 0 => mdm.last \in mdm.accepted
    /\ T!GapsAreExact

SeenInv == \A i, j \in DOMAIN seen : seen[i][1] = seen[j][1] => i = j

\* One row, or one worker that will write it, and the key of what may come again is in the cache.
StoreInv ==
    /\ \A t \in T!Cycles : table[t].copies <= 1
    /\ \A w \in Workers : Posting(w) => table[worker[w].msg.at].copies = 0
    /\ \A v, w \in Workers : Posting(v) /\ Posting(w) /\ worker[v].msg.at = worker[w].msg.at => v = w
    /\ \A m \in Pipe : (table[m.at].copies > 0 \/ \E w \in Workers : Posting(w) /\ AtWork(w, m.at)) => T!Key(m) \in T!Elements(seen)

Honest ==
    /\ \A w \in Workers : worker[w] # None => worker[w].msg.finite \/ worker[w].msg.quality = "INVALID"
    /\ \A w \in Workers : worker[w] # None /\ worker[w].step = "mirror" => table[worker[w].msg.at].copies > 0
    /\ twin # None => table[twin.at].copies > 0
    /\ \A t \in T!Cycles : table[t].finite \/ table[t].quality = "INVALID"
    /\ wiring.trusted \/ raw = << >>

(* A cache forgets its oldest key when it is full. Up to that cycle it knows *)
(* every key, and the rest of the invariant rests on that.                   *)
TelemetryInv ==
    /\ Horizon /\ RingInOrder /\ OneKey /\ Honest
    /\ cycle <= SeenMax => MdmInv
    /\ cycle <= SeenMax /\ wiring.envelope => RawInv /\ SeenInv /\ StoreInv

KeySet == T!Cycles \X Nat

TelemetryTypes ==
    /\ wiring \in Wirings /\ cycle \in 0 .. MaxCycles /\ seqno \in 0 .. MaxCycles /\ seqno <= cycle
    /\ ring \in Seq(T!Message) /\ Len(ring) <= RingSize
    /\ sending \in T!Message \union {None} /\ link \in {"up", "down"} /\ connected \in BOOLEAN
    /\ raw \in Seq(T!Message) /\ inbox \in Seq(T!Message) /\ queue \in Seq(T!Message) /\ Len(queue) <= QueueMax
    /\ mdm.seen \in Seq(KeySet) /\ Len(mdm.seen) <= SeenMax /\ mdm.last \in 0 .. MaxCycles /\ mdm.accepted \subseteq T!Cycles
    /\ seen \in Seq(KeySet) /\ Len(seen) <= SeenMax
    /\ worker \in [Workers -> [step : {"post", "mirror"}, msg : T!Message] \union {None}]
    /\ table \in [T!Cycles -> T!Row] /\ twin \in T!Message \union {None}
    /\ shed \in Nat /\ faults \in 0 .. MaxFaults

LEMMA AppendIs ==
    ASSUME NEW S, NEW s \in Seq(S), NEW x \in S
    PROVE  /\ Append(s, x) \in Seq(S) /\ Len(Append(s, x)) = Len(s) + 1
           /\ \A i \in 1 .. Len(s) : Append(s, x)[i] = s[i]
           /\ Append(s, x)[Len(s) + 1] = x
           /\ T!Elements(Append(s, x)) = T!Elements(s) \cup {x}
           /\ DOMAIN s = 1 .. Len(s) /\ Len(s) \in Nat
<1>1. /\ Append(s, x) \in Seq(S) /\ Len(Append(s, x)) = Len(s) + 1 /\ Len(s) \in Nat
      /\ \A i \in 1 .. Len(s) : Append(s, x)[i] = s[i]
      /\ Append(s, x)[Len(s) + 1] = x
      /\ DOMAIN s = 1 .. Len(s) /\ DOMAIN Append(s, x) = 1 .. Len(s) + 1
  OBVIOUS
<1> DEFINE t == Append(s, x)
<1> HIDE DEF t
<1>2. \A y : y \in T!Elements(t) <=> \E i \in 1 .. Len(s) + 1 : y = t[i]
  BY <1>1 DEF T!Elements, t
<1>3. \A y : y \in T!Elements(s) <=> \E i \in 1 .. Len(s) : y = s[i]
  BY <1>1 DEF T!Elements
<1>4. \A i \in 1 .. Len(s) + 1 : i \in 1 .. Len(s) \/ i = Len(s) + 1
  BY <1>1
<1>5. (\A i \in 1 .. Len(s) : t[i] = s[i] /\ i \in 1 .. Len(s) + 1) /\ t[Len(s) + 1] = x /\ Len(s) + 1 \in 1 .. Len(s) + 1
  BY <1>1 DEF t
<1>6. \A y : y \in T!Elements(t) <=> y \in T!Elements(s) \/ y = x
  BY <1>2, <1>3, <1>4, <1>5
<1>7. T!Elements(t) = T!Elements(s) \cup {x}
  BY <1>6
<1> QED  BY <1>1, <1>7 DEF t

LEMMA TailIs ==
    ASSUME NEW S, NEW s \in Seq(S), s # << >>
    PROVE  /\ Tail(s) \in Seq(S) /\ Head(s) \in S /\ Len(s) \in Nat /\ Len(s) >= 1 /\ Len(Tail(s)) = Len(s) - 1
           /\ DOMAIN s = 1 .. Len(s) /\ DOMAIN Tail(s) = 1 .. Len(s) - 1
           /\ Head(s) = s[1] /\ \A i \in 1 .. Len(s) - 1 : Tail(s)[i] = s[i + 1]
           /\ T!Elements(s) = T!Elements(Tail(s)) \cup {Head(s)}
<1>1. /\ Tail(s) \in Seq(S) /\ Head(s) \in S /\ Len(s) \in Nat /\ Len(s) >= 1 /\ Len(Tail(s)) = Len(s) - 1
      /\ DOMAIN s = 1 .. Len(s) /\ DOMAIN Tail(s) = 1 .. Len(s) - 1
      /\ Head(s) = s[1] /\ \A i \in 1 .. Len(s) - 1 : Tail(s)[i] = s[i + 1]
  OBVIOUS
<1> DEFINE t == Tail(s)
           x == Head(s)
<1> HIDE DEF t, x
<1>2. \A y : y \in T!Elements(t) <=> \E i \in 1 .. Len(s) - 1 : y = t[i]
  BY <1>1 DEF T!Elements, t
<1>3. \A y : y \in T!Elements(s) <=> \E i \in 1 .. Len(s) : y = s[i]
  BY <1>1 DEF T!Elements
<1>4. \A i \in 1 .. Len(s) : i = 1 \/ (i - 1 \in 1 .. Len(s) - 1 /\ s[i] = t[i - 1])
  BY <1>1 DEF t
<1>5. x = s[1] /\ 1 \in 1 .. Len(s) /\ \A i \in 1 .. Len(s) - 1 : i + 1 \in 1 .. Len(s) /\ t[i] = s[i + 1]
  BY <1>1 DEF t, x
<1>6. \A y : y \in T!Elements(s) <=> y \in T!Elements(t) \/ y = x
  BY <1>2, <1>3, <1>4, <1>5
<1>7. T!Elements(s) = T!Elements(t) \cup {x}
  BY <1>6
<1> QED  BY <1>1, <1>7 DEF t, x

LEMMA ElementsAre ==
    ASSUME NEW S, NEW s \in Seq(S)
    PROVE  /\ T!Elements(s) \subseteq S /\ DOMAIN s = 1 .. Len(s) /\ Len(s) \in Nat
           /\ \A y : y \in T!Elements(s) <=> \E i \in 1 .. Len(s) : y = s[i]
  BY DEF T!Elements

LEMMA NoElements == T!Elements(<< >>) = {}
  BY DEF T!Elements

LEMMA NewestIs ==
    ASSUME NEW S, NEW s \in Seq(S), NEW x \in S, NEW n \in Nat, Len(s) <= n
    PROVE  /\ T!Newest(Append(s, x), n) \in Seq(S) /\ Len(T!Newest(Append(s, x), n)) <= n
           /\ T!Elements(T!Newest(Append(s, x), n)) \subseteq T!Elements(s) \cup {x}
           /\ Len(s) < n => T!Newest(Append(s, x), n) = Append(s, x)
           /\ T!Newest(Append(s, x), n) \in {Append(s, x), Tail(Append(s, x))}
<1> DEFINE u == Append(s, x)
<1>0. u \in Seq(S) /\ Len(u) = Len(s) + 1 /\ Len(s) \in Nat
  BY AppendIs
<1>2. T!Elements(u) = T!Elements(s) \cup {x}
  BY AppendIs
<1> HIDE DEF u
<1>1. u \in Seq(S) /\ Len(u) = Len(s) + 1 /\ u # << >> /\ Len(s) \in Nat
  BY <1>0
<1>3. Tail(u) \in Seq(S) /\ Len(Tail(u)) = Len(s) /\ T!Elements(Tail(u)) \subseteq T!Elements(s) \cup {x}
  <2>1. T!Elements(u) = T!Elements(Tail(u)) \cup {Head(u)}
    BY <1>1, TailIs
  <2> QED  BY <1>1, <1>2, <2>1
<1> QED  BY <1>1, <1>2, <1>3 DEF T!Newest, u

LEMMA Types ==
    ASSUME FieldAssumption
    PROVE  /\ MaxCycles \in Nat \ {0} /\ RingSize \in Nat \ {0} /\ QueueMax \in Nat \ {0} /\ SeenMax \in Nat \ {0}
           /\ GapTolerance \in Nat \ {0} /\ MaxFaults \in Nat
           /\ T!Cycles = 1 .. MaxCycles
  BY DEF FieldAssumption, T!TelemetryAssumption, T!Cycles

LEMMA MessageIs ==
    ASSUME NEW m \in T!Message
    PROVE  /\ m.at \in T!Cycles /\ m.seq \in Nat /\ m.finite \in BOOLEAN /\ m.quality \in {"GOOD", "INVALID"}
           /\ T!Key(m) \in KeySet /\ T!Key(m)[1] = m.at /\ T!Key(m)[2] = m.seq
           /\ T!Assess(m) \in T!Message /\ T!Key(T!Assess(m)) = T!Key(m) /\ T!Assess(m).at = m.at
           /\ T!Body(m) \in T!Message /\ T!Key(T!Body(m)) = T!Key(m) /\ T!Body(m).at = m.at
           /\ T!Body(m).finite \/ T!Body(m).quality = "INVALID"
<1>1. m.at \in T!Cycles /\ m.seq \in Nat /\ m.finite \in BOOLEAN /\ m.quality \in {"GOOD", "INVALID"}
  BY DEF T!Message
<1> DEFINE n == [m EXCEPT !.quality = "INVALID"]
<1>2. n \in T!Message /\ n.at = m.at /\ n.seq = m.seq /\ n.quality = "INVALID"
  BY DEF T!Message
<1> HIDE DEF n
<1>3. T!Assess(m) = m \/ T!Assess(m) = n
  BY DEF T!Assess, n
<1>4. (T!Body(m) = m /\ m.finite) \/ T!Body(m) = n
  BY DEF T!Body, n
<1> QED  BY <1>1, <1>2, <1>3, <1>4 DEF T!Key, KeySet

LEMMA PublishIs ==
    ASSUME NEW m \in T!Message, TelemetryTypes, T!Publish(m)
    PROVE  /\ \/ raw' = raw /\ inbox' = inbox
              \/ wiring.trusted /\ raw' = Append(raw, m) /\ inbox' = inbox
              \/ ~wiring.trusted /\ raw' = raw /\ inbox' = Append(inbox, m)
           /\ raw' \in Seq(T!Message) /\ inbox' \in Seq(T!Message)
<1>1. raw \in Seq(T!Message) /\ inbox \in Seq(T!Message)
  BY DEF TelemetryTypes
<1>2. \/ raw' = raw /\ inbox' = inbox
      \/ wiring.trusted /\ raw' = Append(raw, m) /\ inbox' = inbox
      \/ ~wiring.trusted /\ raw' = raw /\ inbox' = Append(inbox, m)
  BY DEF T!Publish
<1>3. Append(raw, m) \in Seq(T!Message) /\ Append(inbox, m) \in Seq(T!Message)
  BY <1>1, AppendIs
<1> QED  BY <1>1, <1>2, <1>3

LEMMA TypesSay == ASSUME TelemetryTypes PROVE T!TypeOK
<1>1. /\ T!Elements(ring) \subseteq T!Message /\ T!Elements(raw) \subseteq T!Message
      /\ T!Elements(inbox) \subseteq T!Message /\ T!Elements(queue) \subseteq T!Message
  BY DEF T!Elements, TelemetryTypes
<1> QED  BY <1>1 DEF TelemetryTypes, T!TypeOK

LEMMA TelemetryTypesStep ==
    ASSUME FieldAssumption, TelemetryTypes, T!Next
    PROVE  TelemetryTypes'
<1> USE DEF T!edge, T!net, T!ing, T!store
<1>c. /\ MaxCycles \in Nat \ {0} /\ RingSize \in Nat \ {0} /\ QueueMax \in Nat \ {0} /\ SeenMax \in Nat \ {0}
      /\ MaxFaults \in Nat /\ T!Cycles = 1 .. MaxCycles
  BY Types
<1>e. << >> \in Seq(T!Message) /\ << >> \in Seq(KeySet) /\ Len(<< >>) = 0
  OBVIOUS
<1>f. ASSUME NEW kind, T!Fault(kind) PROVE faults' \in 0 .. MaxFaults
  BY <1>c, <1>f DEF T!Fault, TelemetryTypes
<1>t. /\ ring \in Seq(T!Message) /\ Len(ring) <= RingSize /\ queue \in Seq(T!Message) /\ Len(queue) <= QueueMax
      /\ mdm.seen \in Seq(KeySet) /\ Len(mdm.seen) <= SeenMax /\ seen \in Seq(KeySet) /\ Len(seen) <= SeenMax
      /\ raw \in Seq(T!Message) /\ inbox \in Seq(T!Message) /\ sending \in T!Message \union {None}
      /\ mdm.accepted \subseteq T!Cycles
  BY DEF TelemetryTypes
<1>n. RingSize \in Nat /\ SeenMax \in Nat /\ QueueMax \in Nat
  BY <1>c
<1>1. CASE T!ReadTelemetry
  <2> DEFINE m == [at |-> cycle + 1, seq |-> seqno, finite |-> cycle + 1 \notin NotFinite, quality |-> "GOOD"]
  <2>1. m \in T!Message
    BY <1>1, <1>c DEF T!ReadTelemetry, T!Message, TelemetryTypes
  <2>2. \/ sending' = m /\ ring' = ring
        \/ ring' = T!Newest(Append(ring, m), RingSize) /\ sending' = sending
    BY <1>1 DEF T!ReadTelemetry
  <2> HIDE DEF m
  <2>n. T!Newest(Append(ring, m), RingSize) \in Seq(T!Message) /\ Len(T!Newest(Append(ring, m), RingSize)) <= RingSize
    BY <1>t, <1>n, <2>1, NewestIs
  <2>3. ring' \in Seq(T!Message) /\ Len(ring') <= RingSize /\ sending' \in T!Message \union {None}
    BY <1>t, <2>1, <2>2, <2>n
  <2>4. /\ cycle' = cycle + 1 /\ seqno' = seqno + 1 /\ cycle < MaxCycles
        /\ UNCHANGED <<wiring, link, connected, raw, inbox, mdm, queue, worker, seen, table, twin, shed, faults>>
    BY <1>1 DEF T!ReadTelemetry
  <2>5. cycle' \in 0 .. MaxCycles /\ seqno' \in 0 .. MaxCycles /\ seqno' <= cycle'
    BY <1>c, <2>4 DEF TelemetryTypes
  <2> QED  BY <2>3, <2>4, <2>5 DEF TelemetryTypes
<1>2. CASE T!ReadFails
  <2>1. /\ cycle' = cycle + 1 /\ cycle < MaxCycles
        /\ UNCHANGED <<wiring, seqno, ring, sending, link, connected, raw, inbox, mdm, queue, worker, seen, table, twin, shed, faults>>
    BY <1>2 DEF T!ReadFails
  <2>2. cycle' \in 0 .. MaxCycles /\ seqno' <= cycle'
    BY <1>c, <2>1 DEF TelemetryTypes
  <2> QED  BY <2>1, <2>2 DEF TelemetryTypes
<1>3. CASE T!Replay
  <2>1. T!Publish(Head(ring)) /\ ring' = Tail(ring) /\ ring # << >>
        /\ UNCHANGED <<wiring, cycle, seqno, sending, link, connected, mdm, queue, worker, seen, table, twin, shed, faults>>
    BY <1>3 DEF T!Replay
  <2>2. Head(ring) \in T!Message /\ ring' \in Seq(T!Message) /\ Len(ring') <= RingSize
    BY <1>t, <1>n, <2>1, TailIs
  <2>3. raw' \in Seq(T!Message) /\ inbox' \in Seq(T!Message)
    BY <2>1, <2>2, PublishIs
  <2> QED  BY <2>1, <2>2, <2>3 DEF TelemetryTypes
<1>4. CASE T!SendFresh
  <2>1. T!Publish(sending) /\ sending # None /\ sending' = None
        /\ UNCHANGED <<wiring, cycle, seqno, ring, link, connected, mdm, queue, worker, seen, table, twin, shed, faults>>
    BY <1>4 DEF T!SendFresh
  <2>2. raw' \in Seq(T!Message) /\ inbox' \in Seq(T!Message)
    BY <2>1, PublishIs DEF TelemetryTypes
  <2> QED  BY <2>1, <2>2 DEF TelemetryTypes
<1>5. CASE T!LinkDrops \/ T!Paho
  <2>1. /\ link' \in {"up", "down"} /\ connected' \in BOOLEAN /\ (faults' = faults \/ T!Fault("link"))
        /\ UNCHANGED <<wiring, cycle, seqno, ring, sending, raw, inbox, mdm, queue, worker, seen, table, twin, shed>>
    BY <1>5 DEF T!LinkDrops, T!Paho, T!OnDisconnect, T!OnConnect, TelemetryTypes
  <2>2. faults' \in 0 .. MaxFaults
    BY <1>f, <2>1 DEF TelemetryTypes
  <2> QED  BY <2>1, <2>2 DEF TelemetryTypes
<1>6. CASE T!RestartDriver
  <2>1. /\ T!Fault("driver") /\ ring' = << >> /\ sending' = None /\ seqno' = 0 /\ link' = "down" /\ connected' = FALSE
        /\ UNCHANGED <<wiring, cycle, raw, inbox, mdm, queue, worker, seen, table, twin, shed>>
    BY <1>6 DEF T!RestartDriver
  <2>2. faults' \in 0 .. MaxFaults
    BY <1>f, <2>1
  <2>3. 0 \in 0 .. MaxCycles /\ 0 <= cycle /\ 0 <= RingSize
    BY <1>c DEF TelemetryTypes
  <2> QED  BY <1>e, <2>1, <2>2, <2>3 DEF TelemetryTypes
<1>7. CASE T!DeliverAgain
  <2>1. /\ T!Fault("again")
        /\ \/ \E m \in T!Elements(raw) : raw' = Append(raw, m) /\ UNCHANGED inbox
           \/ \E m \in T!Elements(inbox) : inbox' = Append(inbox, m) /\ UNCHANGED raw
        /\ UNCHANGED <<wiring, cycle, seqno, ring, sending, link, connected, mdm, queue, worker, seen, table, twin, shed>>
    BY <1>7 DEF T!DeliverAgain
  <2>2. faults' \in 0 .. MaxFaults
    BY <1>f, <2>1
  <2>3. raw \in Seq(T!Message) /\ inbox \in Seq(T!Message)
    BY DEF TelemetryTypes
  <2>4. T!Elements(raw) \subseteq T!Message /\ T!Elements(inbox) \subseteq T!Message
    BY <2>3, ElementsAre
  <2>a. \A m \in T!Message : Append(raw, m) \in Seq(T!Message) /\ Append(inbox, m) \in Seq(T!Message)
    BY <2>3, AppendIs
  <2>5. raw' \in Seq(T!Message) /\ inbox' \in Seq(T!Message)
    BY <2>1, <2>3, <2>4, <2>a
  <2> QED  BY <2>1, <2>2, <2>5 DEF TelemetryTypes
<1>8. CASE T!MdmMessage
  <2>1. /\ raw # << >> /\ raw' = Tail(raw)
        /\ UNCHANGED <<mdm, inbox>> \/ T!Process(Head(raw))
        /\ UNCHANGED <<wiring, cycle, seqno, ring, sending, link, connected, queue, worker, seen, table, twin, shed, faults>>
    BY <1>8 DEF T!MdmMessage
  <2>2. Head(raw) \in T!Message /\ raw' \in Seq(T!Message)
    BY <1>t, <2>1, TailIs
  <2>3. CASE UNCHANGED <<mdm, inbox>>
    BY <2>1, <2>2, <2>3 DEF TelemetryTypes
  <2>4. CASE T!Process(Head(raw))
    <3> DEFINE m == Head(raw)
    <3>1. /\ mdm'.seen = T!Newest(Append(mdm.seen, T!Key(m)), SeenMax) /\ mdm'.last = m.at
          /\ mdm'.accepted = mdm.accepted \union {m.at} /\ inbox' = Append(inbox, T!Assess(m))
      BY <2>4 DEF T!Process
    <3> HIDE DEF m
    <3>2. m \in T!Message
      BY <2>2 DEF m
    <3>3. T!Key(m) \in KeySet /\ m.at \in 1 .. MaxCycles /\ T!Assess(m) \in T!Message
      BY <1>c, <3>2, MessageIs
    <3>n. /\ T!Newest(Append(mdm.seen, T!Key(m)), SeenMax) \in Seq(KeySet)
          /\ Len(T!Newest(Append(mdm.seen, T!Key(m)), SeenMax)) <= SeenMax
      BY <1>t, <1>n, <3>3, NewestIs
    <3>4. mdm'.seen \in Seq(KeySet) /\ Len(mdm'.seen) <= SeenMax
      BY <3>1, <3>n
    <3>5. inbox' \in Seq(T!Message)
      BY <1>t, <3>1, <3>3, AppendIs
    <3> QED  BY <1>c, <2>1, <2>2, <3>1, <3>3, <3>4, <3>5 DEF TelemetryTypes
  <2> QED  BY <2>1, <2>3, <2>4
<1>9. CASE T!MdmDies
  <2>1. /\ T!Fault("mdm") /\ raw' = << >> /\ mdm' = T!Forgotten
        /\ UNCHANGED <<wiring, cycle, seqno, ring, sending, link, connected, inbox, queue, worker, seen, table, twin, shed>>
    BY <1>9 DEF T!MdmDies
  <2>2. faults' \in 0 .. MaxFaults
    BY <1>f, <2>1
  <2>3. mdm'.seen = << >> /\ mdm'.last = 0 /\ mdm'.accepted = {}
    BY <2>1 DEF T!Forgotten
  <2> QED  BY <1>c, <1>e, <2>1, <2>2, <2>3 DEF TelemetryTypes
<1>10. CASE T!OnMessage \/ T!Shed
  <2>1. /\ inbox # << >> /\ inbox' = Tail(inbox)
        /\ \/ queue' = queue /\ shed' = shed + 1
           \/ queue' = Append(queue, Head(inbox)) /\ shed' = shed /\ Len(queue) < QueueMax
        /\ UNCHANGED <<wiring, cycle, seqno, ring, sending, link, connected, raw, mdm, worker, seen, table, twin, faults>>
    BY <1>10 DEF T!OnMessage, T!Shed
  <2>2. Head(inbox) \in T!Message /\ inbox' \in Seq(T!Message)
    BY <1>t, <2>1, TailIs
  <2>a. Append(queue, Head(inbox)) \in Seq(T!Message) /\ Len(Append(queue, Head(inbox))) = Len(queue) + 1 /\ Len(queue) \in Nat
    BY <1>t, <2>2, AppendIs
  <2>b. queue' = queue \/ (queue' = Append(queue, Head(inbox)) /\ Len(queue) < QueueMax)
    BY <2>1
  <2> DEFINE z == Append(queue, Head(inbox))
  <2>d. z \in Seq(T!Message) /\ (Len(queue) < QueueMax => Len(z) <= QueueMax)
    BY <1>n, <2>a
  <2> HIDE DEF z
  <2>3. queue' \in Seq(T!Message) /\ Len(queue') <= QueueMax
    BY <1>t, <2>b, <2>d DEF z
  <2> QED  BY <2>1, <2>2, <2>3 DEF TelemetryTypes
<1>11. ASSUME NEW w \in Workers, T!HandleMessage(w) PROVE TelemetryTypes'
  <2> DEFINE m == Head(queue)
  <2>1. /\ queue # << >> /\ queue' = Tail(queue)
        /\ \/ UNCHANGED <<worker, seen>>
           \/ /\ worker' = [worker EXCEPT ![w] = [step |-> "post", msg |-> T!Body(m)]]
              /\ seen' = seen \/ seen' = T!Newest(Append(seen, T!Key(m)), SeenMax)
        /\ UNCHANGED <<wiring, cycle, seqno, ring, sending, link, connected, raw, inbox, mdm, table, twin, shed, faults>>
    BY <1>11 DEF T!HandleMessage
  <2> HIDE DEF m
  <2>2. m \in T!Message /\ queue' \in Seq(T!Message) /\ Len(queue') <= QueueMax
    BY <1>t, <1>n, <2>1, TailIs DEF m
  <2>3. T!Body(m) \in T!Message /\ T!Key(m) \in KeySet
    BY <2>2, MessageIs
  <2>n. T!Newest(Append(seen, T!Key(m)), SeenMax) \in Seq(KeySet) /\ Len(T!Newest(Append(seen, T!Key(m)), SeenMax)) <= SeenMax
    BY <1>t, <1>n, <2>3, NewestIs
  <2>4. seen' \in Seq(KeySet) /\ Len(seen') <= SeenMax
    BY <1>t, <2>1, <2>n
  <2> DEFINE W == [step : {"post", "mirror"}, msg : T!Message] \union {None}
             p == [step |-> "post", msg |-> T!Body(m)]
  <2>p. p \in W
    BY <2>3
  <2>q. worker' = worker \/ worker' = [worker EXCEPT ![w] = p]
    BY <2>1
  <2>r. worker \in [Workers -> W]
    BY DEF TelemetryTypes
  <2> HIDE DEF p, W
  <2>s. worker' \in [Workers -> W]
    BY <2>p, <2>q, <2>r
  <2>5. worker' \in [Workers -> [step : {"post", "mirror"}, msg : T!Message] \union {None}]
    BY <2>s DEF W
  <2> QED  BY <2>1, <2>2, <2>4, <2>5 DEF TelemetryTypes
<1>12. ASSUME NEW w \in Workers, T!Insert(w) PROVE TelemetryTypes'
  <2> DEFINE m == worker[w].msg
             rec == [copies |-> table[m.at].copies + 1, quality |-> m.quality, finite |-> m.finite]
             next == [worker[w] EXCEPT !.step = "mirror"]
  <2>1. /\ worker[w] # None /\ table' = [table EXCEPT ![m.at] = rec] /\ worker' = [worker EXCEPT ![w] = next]
        /\ UNCHANGED <<wiring, cycle, seqno, ring, sending, link, connected, raw, inbox, mdm, queue, seen, twin, shed, faults>>
    BY <1>12 DEF T!Insert
  <2>2. worker[w] \in [step : {"post", "mirror"}, msg : T!Message]
    BY <2>1 DEF TelemetryTypes
  <2>3. m \in T!Message
    BY <2>2
  <2>4. next \in [step : {"post", "mirror"}, msg : T!Message]
    BY <2>2
  <2> HIDE DEF m, next
  <2>a. m.at \in T!Cycles /\ m.finite \in BOOLEAN /\ m.quality \in {"GOOD", "INVALID"}
    BY <2>3, MessageIs
  <2>b. table[m.at] \in T!Row
    BY <2>a DEF TelemetryTypes
  <2>d. table[m.at].copies \in Nat
    BY <2>b DEF T!Row
  <2>5. m.at \in T!Cycles /\ rec \in T!Row
    BY <2>a, <2>d DEF T!Row
  <2> HIDE DEF rec
  <2>6. table' \in [T!Cycles -> T!Row]
    BY <2>1, <2>5 DEF TelemetryTypes
  <2>7. worker' \in [Workers -> [step : {"post", "mirror"}, msg : T!Message] \union {None}]
    BY <2>1, <2>4 DEF TelemetryTypes
  <2> QED  BY <2>1, <2>6, <2>7 DEF TelemetryTypes
<1>13. ASSUME NEW w \in Workers, T!PostFails(w) \/ T!PersistState(w) \/ T!MirrorFails(w) PROVE TelemetryTypes'
  <2>1. /\ worker[w] # None /\ worker' = [worker EXCEPT ![w] = None] /\ (twin' = twin \/ twin' = worker[w].msg)
        /\ faults' = faults \/ T!Fault("post") \/ T!Fault("redis")
        /\ UNCHANGED <<wiring, cycle, seqno, ring, sending, link, connected, raw, inbox, mdm, queue, seen, table, shed>>
    BY <1>13 DEF T!PostFails, T!PersistState, T!MirrorFails
  <2>2. faults' \in 0 .. MaxFaults
    BY <1>f, <2>1 DEF TelemetryTypes
  <2>3. worker[w] \in [step : {"post", "mirror"}, msg : T!Message]
    BY <2>1 DEF TelemetryTypes
  <2>4. twin' \in T!Message \union {None}
    BY <2>1, <2>3 DEF TelemetryTypes
  <2>5. worker' \in [Workers -> [step : {"post", "mirror"}, msg : T!Message] \union {None}]
    BY <2>1 DEF TelemetryTypes
  <2> QED  BY <2>1, <2>2, <2>4, <2>5 DEF TelemetryTypes
<1>14. CASE T!IngestorDies
  <2>1. /\ T!Fault("ingestor") /\ queue' = << >> /\ seen' = << >> /\ inbox' = << >>
        /\ worker' = [w \in Workers |-> IF worker[w] # None /\ worker[w].step = "mirror" THEN worker[w] ELSE None]
        /\ UNCHANGED <<wiring, cycle, seqno, ring, sending, link, connected, raw, mdm, table, twin, shed>>
    BY <1>14 DEF T!IngestorDies
  <2>2. faults' \in 0 .. MaxFaults
    BY <1>f, <2>1
  <2>3. worker' \in [Workers -> [step : {"post", "mirror"}, msg : T!Message] \union {None}]
    BY <2>1 DEF TelemetryTypes
  <2> QED  BY <1>c, <1>e, <2>1, <2>2, <2>3 DEF TelemetryTypes
<1> QED  BY <1>1, <1>2, <1>3, <1>4, <1>5, <1>6, <1>7, <1>8, <1>9, <1>10, <1>11, <1>12, <1>13, <1>14
         DEF T!Next, T!Edge, T!Work, T!Failure

LEMMA KeysAre == \A k : k \in AllKeys <=> \/ \E m \in T!Elements(raw) \cup Pipe : k = T!Key(m)
                                          \/ k \in T!Elements(mdm.seen) \/ k \in T!Elements(seen)
  BY DEF AllKeys

LEMMA KeysShrink ==
    ASSUME \A m \in (T!Elements(raw) \cup Pipe)' : \E n \in T!Elements(raw) \cup Pipe : T!Key(m) = T!Key(n),
           \A k \in T!Elements(mdm.seen)' : k \in AllKeys, \A k \in T!Elements(seen)' : k \in AllKeys
    PROVE  /\ \A k \in AllKeys' : k \in AllKeys
           /\ OneKey => OneKey'
<1>1. \A k \in AllKeys' : k \in AllKeys
  <2> SUFFICES ASSUME NEW k \in AllKeys' PROVE k \in AllKeys
    OBVIOUS
  <2>1. \/ \E m \in (T!Elements(raw) \cup Pipe)' : k = T!Key(m)
        \/ k \in T!Elements(mdm.seen)' \/ k \in T!Elements(seen)'
    BY DEF AllKeys, T!Key
  <2> QED  BY <2>1, KeysAre
<1> QED  BY <1>1 DEF OneKey

\* The readings and keys on the way have their types.
LEMMA WayTypes ==
    ASSUME FieldAssumption, TelemetryTypes
    PROVE  /\ \A m \in T!Elements(raw) \cup Pipe : m \in T!Message
           /\ \A k \in AllKeys : k \in KeySet /\ k[1] \in Nat
           /\ \A w \in Workers : worker[w] # None => worker[w] \in [step : {"post", "mirror"}, msg : T!Message]
                                                    /\ worker[w].msg \in T!Message
           /\ \A t \in T!Cycles : table[t] \in T!Row /\ table[t].copies \in Nat
           /\ \A m \in T!Message : m.at \in T!Cycles /\ m.at \in Nat /\ T!Key(m)[1] = m.at
           /\ cycle \in Nat /\ mdm.last \in Nat
<1>0. T!Cycles = 1 .. MaxCycles /\ MaxCycles \in Nat
  BY Types
<1>1. \A m \in T!Elements(raw) \cup Pipe : m \in T!Message
  <2>1. T!Elements(raw) \subseteq T!Message /\ T!Elements(inbox) \subseteq T!Message /\ T!Elements(queue) \subseteq T!Message
    BY DEF T!Elements, TelemetryTypes
  <2> QED  BY <2>1 DEF Pipe
<1>2. \A m \in T!Message : m.at \in T!Cycles /\ m.at \in Nat /\ T!Key(m)[1] = m.at /\ T!Key(m) \in KeySet
  <2> TAKE m \in T!Message
  <2>1. m.at \in T!Cycles /\ T!Key(m)[1] = m.at /\ T!Key(m) \in KeySet
    BY MessageIs
  <2> QED  BY <1>0, <2>1
<1>3. \A k \in KeySet : k[1] \in Nat
  BY <1>0 DEF KeySet
<1>4. T!Elements(mdm.seen) \subseteq KeySet /\ T!Elements(seen) \subseteq KeySet
  BY DEF T!Elements, TelemetryTypes
<1>5. \A k \in AllKeys : k \in KeySet
  BY <1>1, <1>2, <1>4, KeysAre
<1>6. \A w \in Workers : worker[w] # None => worker[w] \in [step : {"post", "mirror"}, msg : T!Message]
  BY DEF TelemetryTypes
<1>7. \A w \in Workers : worker[w] # None => worker[w].msg \in T!Message
  BY <1>6
<1>8. \A t \in T!Cycles : table[t] \in T!Row
  BY DEF TelemetryTypes
<1>9. \A t \in T!Cycles : table[t].copies \in Nat
  BY <1>8 DEF T!Row
<1>10. cycle \in Nat /\ mdm.last \in Nat
  BY <1>0 DEF TelemetryTypes
<1> QED  BY <1>1, <1>2, <1>3, <1>5, <1>6, <1>7, <1>8, <1>9, <1>10

\* What is on the way or stored stays; only the runner acts.
LEMMA RunnerOnly ==
    ASSUME FieldAssumption, TelemetryTypes, TelemetryInv,
           UNCHANGED <<wiring, raw, inbox, mdm, queue, worker, seen, table, twin>>,
           cycle' \in {cycle, cycle + 1},
           \A h \in 0 .. cycle : Ahead(h) => Ahead(h)', RingInOrder'
    PROVE  TelemetryInv'
<1>1. PICK h \in 0 .. cycle : Behind(h) /\ Ahead(h)
  BY DEF TelemetryInv, Horizon
<1>2. h \in 0 .. cycle' /\ Ahead(h)'
  BY <1>1, WayTypes
<1>3. Behind(h)'
  BY <1>1 DEF Behind, AllKeys, Pipe, T!Elements
<1>4. Horizon'
  BY <1>2, <1>3 DEF Horizon
<1>5. OneKey' /\ Honest'
  BY DEF TelemetryInv, OneKey, AllKeys, Pipe, Honest, T!Elements
<1>6. cycle' <= SeenMax => cycle <= SeenMax
  BY WayTypes, Types
<1>7. MdmInv => MdmInv'
  BY DEF MdmInv, T!GapsAreExact
<1>8. (RawInv => RawInv') /\ (SeenInv => SeenInv') /\ (StoreInv => StoreInv')
  <2>1. RawInv => RawInv'
    BY DEF RawInv, Repeated, New, Entered, AtWork, Pipe, T!Elements
  <2>2. SeenInv => SeenInv'
    BY DEF SeenInv
  <2>3. StoreInv => StoreInv'
    BY DEF StoreInv, Posting, AtWork, Pipe, T!Elements
  <2> QED  BY <2>1, <2>2, <2>3
<1> QED  BY <1>4, <1>5, <1>6, <1>7, <1>8 DEF TelemetryInv

\* The runner stays as it is.
LEMMA OnTheWay ==
    ASSUME NEW h \in 0 .. cycle, Ahead(h), TelemetryInv, UNCHANGED <<wiring, cycle, ring, sending>>,
           Behind(h)', OneKey', Honest', cycle <= SeenMax => MdmInv',
           cycle <= SeenMax /\ wiring.envelope => RawInv' /\ SeenInv' /\ StoreInv'
    PROVE  TelemetryInv'
<1>1. Ahead(h)' /\ RingInOrder'
  BY DEF TelemetryInv, Ahead, RingInOrder
<1> QED  BY <1>1 DEF TelemetryInv, Horizon

LEMMA ReadsOn ==
    ASSUME FieldAssumption, TelemetryTypes, TelemetryInv, T!ReadTelemetry \/ T!ReadFails
    PROVE  TelemetryInv'
<1> USE DEF T!edge, T!net, T!ing, T!store
<1>0. cycle \in Nat /\ ring \in Seq(T!Message) /\ Len(ring) \in Nat /\ DOMAIN ring = 1 .. Len(ring)
      /\ \A i \in 1 .. Len(ring) : ring[i].at \in Nat
  <2>1. cycle \in Nat /\ ring \in Seq(T!Message) /\ \A m \in T!Message : m.at \in Nat
    BY WayTypes DEF TelemetryTypes
  <2> QED  BY <2>1
<1>1. \A i, j \in DOMAIN ring : i < j => ring[i].at < ring[j].at
  BY DEF TelemetryInv, RingInOrder
<1>2. \A i \in DOMAIN ring : ring[i].at <= cycle
  BY DEF TelemetryInv, Horizon, Ahead
<1>3. CASE T!ReadFails
  <2>1. cycle' = cycle + 1 /\ UNCHANGED <<wiring, ring, sending, raw, inbox, mdm, queue, worker, seen, table, twin>>
    BY <1>3 DEF T!ReadFails
  <2>2. RingInOrder'
    BY <2>1 DEF RingInOrder, TelemetryInv
  <2>3. \A h \in 0 .. cycle : Ahead(h) => Ahead(h)'
    <3> SUFFICES ASSUME NEW h \in 0 .. cycle, Ahead(h) PROVE Ahead(h)'
      OBVIOUS
    <3>1. sending # None => sending \in T!Message /\ sending.at \in Nat
      BY WayTypes DEF TelemetryTypes
    <3> QED  BY <1>0, <2>1, <3>1 DEF Ahead
  <2> QED  BY <2>1, <2>2, <2>3, RunnerOnly
<1>4. CASE T!ReadTelemetry
  <2> DEFINE m == [at |-> cycle + 1, seq |-> seqno, finite |-> cycle + 1 \notin NotFinite, quality |-> "GOOD"]
             u == Append(ring, m)
  <2>1. /\ cycle' = cycle + 1 /\ sending = None /\ UNCHANGED <<wiring, raw, inbox, mdm, queue, worker, seen, table, twin>>
        /\ (sending' = m /\ ring' = ring) \/ (sending' = None /\ ring' \in {u, Tail(u)})
    BY <1>4 DEF T!ReadTelemetry, T!Newest
  <2>2. m.at = cycle + 1
    OBVIOUS
  <2>3. Len(u) = Len(ring) + 1 /\ u[Len(ring) + 1] = m /\ \A i \in 1 .. Len(ring) : u[i] = ring[i]
    BY <1>0
  <2>4. u \in Seq(T!Message \cup {m}) /\ u # << >>
    BY <1>0
  <2> HIDE DEF m, u
  <2>5. Len(Tail(u)) = Len(ring) /\ \A i \in 1 .. Len(ring) : Tail(u)[i] = u[i + 1]
    BY <1>0, <2>3, <2>4
  <2>6. DOMAIN u = 1 .. Len(ring) + 1 /\ DOMAIN Tail(u) = 1 .. Len(ring)
    BY <1>0, <2>3, <2>4, <2>5
  <2>7. \A i, j \in 1 .. Len(ring) + 1 : i < j => u[i].at < u[j].at
    <3> TAKE i, j \in 1 .. Len(ring) + 1
    <3> HAVE i < j
    <3>1. i \in 1 .. Len(ring) /\ u[i] = ring[i] /\ ring[i].at <= cycle
      BY <1>0, <1>2, <2>3
    <3>2. CASE j = Len(ring) + 1
      BY <1>0, <2>2, <2>3, <3>1, <3>2
    <3>3. CASE j # Len(ring) + 1
      <4>1. j \in 1 .. Len(ring) /\ u[j] = ring[j]
        BY <1>0, <2>3, <3>3
      <4> QED  BY <1>0, <1>1, <3>1, <4>1
    <3> QED  BY <3>2, <3>3
  <2>8. \A i, j \in 1 .. Len(ring) : i < j => Tail(u)[i].at < Tail(u)[j].at
    <3> TAKE i, j \in 1 .. Len(ring)
    <3> HAVE i < j
    <3>1. i + 1 \in 1 .. Len(ring) + 1 /\ j + 1 \in 1 .. Len(ring) + 1 /\ i + 1 < j + 1
      BY <1>0
    <3> QED  BY <2>5, <2>7, <3>1
  <2>9. RingInOrder'
    <3>1. CASE sending' = m /\ ring' = ring
      BY <1>0, <1>1, <1>2, <2>2, <3>1 DEF RingInOrder
    <3>2. CASE sending' = None /\ ring' = u
      BY <2>6, <2>7, <3>2 DEF RingInOrder
    <3>3. CASE sending' = None /\ ring' = Tail(u)
      BY <2>6, <2>8, <3>3 DEF RingInOrder
    <3> QED  BY <2>1, <3>1, <3>2, <3>3
  <2>10. ASSUME NEW h \in 0 .. cycle, Ahead(h) PROVE Ahead(h)'
    <3>1. \A i \in 1 .. Len(ring) : h < ring[i].at /\ ring[i].at <= cycle
      BY <1>0, <2>10 DEF Ahead
    <3>2. \A i \in 1 .. Len(ring) + 1 : h < u[i].at /\ u[i].at <= cycle + 1
      <4> TAKE i \in 1 .. Len(ring) + 1
      <4>1. CASE i = Len(ring) + 1
        BY <1>0, <2>2, <2>3, <4>1
      <4>2. CASE i # Len(ring) + 1
        <5>1. i \in 1 .. Len(ring) /\ u[i] = ring[i]
          BY <1>0, <2>3, <4>2
        <5> QED  BY <1>0, <3>1, <5>1
      <4> QED  BY <4>1, <4>2
    <3>3. \A i \in 1 .. Len(ring) : h < Tail(u)[i].at /\ Tail(u)[i].at <= cycle + 1
      <4> TAKE i \in 1 .. Len(ring)
      <4>1. i + 1 \in 1 .. Len(ring) + 1
        BY <1>0
      <4> QED  BY <2>5, <3>2, <4>1
    <3>4. CASE sending' = m /\ ring' = ring
      BY <1>0, <2>1, <2>2, <3>1, <3>4 DEF Ahead
    <3>5. CASE sending' = None /\ ring' = u
      BY <2>1, <2>6, <3>2, <3>5 DEF Ahead
    <3>6. CASE sending' = None /\ ring' = Tail(u)
      BY <2>1, <2>6, <3>3, <3>6 DEF Ahead
    <3> QED  BY <2>1, <3>4, <3>5, <3>6
  <2> QED  BY <2>1, <2>9, <2>10, RunnerOnly
<1> QED  BY <1>3, <1>4

LEMMA LinkOrRestart ==
    ASSUME FieldAssumption, TelemetryTypes, TelemetryInv, T!LinkDrops \/ T!Paho \/ T!RestartDriver
    PROVE  TelemetryInv'
<1>1. /\ UNCHANGED <<wiring, cycle, raw, inbox, mdm, queue, worker, seen, table, twin>>
      /\ UNCHANGED <<ring, sending>> \/ (ring' = << >> /\ sending' = None)
  BY DEF T!LinkDrops, T!Paho, T!OnDisconnect, T!OnConnect, T!RestartDriver, T!edge, T!net, T!ing, T!store
<1>2. RingInOrder'
  BY <1>1 DEF RingInOrder, TelemetryInv
<1>3. \A h \in 0 .. cycle : Ahead(h) => Ahead(h)'
  BY <1>1 DEF Ahead
<1> QED  BY <1>1, <1>2, <1>3, RunnerOnly

LEMMA Sent ==
    ASSUME FieldAssumption, TelemetryTypes, TelemetryInv, NEW m \in T!Message, NEW h \in 0 .. cycle, Behind(h), h < m.at,
           m.at <= cycle, T!Publish(m), UNCHANGED <<wiring, cycle, mdm, queue, worker, seen, table, twin>>,
           Ahead(m.at)', RingInOrder'
    PROVE  TelemetryInv'
<1> DEFINE k == T!Key(m)
<1>0. /\ cycle \in Nat /\ mdm.last \in Nat /\ m.at \in Nat /\ k[1] = m.at /\ k \in KeySet /\ m.at \in 0 .. cycle /\ m.at \in T!Cycles
      /\ \A l \in AllKeys : l[1] \in Nat
      /\ \A n \in T!Elements(raw) \cup Pipe : n \in T!Message /\ n.at \in Nat /\ T!Key(n)[1] = n.at /\ T!Key(n) \in AllKeys
      /\ \A w \in Workers : worker[w] # None => worker[w].msg.at \in Nat
      /\ raw \in Seq(T!Message) /\ inbox \in Seq(T!Message)
  <2>1. m.at \in Nat /\ k[1] = m.at /\ k \in KeySet /\ m.at \in T!Cycles
    BY WayTypes, MessageIs
  <2>2. \A n \in T!Elements(raw) \cup Pipe : n \in T!Message /\ n.at \in Nat /\ T!Key(n)[1] = n.at /\ T!Key(n) \in AllKeys
    BY WayTypes, KeysAre
  <2>3. \A w \in Workers : worker[w] # None => worker[w].msg.at \in Nat
    BY WayTypes
  <2>4. cycle \in Nat /\ mdm.last \in Nat /\ \A l \in AllKeys : l[1] \in Nat
    BY WayTypes
  <2> QED  BY <2>1, <2>2, <2>3, <2>4 DEF TelemetryTypes
<1>1. \/ raw' = raw /\ inbox' = inbox
      \/ wiring.trusted /\ raw' = Append(raw, m) /\ inbox' = inbox
      \/ ~wiring.trusted /\ raw' = raw /\ inbox' = Append(inbox, m)
  BY PublishIs
<1>2. /\ T!Elements(Append(raw, m)) = T!Elements(raw) \cup {m}
      /\ T!Elements(Append(inbox, m)) = T!Elements(inbox) \cup {m}
      /\ Len(Append(raw, m)) = Len(raw) + 1 /\ Append(raw, m)[Len(raw) + 1] = m
      /\ \A i \in 1 .. Len(raw) : Append(raw, m)[i] = raw[i]
      /\ DOMAIN raw = 1 .. Len(raw) /\ DOMAIN Append(raw, m) = 1 .. Len(raw) + 1 /\ Len(raw) \in Nat
  BY <1>0, AppendIs
<1>3. /\ (T!Elements(raw) \cup Pipe)' \subseteq T!Elements(raw) \cup Pipe \cup {m}
      /\ Pipe' \subseteq Pipe \cup {m}
      /\ wiring.trusted => Pipe' = Pipe
  <2>1. T!Elements(raw)' \in {T!Elements(raw), T!Elements(raw) \cup {m}}
    BY <1>1, <1>2 DEF T!Elements
  <2>2. T!Elements(inbox)' \in {T!Elements(inbox), T!Elements(inbox) \cup {m}} /\ (wiring.trusted => T!Elements(inbox)' = T!Elements(inbox))
    BY <1>1, <1>2 DEF T!Elements
  <2>3. T!Elements(queue)' = T!Elements(queue)
    BY DEF T!Elements
  <2> QED  BY <2>1, <2>2, <2>3 DEF Pipe
<1>4. \A l \in AllKeys' : l \in AllKeys \/ l = k
  <2> SUFFICES ASSUME NEW l \in AllKeys' PROVE l \in AllKeys \/ l = k
    OBVIOUS
  <2>1. \/ \E n \in (T!Elements(raw) \cup Pipe)' : l = T!Key(n)
        \/ l \in T!Elements(mdm.seen)' \/ l \in T!Elements(seen)'
    BY DEF AllKeys, T!Key
  <2>2. T!Elements(mdm.seen)' = T!Elements(mdm.seen) /\ T!Elements(seen)' = T!Elements(seen)
    BY DEF T!Elements
  <2> QED  BY <1>3, <2>1, <2>2, KeysAre
<1> HIDE DEF k
<1>5. \A l \in AllKeys : l[1] <= h
  BY DEF Behind
<1>6. OneKey'
  <2>1. OneKey
    BY DEF TelemetryInv
  <2>2. \A l \in AllKeys : l[1] # k[1]
    BY <1>0, <1>5
  <2> QED  BY <1>4, <2>1, <2>2 DEF OneKey
<1>7. Behind(m.at)'
  <2>1. \A l \in AllKeys' : l[1] <= m.at
    BY <1>0, <1>4, <1>5
  <2>2. mdm.last <= m.at /\ \A w \in Workers : worker[w] # None => worker[w].msg.at <= m.at
    BY <1>0 DEF Behind
  <2>3. \A t \in T!Cycles : table[t].copies > 0 => t <= m.at
    BY <1>0, Types DEF Behind
  <2> QED  BY <2>1, <2>2, <2>3 DEF Behind
<1>8. ~Entered(m.at)
  <2>1. \A n \in Pipe : n.at # m.at
    BY <1>0, <1>5
  <2>2. \A w \in Workers : ~AtWork(w, m.at)
    BY <1>0 DEF Behind, AtWork
  <2>3. ~(table[m.at].copies > 0)
    BY <1>0 DEF Behind
  <2> QED  BY <2>1, <2>2, <2>3 DEF Entered
<1>9. Honest'
  <2>1. wiring.trusted \/ raw' = << >>
    BY <1>1 DEF TelemetryInv, Honest
  <2> QED  BY <2>1 DEF TelemetryInv, Honest
<1>10. cycle <= SeenMax => MdmInv'
  BY DEF TelemetryInv, MdmInv, T!GapsAreExact
<1>11. ASSUME cycle <= SeenMax, wiring.envelope PROVE RawInv' /\ SeenInv' /\ StoreInv'
  <2>1. RawInv /\ SeenInv /\ StoreInv
    BY <1>11 DEF TelemetryInv
  <2>2. SeenInv'
    BY <2>1 DEF SeenInv
  <2>3. StoreInv'
    <3>1. ASSUME NEW n \in Pipe', table'[n.at].copies > 0 \/ \E w \in Workers : (Posting(w) /\ AtWork(w, n.at))'
          PROVE  T!Key(n) \in T!Elements(seen)'
      <4>1. table[n.at].copies > 0 \/ \E w \in Workers : Posting(w) /\ AtWork(w, n.at)
        BY <3>1 DEF Posting, AtWork
      <4>2. n # m
        BY <1>8, <4>1 DEF Entered
      <4>3. n \in Pipe
        BY <1>3, <3>1, <4>2
      <4> QED  BY <2>1, <4>1, <4>3 DEF StoreInv, T!Elements
    <3> QED  BY <2>1, <3>1 DEF StoreInv, Posting, AtWork, T!Key
  <2>4. RawInv'
    <3>1. CASE ~wiring.trusted
      <4>1. raw = << >> /\ raw' = raw
        BY <1>1, <3>1 DEF TelemetryInv, Honest
      <4> QED  BY <4>1 DEF RawInv
    <3>2. CASE wiring.trusted
      <4>1. \A t : Entered(t)' => Entered(t)
        BY <1>3, <3>2 DEF Entered, AtWork
      <4>2. CASE raw' = raw
        BY <2>1, <4>1, <4>2 DEF RawInv, Repeated, New, T!Elements, T!Key
      <4>3. CASE raw' = Append(raw, m)
        <5> DEFINE u == Append(raw, m)
        <5>0. /\ u[Len(raw) + 1] = m /\ \A i \in 1 .. Len(raw) : u[i] = raw[i]
              /\ DOMAIN raw = 1 .. Len(raw) /\ DOMAIN u = 1 .. Len(raw) + 1 /\ Len(raw) \in Nat /\ raw' = u
          BY <1>2, <4>3
        <5> HIDE DEF u
        <5>1. ASSUME NEW j \in 1 .. Len(raw) PROVE (Repeated(j) \/ New(j))'
          <6>1. Repeated(j) \/ New(j)
            BY <2>1, <5>0, <5>1 DEF RawInv
          <6>2. \A i \in 1 .. j : raw'[i] = raw[i] /\ j \in 1 .. j
            BY <5>0, <5>1
          <6>3. 1 .. j - 1 \subseteq 1 .. j
            BY <5>0, <5>1
          <6>4. Repeated(j) => Repeated(j)'
            BY <6>2, <6>3 DEF Repeated, T!Elements, T!Key
          <6>5. New(j) => New(j)'
            BY <4>1, <6>2, <6>3 DEF New
          <6> QED  BY <6>1, <6>4, <6>5
        <5>2. ASSUME NEW j \in Nat, j = Len(raw) + 1 PROVE New(j)'
          <6>1. raw'[j] = m /\ mdm'.last < m.at
            BY <1>0, <5>0, <5>2 DEF Behind
          <6>2. \A i \in 1 .. j - 1 : raw'[i].at < m.at
            <7> TAKE i \in 1 .. j - 1
            <7>0. i \in 1 .. Len(raw)
              BY <5>0, <5>2
            <7>1. raw'[i] = raw[i] /\ raw[i] \in T!Elements(raw)
              BY <5>0, <7>0 DEF T!Elements
            <7> QED  BY <1>0, <1>5, <7>1
          <6>3. ~Entered(m.at)'
            BY <1>8, <4>1
          <6> QED  BY <6>1, <6>2, <6>3 DEF New
        <5>3. \A j \in DOMAIN raw' : j \in 1 .. Len(raw) \/ (j \in Nat /\ j = Len(raw) + 1)
          BY <5>0
        <5> QED  BY <5>1, <5>2, <5>3 DEF RawInv
      <4> QED  BY <1>1, <4>2, <4>3
    <3> QED  BY <3>1, <3>2
  <2> QED  BY <2>2, <2>3, <2>4
<1> QED  BY <1>0, <1>6, <1>7, <1>9, <1>10, <1>11 DEF TelemetryInv, Horizon

LEMMA ReplayOrSend ==
    ASSUME FieldAssumption, TelemetryTypes, TelemetryInv, T!Replay \/ T!SendFresh
    PROVE  TelemetryInv'
<1> USE DEF T!edge, T!net, T!ing, T!store
<1>0. PICK h \in 0 .. cycle : Behind(h) /\ Ahead(h)
  BY DEF TelemetryInv, Horizon
<1>t. ring \in Seq(T!Message) /\ cycle \in Nat /\ (sending # None => sending \in T!Message)
  BY WayTypes DEF TelemetryTypes
<1>1. CASE T!Replay
  <2> DEFINE u == Tail(ring)
  <2>a. ring # << >> /\ T!Publish(Head(ring))
    BY <1>1 DEF T!Replay
  <2>b. PICK m \in T!Message : m = Head(ring)
    BY <1>t, <2>a, TailIs
  <2>1. /\ sending # None /\ T!Publish(m) /\ ring' = u
        /\ UNCHANGED <<wiring, cycle, sending, mdm, queue, worker, seen, table, twin>>
    BY <1>1, <2>a, <2>b DEF T!Replay
  <2>2. /\ Len(ring) \in Nat /\ Len(ring) >= 1 /\ DOMAIN ring = 1 .. Len(ring) /\ DOMAIN u = 1 .. Len(ring) - 1
        /\ m = ring[1] /\ m \in T!Message /\ \A i \in 1 .. Len(ring) - 1 : u[i] = ring[i + 1]
    BY <1>t, <2>a, <2>b, TailIs
  <2> HIDE DEF u
  <2>3. /\ \A i, j \in 1 .. Len(ring) : i < j => ring[i].at < ring[j].at
        /\ \A i \in 1 .. Len(ring) : ring[i].at < sending.at
    BY <2>1, <2>2 DEF TelemetryInv, RingInOrder
  <2>4. \A i \in 1 .. Len(ring) - 1 : i + 1 \in 1 .. Len(ring) /\ 1 < i + 1
    BY <2>2
  <2>5. 1 \in 1 .. Len(ring)
    BY <2>2
  <2>6. h < m.at /\ m.at <= cycle
    BY <1>0, <2>2, <2>5 DEF Ahead
  <2>7. \A i \in 1 .. Len(ring) - 1 : m.at < u[i].at /\ u[i].at <= cycle
    BY <1>0, <2>2, <2>3, <2>4, <2>5 DEF Ahead
  <2>8. Ahead(m.at)'
    BY <1>0, <2>1, <2>2, <2>3, <2>5, <2>7 DEF Ahead
  <2>9. RingInOrder'
    <3>1. ASSUME NEW i \in 1 .. Len(ring) - 1, NEW j \in 1 .. Len(ring) - 1, i < j PROVE u[i].at < u[j].at
      <4>1. i + 1 < j + 1
        BY <2>2, <3>1
      <4> QED  BY <2>2, <2>3, <2>4, <4>1
    <3>2. \A i \in 1 .. Len(ring) - 1 : u[i].at < sending.at
      BY <2>2, <2>3, <2>4
    <3> QED  BY <2>1, <2>2, <3>1, <3>2 DEF RingInOrder
  <2> QED  BY <1>0, <2>1, <2>2, <2>6, <2>8, <2>9, Sent
<1>2. CASE T!SendFresh
  <2>1. /\ sending # None /\ ring = << >> /\ T!Publish(sending) /\ sending' = None /\ ring' = << >>
        /\ UNCHANGED <<wiring, cycle, mdm, queue, worker, seen, table, twin>>
    BY <1>2 DEF T!SendFresh
  <2>2. sending \in T!Message /\ h < sending.at /\ sending.at <= cycle
    BY <1>0, <1>t, <2>1 DEF Ahead
  <2>3. PICK m \in T!Message : m = sending
    BY <2>2
  <2>4. Ahead(m.at)' /\ RingInOrder'
    BY <2>1 DEF Ahead, RingInOrder
  <2>5. T!Publish(m) /\ h < m.at /\ m.at <= cycle
    BY <2>1, <2>2, <2>3
  <2> QED  BY <1>0, <2>1, <2>4, <2>5, Sent
<1> QED  BY <1>1, <1>2

LEMMA DeliveredAgain ==
    ASSUME FieldAssumption, TelemetryTypes, TelemetryInv, T!DeliverAgain
    PROVE  TelemetryInv'
<1> USE DEF T!edge, T!net, T!ing, T!store
<1>0. PICK h \in 0 .. cycle : Behind(h) /\ Ahead(h)
  BY DEF TelemetryInv, Horizon
<1>t. raw \in Seq(T!Message) /\ inbox \in Seq(T!Message) /\ T!Elements(raw) \subseteq T!Message /\ T!Elements(inbox) \subseteq T!Message
  BY ElementsAre DEF TelemetryTypes
<1>1. /\ UNCHANGED <<wiring, cycle, ring, sending, mdm, queue, worker, seen, table, twin>>
      /\ \/ inbox' = inbox /\ \E m \in T!Elements(raw) : raw' = Append(raw, m)
         \/ raw' = raw /\ \E m \in T!Elements(inbox) : inbox' = Append(inbox, m)
  BY DEF T!DeliverAgain
<1>2. \A m \in T!Message : T!Elements(Append(raw, m)) = T!Elements(raw) \cup {m} /\ T!Elements(Append(inbox, m)) = T!Elements(inbox) \cup {m}
  BY <1>t, AppendIs
<1>3. T!Elements(raw)' = T!Elements(raw)
  <2>1. \A m \in T!Elements(raw) : T!Elements(Append(raw, m)) = T!Elements(raw)
    <3> TAKE m \in T!Elements(raw)
    <3>1. T!Elements(raw) \cup {m} = T!Elements(raw)
      OBVIOUS
    <3>2. m \in T!Message
      BY <1>t
    <3> QED  BY <1>2, <3>1, <3>2
  <2>2. CASE raw' = raw
    BY <2>2 DEF T!Elements
  <2>3. CASE \E m \in T!Elements(raw) : raw' = Append(raw, m)
    <3>1. PICK m \in T!Elements(raw) : raw' = Append(raw, m)
      BY <2>3
    <3>2. T!Elements(raw)' = T!Elements(Append(raw, m))
      BY <3>1 DEF T!Elements
    <3> QED  BY <2>1, <3>2
  <2> QED  BY <1>1, <2>2, <2>3
<1>4. T!Elements(inbox)' = T!Elements(inbox)
  <2>1. \A m \in T!Elements(inbox) : T!Elements(Append(inbox, m)) = T!Elements(inbox)
    <3> TAKE m \in T!Elements(inbox)
    <3>1. T!Elements(inbox) \cup {m} = T!Elements(inbox)
      OBVIOUS
    <3>2. m \in T!Message
      BY <1>t
    <3> QED  BY <1>2, <3>1, <3>2
  <2>2. CASE inbox' = inbox
    BY <2>2 DEF T!Elements
  <2>3. CASE \E m \in T!Elements(inbox) : inbox' = Append(inbox, m)
    <3>1. PICK m \in T!Elements(inbox) : inbox' = Append(inbox, m)
      BY <2>3
    <3>2. T!Elements(inbox)' = T!Elements(Append(inbox, m))
      BY <3>1 DEF T!Elements
    <3> QED  BY <2>1, <3>2
  <2> QED  BY <1>1, <2>2, <2>3
<1>5. Pipe' = Pipe /\ T!Elements(mdm.seen)' = T!Elements(mdm.seen) /\ T!Elements(seen)' = T!Elements(seen)
  BY <1>1, <1>4 DEF Pipe, T!Elements
<1>6. AllKeys' = AllKeys
  BY <1>3, <1>5 DEF AllKeys, T!Key
<1>7. Behind(h)' /\ OneKey'
  BY <1>0, <1>1, <1>6 DEF Behind, OneKey, TelemetryInv
<1>8. Honest'
  <2>1. raw = << >> => raw' = << >>
    <3>1. raw = << >> => T!Elements(raw) = {}
      BY NoElements
    <3> QED  BY <1>1, <3>1
  <2>2. Honest
    BY DEF TelemetryInv
  <2> QED  BY <1>1, <2>1, <2>2 DEF Honest
<1>9. cycle <= SeenMax => MdmInv'
  BY <1>1 DEF TelemetryInv, MdmInv, T!GapsAreExact
<1>10. ASSUME cycle <= SeenMax, wiring.envelope PROVE RawInv' /\ SeenInv' /\ StoreInv'
  <2>1. RawInv /\ SeenInv /\ StoreInv
    BY <1>10 DEF TelemetryInv
  <2>2. SeenInv' /\ StoreInv'
    BY <1>1, <1>5, <2>1 DEF SeenInv, StoreInv, Posting, AtWork, T!Key
  <2>3. \A t : Entered(t)' => Entered(t)
    BY <1>1, <1>5 DEF Entered, AtWork
  <2>4. RawInv'
    <3>1. CASE raw' = raw
      <4>1. UNCHANGED <<raw, mdm>>
        BY <1>1, <3>1
      <4> QED  BY <2>1, <2>3, <4>1 DEF RawInv, Repeated, New, T!Elements, T!Key
    <3>2. ASSUME NEW m \in T!Elements(raw), raw' = Append(raw, m) PROVE RawInv'
      <4> DEFINE u == Append(raw, m)
      <4>0. /\ u[Len(raw) + 1] = m /\ \A i \in 1 .. Len(raw) : u[i] = raw[i]
            /\ DOMAIN raw = 1 .. Len(raw) /\ DOMAIN u = 1 .. Len(raw) + 1 /\ Len(raw) \in Nat
        BY <1>t
      <4>a. PICK i \in 1 .. Len(raw) : m = raw[i]
        BY <4>0 DEF T!Elements
      <4>b. raw' = u
        BY <3>2
      <4> HIDE DEF u
      <4>1. ASSUME NEW j \in 1 .. Len(raw) PROVE (Repeated(j) \/ New(j))'
        <5>1. Repeated(j) \/ New(j)
          BY <2>1, <4>0, <4>1 DEF RawInv
        <5>2. /\ \A l \in 1 .. j : raw'[l] = raw[l] 
              /\ j \in 1 .. j /\ 1 .. j - 1 \subseteq 1 .. j
          BY <4>0, <4>b, <4>1
        <5>4. Repeated(j) => Repeated(j)'
          BY <1>5, <5>2 DEF Repeated, T!Key
        <5>5. New(j) => New(j)'
          BY <1>1, <2>3, <5>2 DEF New
        <5> QED  BY <5>1, <5>4, <5>5
      <4>2. ASSUME NEW j \in Nat, j = Len(raw) + 1 PROVE Repeated(j)'
        <5>1. i \in 1 .. j - 1 /\ raw'[i] = m /\ raw'[j] = m
          BY <4>0, <4>a, <4>b, <4>2
        <5> QED  BY <5>1 DEF Repeated, T!Key
      <4>3. \A j \in DOMAIN raw' : j \in 1 .. Len(raw) \/ (j \in Nat /\ j = Len(raw) + 1)
        BY <4>0, <4>b
      <4> QED  BY <4>1, <4>2, <4>3 DEF RawInv
    <3> QED  BY <1>1, <3>1, <3>2
  <2> QED  BY <2>2, <2>4
<1> QED  BY <1>0, <1>1, <1>7, <1>8, <1>9, <1>10, OnTheWay

Holes(A, tol) == {g \in A \X A : g[2] - g[1] > tol /\ \A c \in A : ~(g[1] < c /\ c < g[2])}

LEMMA HolesGrow ==
    ASSUME NEW n \in Nat, NEW A \in SUBSET (1 .. n), n # 0 => n \in A, NEW at \in Nat, n < at, NEW tol \in Nat
    PROVE  Holes(A \cup {at}, tol) = Holes(A, tol) \cup (IF n # 0 /\ at - n > tol THEN {<<n, at>>} ELSE {})
<1> DEFINE B == A \cup {at}
           hole == IF n # 0 /\ at - n > tol THEN {<<n, at>>} ELSE {}
<1>0. A \subseteq Nat /\ (\A c \in A : c <= n) /\ at \notin A /\ (\A c \in A : n # 0 /\ n \in A)
  <2>1. A \subseteq Nat /\ (\A c \in A : c <= n /\ c >= 1) /\ at \notin A
    OBVIOUS
  <2>2. \A c \in A : n # 0
    BY <2>1
  <2> QED  BY <2>1, <2>2
<1>p. ASSUME NEW S, NEW g \in S \X S PROVE \E x \in S, y \in S : g = <<x, y>>
  OBVIOUS
<1> HIDE DEF B
<1>1. ASSUME NEW g \in Holes(B, tol) PROVE g \in Holes(A, tol) \cup hole
  <2>1. g \in B \X B /\ g[2] - g[1] > tol /\ \A c \in B : ~(g[1] < c /\ c < g[2])
    BY <1>1 DEF Holes
  <2>2. PICK x \in B, y \in B : g = <<x, y>>
    BY <1>p, <2>1
  <2>3. y - x > tol /\ (\A c \in B : ~(x < c /\ c < y)) /\ x \in Nat /\ y \in Nat
    BY <1>0, <2>1, <2>2 DEF B
  <2>4. CASE y = at
    <3>1. x \in A
      BY <2>3, <2>4 DEF B
    <3>2. x = n
      BY <1>0, <2>3, <2>4, <3>1 DEF B
    <3> QED  BY <1>0, <2>2, <2>3, <2>4, <3>1, <3>2
  <2>5. CASE y # at
    <3>1. y \in A /\ x \in A
      BY <1>0, <2>3, <2>5 DEF B
    <3>2. <<x, y>>[1] = x /\ <<x, y>>[2] = y /\ \A c \in A : ~(x < c /\ c < y)
      BY <2>3 DEF B
    <3> QED  BY <2>2, <2>3, <3>1, <3>2 DEF Holes
  <2> QED  BY <2>4, <2>5
<1>2. ASSUME NEW g \in Holes(A, tol) PROVE g \in Holes(B, tol)
  <2>1. g \in A \X A /\ g[2] - g[1] > tol /\ \A c \in A : ~(g[1] < c /\ c < g[2])
    BY <1>2 DEF Holes
  <2>2. PICK x \in A, y \in A : g = <<x, y>>
    BY <1>p, <2>1
  <2>3. ~(x < at /\ at < y)
    BY <1>0, <2>2
  <2> QED  BY <2>1, <2>2, <2>3 DEF Holes, B
<1>3. ASSUME NEW g \in hole PROVE g \in Holes(B, tol)
  <2>1. n # 0 /\ at - n > tol /\ g = <<n, at>>
    BY <1>3
  <2>2. n \in B /\ at \in B /\ \A c \in B : ~(n < c /\ c < at)
    BY <1>0, <2>1 DEF B
  <2> QED  BY <2>1, <2>2 DEF Holes
<1> QED  BY <1>1, <1>2, <1>3 DEF B

LEMMA MdmHears ==
    ASSUME FieldAssumption, TelemetryTypes, TelemetryInv, T!MdmMessage
    PROVE  TelemetryInv'
<1> USE DEF T!edge, T!net, T!ing, T!store
<1>0. PICK h \in 0 .. cycle : Behind(h) /\ Ahead(h)
  BY DEF TelemetryInv, Horizon
<1>s. raw # << >> /\ raw \in Seq(T!Message) /\ inbox \in Seq(T!Message) /\ mdm.seen \in Seq(KeySet) /\ Len(mdm.seen) <= SeenMax
  BY DEF T!MdmMessage, TelemetryTypes
<1>m. PICK m \in T!Message : m = Head(raw)
  BY <1>s, TailIs
<1>1. /\ raw' = Tail(raw) /\ UNCHANGED <<wiring, cycle, ring, sending, queue, worker, seen, table, twin>>
      /\ \/ (~wiring.envelope \/ T!Key(m) \in T!Elements(mdm.seen)) /\ UNCHANGED <<mdm, inbox>>
         \/ wiring.envelope /\ T!Key(m) \notin T!Elements(mdm.seen) /\ T!Process(m)
  BY <1>m DEF T!MdmMessage
<1>2. /\ Len(raw) \in Nat /\ Len(raw) >= 1 /\ DOMAIN raw = 1 .. Len(raw) /\ DOMAIN raw' = 1 .. Len(raw) - 1
      /\ m = raw[1] /\ \A i \in 1 .. Len(raw) - 1 : raw'[i] = raw[i + 1]
      /\ T!Elements(raw) = T!Elements(raw') \cup {m}
  BY <1>1, <1>s, <1>m, TailIs
<1>3. /\ \A k \in AllKeys : k[1] \in Nat /\ k[1] <= h
      /\ \A n \in T!Elements(raw) \cup Pipe : T!Key(n)[1] = n.at /\ n.at \in Nat /\ T!Key(n) \in AllKeys
      /\ m \in T!Elements(raw) /\ T!Key(m) \in AllKeys /\ m.at <= h /\ m.at \in Nat /\ T!Key(m)[1] = m.at /\ m.at \in T!Cycles
      /\ h \in Nat /\ cycle \in Nat /\ mdm.last \in Nat /\ h <= cycle
  <2>1. \A n \in T!Elements(raw) \cup Pipe : T!Key(n)[1] = n.at /\ n.at \in Nat /\ T!Key(n) \in AllKeys
    BY WayTypes, KeysAre
  <2>2. \A k \in AllKeys : k[1] \in Nat /\ k[1] <= h
    BY <1>0, WayTypes DEF Behind
  <2>3. m \in T!Elements(raw)
    BY <1>2
  <2>4. m.at \in T!Cycles
    BY MessageIs
  <2> QED  BY <2>1, <2>2, <2>3, <2>4, WayTypes
<1>x. T!Elements(raw)' = T!Elements(raw') /\ T!Elements(inbox)' = T!Elements(inbox') /\ T!Elements(mdm.seen)' = T!Elements(mdm'.seen)
      /\ T!Elements(queue)' = T!Elements(queue) /\ T!Elements(seen)' = T!Elements(seen)
  BY <1>1 DEF T!Elements
<1>4. \A j \in 1 .. Len(raw) - 1 : j + 1 \in 1 .. Len(raw) /\ j + 1 > 1 /\ (j + 1) - 1 = j
  BY <1>2
<1>5. CASE (~wiring.envelope \/ T!Key(m) \in T!Elements(mdm.seen)) /\ UNCHANGED <<mdm, inbox>>
  <2>0. UNCHANGED Pipe /\ T!Elements(mdm.seen)' = T!Elements(mdm.seen)
    BY <1>1, <1>5, <1>x DEF Pipe
  <2>1. (\A k \in AllKeys' : k \in AllKeys) /\ OneKey'
    <3>1. \A n \in (T!Elements(raw) \cup Pipe)' : n \in T!Elements(raw) \cup Pipe
      BY <1>2, <1>x, <2>0
    <3>2. \A k : k \in T!Elements(mdm.seen)' \/ k \in T!Elements(seen)' => k \in AllKeys
      BY <1>x, <2>0, KeysAre
    <3> QED  BY <3>1, <3>2, KeysShrink DEF TelemetryInv
  <2>2. Behind(h)'
    BY <1>0, <1>1, <1>5, <2>1 DEF Behind
  <2>3. Honest'
    BY <1>1, <1>s DEF TelemetryInv, Honest
  <2>4. cycle <= SeenMax => MdmInv'
    BY <1>5 DEF TelemetryInv, MdmInv, T!GapsAreExact
  <2>5. ASSUME cycle <= SeenMax, wiring.envelope PROVE RawInv' /\ SeenInv' /\ StoreInv'
    <3>1. RawInv /\ SeenInv /\ StoreInv
      BY <2>5 DEF TelemetryInv
    <3>2. SeenInv' /\ StoreInv'
      BY <1>1, <1>x, <2>0, <3>1 DEF SeenInv, StoreInv, Posting, AtWork, T!Key
    <3>3. \A t : Entered(t)' => Entered(t)
      BY <1>1, <2>0 DEF Entered, AtWork
    <3>4. ASSUME NEW j \in 1 .. Len(raw) - 1 PROVE (Repeated(j) \/ New(j))'
      <4>1. Repeated(j + 1) \/ New(j + 1)
        BY <1>2, <1>4, <3>1 DEF RawInv
      <4>2. CASE New(j + 1)
        <5>1. \A i \in 1 .. j - 1 : i + 1 \in 1 .. (j + 1) - 1 /\ i \in 1 .. Len(raw) - 1
          BY <1>2
        <5>2. raw'[j] = raw[j + 1] /\ mdm' = mdm
          BY <1>2, <1>5
        <5>3. mdm.last < raw[j + 1].at /\ ~Entered(raw[j + 1].at)
          BY <4>2 DEF New
        <5>4. \A i \in 1 .. j - 1 : raw'[i].at < raw'[j].at
          BY <1>2, <4>2, <5>1, <5>2 DEF New
        <5>5. PICK t : t = raw[j + 1].at
          OBVIOUS
        <5> QED  BY <3>3, <5>2, <5>3, <5>4, <5>5 DEF New
      <4>3. CASE Repeated(j + 1)
        <5>1. raw'[j] = raw[j + 1]
          BY <1>2
        <5>2. CASE T!Key(raw[j + 1]) \in T!Elements(mdm.seen)
          BY <2>0, <5>1, <5>2 DEF Repeated, T!Key
        <5>3. ASSUME NEW i \in 1 .. (j + 1) - 1, T!Key(raw[i]) = T!Key(raw[j + 1]) PROVE (Repeated(j) \/ New(j))'
          <6>1. CASE i = 1
            <7>1. T!Key(raw[j + 1]) \in T!Elements(mdm.seen)
              BY <1>2, <1>5, <2>5, <5>3, <6>1
            <7> QED  BY <5>2, <7>1
          <6>2. CASE i # 1
            <7>1. i - 1 \in 1 .. j - 1 /\ raw'[i - 1] = raw[i]
              <8>0. i \in Nat /\ j \in Nat /\ i > 1 /\ i <= j /\ j <= Len(raw) - 1
                BY <1>2, <6>2
              <8>1. i - 1 \in 1 .. Len(raw) - 1 /\ i - 1 \in 1 .. j - 1 /\ (i - 1) + 1 = i
                BY <1>2, <8>0
              <8> QED  BY <1>2, <8>1
            <7> QED  BY <5>1, <5>3, <7>1 DEF Repeated, T!Key
          <6> QED  BY <6>1, <6>2
        <5> QED  BY <4>3, <5>2, <5>3 DEF Repeated
      <4> QED  BY <4>1, <4>2, <4>3
    <3>5. RawInv'
      BY <1>2, <3>4 DEF RawInv
    <3> QED  BY <3>2, <3>5
  <2> QED  BY <1>0, <1>1, <2>1, <2>2, <2>3, <2>4, <2>5, OnTheWay
<1>6. CASE wiring.envelope /\ T!Key(m) \notin T!Elements(mdm.seen) /\ T!Process(m)
  <2> DEFINE a == T!Assess(m)
             k == T!Key(m)
  <2>a. a \in T!Message /\ T!Key(a) = k /\ a.at = m.at /\ k \in KeySet
    BY MessageIs
  <2>p. /\ mdm'.seen = T!Newest(Append(mdm.seen, k), SeenMax) /\ mdm'.last = m.at
        /\ mdm'.accepted = mdm.accepted \cup {m.at} /\ inbox' = Append(inbox, a)
        /\ mdm'.gaps = mdm.gaps \cup (IF mdm.last # 0 /\ m.at - mdm.last > GapTolerance THEN {<<mdm.last, m.at>>} ELSE {})
    BY <1>6 DEF T!Process, T!Gap
  <2>c. k \notin T!Elements(mdm.seen) /\ k \in AllKeys /\ wiring.envelope
    BY <1>3, <1>6
  <2>k. PICK kk \in KeySet : kk = k
    BY <2>a
  <2>aa. PICK b \in T!Message : b = a
    BY <2>a
  <2> HIDE DEF a, k
  <2>0. T!Elements(inbox)' = T!Elements(inbox) \cup {b} /\ Pipe' = Pipe \cup {b}
    <3>1. T!Elements(Append(inbox, b)) = T!Elements(inbox) \cup {b}
      BY <1>s, AppendIs
    <3>2. T!Elements(inbox)' = T!Elements(inbox) \cup {b}
      BY <1>x, <2>p, <2>aa, <3>1
    <3> QED  BY <1>x, <3>2 DEF Pipe
  <2>1. T!Elements(mdm.seen)' \subseteq T!Elements(mdm.seen) \cup {kk}
    <3>1. T!Elements(T!Newest(Append(mdm.seen, kk), SeenMax)) \subseteq T!Elements(mdm.seen) \cup {kk}
      <4>1. SeenMax \in Nat
        BY Types
      <4> QED  BY <1>s, <4>1, NewestIs
    <3> QED  BY <1>x, <2>p, <2>k, <3>1
  <2>2. (\A l \in AllKeys' : l \in AllKeys) /\ OneKey'
    <3>1. \A n \in (T!Elements(raw) \cup Pipe)' : n \in T!Elements(raw) \cup Pipe \/ (n = b /\ T!Key(b) = T!Key(m))
      BY <1>2, <1>x, <2>0, <2>a, <2>aa DEF k
    <3>2. \A n \in (T!Elements(raw) \cup Pipe)' : \E o \in T!Elements(raw) \cup Pipe : T!Key(n) = T!Key(o)
      BY <1>3, <3>1
    <3>3. (\A l \in T!Elements(mdm.seen)' : l \in AllKeys) /\ \A l \in T!Elements(seen)' : l \in AllKeys
      BY <1>x, <2>1, <2>c, <2>k, KeysAre
    <3> QED  BY <3>2, <3>3, KeysShrink DEF TelemetryInv
  <2>3. Behind(h)'
    BY <1>0, <1>1, <1>3, <2>2, <2>p DEF Behind
  <2>4. Honest'
    BY <1>1, <1>s DEF TelemetryInv, Honest
  <2>5. cycle <= SeenMax => New(1) /\ mdm.last < m.at /\ ~Entered(m.at)
    <3> SUFFICES ASSUME cycle <= SeenMax PROVE New(1) /\ mdm.last < m.at /\ ~Entered(m.at)
      OBVIOUS
    <3>1. Repeated(1) \/ New(1)
      BY <1>2, <2>c DEF TelemetryInv, RawInv
    <3>2. ~Repeated(1)
      BY <1>2, <2>c DEF Repeated, k
    <3> QED  BY <1>2, <3>1, <3>2 DEF New
  <2>6. ASSUME cycle <= SeenMax PROVE MdmInv' /\ T!Elements(mdm.seen)' = T!Elements(mdm.seen) \cup {kk}
    <3>1. MdmInv /\ mdm.last < m.at
      BY <2>5, <2>6 DEF TelemetryInv
    <3>2. SeenMax \in Nat /\ Len(mdm.seen) \in Nat /\ GapTolerance \in Nat
      BY <1>s, Types
    <3>3. Len(mdm.seen) < SeenMax /\ Len(mdm.seen) + 1 <= m.at
      BY <1>3, <2>6, <3>1, <3>2 DEF MdmInv
    <3>4. /\ T!Newest(Append(mdm.seen, kk), SeenMax) = Append(mdm.seen, kk) /\ Len(Append(mdm.seen, kk)) = Len(mdm.seen) + 1
          /\ T!Elements(Append(mdm.seen, kk)) = T!Elements(mdm.seen) \cup {kk}
      <4>1. Len(mdm.seen) < SeenMax => T!Newest(Append(mdm.seen, kk), SeenMax) = Append(mdm.seen, kk)
        <5>1. Len(Append(mdm.seen, kk)) = Len(mdm.seen) + 1
          BY <1>s, AppendIs
        <5> QED  BY <3>2, <5>1 DEF T!Newest
      <4>2. /\ Len(Append(mdm.seen, kk)) = Len(mdm.seen) + 1
            /\ T!Elements(Append(mdm.seen, kk)) = T!Elements(mdm.seen) \cup {kk}
        BY <1>s, AppendIs
      <4> QED  BY <3>3, <4>1, <4>2
    <3>5. mdm'.seen = Append(mdm.seen, kk)
      BY <2>p, <2>k, <3>4
    <3>6. Len(mdm'.seen) <= mdm'.last
      BY <2>p, <3>3, <3>4, <3>5
    <3>7. mdm.accepted \in SUBSET (1 .. mdm.last) /\ (mdm.last # 0 => mdm.last \in mdm.accepted)
      BY <3>1 DEF MdmInv
    <3>8. mdm'.accepted \subseteq 1 .. mdm'.last /\ m.at \in mdm'.accepted
      BY <1>3, <2>p, <3>1, <3>7
    <3>9. mdm.gaps = Holes(mdm.accepted, GapTolerance)
      BY <3>1 DEF MdmInv, T!GapsAreExact, Holes
    <3>h. mdm.last \in Nat /\ m.at \in Nat /\ mdm.last < m.at
      BY ONLY <1>3, <3>1
    <3>i. PICK n \in Nat : n = mdm.last
      BY <3>h
    <3>j. PICK A \in SUBSET (1 .. n) : A = mdm.accepted
      BY <3>7, <3>i
    <3>k. PICK at \in Nat : at = m.at
      BY <3>h
    <3>l. PICK tol \in Nat : tol = GapTolerance
      BY <3>2
    <3>o. Holes(A \cup {at}, tol) = Holes(A, tol) \cup (IF n # 0 /\ at - n > tol THEN {<<n, at>>} ELSE {})
      <4>1. (n # 0 => n \in A) /\ n < at
        BY <3>7, <3>h, <3>i, <3>j, <3>k
      <4> QED  BY <4>1, HolesGrow
    <3>10. Holes(mdm.accepted \cup {m.at}, GapTolerance) = mdm'.gaps
      BY ONLY <2>p, <3>9, <3>i, <3>j, <3>k, <3>l, <3>o
    <3>11. mdm'.gaps = Holes(mdm'.accepted, GapTolerance)
      BY <2>p, <3>10
    <3>12. T!GapsAreExact'
      BY <3>11 DEF T!GapsAreExact, Holes
    <3> QED  BY <1>x, <2>p, <3>4, <3>5, <3>6, <3>8, <3>12 DEF MdmInv
  <2>7. ASSUME cycle <= SeenMax, wiring.envelope PROVE RawInv' /\ SeenInv' /\ StoreInv'
    <3>1. RawInv /\ SeenInv /\ StoreInv
      BY <2>7 DEF TelemetryInv
    <3>2. SeenInv'
      BY <1>1, <3>1 DEF SeenInv
    <3>3. StoreInv'
      <4>1. ASSUME NEW n \in Pipe', table'[n.at].copies > 0 \/ \E w \in Workers : (Posting(w) /\ AtWork(w, n.at))'
            PROVE  T!Key(n) \in T!Elements(seen)'
        <5>1. table[n.at].copies > 0 \/ \E w \in Workers : Posting(w) /\ AtWork(w, n.at)
          BY <1>1, <4>1 DEF Posting, AtWork
        <5>2. n # b
          BY <2>5, <2>7, <2>a, <2>aa, <5>1 DEF Entered
        <5> QED  BY <1>x, <2>0, <3>1, <4>1, <5>1, <5>2 DEF StoreInv
      <4> QED  BY <1>1, <3>1, <4>1 DEF StoreInv, Posting, AtWork, T!Key
    <3>4. \A t : Entered(t)' => Entered(t) \/ t = m.at
      BY <1>1, <2>0, <2>a, <2>aa DEF Entered, AtWork
    <3>5. ASSUME NEW j \in 1 .. Len(raw) - 1 PROVE (Repeated(j) \/ New(j))'
      <4>1. Repeated(j + 1) \/ New(j + 1)
        BY <1>2, <1>4, <3>1 DEF RawInv
      <4>0. raw'[j] = raw[j + 1]
        BY <1>2
      <4>2. CASE New(j + 1)
        <5>1. \A i \in 1 .. j - 1 : i + 1 \in 1 .. (j + 1) - 1 /\ i \in 1 .. Len(raw) - 1
          BY <1>2
        <5>3. mdm.last < raw[j + 1].at /\ ~Entered(raw[j + 1].at) /\ m.at < raw[j + 1].at
          <6>1. 1 \in 1 .. (j + 1) - 1
            OBVIOUS
          <6> QED  BY <1>2, <4>2, <6>1 DEF New
        <5>4. \A i \in 1 .. j - 1 : raw'[i].at < raw'[j].at
          BY <1>2, <4>2, <4>0, <5>1 DEF New
        <5>5. PICK t : t = raw[j + 1].at
          OBVIOUS
        <5>6. ~Entered(t)' /\ t = raw'[j].at
          BY <1>3, <3>4, <4>0, <5>3, <5>5
        <5> QED  BY <2>p, <5>3, <5>4, <5>5, <5>6 DEF New
      <4>3. CASE Repeated(j + 1)
        <5>0. T!Elements(mdm.seen)' = T!Elements(mdm.seen) \cup {kk}
          BY <2>6, <2>7
        <5>2. CASE T!Key(raw[j + 1]) \in T!Elements(mdm.seen) \cup {kk}
          BY <4>0, <5>0, <5>2 DEF Repeated, T!Key
        <5>3. ASSUME NEW i \in 1 .. (j + 1) - 1, T!Key(raw[i]) = T!Key(raw[j + 1]) PROVE (Repeated(j) \/ New(j))'
          <6>1. CASE i = 1
            <7>1. T!Key(raw[j + 1]) = kk
              BY <1>2, <2>k, <5>3, <6>1 DEF k
            <7> QED  BY <5>2, <7>1
          <6>2. CASE i # 1
            <7>1. i - 1 \in 1 .. j - 1 /\ raw'[i - 1] = raw[i]
              <8>0. i \in Nat /\ j \in Nat /\ i > 1 /\ i <= j /\ j <= Len(raw) - 1
                BY <1>2, <6>2
              <8>1. i - 1 \in 1 .. Len(raw) - 1 /\ i - 1 \in 1 .. j - 1 /\ (i - 1) + 1 = i
                BY <1>2, <8>0
              <8> QED  BY <1>2, <8>1
            <7> QED  BY <4>0, <5>3, <7>1 DEF Repeated, T!Key
          <6> QED  BY <6>1, <6>2
        <5> QED  BY <4>3, <5>2, <5>3 DEF Repeated
      <4> QED  BY <4>1, <4>2, <4>3
    <3>6. RawInv'
      BY <1>2, <3>5 DEF RawInv
    <3> QED  BY <3>2, <3>3, <3>6
  <2> QED  BY <1>0, <1>1, <2>2, <2>3, <2>4, <2>6, <2>7, OnTheWay
<1> QED  BY <1>1, <1>5, <1>6

LEMMA MdmRestarts ==
    ASSUME FieldAssumption, TelemetryTypes, TelemetryInv, T!MdmDies
    PROVE  TelemetryInv'
<1>0. PICK h \in 0 .. cycle : Behind(h) /\ Ahead(h)
  BY DEF TelemetryInv, Horizon
<1>1. /\ raw' = << >> /\ mdm'.seen = << >> /\ mdm'.last = 0 /\ mdm'.accepted = {} /\ mdm'.gaps = {}
      /\ UNCHANGED <<wiring, cycle, ring, sending, inbox, queue, worker, seen, table, twin>>
  BY DEF T!MdmDies, T!Forgotten, T!edge, T!net, T!ing, T!store
<1>2. T!Elements(raw)' = {} /\ T!Elements(mdm.seen)' = {} /\ T!Elements(seen)' = T!Elements(seen) /\ Pipe' = Pipe
  BY <1>1 DEF T!Elements, Pipe
<1>3. (\A k \in AllKeys' : k \in AllKeys) /\ OneKey'
  BY <1>2, KeysAre, KeysShrink DEF TelemetryInv
<1>4. Behind(h)'
  BY <1>0, <1>1, <1>3 DEF Behind
<1>5. Honest'
  BY <1>1 DEF TelemetryInv, Honest
<1>6. MdmInv'
  BY <1>1 DEF MdmInv, T!GapsAreExact
<1>7. RawInv'
  BY <1>1 DEF RawInv
<1>8. cycle <= SeenMax /\ wiring.envelope => SeenInv' /\ StoreInv'
  BY <1>1, <1>2 DEF TelemetryInv, SeenInv, StoreInv, Posting, AtWork, T!Key
<1> QED  BY <1>0, <1>1, <1>3, <1>4, <1>5, <1>6, <1>7, <1>8, OnTheWay

\* Distinct keys in the cache are of distinct cycles, which are not more than h.
LEMMA CacheFits ==
    ASSUME NEW h \in Nat, NEW s \in Seq(KeySet), \A i \in 1 .. Len(s) : s[i][1] \in 1 .. h,
           \A i, j \in 1 .. Len(s) : s[i][1] = s[j][1] => i = j
    PROVE  Len(s) <= h
<1>0. Len(s) \in Nat
  OBVIOUS
<1> DEFINE f == [i \in 1 .. Len(s) |-> s[i][1]]
<1>1. f \in [1 .. Len(s) -> 1 .. h] /\ \A i, j \in 1 .. Len(s) : f[i] = f[j] => i = j
  OBVIOUS
<1> HIDE DEF f
<1>2. /\ IsFiniteSet(1 .. Len(s)) /\ Cardinality(1 .. Len(s)) = Len(s)
      /\ IsFiniteSet(1 .. h) /\ Cardinality(1 .. h) = h
  <2>1. ASSUME NEW n \in Nat PROVE IsFiniteSet(1 .. n) /\ Cardinality(1 .. n) = n
    <3>1. n \in Int /\ 1 \in Int
      OBVIOUS
    <3>2. IsFiniteSet(1 .. n) /\ Cardinality(1 .. n) = IF 1 > n THEN 0 ELSE n - 1 + 1
      BY <3>1, FS_Interval
    <3> QED  BY <3>2
  <2> QED  BY <1>0, <2>1
<1>3. SUFFICES ASSUME h < Len(s) PROVE FALSE
  BY <1>0
<1>4. \E i, j \in 1 .. Len(s) : i # j /\ f[i] = f[j]
  <2>1. Cardinality(1 .. h) < Cardinality(1 .. Len(s))
    BY <1>2, <1>3
  <2>2. f \in [1 .. Len(s) -> 1 .. h] /\ IsFiniteSet(1 .. Len(s)) /\ IsFiniteSet(1 .. h)
    BY <1>1, <1>2
  <2> DEFINE S == 1 .. Len(s)
             N == 1 .. h
  <2>3. f \in [S -> N] /\ IsFiniteSet(S) /\ IsFiniteSet(N) /\ Cardinality(N) < Cardinality(S)
    BY <2>1, <2>2
  <2> HIDE DEF S, N
  <2>4. \E x, y \in S : x # y /\ f[x] = f[y]
    BY <2>3, FS_PigeonHole
  <2> QED  BY <2>4 DEF S
<1> QED  BY <1>1, <1>4

\* Where the cache has room for the cycles there were, a new key stays with the others.
LEMMA KeyIsKept ==
    ASSUME FieldAssumption, TelemetryTypes, NEW h \in Nat, h <= SeenMax, NEW k \in KeySet, k[1] <= h,
           SeenInv, \A l \in T!Elements(seen) : l[1] <= h /\ l[1] # k[1]
    PROVE  T!Newest(Append(seen, k), SeenMax) = Append(seen, k)
<1>0. seen \in Seq(KeySet) /\ Len(seen) \in Nat /\ SeenMax \in Nat
  BY Types DEF TelemetryTypes
<1>1. \A l \in KeySet : l[1] \in Nat /\ l[1] >= 1
  BY Types DEF KeySet
<1> DEFINE s == Append(seen, k)
<1>2. /\ s \in Seq(KeySet) /\ Len(s) = Len(seen) + 1
      /\ \A i \in 1 .. Len(seen) : s[i] = seen[i] /\ seen[i] \in KeySet /\ seen[i] \in T!Elements(seen)
      /\ s[Len(seen) + 1] = k
  BY <1>0 DEF T!Elements
<1> HIDE DEF s
<1>3. \A i \in 1 .. Len(s) : i \in 1 .. Len(seen) \/ i = Len(seen) + 1
  BY <1>0, <1>2
<1>4. \A i \in 1 .. Len(s) : s[i][1] \in 1 .. h
  BY <1>1, <1>2, <1>3
<1>5. ASSUME NEW i \in 1 .. Len(s), NEW j \in 1 .. Len(s), s[i][1] = s[j][1] PROVE i = j
  <2>1. CASE i \in 1 .. Len(seen) /\ j \in 1 .. Len(seen)
    BY <1>0, <1>2, <1>5, <2>1 DEF SeenInv
  <2> QED  BY <1>2, <1>3, <1>5, <2>1
<1>6. Len(s) <= h
  BY <1>2, <1>4, <1>5, CacheFits
<1> QED  BY <1>0, <1>2, <1>6 DEF T!Newest, s

LEMMA QueueTakes ==
    ASSUME FieldAssumption, TelemetryTypes, TelemetryInv, T!OnMessage \/ T!Shed
    PROVE  TelemetryInv'
<1>0. PICK h \in 0 .. cycle : Behind(h) /\ Ahead(h)
  BY DEF TelemetryInv, Horizon
<1>s. inbox # << >> /\ inbox \in Seq(T!Message) /\ queue \in Seq(T!Message)
  BY DEF T!OnMessage, T!Shed, TelemetryTypes
<1>m. PICK m \in T!Message : m = Head(inbox)
  BY <1>s, TailIs
<1>1. /\ inbox' = Tail(inbox) /\ (queue' = queue \/ queue' = Append(queue, m))
      /\ UNCHANGED <<wiring, cycle, ring, sending, raw, mdm, worker, seen, table, twin>>
  BY <1>m DEF T!OnMessage, T!Shed, T!edge, T!net, T!ing, T!store
<1>2. T!Elements(inbox) = T!Elements(Tail(inbox)) \cup {m}
  BY <1>s, <1>m, TailIs
<1>3. T!Elements(Append(queue, m)) = T!Elements(queue) \cup {m}
  BY <1>s, AppendIs
<1>4. T!Elements(inbox)' = T!Elements(Tail(inbox)) /\ T!Elements(queue)' \in {T!Elements(queue), T!Elements(queue) \cup {m}}
  BY <1>1, <1>3 DEF T!Elements
<1>5. \A n \in Pipe' : n \in Pipe
  BY <1>2, <1>4 DEF Pipe
<1>6. T!Elements(raw)' = T!Elements(raw) /\ T!Elements(mdm.seen)' = T!Elements(mdm.seen) /\ T!Elements(seen)' = T!Elements(seen)
  BY <1>1 DEF T!Elements
<1>7. (\A k \in AllKeys' : k \in AllKeys) /\ OneKey'
  <2>1. \A n \in (T!Elements(raw) \cup Pipe)' : n \in T!Elements(raw) \cup Pipe
    BY <1>5, <1>6
  <2> QED  BY <1>6, <2>1, KeysAre, KeysShrink DEF TelemetryInv
<1>8. Behind(h)'
  BY <1>0, <1>1, <1>7 DEF Behind
<1>9. Honest' /\ (cycle <= SeenMax => MdmInv')
  BY <1>1 DEF TelemetryInv, Honest, MdmInv, T!GapsAreExact
<1>10. ASSUME cycle <= SeenMax, wiring.envelope PROVE RawInv' /\ SeenInv' /\ StoreInv'
  <2>1. RawInv /\ SeenInv /\ StoreInv
    BY <1>10 DEF TelemetryInv
  <2>2. \A t : Entered(t)' => Entered(t)
    BY <1>1, <1>5 DEF Entered, AtWork
  <2>3. RawInv'
    BY <1>1, <1>6, <2>1, <2>2 DEF RawInv, Repeated, New, T!Key
  <2>4. SeenInv' /\ StoreInv'
    BY <1>1, <1>5, <1>6, <2>1 DEF SeenInv, StoreInv, Posting, AtWork, T!Key
  <2> QED  BY <2>1, <2>3, <2>4
<1> QED  BY <1>0, <1>1, <1>7, <1>8, <1>9, <1>10, OnTheWay

LEMMA WorkerTakes ==
    ASSUME FieldAssumption, TelemetryTypes, TelemetryInv, NEW w \in Workers, T!HandleMessage(w)
    PROVE  TelemetryInv'
<1>0. PICK h \in 0 .. cycle : Behind(h) /\ Ahead(h)
  BY DEF TelemetryInv, Horizon
<1>s. queue # << >> /\ queue \in Seq(T!Message) /\ worker[w] = None /\ seen \in Seq(KeySet) /\ Len(seen) <= SeenMax
      /\ worker \in [Workers -> [step : {"post", "mirror"}, msg : T!Message] \union {None}]
  BY DEF T!HandleMessage, TelemetryTypes
<1>m. PICK m \in T!Message : m = Head(queue)
  BY <1>s, TailIs
<1>b. PICK b \in T!Message : b = T!Body(m) /\ b.at = m.at /\ (b.finite \/ b.quality = "INVALID")
  BY MessageIs
<1>k. PICK k \in KeySet : k = T!Key(m) /\ k[1] = m.at
  BY MessageIs
<1>1. /\ queue' = Tail(queue) /\ UNCHANGED <<wiring, cycle, ring, sending, raw, inbox, mdm, table, twin>>
      /\ \/ UNCHANGED <<worker, seen>>
         \/ /\ wiring.envelope => k \notin T!Elements(seen)
            /\ worker' = [worker EXCEPT ![w] = [step |-> "post", msg |-> b]]
            /\ seen' = IF wiring.envelope THEN T!Newest(Append(seen, k), SeenMax) ELSE seen
  BY <1>m, <1>b, <1>k DEF T!HandleMessage, T!edge, T!net, T!ing, T!store
<1>2. T!Elements(queue) = T!Elements(Tail(queue)) \cup {m}
  BY <1>s, <1>m, TailIs
<1>3. /\ T!Elements(queue)' = T!Elements(Tail(queue)) /\ T!Elements(inbox)' = T!Elements(inbox)
      /\ T!Elements(raw)' = T!Elements(raw) /\ T!Elements(mdm.seen)' = T!Elements(mdm.seen)
  BY <1>1 DEF T!Elements
<1>4. (\A n \in Pipe' : n \in Pipe) /\ m \in Pipe
  BY <1>2, <1>3 DEF Pipe
<1>5. \A l : l \in T!Elements(seen)' => l \in T!Elements(seen) \/ l = k
  <2>1. T!Elements(T!Newest(Append(seen, k), SeenMax)) \subseteq T!Elements(seen) \cup {k}
    <3>1. SeenMax \in Nat
      BY Types
    <3> QED  BY <1>s, <3>1, NewestIs
  <2>2. T!Elements(seen)' = T!Elements(seen')
    BY DEF T!Elements
  <2>3. seen' = seen \/ seen' = T!Newest(Append(seen, k), SeenMax)
    BY <1>1
  <2> QED  BY <2>1, <2>2, <2>3
<1>6. k \in AllKeys /\ m.at <= h /\ m.at \in T!Cycles /\ m.at \in Nat /\ h \in Nat /\ h <= cycle /\ cycle \in Nat
  <2>1. k \in AllKeys
    BY <1>4, <1>k, KeysAre
  <2> QED  BY <1>0, <1>k, <2>1, WayTypes DEF Behind
<1>7. (\A l \in AllKeys' : l \in AllKeys) /\ OneKey'
  <2>1. \A n \in (T!Elements(raw) \cup Pipe)' : n \in T!Elements(raw) \cup Pipe
    BY <1>3, <1>4
  <2>2. (\A l \in T!Elements(mdm.seen)' : l \in AllKeys) /\ \A l \in T!Elements(seen)' : l \in AllKeys
    BY <1>3, <1>5, <1>6, KeysAre
  <2> QED  BY <2>1, <2>2, KeysShrink DEF TelemetryInv
<1>8. \A v \in Workers : worker'[v] = worker[v] \/ (v = w /\ worker'[v] = [step |-> "post", msg |-> b])
  BY <1>1, <1>s
<1> DEFINE r == [step |-> "post", msg |-> b]
<1>r. r.step = "post" /\ r.msg = b
  OBVIOUS
<1> HIDE DEF r
<1>9. \A v \in Workers : worker'[v] = worker[v] \/ (v = w /\ worker'[v] = r)
  BY <1>8 DEF r
<1>10. Behind(h)'
  <2>1. \A v \in Workers : worker'[v] # None => worker'[v].msg.at <= h
    BY <1>0, <1>6, <1>9, <1>r, <1>b DEF Behind
  <2> QED  BY <1>0, <1>1, <1>7, <2>1 DEF Behind
<1>11. Honest'
  <2>1. Honest
    BY DEF TelemetryInv
  <2>2. \A v \in Workers : worker'[v] # None => worker'[v].msg.finite \/ worker'[v].msg.quality = "INVALID"
    BY <1>9, <1>r, <1>b, <2>1 DEF Honest
  <2>3. \A v \in Workers : worker'[v] # None /\ worker'[v].step = "mirror" => table[worker'[v].msg.at].copies > 0
    BY <1>9, <1>r, <2>1 DEF Honest
  <2> QED  BY <1>1, <2>1, <2>2, <2>3 DEF Honest
<1>12. cycle <= SeenMax => MdmInv'
  BY <1>1 DEF TelemetryInv, MdmInv, T!GapsAreExact
<1>13. ASSUME cycle <= SeenMax, wiring.envelope PROVE RawInv' /\ SeenInv' /\ StoreInv'
  <2>1. RawInv /\ SeenInv /\ StoreInv
    BY <1>13 DEF TelemetryInv
  <2>2. \A t : Entered(t)' => Entered(t)
    <3>1. \A v \in Workers : \A t : AtWork(v, t)' => AtWork(v, t) \/ t = m.at
      BY <1>9, <1>r, <1>b DEF AtWork
    <3> QED  BY <1>1, <1>4, <3>1 DEF Entered
  <2>3. RawInv'
    BY <1>1, <1>3, <2>1, <2>2 DEF RawInv, Repeated, New, T!Key
  <2>4. CASE UNCHANGED <<worker, seen>>
    <3>1. T!Elements(seen)' = T!Elements(seen)
      BY <2>4 DEF T!Elements
    <3>2. SeenInv' /\ StoreInv'
      BY <1>1, <1>4, <2>1, <2>4, <3>1 DEF SeenInv, StoreInv, Posting, AtWork, T!Key
    <3> QED  BY <2>3, <3>2
  <2>5. CASE k \notin T!Elements(seen) /\ worker' = [worker EXCEPT ![w] = r] /\ seen' = T!Newest(Append(seen, k), SeenMax)
    <3>1. \A l \in T!Elements(seen) : l[1] <= h /\ l[1] # k[1]
      <4>1. \A l \in T!Elements(seen) : l \in AllKeys
        BY KeysAre
      <4> QED  BY <1>0, <1>6, <2>5, <4>1 DEF Behind, TelemetryInv, OneKey
    <3>2. h <= SeenMax /\ k[1] <= h
      BY <1>6, <1>k, <1>13, Types
    <3>3. seen' = Append(seen, k)
      BY <1>6, <2>1, <2>5, <3>1, <3>2, KeyIsKept
    <3>4. T!Elements(seen)' = T!Elements(seen) \cup {k}
      <4>1. T!Elements(Append(seen, k)) = T!Elements(seen) \cup {k}
        BY <1>s, AppendIs
      <4> QED  BY <3>3, <4>1 DEF T!Elements
    <3>5. SeenInv'
      <4>1. /\ DOMAIN seen = 1 .. Len(seen) /\ DOMAIN seen' = 1 .. Len(seen) + 1 /\ Len(seen) \in Nat
            /\ seen'[Len(seen) + 1] = k /\ \A i \in 1 .. Len(seen) : seen'[i] = seen[i] /\ seen[i] \in T!Elements(seen)
        BY <1>s, <3>3 DEF T!Elements
      <4>2. \A i \in 1 .. Len(seen) + 1 : i \in 1 .. Len(seen) \/ i = Len(seen) + 1
        BY <4>1
      <4>3. \A i, j \in DOMAIN seen' : seen'[i][1] = seen'[j][1] => i = j
        <5> TAKE i, j \in DOMAIN seen'
        <5> HAVE seen'[i][1] = seen'[j][1]
        <5>1. CASE i \in 1 .. Len(seen) /\ j \in 1 .. Len(seen)
          BY <2>1, <4>1, <5>1 DEF SeenInv
        <5> QED  BY <3>1, <4>1, <4>2, <5>1
      <4> QED  BY <4>3 DEF SeenInv
    <3>6. table[m.at].copies = 0 /\ \A v \in Workers : ~(Posting(v) /\ AtWork(v, m.at))
      <4>1. ~(table[m.at].copies > 0) /\ \A v \in Workers : ~(Posting(v) /\ AtWork(v, m.at))
        BY <1>4, <1>k, <2>1, <2>5 DEF StoreInv
      <4> QED  BY <1>6, <4>1, WayTypes
    <3>7. \A v \in Workers : Posting(v)' => (Posting(v) /\ worker'[v] = worker[v]) \/ (v = w /\ worker'[v] = r)
      BY <1>9 DEF Posting
    <3>8. \A v \in Workers : Posting(v)' => table'[worker'[v].msg.at].copies = 0
      BY <1>1, <1>b, <1>r, <2>1, <3>6, <3>7 DEF StoreInv
    <3>9. ASSUME NEW u \in Workers, NEW v \in Workers, Posting(u)', Posting(v)', worker'[u].msg.at = worker'[v].msg.at PROVE u = v
      <4>1. \A x \in Workers : Posting(x) => worker[x].msg.at # m.at
        BY <3>6 DEF Posting, AtWork
      <4> QED  BY <1>b, <1>r, <2>1, <3>7, <3>9, <4>1 DEF StoreInv
    <3>10. ASSUME NEW n \in Pipe', table'[n.at].copies > 0 \/ \E v \in Workers : (Posting(v) /\ AtWork(v, n.at))'
           PROVE  T!Key(n) \in T!Elements(seen)'
      <4>1. n \in Pipe
        BY <1>4, <3>10
      <4>2. CASE n.at = m.at
        <5>1. T!Key(n) \in AllKeys /\ T!Key(n)[1] = k[1]
          BY <1>k, <4>1, <4>2, WayTypes, KeysAre
        <5>2. T!Key(n) = k
          BY <1>6, <5>1 DEF TelemetryInv, OneKey
        <5> QED  BY <3>4, <5>2
      <4>3. CASE n.at # m.at
        <5>1. table[n.at].copies > 0 \/ \E v \in Workers : Posting(v) /\ AtWork(v, n.at)
          BY <1>1, <1>b, <1>r, <3>7, <3>10, <4>3 DEF AtWork
        <5>2. T!Key(n) \in T!Elements(seen)
          BY <2>1, <4>1, <5>1 DEF StoreInv
        <5> QED  BY <3>4, <5>2
      <4> QED  BY <4>2, <4>3
    <3>11. StoreInv'
      <4>1. \A n \in Pipe' : (table'[n.at].copies > 0 \/ \E v \in Workers : (Posting(v) /\ AtWork(v, n.at))')
                             => T!Key(n) \in T!Elements(seen)'
        BY <3>10
      <4>2. \A t \in T!Cycles : table'[t].copies <= 1
        BY <1>1, <2>1 DEF StoreInv
      <4> QED  BY <3>8, <3>9, <4>1, <4>2 DEF StoreInv, T!Key
    <3> QED  BY <2>3, <3>5, <3>11
  <2> QED  BY <1>1, <1>13, <2>4, <2>5 DEF r
<1> QED  BY <1>0, <1>1, <1>7, <1>10, <1>11, <1>12, <1>13, OnTheWay

\* What is on the way stays; the keys are those there were or fewer.
LEMMA WayStays ==
    ASSUME TelemetryInv, UNCHANGED <<raw, inbox, queue, mdm, seen>>
    PROVE  /\ Pipe' = Pipe /\ AllKeys' = AllKeys /\ OneKey' /\ T!Elements(seen)' = T!Elements(seen)
           /\ T!Elements(raw)' = T!Elements(raw) /\ T!Elements(mdm.seen)' = T!Elements(mdm.seen)
           /\ cycle <= SeenMax => MdmInv'
<1>1. /\ Pipe' = Pipe /\ T!Elements(seen)' = T!Elements(seen)
      /\ T!Elements(raw)' = T!Elements(raw) /\ T!Elements(mdm.seen)' = T!Elements(mdm.seen)
  BY DEF Pipe, T!Elements
<1>2. AllKeys' = AllKeys
  BY <1>1 DEF AllKeys, T!Key
<1> QED  BY <1>1, <1>2 DEF TelemetryInv, OneKey, MdmInv, T!GapsAreExact

LEMMA RowIsStored ==
    ASSUME FieldAssumption, TelemetryTypes, TelemetryInv, NEW w \in Workers, T!Insert(w)
    PROVE  TelemetryInv'
<1>0. PICK h \in 0 .. cycle : Behind(h) /\ Ahead(h)
  BY DEF TelemetryInv, Horizon
<1>w. worker[w] # None /\ worker[w].step = "post" /\ worker[w] \in [step : {"post", "mirror"}, msg : T!Message]
      /\ worker \in [Workers -> [step : {"post", "mirror"}, msg : T!Message] \union {None}]
      /\ table \in [T!Cycles -> T!Row]
  BY WayTypes DEF T!Insert, TelemetryTypes
<1>m. PICK m \in T!Message : m = worker[w].msg
  BY <1>w
<1> DEFINE rec == [copies |-> table[m.at].copies + 1, quality |-> m.quality, finite |-> m.finite]
           to == [worker[w] EXCEPT !.step = "mirror"]
<1>1. /\ table' = [table EXCEPT ![m.at] = rec] /\ worker' = [worker EXCEPT ![w] = to]
      /\ UNCHANGED <<wiring, cycle, ring, sending, raw, inbox, mdm, queue, seen, twin>>
  BY <1>m DEF T!Insert, T!edge, T!net, T!ing, T!store
<1>2. rec.copies = table[m.at].copies + 1 /\ rec.quality = m.quality /\ rec.finite = m.finite
  OBVIOUS
<1>3. to.step = "mirror" /\ to.msg = m
  BY <1>w, <1>m
<1> HIDE DEF rec, to
<1>4. m.at \in T!Cycles /\ m.at \in Nat /\ h \in Nat /\ m.at <= h /\ table[m.at].copies \in Nat
  <2>1. m.at \in T!Cycles
    BY MessageIs
  <2> QED  BY <1>0, <1>w, <1>m, <2>1, WayTypes DEF Behind
<1>5. rec.copies > 0 /\ (table[m.at].copies = 0 => rec.copies <= 1)
  BY <1>2, <1>4
<1>6. /\ \A t \in T!Cycles : table'[t] = IF t = m.at THEN rec ELSE table[t]
      /\ \A v \in Workers : worker'[v] = IF v = w THEN to ELSE worker[v]
  BY <1>1, <1>w, <1>4
<1>7. /\ Pipe' = Pipe /\ AllKeys' = AllKeys /\ OneKey' /\ T!Elements(seen)' = T!Elements(seen)
      /\ T!Elements(raw)' = T!Elements(raw) /\ T!Elements(mdm.seen)' = T!Elements(mdm.seen)
      /\ cycle <= SeenMax => MdmInv'
  BY <1>1, WayStays
<1>8. \A v \in Workers : worker'[v] # None => worker[v] # None /\ worker'[v].msg = worker[v].msg
  BY <1>3, <1>6, <1>m, <1>w
<1>9. Behind(h)'
  <2>1. \A v \in Workers : worker'[v] # None => worker'[v].msg.at <= h
    BY <1>0, <1>8 DEF Behind
  <2>2. \A t \in T!Cycles : table'[t].copies > 0 => t <= h
    BY <1>0, <1>4, <1>6 DEF Behind
  <2>3. mdm' = mdm /\ \A k \in AllKeys' : k[1] <= h
    BY <1>0, <1>1, <1>7 DEF Behind
  <2> QED  BY <1>0, <2>1, <2>2, <2>3 DEF Behind
<1>10. Honest'
  <2>1. Honest
    BY DEF TelemetryInv
  <2>2. \A t \in T!Cycles : table[t].copies > 0 => table'[t].copies > 0
    BY <1>5, <1>6
  <2>3. \A v \in Workers : worker'[v] # None => worker'[v].msg.finite \/ worker'[v].msg.quality = "INVALID"
    BY <1>8, <2>1 DEF Honest
  <2>4. \A v \in Workers : worker'[v] # None /\ worker'[v].step = "mirror" => table'[worker'[v].msg.at].copies > 0
    <3> SUFFICES ASSUME NEW v \in Workers, worker'[v] # None, worker'[v].step = "mirror" PROVE table'[worker'[v].msg.at].copies > 0
      OBVIOUS
    <3>1. CASE v = w
      BY <1>3, <1>4, <1>5, <1>6, <3>1
    <3>2. CASE v # w
      <4>1. worker'[v] = worker[v] /\ table[worker[v].msg.at].copies > 0 /\ worker[v].msg \in T!Message
        BY <1>6, <2>1, <3>2, WayTypes DEF Honest
      <4>2. worker[v].msg.at \in T!Cycles
        BY <4>1, MessageIs
      <4> QED  BY <2>2, <4>1, <4>2
    <3> QED  BY <3>1, <3>2
  <2>5. twin' # None => table'[twin'.at].copies > 0
    <3>1. twin # None => twin.at \in T!Cycles /\ table[twin.at].copies > 0
      <4>1. twin # None => twin \in T!Message
        BY DEF TelemetryTypes
      <4> QED  BY <2>1, <4>1, MessageIs DEF Honest
    <3> QED  BY <1>1, <2>2, <3>1
  <2>6. \A t \in T!Cycles : table'[t].finite \/ table'[t].quality = "INVALID"
    <3>1. m.finite \/ m.quality = "INVALID"
      BY <1>w, <1>m, <2>1 DEF Honest
    <3> QED  BY <1>2, <1>6, <2>1, <3>1 DEF Honest
  <2> QED  BY <1>1, <2>1, <2>3, <2>4, <2>5, <2>6 DEF Honest
<1>11. ASSUME cycle <= SeenMax, wiring.envelope PROVE RawInv' /\ SeenInv' /\ StoreInv'
  <2>1. RawInv /\ SeenInv /\ StoreInv
    BY <1>11 DEF TelemetryInv
  <2>2. \A t \in T!Cycles : Entered(t)' => Entered(t)
    BY <1>6, <1>7, <1>8, <1>m, <1>w DEF Entered, AtWork
  <2>3. RawInv'
    <3>1. \A j \in DOMAIN raw : raw[j].at \in T!Cycles
      <4>1. \A j \in DOMAIN raw : raw[j] \in T!Elements(raw)
        BY DEF T!Elements
      <4> QED  BY <4>1, WayTypes
    <3>2. \A j \in DOMAIN raw : New(j) => New(j)'
      BY <1>1, <2>2, <3>1 DEF New
    <3>3. \A j \in DOMAIN raw : Repeated(j) => Repeated(j)'
      BY <1>1, <1>7 DEF Repeated, T!Key
    <3> QED  BY <1>1, <2>1, <3>2, <3>3 DEF RawInv
  <2>4. SeenInv'
    BY <1>1, <2>1 DEF SeenInv
  <2>5. Posting(w) /\ table[m.at].copies = 0
    BY <1>w, <1>m, <2>1 DEF Posting, StoreInv
  <2>6. \A v \in Workers : Posting(v)' => v # w /\ Posting(v) /\ worker'[v] = worker[v] /\ worker[v].msg.at # m.at
    <3>1. \A v \in Workers : Posting(v)' => v # w /\ Posting(v) /\ worker'[v] = worker[v]
      BY <1>3, <1>6 DEF Posting
    <3> QED  BY <1>m, <2>1, <2>5, <3>1 DEF StoreInv
  <2>7. \A t \in T!Cycles : table'[t].copies <= 1
    BY <1>5, <1>6, <2>1, <2>5 DEF StoreInv
  <2>8. \A v \in Workers : Posting(v)' => table'[worker'[v].msg.at].copies = 0
    <3> SUFFICES ASSUME NEW v \in Workers, Posting(v)' PROVE table'[worker'[v].msg.at].copies = 0
      OBVIOUS
    <3>1. Posting(v) /\ worker'[v] = worker[v] /\ worker[v].msg.at # m.at
      BY <2>6
    <3>2. table[worker[v].msg.at].copies = 0
      BY <2>1, <3>1 DEF StoreInv
    <3>3. worker[v].msg.at \in T!Cycles
      BY <3>1, WayTypes DEF Posting
    <3> QED  BY <1>6, <3>1, <3>2, <3>3
  <2>9. \A u, v \in Workers : Posting(u)' /\ Posting(v)' /\ worker'[u].msg.at = worker'[v].msg.at => u = v
    BY <2>1, <2>6 DEF StoreInv
  <2>10. ASSUME NEW n \in Pipe', table'[n.at].copies > 0 \/ \E v \in Workers : (Posting(v) /\ AtWork(v, n.at))'
         PROVE  T!Key(n) \in T!Elements(seen)'
    <3>1. n \in Pipe /\ n.at \in T!Cycles
      BY <1>7, <2>10, WayTypes
    <3>2. table[n.at].copies > 0 \/ \E v \in Workers : Posting(v) /\ AtWork(v, n.at)
      BY <1>6, <1>m, <1>w, <2>5, <2>6, <2>10, <3>1 DEF AtWork
    <3> QED  BY <1>7, <2>1, <3>1, <3>2 DEF StoreInv
  <2>11. StoreInv'
    <3>1. \A n \in Pipe' : (table'[n.at].copies > 0 \/ \E v \in Workers : (Posting(v) /\ AtWork(v, n.at))')
                           => T!Key(n) \in T!Elements(seen)'
      BY <2>10
    <3> QED  BY <2>7, <2>8, <2>9, <3>1 DEF StoreInv, T!Key
  <2> QED  BY <2>3, <2>4, <2>11
<1> QED  BY <1>0, <1>1, <1>7, <1>9, <1>10, <1>11, OnTheWay

\* A worker, or all of them, lets go of its reading; the twin may show one that is stored.
LEMMA LetGo ==
    ASSUME FieldAssumption, TelemetryTypes, TelemetryInv,
           UNCHANGED <<wiring, cycle, ring, sending, raw, mdm, table>>,
           UNCHANGED <<inbox, queue, seen>> \/ (inbox' = << >> /\ queue' = << >> /\ seen' = << >>
                                               /\ \A w \in Workers : ~Posting(w)'),
           \A w \in Workers : worker'[w] \in {worker[w], None},
           twin' # twin => \E w \in Workers : worker[w] # None /\ worker[w].step = "mirror" /\ twin' = worker[w].msg
    PROVE  TelemetryInv'
<1>0. PICK h \in 0 .. cycle : Behind(h) /\ Ahead(h)
  BY DEF TelemetryInv, Horizon
<1>1. /\ \A n \in Pipe' : n \in Pipe
      /\ \A l \in T!Elements(seen)' : l \in T!Elements(seen)
      /\ T!Elements(raw)' = T!Elements(raw) /\ T!Elements(mdm.seen)' = T!Elements(mdm.seen)
  BY DEF Pipe, T!Elements
<1>2. (\A l \in AllKeys' : l \in AllKeys) /\ OneKey'
  <2>1. \A n \in (T!Elements(raw) \cup Pipe)' : n \in T!Elements(raw) \cup Pipe
    BY <1>1
  <2> QED  BY <1>1, <2>1, KeysAre, KeysShrink DEF TelemetryInv
<1>3. Behind(h)'
  BY <1>0, <1>2 DEF Behind
<1>4. Honest'
  <2>1. Honest
    BY DEF TelemetryInv
  <2>2. twin' # None => table[twin'.at].copies > 0
    BY <2>1 DEF Honest
  <2> QED  BY <2>1, <2>2 DEF Honest
<1>5. cycle <= SeenMax => MdmInv'
  BY DEF TelemetryInv, MdmInv, T!GapsAreExact
<1>6. ASSUME cycle <= SeenMax, wiring.envelope PROVE RawInv' /\ SeenInv' /\ StoreInv'
  <2>1. RawInv /\ SeenInv /\ StoreInv
    BY <1>6 DEF TelemetryInv
  <2>2. \A t : Entered(t)' => Entered(t)
    BY <1>1 DEF Entered, AtWork
  <2>3. RawInv'
    BY <1>1, <2>1, <2>2 DEF RawInv, Repeated, New, T!Key
  <2>4. SeenInv'
    BY <2>1 DEF SeenInv
  <2>5. StoreInv'
    <3>1. CASE UNCHANGED <<inbox, queue, seen>>
      <4>1. \A w \in Workers : Posting(w)' => Posting(w) /\ worker'[w] = worker[w]
        BY DEF Posting
      <4>2. Pipe' = Pipe /\ T!Elements(seen)' = T!Elements(seen)
        BY <3>1 DEF Pipe, T!Elements
      <4> QED  BY <2>1, <4>1, <4>2 DEF StoreInv, AtWork, T!Key
    <3>2. CASE inbox' = << >> /\ queue' = << >> /\ \A w \in Workers : ~Posting(w)'
      <4>1. Pipe' = {}
        BY <3>2 DEF Pipe, T!Elements
      <4> QED  BY <2>1, <3>2, <4>1 DEF StoreInv
    <3> QED  BY <3>1, <3>2
  <2> QED  BY <2>3, <2>4, <2>5
<1> QED  BY <1>0, <1>2, <1>3, <1>4, <1>5, <1>6, OnTheWay

LEMMA TelemetryInit == ASSUME FieldAssumption, T!Init PROVE TelemetryTypes /\ TelemetryInv
<1> USE DEF T!Init, T!Forgotten
<1>1. T!Cycles = 1 .. MaxCycles /\ {MaxCycles, RingSize, QueueMax, SeenMax} \subseteq Nat /\ MaxFaults \in Nat
  BY Types
<1>2. TelemetryTypes
  <2>1. T!NoRow \in T!Row
    BY DEF T!NoRow, T!Row
  <2>2. << >> \in Seq(T!Message) /\ << >> \in Seq(KeySet) /\ Len(<< >>) = 0
    OBVIOUS
  <2> QED  BY <1>1, <2>1, <2>2 DEF TelemetryTypes
<1>3. Pipe = {} /\ AllKeys = {}
  BY DEF Pipe, AllKeys, T!Elements
<1>4. \A t \in T!Cycles : table[t].copies = 0 /\ table[t].finite = TRUE
  BY DEF T!NoRow
<1>5. \A w \in Workers : worker[w] = None
  OBVIOUS
<1>6. Behind(0) /\ Ahead(0) /\ RingInOrder
  BY <1>3, <1>4, <1>5 DEF Behind, Ahead, RingInOrder
<1>7. Horizon
  BY <1>1, <1>6 DEF Horizon
<1>8. OneKey /\ Honest
  BY <1>3, <1>4, <1>5 DEF OneKey, Honest
<1>9. RawInv /\ SeenInv
  BY DEF RawInv, SeenInv
<1>10. MdmInv
  BY DEF MdmInv, T!GapsAreExact
<1>11. StoreInv
  BY <1>3, <1>4, <1>5 DEF StoreInv, Posting
<1> QED  BY <1>2, <1>6, <1>7, <1>8, <1>9, <1>10, <1>11 DEF TelemetryInv

LEMMA TelemetryStep ==
    ASSUME FieldAssumption, TelemetryTypes, TelemetryInv, T!Next
    PROVE  TelemetryTypes' /\ TelemetryInv'
<1> USE DEF T!edge, T!net, T!ing, T!store
<1>1. ASSUME NEW w \in Workers, T!PostFails(w) \/ T!PersistState(w) \/ T!MirrorFails(w) PROVE TelemetryInv'
  <2>1. UNCHANGED <<wiring, cycle, ring, sending, raw, mdm, table, inbox, queue, seen>>
    BY <1>1 DEF T!PostFails, T!PersistState, T!MirrorFails
  <2>2. worker' = [worker EXCEPT ![w] = None]
        /\ (twin' = twin \/ (worker[w] # None /\ worker[w].step = "mirror" /\ twin' = worker[w].msg))
    BY <1>1 DEF T!PostFails, T!PersistState, T!MirrorFails
  <2>3. \A v \in Workers : worker'[v] \in {worker[v], None}
    BY <2>2 DEF TelemetryTypes
  <2> QED  BY <2>1, <2>2, <2>3, LetGo
<1>2. ASSUME T!IngestorDies PROVE TelemetryInv'
  <2>1. /\ UNCHANGED <<wiring, cycle, ring, sending, raw, mdm, table, twin>>
        /\ inbox' = << >> /\ queue' = << >> /\ seen' = << >>
        /\ worker' = [w \in Workers |-> IF worker[w] # None /\ worker[w].step = "mirror" THEN worker[w] ELSE None]
    BY <1>2 DEF T!IngestorDies
  <2>2. \A w \in Workers : worker'[w] \in {worker[w], None} /\ ~Posting(w)'
    BY <2>1 DEF Posting
  <2> QED  BY <2>1, <2>2, LetGo
<1>3. TelemetryInv'
  BY <1>1, <1>2, ReadsOn, LinkOrRestart, ReplayOrSend, DeliveredAgain, MdmHears, MdmRestarts, QueueTakes, WorkerTakes, RowIsStored
     DEF T!Next, T!Edge, T!Work, T!Failure
<1> QED  BY <1>3, TelemetryTypesStep

LEMMA TelemetrySays ==
    ASSUME TelemetryInv, cycle <= SeenMax
    PROVE  T!GapsAreExact /\ T!StoredOnce
  BY DEF TelemetryInv, MdmInv, StoreInv, Honest, T!StoredOnce

-----------------------------------------------------------------------------
(* The parts together. A step of one leaves the state of the others alone.   *)

FieldInv == DermsInv /\ OpcUaInv /\ ChargeInv /\ TelemetryTypes /\ TelemetryInv

LEMMA DermsStays == ASSUME DermsInv, UNCHANGED derms PROVE DermsInv'
<1>1. UNCHANGED <<online, soc, registers, cached, order, row, step, commanded, writing, ack, moves, mishaps>>
  BY DEF derms
<1>2. D!TypeOK'
  BY <1>1 DEF DermsInv, D!TypeOK
<1>3. \A q \in Orders : InHand(q)'
  BY <1>1 DEF DermsInv, InHand, Bounds, Alone, Written, Has
<1>4. \A q \in Orders : (ack'[q] = "ACKED" /\ writing' = None /\ Alone(q)') => Written(q)'
  BY <1>1 DEF DermsInv, Bounds, Alone, Written, Has
<1>5. writing' \in Writing \union {None} /\ \A q \in Orders : ack'[q] # None => q \in commanded
  BY <1>1 DEF DermsInv
<1> QED
  BY <1>1, <1>2, <1>3, <1>4, <1>5, DriverMoves

LEMMA OpcUaStays == ASSUME OpcUaInv, UNCHANGED opcua PROVE OpcUaInv'
BY DEF opcua, OpcUaInv, Clean, NoItems, U!Alive, U!Variable

LEMMA ChargeStays == ASSUME ChargeInv, UNCHANGED charging_ PROVE ChargeInv'
BY DEF charging_, ChargeInv, P!TypeOK, P!AckedWasDone, Untouched, Registered, Says, SaysAt

LEMMA TelemetryStays ==
    ASSUME FieldAssumption, TelemetryTypes, TelemetryInv, UNCHANGED telemetry
    PROVE  TelemetryTypes' /\ TelemetryInv'
<1>1. UNCHANGED <<wiring, cycle, seqno, ring, sending, link, connected, raw, inbox, mdm, queue, worker, seen,
                  table, twin, shed, faults>>
  BY DEF telemetry
<1>2. TelemetryTypes'
  BY <1>1 DEF TelemetryTypes
<1>3. RingInOrder' /\ \A h \in 0 .. cycle : Ahead(h) => Ahead(h)'
  BY <1>1 DEF TelemetryInv, RingInOrder, Ahead
<1> QED  BY <1>1, <1>2, <1>3, RunnerOnly

LEMMA FieldStep ==
    ASSUME FieldAssumption, FieldInv, [Next]_steps
    PROVE  FieldInv'
<1>1. CASE D!Next /\ UNCHANGED <<opcua, charging_, telemetry>>
  BY <1>1, DermsStep, OpcUaStays, ChargeStays, TelemetryStays DEF FieldInv
<1>2. CASE U!Next /\ UNCHANGED <<derms, charging_, telemetry>>
  BY <1>2, DermsStays, OpcUaStep, ChargeStays, TelemetryStays DEF FieldInv
<1>3. CASE P!Next /\ UNCHANGED <<derms, opcua, telemetry>>
  BY <1>3, DermsStays, OpcUaStays, ChargeStep, TelemetryStays DEF FieldInv
<1>4. CASE T!Next /\ UNCHANGED <<derms, opcua, charging_>>
  BY <1>4, DermsStays, OpcUaStays, ChargeStays, TelemetryStep DEF FieldInv
<1>5. CASE UNCHANGED <<derms, opcua, charging_, telemetry>>
  BY <1>5, DermsStays, OpcUaStays, ChargeStays, TelemetryStays DEF FieldInv
<1> QED
  BY <1>1, <1>2, <1>3, <1>4, <1>5 DEF steps, Next, Telemetry, Charging, OpcUa, Derms, Path, Iec104, Dlms, Modbus

(* Every phase of a request fits its row and the path of its command; what   *)
(* the OPC UA server may notify about has its name, or is nothing; and the   *)
(* frames that the central system has still to read say whether there is a   *)
(* transaction; and every reading on its way is new or known to have been    *)
(* delivered before, as long as the caches hold all keys.                    *)
THEOREM FieldInvariance == Spec => []FieldInv
<1>1. Init => FieldInv
  BY FieldAssumption, DermsInit, OpcUaInit, ChargeInit, TelemetryInit DEF Init, FieldInv
<1>2. FieldInv /\ [Next]_<<part, telemetry, charging_, opcua, derms, path, iec104, dlms, modbus>> => FieldInv'
  BY FieldAssumption, FieldStep DEF steps
<1> QED  BY <1>1, <1>2, PTL DEF Spec

(* What the row of a request to the energy resources says became of it is    *)
(* what became of it, and a command it led to fits the state of charge.      *)
THEOREM RequestsAreTrueHolds == Spec => []RequestsAreTrue
<1>1. FieldInv => RequestsAreTrue
  BY FieldAssumption, DermsTrue DEF FieldInv, RequestsAreTrue
<1> QED  BY <1>1, FieldInvariance, PTL

(* A reading of the OPC UA connector is named after the variable it is of,   *)
(* however the server numbers its namespaces after each restart.             *)
THEOREM RightlyNamedHolds == Spec => []RightlyNamed
<1>1. FieldInv => RightlyNamed
  BY FieldAssumption, OpcUaTrue DEF FieldInv, RightlyNamed
<1> QED  BY <1>1, FieldInvariance, PTL

(* The central system acknowledges what the charger did, and knows whether a *)
(* transaction is open, over any number of connections and commands.         *)
THEOREM ChargersInStepHolds == Spec => []ChargersInStep
<1>1. FieldInv => ChargersInStep
  BY FieldAssumption, ChargeTrue DEF FieldInv, ChargersInStep
<1> QED  BY <1>1, FieldInvariance, PTL

(* The state of a reading's way keeps its types and bounds for ever. Gaps    *)
(* are exact and an envelope is stored at most once as long as the caches of *)
(* seen envelopes (gaps.py, telemetry_ingestor.py) hold the cycles there     *)
(* were, over any number of losses, restarts and second deliveries.          *)
THEOREM ReadingsAreTrueWhileCached ==
    Spec => [](/\ T!TypeOK
               /\ cycle <= SeenMax => ReadingsAreTrue)
<1>1. FieldInv => T!TypeOK /\ (cycle <= SeenMax => ReadingsAreTrue)
  BY TypesSay, TelemetrySays DEF FieldInv, ReadingsAreTrue
<1> QED  BY <1>1, FieldInvariance, PTL

(* With caches that are as large as the number of cycles, the readings are   *)
(* true throughout.                                                          *)
THEOREM ReadingsAreTrueHolds ==
    ASSUME MaxCycles <= SeenMax
    PROVE  Spec => []ReadingsAreTrue
<1>1. FieldInv => ReadingsAreTrue
  <2> SUFFICES ASSUME FieldInv PROVE ReadingsAreTrue
    OBVIOUS
  <2>1. cycle <= SeenMax
    BY FieldAssumption, Types DEF FieldInv, TelemetryTypes
  <2> QED  BY <2>1, TypesSay, TelemetrySays DEF FieldInv, ReadingsAreTrue
<1> QED  BY <1>1, FieldInvariance, PTL
=============================================================================
