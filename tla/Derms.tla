------------------------------- MODULE Derms -------------------------------
(* Requests to the distributed energy resources of a site, from the decision *)
(* on the cached state of charge to the registers of the battery: the route, *)
(* the row of derms_requests, the dispatch, the driver's register writes and *)
(* the battery that obeys them. A state of charge is given in tens of        *)
(* percent; power is left out.                                               *)
EXTENDS Integers, FiniteSets

CONSTANTS
    Orders,         \* identities of requests
    StartLevels,    \* states of charge at the start
    Targets,        \* the target_soc of battery_dispatch
    MaxMoves,       \* bound: steps of charging or discharging
    MaxMishaps,     \* bound: failures, deaths and changes of the registry
    None

VARIABLES
    online,         \* the devices whose row says ONLINE
    soc,            \* the battery's state of charge
    registers,      \* its control block: cmd_mode and target_soc
    twin,           \* battery_soc in the cached state, or None
    order,          \* what each request decided, and on what
    row,            \* derms_requests: the status of each request
    step,           \* how far the request came
    commanded,      \* orders that were handed to the command path
    writing,        \* the order the driver carries out, and what is left to write
    ack,            \* what the driver answered
    moves, mishaps

dermsVars == <<online, soc, registers, twin, order, row, step, commanded, writing, ack, moves, mishaps>>

Soc == 0 .. 10
Smaller(a, b) == IF a < b THEN a ELSE b
Larger(a, b) == IF a > b THEN a ELSE b
Order == [kind : {"dispatch", "peak", "response", "optimize"}, seen : Soc \union {None},
          command : {"charge", "discharge", "idle", "stop_charging"}, target : Soc \union {None}]
Modes == {"standby", "charge", "discharge"}

\* Nothing that is recorded is called None.
DermsAssumption ==
    /\ StartLevels \subseteq Soc /\ Targets \subseteq Soc
    /\ MaxMoves \in Nat /\ MaxMishaps \in Nat
    /\ None \notin Soc /\ None \notin Order /\ None \notin {"CREATED", "EXECUTED", "FAILED", "ACKED"}
    /\ None \notin [id : Orders, left : SUBSET {"mode", "target"}]

Init ==
    /\ online = {"battery", "ev_charger"}
    /\ soc \in StartLevels
    /\ registers = [mode |-> "standby", target |-> 10]
    /\ twin \in {None, soc}
    /\ order = [q \in Orders |-> None] /\ row = [q \in Orders |-> None]
    /\ step = [q \in Orders |-> "new"] /\ commanded = {}
    /\ writing = None /\ ack = [q \in Orders |-> None]
    /\ moves = 0 /\ mishaps = 0

Mishap == mishaps < MaxMishaps /\ mishaps' = mishaps + 1

-----------------------------------------------------------------------------
(* The decisions. A state of charge that is not known counts as half; for    *)
(* demand response and load optimisation, so does one of exactly zero (the   *)
(* code says "or 50.0").                                                     *)

OrHalf(s) == IF s = None THEN 5 ELSE s
FalsyOrHalf(s) == IF s \in {None, 0} THEN 5 ELSE s
TooLow(s) == 10 * s < 25

Decision(kind, command, target) == [kind |-> kind, seen |-> twin, command |-> command, target |-> target]

BatteryDispatch(target) ==
    LET s == OrHalf(twin) IN
    Decision("dispatch", IF s < target THEN "charge" ELSE IF s > target THEN "discharge" ELSE "idle", target)

PeakShaving(s) == IF TooLow(s) THEN {} ELSE {Decision("peak", "discharge", Larger(s - 1, 2))}

DemandResponse(s) == IF TooLow(s) THEN {} ELSE {Decision("response", "discharge", None)}

LoadOptimization(objective, s) ==
    LET UpTo(level) == IF s < level THEN Decision("optimize", "charge", level)
                                    ELSE Decision("optimize", "discharge", Larger(s - 2, 2))
    IN CASE objective = "maximize_solar" -> Decision("optimize", "charge", Smaller(s + 2, 9))
         [] objective = "min_cost"       -> UpTo(5)
         [] OTHER                        -> UpTo(6)

(* What a route may decide now. No decision: it answers 404 or 409 and       *)
(* leaves no row. A battery that is named need not be ONLINE.                *)
Decisions ==
    {BatteryDispatch(t) : t \in Targets}
    \union (IF "battery" \in online
            THEN PeakShaving(OrHalf(twin)) \union DemandResponse(FalsyOrHalf(twin))
                 \union {LoadOptimization(o, FalsyOrHalf(twin)) : o \in {"maximize_solar", "min_cost", "balance"}}
            ELSE {})
    \union (IF "battery" \notin online /\ "ev_charger" \in online
            THEN {[Decision("response", "stop_charging", None) EXCEPT !.seen = None]} ELSE {})

InsertRequest(q) ==
    /\ step[q] = "new"
    /\ \E d \in Decisions : order' = [order EXCEPT ![q] = d]
    /\ row' = [row EXCEPT ![q] = "CREATED"]
    /\ step' = [step EXCEPT ![q] = "dispatch"]
    /\ UNCHANGED <<online, soc, registers, twin, commanded, writing, ack, moves, mishaps>>

(* _execute_derms_command: the command path takes the command, refuses it    *)
(* with an HTTPException (and may still send it late), or the request ends   *)
(* otherwise: any other exception, or the death of the process.              *)
Dispatch(q) ==
    /\ step[q] = "dispatch"
    /\ commanded' = commanded \union {q}
    /\ step' = [step EXCEPT ![q] = "executed"]
    /\ UNCHANGED <<online, soc, registers, twin, order, row, writing, ack, moves, mishaps>>

DispatchRefused(q, late) ==
    /\ step[q] = "dispatch" /\ Mishap
    /\ commanded' = IF late THEN commanded \union {q} ELSE commanded
    /\ step' = [step EXCEPT ![q] = IF late THEN "late" ELSE "refused"]
    /\ UNCHANGED <<online, soc, registers, twin, order, row, writing, ack, moves>>

UpdateStatus(q) ==
    /\ step[q] \in {"executed", "late", "refused"}
    /\ row' = [row EXCEPT ![q] = IF step[q] = "executed" THEN "EXECUTED" ELSE "FAILED"]
    /\ step' = [step EXCEPT ![q] = IF step[q] = "late" THEN "done late" ELSE "done"]
    /\ UNCHANGED <<online, soc, registers, twin, order, commanded, writing, ack, moves, mishaps>>

RequestDies(q) ==
    /\ step[q] \in {"dispatch", "executed", "late", "refused"} /\ Mishap
    /\ step' = [step EXCEPT ![q] = "died"]
    /\ UNCHANGED <<online, soc, registers, twin, order, row, commanded, writing, ack, moves>>

-----------------------------------------------------------------------------
(* The driver of the battery. charge and discharge write the mode, then the  *)
(* power, then the target if there is one; idle writes the mode. The writes  *)
(* are not atomic, and the first that fails ends them with a FAILED answer.  *)

ExecuteCommand(q) ==
    /\ writing = None /\ q \in commanded /\ ack[q] = None /\ order[q].command # "stop_charging"
    /\ writing' = [id |-> q, left |-> IF order[q].command # "idle" /\ order[q].target # None
                                      THEN {"mode", "target"} ELSE {"mode"}]
    /\ UNCHANGED <<online, soc, registers, twin, order, row, step, commanded, ack, moves, mishaps>>

ModeOf(command) == IF command = "idle" THEN "standby" ELSE command

WriteControl ==
    /\ writing # None /\ writing.left # {}
    /\ LET o == order[writing.id] IN
       IF "mode" \in writing.left
       THEN /\ registers' = [registers EXCEPT !.mode = ModeOf(o.command)]
            /\ writing' = [writing EXCEPT !.left = @ \ {"mode"}]
       ELSE /\ registers' = [registers EXCEPT !.target = o.target]
            /\ writing' = [writing EXCEPT !.left = {}]
    /\ UNCHANGED <<online, soc, twin, order, row, step, commanded, ack, moves, mishaps>>

\* A slip: the exception is logged and the loop goes on.
WriteSwallowed ==
    /\ writing # None /\ writing.left # {} /\ Mishap
    /\ ack' = [ack EXCEPT ![writing.id] = "ACKED"]
    /\ writing' = None
    /\ UNCHANGED <<online, soc, registers, twin, order, row, step, commanded, moves>>

WriteFails ==
    /\ writing # None /\ writing.left # {} /\ Mishap
    /\ ack' = [ack EXCEPT ![writing.id] = "FAILED"]
    /\ writing' = None
    /\ UNCHANGED <<online, soc, registers, twin, order, row, step, commanded, moves>>

Answer ==
    /\ writing # None /\ writing.left = {}
    /\ ack' = [ack EXCEPT ![writing.id] = "ACKED"]
    /\ writing' = None
    /\ UNCHANGED <<online, soc, registers, twin, order, row, step, commanded, moves, mishaps>>

(* The battery integrates when it is read. The target bounds it only while   *)
(* it lies ahead; at the target, or past it, the natural limit applies.      *)
Ceiling == IF registers.target > soc THEN registers.target ELSE 10
Floor == IF registers.target < soc THEN registers.target ELSE 0

Integrate ==
    /\ moves < MaxMoves
    /\ \/ registers.mode = "charge" /\ soc < Ceiling /\ soc' = soc + 1
       \/ registers.mode = "discharge" /\ soc > Floor /\ soc' = soc - 1
    /\ moves' = moves + 1
    /\ UNCHANGED <<online, registers, twin, order, row, step, commanded, writing, ack, mishaps>>

ReadBattery ==
    /\ twin # soc /\ twin' = soc
    /\ UNCHANGED <<online, soc, registers, order, row, step, commanded, writing, ack, moves, mishaps>>

(* The cached state expires or Redis loses it; what the database has then    *)
(* holds no battery_soc at its top level.                                    *)
TwinExpires ==
    /\ twin # None /\ Mishap /\ twin' = None
    /\ UNCHANGED <<online, soc, registers, order, row, step, commanded, writing, ack, moves>>

DeviceOffline(d) ==
    /\ d \in online /\ Mishap /\ online' = online \ {d}
    /\ UNCHANGED <<soc, registers, twin, order, row, step, commanded, writing, ack, moves>>

Next ==
    \/ \E q \in Orders : \/ InsertRequest(q) \/ Dispatch(q) \/ UpdateStatus(q) \/ RequestDies(q)
                         \/ ExecuteCommand(q) \/ \E late \in BOOLEAN : DispatchRefused(q, late)
    \/ WriteControl \/ WriteFails \/ Answer
    \/ Integrate \/ ReadBattery \/ TwinExpires
    \/ \E d \in {"battery", "ev_charger"} : DeviceOffline(d)

Spec == Init /\ [][Next]_dermsVars

-----------------------------------------------------------------------------
(* The state keeps its types and bounds; the battery stays within its range. *)
TypeOK ==
    /\ online \subseteq {"battery", "ev_charger"} /\ soc \in Soc
    /\ registers \in [mode : Modes, target : Soc] /\ twin \in Soc \union {None}
    /\ order \in [Orders -> Order \union {None}]
    /\ row \in [Orders -> {"CREATED", "EXECUTED", "FAILED", None}]
    /\ \A q \in Orders : step[q] \in {"new", "dispatch", "executed", "late", "refused", "died", "done", "done late"}
    /\ commanded \subseteq Orders /\ ack \in [Orders -> {"ACKED", "FAILED", None}]
    /\ writing # None => writing.id \in commanded /\ writing.left \subseteq {"mode", "target"}
    /\ moves \in 0 .. MaxMoves /\ mishaps \in 0 .. MaxMishaps

(* The rows tell the truth through deaths, refusals and late sends: what is  *)
(* EXECUTED was handed to the command path, nothing is handed over without   *)
(* its row, a FAILED order reaches the battery only when its send was late;  *)
(* and an order that was acknowledged with nothing commanded since is what   *)
(* the registers hold.                                                       *)
RequestsAreTrue ==
    /\ \A q \in Orders :
         /\ row[q] = "EXECUTED" => q \in commanded
         /\ q \in commanded => row[q] # None
         /\ (row[q] = "FAILED" /\ q \in commanded) => step[q] = "done late"
    /\ \A q \in Orders :
         (ack[q] = "ACKED" /\ writing = None /\ \A p \in Orders \ {q} : ack[p] = None) =>
            /\ registers.mode = ModeOf(order[q].command)
            /\ (order[q].command # "idle" /\ order[q].target # None) => registers.target = order[q].target

(* An order fits the state of charge it was decided on: charging goes up to  *)
(* a target, discharging down to one, and peak shaving and demand response   *)
(* leave a battery below 25 % alone ("too low for safe peak shaving"). Left  *)
(* out: a state of charge of exactly zero, which two routes take for a half, *)
(* and one of 90 % or more, which maximize_solar charges to a target of 90.  *)
OrdersFit ==
    \A q \in Orders : (order[q] # None /\ order[q].seen \notin {None, 0, 9, 10}) =>
        LET o == order[q] IN
        /\ o.command = "charge" => o.seen < o.target
        /\ (o.command = "discharge" /\ o.target # None) => o.seen > o.target /\ (o.kind # "dispatch" => o.target >= 2)
        /\ (o.kind \in {"peak", "response"} /\ o.command = "discharge") => ~TooLow(o.seen)
=============================================================================
