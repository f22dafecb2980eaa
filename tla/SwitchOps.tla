------------------------------ MODULE SwitchOps ------------------------------
(***************************************************************************)
(* What the governed switching actions do to the network: the handlers of  *)
(* switch_op (fastapi/routers/oc_switch.py) and flisr (oc_flisr.py), which *)
(* Controls calls between its gates and its final UPDATE.                  *)
(*                                                                         *)
(* Controls decides who may run an action and when; here an action that    *)
(* was submitted may be run by any request, one statement at a time, while *)
(* other requests run other actions, people set switches past the          *)
(* governance (PATCH /topology/edges/{id}/switch), outage cases come and   *)
(* go, and the breaker in the field follows its commands when it gets to   *)
(* them.                                                                   *)
(***************************************************************************)
EXTENDS Grid

CONSTANTS
    Actions, Procs, None,
    Breaker,        \* the edge with attrs.device_id
    Wanted,         \* what is submitted, see Orders
    Faulty,         \* nodes an outage case may name
    MaySet,         \* edges people set past the governance
    MaxFaults,      \* bound: statements or dispatches that fail
    MaxSent         \* bound: commands on their way to the device

\* An order is a switch operation on an edge, or a FLISR for a node.
Orders == [kind : {"switch"}, target : Edges, close : BOOLEAN, override : BOOLEAN]
            \cup [kind : {"flisr"}, target : Nodes, close : {FALSE},
                  override : {FALSE}]

ASSUME SwitchAssumption ==
    /\ Wanted \subseteq Orders
    /\ Breaker \in Switchable
    /\ Faulty \subseteq Nodes /\ MaySet \subseteq Switchable
    /\ MaxFaults \in Nat /\ MaxSent \in Nat
    /\ None \notin Procs

VARIABLES
    closed,     \* grid_edges.is_closed: the edges that are closed
    outages,    \* affected nodes of the active outage cases
    act,        \* the actions submitted: order, status and before_state
    op,         \* what each request slot is doing
    field,      \* the breaker is closed in the field
    sent,       \* commands on their way to the device, in order
    faults,
    \* History variables:
    disturbed,  \* somebody else moved a switch or a case since the slot's check
    drift       \* something happened after which nobody compares the breaker
                \* with the model: see the actions

vars == <<closed, outages, act, op, field, sent, faults, disturbed, drift>>

\* A position an edge is to be put into.
Step(e, close) == [edge |-> e, close |-> close]
Steps == [edge : Edges, close : BOOLEAN]

NoAction == [status |-> "ABSENT", order |-> None, before |-> {}]

Free == [pc |-> "idle", act |-> None, undo |-> FALSE, todo |-> << >>,
         done |-> << >>, found |-> {}]

TypeOK ==
    /\ closed \subseteq Edges /\ outages \subseteq Faulty
    /\ act \in [Actions -> [status : {"ABSENT", "READY", "EXECUTED", "FAILED",
                                      "ROLLED_BACK"},
                            order : Orders \cup {None}, before : SUBSET Steps]]
    /\ op \in [Procs -> [pc : {"idle", "resolve", "write", "send", "echo",
                               "timeout", "revert", "event", "end", "failed"},
                         act : Actions \cup {None}, undo : BOOLEAN,
                         todo : Seq(Steps), done : Seq(Edges),
                         found : SUBSET Edges]]
    /\ field \in BOOLEAN /\ sent \in Seq(BOOLEAN) /\ Len(sent) <= MaxSent
    /\ faults \in 0..MaxFaults
    /\ disturbed \in [Procs -> BOOLEAN] /\ drift \in BOOLEAN

\* The seeded network: everything closed but the ties.
Init ==
    /\ closed = Edges \ ToSet(Ties)
    /\ outages = {}
    /\ act = [a \in Actions |-> NoAction]
    /\ op = [p \in Procs |-> Free]
    /\ field = (Breaker \in closed) /\ sent = << >>
    /\ faults = 0
    /\ disturbed = [p \in Procs |-> FALSE] /\ drift = FALSE

Fault == faults < MaxFaults /\ faults' = faults + 1

Order(p) == act[op[p].act].order
Busy(p) == op[p].pc # "idle"

\* Somebody other than p (None: nobody's request) moved a switch or a case.
Disturb(p) == disturbed' = [q \in Procs |-> disturbed[q] \/ (q # p /\ Busy(q))]

Goto(p, pc) == op' = [op EXCEPT ![p].pc = pc]

-----------------------------------------------------------------------------
(* submit_action calls plan, and keeps its before_state.                   *)

\* SwitchOpHandler.plan does not raise.
Passes(order) ==
    /\ (order.target \in closed) # order.close
    /\ order.override \/ ~Blocks(closed, order.target, order.close, outages)

\* before_switch_state, respectively is_closed.
Before(order, iso) ==
    IF order.kind = "switch" THEN {Step(order.target, ~order.close)}
    ELSE {Step(iso, TRUE)} \cup
         {Step(t, FALSE) : t \in ToSet(Restoring(closed, order.target, iso))}

Submit(a, order) ==
    /\ act[a].status = "ABSENT"
    /\ \E iso \in IF order.kind = "switch" THEN {None}
                  ELSE Isolating(closed, order.target) :
         /\ order.kind = "switch" => Passes(order)
         /\ act' = [act EXCEPT ![a] = [status |-> "READY", order |-> order,
                                       before |-> Before(order, iso)]]
    /\ UNCHANGED <<closed, outages, op, field, sent, faults, disturbed, drift>>

-----------------------------------------------------------------------------
(* execute and rollback of both handlers.                                  *)

\* A request starts on a, with the steps it will take.
Begin(p, a, pc, undo, todo) ==
    /\ op' = [op EXCEPT ![p] = [pc |-> pc, act |-> a, undo |-> undo,
                                todo |-> todo, done |-> << >>, found |-> closed]]
    /\ disturbed' = [disturbed EXCEPT ![p] = FALSE]
    /\ UNCHANGED <<closed, outages, act, field, sent, faults, drift>>

\* A slip: the plan is not checked again.
ExecuteUnchecked(p, a) ==
    LET order == act[a].order IN
    /\ ~Busy(p) /\ act[a].status = "READY" /\ order.kind = "switch"
    /\ Begin(p, a, "resolve", FALSE, <<Step(order.target, order.close)>>)

\* execute of a switch operation: "Re-check at execute time (TOCTOU)".
ExecuteSwitch(p, a) ==
    LET order == act[a].order IN
    /\ ~Busy(p) /\ act[a].status = "READY" /\ order.kind = "switch"
    /\ Passes(order)
    /\ Begin(p, a, "resolve", FALSE, <<Step(order.target, order.close)>>)

\* Its second _resolve: the edge it will revert to.
Resolve(p) ==
    /\ op[p].pc = "resolve"
    /\ op' = [op EXCEPT ![p].pc = "write", ![p].found = closed]
    /\ UNCHANGED <<closed, outages, act, field, sent, faults, disturbed, drift>>

\* execute of a FLISR: planned again, then the switches one by one.
ExecuteFlisr(p, a) ==
    LET order == act[a].order IN
    /\ ~Busy(p) /\ act[a].status = "READY" /\ order.kind = "flisr"
    /\ \E iso \in Isolating(closed, order.target) :
          LET ties == Restoring(closed, order.target, iso) IN
          Begin(p, a, "write", FALSE,
                <<Step(iso, FALSE)>> \o [i \in DOMAIN ties |-> Step(ties[i], TRUE)])

\* rollback of either: the positions of before_state, whatever they are by now.
Rollback(p, a) ==
    /\ ~Busy(p) /\ act[a].status = "EXECUTED"
    /\ Begin(p, a, "write", TRUE, SetToSeq(act[a].before))

\* What follows the last write of execute or rollback.
AfterWrites(p) ==
    IF Order(p).kind = "flisr" THEN (IF op[p].undo THEN "end" ELSE "event")
    ELSE IF Order(p).target = Breaker THEN "send" ELSE "end"

\* UPDATE grid_edges SET is_closed.  Only switch_op tells the device.
Write(p) ==
    LET s == Head(op[p].todo) IN
    /\ op[p].pc = "write"
    /\ closed' = Set(closed, s.edge, s.close)
    /\ op' = [op EXCEPT ![p].todo = Tail(@),
                        ![p].done = Append(@, s.edge),
                        ![p].pc = IF Len(op[p].todo) = 1 THEN AfterWrites(p) ELSE @]
    /\ Disturb(p)
    /\ drift' = (drift \/ (s.edge = Breaker /\
                  (Order(p).kind = "flisr" \/ \E q \in Procs \ {p} : Busy(q))))
    /\ UNCHANGED <<outages, act, field, sent, faults>>

\* A slip: what was moved stays.
NoAbort(p) == << >>

\* The writes that revert the switches moved, in the order they were moved, for
\* those that before_state knows.
Abort(p) ==
    LET known(e) == {s \in act[op[p].act].before : s.edge = e}
        back[n \in 0 .. Len(op[p].done)] ==
            IF n = 0 THEN << >>
            ELSE back[n - 1] \o (IF known(op[p].done[n]) = {} THEN << >>
                                 ELSE <<CHOOSE s \in known(op[p].done[n]) : TRUE>>)
    IN  back[Len(op[p].done)]

\* An UPDATE raises.  A FLISR reverts what it moved; a rollback stops there.
WriteFails(p) ==
    /\ op[p].pc = "write"
    /\ Fault
    /\ op' = [op EXCEPT ![p] =
                IF op[p].undo THEN Free
                ELSE IF Order(p).kind = "flisr" /\ Abort(p) # << >>
                     THEN [@ EXCEPT !.pc = "revert", !.todo = Abort(p)]
                     ELSE [@ EXCEPT !.pc = "failed"]]
    /\ UNCHANGED <<closed, outages, act, field, sent, disturbed, drift>>

Revert(p) ==
    LET s == Head(op[p].todo) IN
    /\ op[p].pc = "revert"
    /\ closed' = Set(closed, s.edge, s.close)
    /\ op' = [op EXCEPT ![p].todo = Tail(@),
                        ![p].pc = IF Len(op[p].todo) = 1 THEN "failed" ELSE @]
    /\ Disturb(p)
    /\ drift' = (drift \/ s.edge = Breaker)
    /\ UNCHANGED <<outages, act, field, sent, faults>>

\* INSERT INTO flisr_events, outside the try.
FlisrEvent(p) ==
    /\ op[p].pc = "event"
    /\ \/ Goto(p, "end") /\ UNCHANGED faults
       \/ Goto(p, "failed") /\ Fault
    /\ UNCHANGED <<closed, outages, act, field, sent, disturbed, drift>>

\* The position the device is told to take.
Told(p) == IF op[p].undo THEN ~Order(p).close ELSE Order(p).close

\* The command is dispatched; CommandPath is how it travels.
Send(p) ==
    /\ op[p].pc = "send"
    /\ Len(sent) < MaxSent
    /\ sent' = Append(sent, Told(p))
    /\ Goto(p, "echo")
    /\ UNCHANGED <<closed, outages, act, field, faults, disturbed, drift>>

\* _dispatch_command raises HTTPException, which Controls passes on: the row and
\* the model stay as they are.
SendFails(p) ==
    /\ op[p].pc = "send"
    /\ Fault
    /\ op' = [op EXCEPT ![p] = Free]
    /\ drift' = TRUE
    /\ UNCHANGED <<closed, outages, act, field, sent, disturbed>>

\* verify_echo.  The device confirms, or it reports nothing that could, or the
\* echo is not enabled; a rollback goes on in any case.
EchoGoes(p) ==
    /\ op[p].pc = "echo"
    /\ Goto(p, "end")
    /\ drift' = (drift \/ (field # Told(p) /\ sent = << >>))
    /\ UNCHANGED <<closed, outages, act, field, sent, faults, disturbed>>

\* It reports the other position, and no other reading comes in time.
EchoMismatch(p) ==
    /\ op[p].pc = "echo" /\ ~op[p].undo
    /\ field # Order(p).close
    /\ Goto(p, "timeout")
    /\ UNCHANGED <<closed, outages, act, field, sent, faults, disturbed, drift>>

\* A slip: the model is not reverted.
EchoOnlyFails(p) ==
    /\ op[p].pc = "timeout"
    /\ Goto(p, "failed")
    /\ drift' = (drift \/ field = Order(p).close \/ sent # << >>)
    /\ UNCHANGED <<closed, outages, act, field, sent, faults, disturbed>>

\* "revert the model so it matches the (unmoved) field, and FAIL the action".
EchoFails(p) ==
    LET e == Order(p).target IN
    /\ op[p].pc = "timeout"
    /\ closed' = Set(closed, e, e \in op[p].found)
    /\ Goto(p, "failed")
    /\ Disturb(p)
    /\ drift' = (drift \/ field = Order(p).close \/ sent # << >>)
    /\ UNCHANGED <<outages, act, field, sent, faults>>

\* Controls records the outcome.
Finish(p) ==
    /\ op[p].pc \in {"end", "failed"}
    /\ act' = [act EXCEPT ![op[p].act].status =
                  IF op[p].pc = "failed" THEN "FAILED"
                  ELSE IF op[p].undo THEN "ROLLED_BACK" ELSE "EXECUTED"]
    /\ op' = [op EXCEPT ![p] = Free]
    /\ UNCHANGED <<closed, outages, field, sent, faults, disturbed, drift>>

-----------------------------------------------------------------------------
(* The rest of the world.                                                  *)

\* set_switch: no check, no action, no command.
SetSwitch(e) ==
    /\ e \in MaySet
    /\ closed' = Set(closed, e, e \notin closed)
    /\ Disturb(None)
    /\ drift' = (drift \/ e = Breaker)
    /\ UNCHANGED <<outages, act, op, field, sent, faults>>

\* A case for n is opened, or restored or closed.
OutageChanges(n) ==
    /\ n \in Faulty
    /\ outages' = IF n \in outages THEN outages \ {n} ELSE outages \cup {n}
    /\ Disturb(None)
    /\ UNCHANGED <<closed, act, op, field, sent, faults, drift>>

DeviceMoves ==
    /\ sent # << >>
    /\ field' = Head(sent) /\ sent' = Tail(sent)
    /\ UNCHANGED <<closed, outages, act, op, faults, disturbed, drift>>

CommandLost ==
    /\ sent # << >> /\ Fault
    /\ sent' = Tail(sent)
    /\ drift' = (drift \/ \A p \in Procs : op[p].pc \notin {"echo", "timeout"} \/ op[p].undo)
    /\ UNCHANGED <<closed, outages, act, op, field, disturbed>>

-----------------------------------------------------------------------------
Next ==
    \/ \E a \in Actions, order \in Wanted : Submit(a, order)
    \/ \E p \in Procs :
         \/ \E a \in Actions : ExecuteSwitch(p, a) \/ ExecuteFlisr(p, a) \/ Rollback(p, a)
         \/ Resolve(p) \/ Write(p) \/ WriteFails(p) \/ Revert(p) \/ FlisrEvent(p)
         \/ Send(p) \/ SendFails(p) \/ EchoGoes(p) \/ EchoMismatch(p) \/ EchoFails(p)
         \/ Finish(p)
    \/ \E e \in Edges : SetSwitch(e)
    \/ \E n \in Nodes : OutageChanges(n)
    \/ DeviceMoves \/ CommandLost

Spec == Init /\ [][Next]_vars

-----------------------------------------------------------------------------
(* Properties.                                                             *)

\* The request of p moves a switch.
Moves(p) == closed' # closed /\ op'[p] # op[p]
Executing(p, kind) ==
    op[p].pc = "write" /\ ~op[p].undo /\ Order(p).kind = kind /\ ~disturbed[p]

Lost == Energized[closed] \ Energized[closed']
Gained == Energized[closed'] \ Energized[closed]

\* The interlocks hold when the switch moves, not only when the action was
\* submitted (oc_switch.py:10): however many other actions ran in between, an
\* execution that nobody disturbs and nobody overrode islands no critical
\* customer, feeds no node that has an outage, and closes no switch between two
\* nodes that are energized.
InterlocksHold ==
    [][\A p \in Procs :
          (Moves(p) /\ Executing(p, "switch") /\ ~Order(p).override) =>
              IF Order(p).close
              THEN /\ Gained \cap outages = {}
                   /\ ~({From[Order(p).target], To[Order(p).target]}
                            \subseteq Energized[closed])
              ELSE Lost \cap Critical = {}]_vars

\* "it refuses to re-energize the faulted node" (oc_flisr.py:11): no switch that
\* an undisturbed FLISR moves brings the fault back.
FaultStaysOut ==
    [][\A p \in Procs :
          (Moves(p) /\ Executing(p, "flisr")) => Order(p).target \notin Gained]_vars

\* before_state is right about the switches that the request has moved.
Foreseen(p) ==
    \A e \in ToSet(op[p].done) : Step(e, e \in op[p].found) \in act[op[p].act].before

\* "any failure mid-sequence reverts every switch already moved" (oc_flisr.py:7):
\* it does, provided the plan is still the one that was submitted.
AbortRestores ==
    [][\A p \in Procs :
          (/\ op[p].pc \in {"write", "revert"} /\ op'[p].pc = "failed"
           /\ ~disturbed[p] /\ Foreseen(p)) => closed' = op[p].found]_vars

\* "confirm the breaker actually moved ... revert the model so it matches the
\* (unmoved) field" (oc_switch.py:155): when nothing is going on, the model tells
\* where the breaker is, a lost command included that the echo check saw.
FieldFollowsModel ==
    (~drift /\ sent = << >> /\ \A p \in Procs : ~Busy(p)) =>
        field = (Breaker \in closed)

\* The model tells where the breaker is (oc_switch.py:155), and every state has its
\* types: a request about to write has a switch to write.
ModelAndField == TypeOK /\ FieldFollowsModel

\* "source paralleling -- closing would tie two already-energized sources"
\* (oc_switch.py:17): a switch operation that is not overridden never makes two
\* live feeds of one.
Feeds(positions, n) ==
    {e \in positions : To[e] = n /\ From[e] \in Energized[positions]}
NeverParallels ==
    [][\A p \in Procs :
          (Moves(p) /\ Executing(p, "switch") /\ ~Order(p).override) =>
              \A n \in Nodes : Cardinality(Feeds(closed', n)) > 1 =>
                               Cardinality(Feeds(closed, n)) > 1]_vars
=============================================================================
