-------------------------- MODULE SwitchOps_proofs --------------------------
(* Proofs about governed switching: what an interlock refused is not done,   *)
(* however many actions and people work on the network at the same time; the *)
(* model tells where the breaker is; a FLISR does not bring its fault back,  *)
(* and one that fails leaves the switches where it found them.  The searches *)
(* of the network are recursive functions and the plan of a FLISR is a fold: *)
(* what they compute is proved here by induction on the naturals, which is   *)
(* stated over sets because the one of the library is about predicates.      *)
EXTENDS SwitchOps, FiniteSetTheorems, WellFoundedInduction, TLAPS

-----------------------------------------------------------------------------
(* A record with these fields, whatever they hold.                           *)
IsSlot(v) == v \in [pc : {v.pc}, act : {v.act}, undo : {v.undo}, todo : {v.todo}, done : {v.done}, found : {v.found}]
IsAction(v) == v \in [status : {v.status}, order : {v.order}, before : {v.before}]

(* The shape of the state, and that a request works on a submitted action.   *)
Shape ==
    /\ op = [p \in Procs |-> op[p]] /\ \A p \in Procs : IsSlot(op[p])
    /\ act = [a \in Actions |-> act[a]] /\ \A a \in Actions : IsAction(act[a])
    /\ disturbed \in [Procs -> BOOLEAN]
    /\ \A p \in Procs : Busy(p) => op[p].act \in Actions /\ act[op[p].act].status # "ABSENT"

(* The request of p is about to move the switch of its order.                *)
Poised(p) == op[p].pc \in {"resolve", "write"} /\ ~op[p].undo /\ Order(p).kind = "switch"

(* It moves that switch and no other, and as long as nobody has moved a      *)
(* switch or a case since, the interlocks that it passed still let it pass.  *)
InterlockInv ==
    /\ Shape
    /\ \A p \in Procs : Poised(p) =>
          /\ op[p].todo = <<Step(Order(p).target, Order(p).close)>>
          /\ ~disturbed[p] => Passes(Order(p))

(* A step of p alone leaves the slots of the others as they were.            *)
LEMMA OthersStay ==
    ASSUME Shape, NEW p \in Procs, NEW v, op' = [op EXCEPT ![p] = v]
    PROVE  op'[p] = v /\ \A q \in Procs : q # p => op'[q] = op[q]
BY DEF Shape

LEMMA ShapeInit == Init => InterlockInv
<1>1. SUFFICES ASSUME Init PROVE InterlockInv
  OBVIOUS
<1>2. \A p \in Procs : op[p] = Free
  BY <1>1 DEF Init
<1>3. \A a \in Actions : act[a] = NoAction
  BY <1>1 DEF Init
<1>4. IsSlot(Free) /\ IsAction(NoAction)
  BY DEF IsSlot, IsAction, Free, NoAction
<1>5. Shape
  BY <1>1, <1>2, <1>3, <1>4 DEF Init, Shape, Busy, Free
<1> QED  BY <1>2, <1>5 DEF InterlockInv, Poised, Free

(* What a slot is about to do stays right if nobody else touches the slot    *)
(* and its order, and it is told when the network changes.                   *)
LEMMA SlotStays ==
    ASSUME InterlockInv, NEW q \in Procs, op'[q] = op[q], Poised(q)',
           act'[op[q].act].order = act[op[q].act].order,
           \/ disturbed'[q]
           \/ closed' = closed /\ outages' = outages /\ disturbed'[q] = disturbed[q]
    PROVE  /\ op'[q].todo = <<Step(Order(q)'.target, Order(q)'.close)>>
           /\ ~disturbed'[q] => Passes(Order(q))'
<1>1. Order(q)' = Order(q)
  BY DEF Order
<1>2. Poised(q)
  BY <1>1 DEF Poised
<1>3. op[q].todo = <<Step(Order(q).target, Order(q).close)>> /\ (~disturbed[q] => Passes(Order(q)))
  BY <1>2 DEF InterlockInv
<1>4. ASSUME ~disturbed'[q] PROVE Passes(Order(q))'
  <2>1. closed' = closed /\ outages' = outages /\ Passes(Order(q))
    BY <1>3, <1>4
  <2> QED  BY <1>1, <2>1 DEF Passes, Blocks
<1> QED  BY <1>1, <1>3, <1>4

(* A slot moves on, with the actions, the network and who was told of it as  *)
(* they were.                                                                *)
LEMMA SlotMovesOn ==
    ASSUME InterlockInv, NEW p \in Procs, NEW v, IsSlot(v), op' = [op EXCEPT ![p] = v],
           v.act = op[p].act \/ v.pc = "idle", Busy(p),
           Poised(p)' => Poised(p) /\ v.todo = op[p].todo,
           UNCHANGED <<closed, outages, act, disturbed>>
    PROVE  InterlockInv'
<1>1. op'[p] = v /\ \A q \in Procs : q # p => op'[q] = op[q]
  BY OthersStay DEF InterlockInv
<1>2. Shape'
  BY <1>1 DEF InterlockInv, Shape, Busy
<1>3. ASSUME NEW q \in Procs, Poised(q)'
      PROVE  /\ op'[q].todo = <<Step(Order(q)'.target, Order(q)'.close)>>
             /\ ~disturbed'[q] => Passes(Order(q))'
  <2>1. CASE q = p
    <3>1. Poised(p) /\ op'[p].todo = op[p].todo /\ op'[p].act = op[p].act
      BY <1>1, <1>3, <2>1 DEF Poised
    <3>2. Order(p)' = Order(p)
      BY <3>1 DEF Order
    <3>3. /\ op[p].todo = <<Step(Order(p).target, Order(p).close)>>
          /\ ~disturbed[p] => Passes(Order(p))
      BY <3>1 DEF InterlockInv
    <3>4. Passes(Order(p)) => Passes(Order(p))'
      BY <3>2 DEF Passes, Blocks
    <3> QED  BY <2>1, <3>1, <3>2, <3>3, <3>4
  <2>2. CASE q # p
    <3>1. op'[q] = op[q] /\ act'[op[q].act].order = act[op[q].act].order /\ disturbed'[q] = disturbed[q]
      BY <1>1, <2>2
    <3> QED  BY <1>3, <3>1, SlotStays
  <2> QED  BY <2>1, <2>2
<1> QED  BY <1>2, <1>3 DEF InterlockInv

(* A switch or a case changes: every request at work is told, but the one    *)
(* that did it, which is past its own check.                                 *)
LEMMA NetworkChanges ==
    ASSUME InterlockInv, NEW p, Disturb(p), act' = act,
           op' = [q \in Procs |-> op'[q]], \A q \in Procs : IsSlot(op'[q]),
           \A q \in Procs : q # p => op'[q] = op[q],
           \A q \in Procs : q = p => Busy(q) /\ ~Poised(q)' /\ op'[q].act = op[q].act
    PROVE  InterlockInv'
<1>1. /\ disturbed' \in [Procs -> BOOLEAN]
      /\ \A q \in Procs : q # p /\ Busy(q) => disturbed'[q]
  BY DEF Disturb
<1>2. \A q \in Procs : Busy(q)' => Busy(q) /\ op'[q].act = op[q].act
  BY DEF Busy
<1>3. Shape'
  BY <1>1, <1>2 DEF InterlockInv, Shape, Busy
<1>4. ASSUME NEW q \in Procs, Poised(q)'
      PROVE  /\ op'[q].todo = <<Step(Order(q)'.target, Order(q)'.close)>>
             /\ ~disturbed'[q] => Passes(Order(q))'
  <2>1. q # p /\ op'[q] = op[q] /\ Busy(q)
    BY <1>4 DEF Poised, Busy
  <2>2. disturbed'[q]
    BY <1>1, <2>1
  <2> QED  BY <1>4, <2>1, <2>2, SlotStays
<1> QED  BY <1>3, <1>4 DEF InterlockInv

(* A request starts: it works on an action that was submitted, and if it is  *)
(* to move a switch, the interlocks let it pass just now.                    *)
LEMMA RequestBegins ==
    ASSUME InterlockInv, NEW p \in Procs, NEW a \in Actions, NEW pc, NEW undo, NEW todo,
           act[a].status # "ABSENT", Begin(p, a, pc, undo, todo),
           pc \in {"resolve", "write"} /\ ~undo /\ act[a].order.kind = "switch" =>
               todo = <<Step(act[a].order.target, act[a].order.close)>> /\ Passes(act[a].order)
    PROVE  InterlockInv'
<1> DEFINE v == [pc |-> pc, act |-> a, undo |-> undo, todo |-> todo, done |-> << >>, found |-> closed]
<1>1. /\ op' = [op EXCEPT ![p] = v] /\ disturbed' = [disturbed EXCEPT ![p] = FALSE]
      /\ UNCHANGED <<closed, outages, act>>
  BY DEF Begin
<1>2. IsSlot(v) /\ v.pc = pc /\ v.act = a /\ v.undo = undo /\ v.todo = todo
  BY DEF IsSlot
<1> HIDE DEF v
<1>3. op'[p] = v /\ \A q \in Procs : q # p => op'[q] = op[q]
  BY <1>1, OthersStay DEF InterlockInv
<1>4. disturbed' \in [Procs -> BOOLEAN] /\ \A q \in Procs : q # p => disturbed'[q] = disturbed[q]
  BY <1>1 DEF InterlockInv, Shape
<1>5. Shape'
  BY <1>1, <1>2, <1>3, <1>4 DEF InterlockInv, Shape, Busy
<1>6. ASSUME NEW q \in Procs, Poised(q)'
      PROVE  /\ op'[q].todo = <<Step(Order(q)'.target, Order(q)'.close)>>
             /\ ~disturbed'[q] => Passes(Order(q))'
  <2>1. CASE q = p
    <3>1. Order(p)' = act[a].order
      BY <1>1, <1>2, <1>3 DEF Order
    <3>2. pc \in {"resolve", "write"} /\ ~undo /\ act[a].order.kind = "switch"
      BY <1>2, <1>3, <1>6, <2>1, <3>1 DEF Poised
    <3>3. Passes(Order(p))'
      BY <1>1, <3>1, <3>2 DEF Passes, Blocks
    <3> QED  BY <1>2, <1>3, <2>1, <3>1, <3>2, <3>3
  <2>2. CASE q # p
    BY <1>1, <1>3, <1>4, <1>6, <2>2, SlotStays
  <2> QED  BY <2>1, <2>2
<1> QED  BY <1>5, <1>6 DEF InterlockInv

(* Every action keeps the invariant.                                         *)
LEMMA InterlockStep ==
    ASSUME SwitchAssumption, InterlockInv, [Next]_vars
    PROVE  InterlockInv'
<1>0. /\ Shape
      /\ op = [p \in Procs |-> op[p]] /\ \A p \in Procs : IsSlot(op[p])
      /\ act = [a \in Actions |-> act[a]] /\ \A a \in Actions : IsAction(act[a])
  BY DEF InterlockInv, Shape
<1>1. ASSUME NEW a \in Actions, NEW order \in Wanted, Submit(a, order) PROVE InterlockInv'
  <2>1. PICK before : /\ act[a].status = "ABSENT"
                      /\ act' = [act EXCEPT ![a] = [status |-> "READY", order |-> order, before |-> before]]
                      /\ UNCHANGED <<closed, outages, op, disturbed>>
    BY <1>1 DEF Submit
  <2>2. /\ act'[a].status = "READY" /\ IsAction(act'[a])
        /\ \A b \in Actions : b # a => act'[b] = act[b]
    BY <1>0, <2>1 DEF IsAction
  <2>3. \A p \in Procs : Busy(p) => act'[op[p].act] = act[op[p].act]
    BY <1>0, <2>1, <2>2 DEF Shape
  <2>4. Shape'
    BY <1>0, <2>1, <2>2 DEF Shape, Busy
  <2>5. \A q \in Procs : Poised(q)' =>
            /\ op'[q].todo = <<Step(Order(q)'.target, Order(q)'.close)>>
            /\ ~disturbed'[q] => Passes(Order(q))'
    BY <2>1, <2>3, SlotStays DEF Poised, Busy
  <2> QED  BY <2>4, <2>5 DEF InterlockInv
<1>2. ASSUME NEW p \in Procs, NEW a \in Actions, ExecuteSwitch(p, a) \/ ExecuteFlisr(p, a) \/ Rollback(p, a)
      PROVE  InterlockInv'
  <2>1. CASE ExecuteSwitch(p, a)
    BY <2>1, RequestBegins DEF ExecuteSwitch
  <2>2. CASE ExecuteFlisr(p, a)
    <3>1. PICK todo : Begin(p, a, "write", FALSE, todo)
      BY <2>2 DEF ExecuteFlisr
    <3> QED  BY <2>2, <3>1, RequestBegins DEF ExecuteFlisr
  <2>3. CASE Rollback(p, a)
    <3>1. PICK todo : Begin(p, a, "write", TRUE, todo)
      BY <2>3 DEF Rollback
    <3> QED  BY <2>3, <3>1, RequestBegins DEF Rollback
  <2> QED  BY <1>2, <2>1, <2>2, <2>3
<1>3. ASSUME NEW p \in Procs,
             Resolve(p) \/ FlisrEvent(p) \/ Send(p) \/ SendFails(p) \/ EchoGoes(p) \/ EchoMismatch(p) \/ WriteFails(p)
      PROVE  InterlockInv'
  <2>1. PICK v : /\ op' = [op EXCEPT ![p] = v] /\ IsSlot(v)
                 /\ v.pc = "idle" \/ (v.act = op[p].act /\ v.undo = op[p].undo)
                 /\ \/ v.pc \notin {"resolve", "write"}
                    \/ v.pc = "write" /\ op[p].pc = "resolve" /\ v.todo = op[p].todo
    <3>1. /\ IsSlot(Free) /\ Free.pc = "idle"
          /\ \A x : /\ IsSlot([op[p] EXCEPT !.pc = x]) /\ [op[p] EXCEPT !.pc = x].pc = x
                     /\ [op[p] EXCEPT !.pc = x].act = op[p].act /\ [op[p] EXCEPT !.pc = x].undo = op[p].undo
      BY <1>0 DEF IsSlot, Free
    <3>2. CASE Resolve(p)
      <4> DEFINE v == [op[p] EXCEPT !.pc = "write", !.found = closed]
      <4>1. op' = [op EXCEPT ![p] = v] /\ op[p].pc = "resolve"
        BY <1>0, <3>2 DEF Resolve
      <4>2. v \in [pc : {"write"}, act : {op[p].act}, undo : {op[p].undo}, todo : {op[p].todo},
                   done : {op[p].done}, found : {closed}]
        BY <1>0 DEF IsSlot
      <4>3. IsSlot(v) /\ v.pc = "write" /\ v.act = op[p].act /\ v.undo = op[p].undo /\ v.todo = op[p].todo
        BY <4>2 DEF IsSlot
      <4> HIDE DEF v
      <4> QED  BY <4>1, <4>3
    <3>3. CASE FlisrEvent(p) \/ Send(p) \/ SendFails(p) \/ EchoGoes(p) \/ EchoMismatch(p)
      <4>1. \/ op' = [op EXCEPT ![p] = Free]
            \/ \E x \in {"end", "failed", "echo", "timeout"} : op' = [op EXCEPT ![p].pc = x]
        BY <3>3 DEF FlisrEvent, Send, SendFails, EchoGoes, EchoMismatch, Goto
      <4>2. CASE op' = [op EXCEPT ![p] = Free]
        BY <3>1, <4>2
      <4>3. CASE \E x \in {"end", "failed", "echo", "timeout"} : op' = [op EXCEPT ![p].pc = x]
        <5>1. PICK x \in {"end", "failed", "echo", "timeout"} : op' = [op EXCEPT ![p].pc = x]
          BY <4>3
        <5>2. PICK v : v = [op[p] EXCEPT !.pc = x]
          OBVIOUS
        <5>3. IsSlot(v) /\ v.pc = x /\ v.act = op[p].act /\ v.undo = op[p].undo
          BY <3>1, <5>2
        <5>4. op' = [op EXCEPT ![p] = v]
          BY <1>0, <5>1, <5>2
        <5> QED  BY <5>3, <5>4
      <4> QED  BY <4>1, <4>2, <4>3
    <3>4. CASE WriteFails(p)
      <4> DEFINE back == [op[p] EXCEPT !.pc = "revert", !.todo = Abort(p)]
      <4>1. op' = [op EXCEPT ![p] = IF op[p].undo THEN Free
                ELSE IF Order(p).kind = "flisr" /\ Abort(p) # << >> THEN back
                ELSE [op[p] EXCEPT !.pc = "failed"]]
        BY <1>0, <3>4 DEF WriteFails
      <4>2. back \in [pc : {"revert"}, act : {op[p].act}, undo : {op[p].undo}, todo : {Abort(p)},
                      done : {op[p].done}, found : {op[p].found}]
        BY <1>0 DEF IsSlot
      <4>3. IsSlot(back) /\ back.pc = "revert" /\ back.act = op[p].act /\ back.undo = op[p].undo
        BY <4>2 DEF IsSlot
      <4>4. PICK v : v = [op[p] EXCEPT !.pc = "failed"]
        OBVIOUS
      <4>5. IsSlot(v) /\ v.pc = "failed" /\ v.act = op[p].act /\ v.undo = op[p].undo
        BY <3>1, <4>4
      <4> HIDE DEF back
      <4>6. op' = [op EXCEPT ![p] = Free] \/ op' = [op EXCEPT ![p] = back] \/ op' = [op EXCEPT ![p] = v]
        BY <4>1, <4>4
      <4> QED  BY <3>1, <4>3, <4>5, <4>6
    <3> QED  BY <1>3, <3>2, <3>3, <3>4
  <2>2. Busy(p) /\ UNCHANGED <<closed, outages, act, disturbed>>
    BY <1>3 DEF Busy, Resolve, FlisrEvent, Send, SendFails, EchoGoes, EchoMismatch, WriteFails
  <2>3. op'[p] = v
    BY <1>0, <2>1, OthersStay
  <2>4. Poised(p)' => Poised(p) /\ v.todo = op[p].todo
    BY <2>1, <2>2, <2>3 DEF Poised, Order
  <2> QED  BY <2>1, <2>2, <2>4, SlotMovesOn
<1>4. ASSUME NEW p \in Procs, Write(p) \/ Revert(p) \/ EchoFails(p) PROVE InterlockInv'
  <2>1. PICK v : /\ op' = [op EXCEPT ![p] = v] /\ IsSlot(v)
                 /\ v.act = op[p].act /\ v.undo = op[p].undo
                 /\ v.pc \notin {"resolve", "write"} \/ (v.pc = "write" /\ op[p].pc = "write" /\ ~(Len(op[p].todo) = 1))
    <3>1. CASE Write(p)
      <4> DEFINE v == [op[p] EXCEPT !.todo = Tail(op[p].todo), !.done = Append(op[p].done, Head(op[p].todo).edge),
                                    !.pc = IF Len(op[p].todo) = 1 THEN AfterWrites(p) ELSE op[p].pc]
      <4>1. op' = [op EXCEPT ![p] = v] /\ op[p].pc = "write"
        BY <1>0, <3>1 DEF Write
      <4>a. v \in [pc : {IF Len(op[p].todo) = 1 THEN AfterWrites(p) ELSE op[p].pc}, act : {op[p].act},
                   undo : {op[p].undo}, todo : {Tail(op[p].todo)},
                   done : {Append(op[p].done, Head(op[p].todo).edge)}, found : {op[p].found}]
        BY <1>0 DEF IsSlot
      <4>2. /\ IsSlot(v) /\ v.act = op[p].act /\ v.undo = op[p].undo
            /\ v.pc = IF Len(op[p].todo) = 1 THEN AfterWrites(p) ELSE op[p].pc
        BY <4>a DEF IsSlot
      <4>3. AfterWrites(p) \in {"end", "event", "send"}
        BY DEF AfterWrites
      <4> HIDE DEF v
      <4> QED  BY <4>1, <4>2, <4>3
    <3>2. CASE Revert(p)
      <4> DEFINE v == [op[p] EXCEPT !.todo = Tail(op[p].todo),
                                    !.pc = IF Len(op[p].todo) = 1 THEN "failed" ELSE op[p].pc]
      <4>1. op' = [op EXCEPT ![p] = v] /\ op[p].pc = "revert"
        BY <1>0, <3>2 DEF Revert
      <4>a. v \in [pc : {IF Len(op[p].todo) = 1 THEN "failed" ELSE op[p].pc}, act : {op[p].act},
                   undo : {op[p].undo}, todo : {Tail(op[p].todo)}, done : {op[p].done}, found : {op[p].found}]
        BY <1>0 DEF IsSlot
      <4>2. /\ IsSlot(v) /\ v.act = op[p].act /\ v.undo = op[p].undo
            /\ v.pc = IF Len(op[p].todo) = 1 THEN "failed" ELSE op[p].pc
        BY <4>a DEF IsSlot
      <4> HIDE DEF v
      <4> QED  BY <4>1, <4>2
    <3>3. CASE EchoFails(p)
      <4> DEFINE v == [op[p] EXCEPT !.pc = "failed"]
      <4>1. op' = [op EXCEPT ![p] = v]
        BY <1>0, <3>3 DEF EchoFails, Goto
      <4>2. IsSlot(v) /\ v.act = op[p].act /\ v.undo = op[p].undo /\ v.pc = "failed"
        BY <1>0 DEF IsSlot
      <4> HIDE DEF v
      <4> QED  BY <4>1, <4>2
    <3> QED  BY <1>4, <3>1, <3>2, <3>3
  <2>2. Busy(p) /\ Disturb(p) /\ act' = act
    BY <1>4 DEF Busy, Write, Revert, EchoFails
  <2>3. op'[p] = v /\ \A q \in Procs : q # p => op'[q] = op[q]
    BY <2>1, <1>0, OthersStay
  <2>4. ~Poised(p)'
    <3>1. SUFFICES ASSUME Poised(p)' PROVE FALSE
      OBVIOUS
    <3>2. Poised(p) /\ ~(Len(op[p].todo) = 1)
      BY <2>1, <2>2, <2>3, <3>1 DEF Poised, Order
    <3>3. op[p].todo = <<Step(Order(p).target, Order(p).close)>>
      BY <3>2 DEF InterlockInv
    <3> QED  BY <3>2, <3>3
  <2>5. op' = [q \in Procs |-> op'[q]] /\ \A q \in Procs : IsSlot(op'[q])
    BY <1>0, <2>1, <2>3
  <2> QED  BY <2>1, <2>2, <2>3, <2>4, <2>5, NetworkChanges
<1>5. ASSUME NEW p \in Procs, Finish(p) PROVE InterlockInv'
  <2>1. PICK a, status : /\ a = op[p].act /\ status # "ABSENT"
                         /\ act' = [act EXCEPT ![a].status = status]
                         /\ op' = [op EXCEPT ![p] = Free] /\ op[p].pc \in {"end", "failed"}
                         /\ UNCHANGED <<closed, outages, disturbed>>
    BY <1>5 DEF Finish
  <2>2. a \in Actions
    BY <1>0, <2>1 DEF Shape, Busy
  <2>3. /\ act' = [b \in Actions |-> act'[b]] /\ act'[a].status = status
        /\ \A b \in Actions : IsAction(act'[b]) /\ act'[b].order = act[b].order
        /\ \A b \in Actions : b # a => act'[b] = act[b]
    <3>1. act'[a] = [act[a] EXCEPT !.status = status] /\ \A b \in Actions : b # a => act'[b] = act[b]
      BY <1>0, <2>1, <2>2
    <3>2. act'[a] = [status |-> status, order |-> act[a].order, before |-> act[a].before]
      BY <1>0, <2>2, <3>1 DEF IsAction
    <3>3. act' = [b \in Actions |-> act'[b]]
      BY <1>0, <2>1
    <3> QED  BY <1>0, <3>1, <3>2, <3>3 DEF IsAction
  <2>4. op'[p] = Free /\ \A q \in Procs : q # p => op'[q] = op[q]
    BY <1>0, <2>1, OthersStay
  <2>5. IsSlot(Free) /\ Free.pc = "idle"
    BY DEF IsSlot, Free
  <2>6. Shape'
    <3>1. op' = [q \in Procs |-> op'[q]] /\ \A q \in Procs : IsSlot(op'[q])
      BY <1>0, <2>1, <2>4, <2>5
    <3>2. \A q \in Procs : Busy(q)' => op'[q].act \in Actions /\ act'[op'[q].act].status # "ABSENT"
      BY <1>0, <2>1, <2>3, <2>4, <2>5 DEF Shape, Busy
    <3> QED  BY <1>0, <2>1, <2>3, <3>1, <3>2 DEF Shape
  <2>7. ASSUME NEW q \in Procs, Poised(q)'
        PROVE  /\ op'[q].todo = <<Step(Order(q)'.target, Order(q)'.close)>>
               /\ ~disturbed'[q] => Passes(Order(q))'
    <3>1. q # p /\ op'[q] = op[q] /\ Busy(q)
      BY <2>4, <2>5, <2>7 DEF Poised, Busy
    <3>2. act'[op[q].act].order = act[op[q].act].order
      BY <1>0, <2>3, <3>1 DEF Shape
    <3> QED  BY <2>1, <2>7, <3>1, <3>2, SlotStays
  <2> QED  BY <2>6, <2>7 DEF InterlockInv
<1>6. ASSUME (\E e \in Edges : SetSwitch(e)) \/ (\E n \in Nodes : OutageChanges(n)) PROVE InterlockInv'
  <2>1. Disturb(None) /\ UNCHANGED <<act, op>>
    BY <1>6 DEF SetSwitch, OutageChanges
  <2>2. None \notin Procs
    BY DEF SwitchAssumption
  <2> QED  BY <1>0, <2>1, <2>2, NetworkChanges
<1>7. ASSUME DeviceMoves \/ CommandLost \/ UNCHANGED vars PROVE InterlockInv'
  <2>1. UNCHANGED <<closed, outages, act, op, disturbed>>
    BY <1>7 DEF DeviceMoves, CommandLost, vars
  <2>2. Shape'
    BY <1>0, <2>1 DEF Shape, Busy
  <2>3. \A q \in Procs : Poised(q)' =>
            /\ op'[q].todo = <<Step(Order(q)'.target, Order(q)'.close)>>
            /\ ~disturbed'[q] => Passes(Order(q))'
    BY <2>1, SlotStays
  <2> QED  BY <2>2, <2>3 DEF InterlockInv
<1> QED
  BY <1>1, <1>2, <1>3, <1>4, <1>5, <1>6, <1>7 DEF Next

(* A request about to move a switch knows which one, and that the interlocks *)
(* still let it pass if nobody was at the network meanwhile.                 *)
THEOREM InterlockInvariance == Spec => []InterlockInv
<1>1. InterlockInv /\ [Next]_vars => InterlockInv'
  BY SwitchAssumption, InterlockStep
<1> QED  BY <1>1, ShapeInit, PTL DEF Spec

(* The interlocks hold when the switch moves: no execution of a switch       *)
(* operation that nobody disturbed or overrode islands a critical customer,  *)
(* feeds an outage or closes between two energized nodes, on any network.    *)
THEOREM InterlocksHoldAlways == Spec => InterlocksHold
<1> DEFINE Held == \A p \in Procs :
          (Moves(p) /\ Executing(p, "switch") /\ ~Order(p).override) =>
              IF Order(p).close
              THEN /\ Gained \cap outages = {}
                   /\ ~({From[Order(p).target], To[Order(p).target]} \subseteq Energized[closed])
              ELSE Lost \cap Critical = {}
<1>1. InterlockInv /\ [Next]_vars => [Held]_vars
  <2>1. SUFFICES ASSUME InterlockInv, Next, NEW p \in Procs, Moves(p), Executing(p, "switch"), ~Order(p).override
                 PROVE  IF Order(p).close
                        THEN /\ Gained \cap outages = {}
                             /\ ~({From[Order(p).target], To[Order(p).target]} \subseteq Energized[closed])
                        ELSE Lost \cap Critical = {}
    OBVIOUS
  <2>2. Poised(p) /\ ~disturbed[p] /\ op[p].pc = "write"
    BY <2>1 DEF Executing, Poised
  <2>3. op[p].todo = <<Step(Order(p).target, Order(p).close)>> /\ Passes(Order(p))
    BY <2>1, <2>2 DEF InterlockInv
  <2>4. Write(p)
    <3>1. closed' # closed /\ op'[p] # op[p]
      BY <2>1 DEF Moves
    <3>2. PICK q \in Procs : (Write(q) \/ Revert(q) \/ EchoFails(q)) /\ op'[p] # op[p]
      <4>1. \A q \in Procs, a \in Actions : ~(ExecuteSwitch(q, a) \/ ExecuteFlisr(q, a) \/ Rollback(q, a))
        BY <3>1 DEF ExecuteSwitch, ExecuteFlisr, Rollback, Begin
      <4>2. \A a \in Actions, order \in Wanted : ~Submit(a, order)
        BY <3>1 DEF Submit
      <4>3. \A q \in Procs : ~(Resolve(q) \/ WriteFails(q) \/ FlisrEvent(q) \/ Send(q) \/ SendFails(q)
                               \/ EchoGoes(q) \/ EchoMismatch(q) \/ Finish(q))
        BY <3>1 DEF Resolve, WriteFails, FlisrEvent, Send, SendFails, EchoGoes, EchoMismatch, Finish
      <4>4. (\A e \in Edges : ~SetSwitch(e)) /\ (\A n \in Nodes : ~OutageChanges(n)) /\ ~DeviceMoves /\ ~CommandLost
        BY <3>1 DEF SetSwitch, OutageChanges, DeviceMoves, CommandLost
      <4> QED  BY <2>1, <3>1, <4>1, <4>2, <4>3, <4>4 DEF Next
    <3>3. \E v : op' = [op EXCEPT ![q] = v]
      BY <3>2 DEF Write, Revert, EchoFails, Goto
    <3>4. q = p
      BY <2>1, <3>2, <3>3, OthersStay DEF InterlockInv
    <3> QED  BY <2>2, <3>2, <3>4 DEF Revert, EchoFails
  <2>5. closed' = Set(closed, Order(p).target, Order(p).close)
    BY <2>3, <2>4 DEF Write, Step
  <2>6. ~Blocks(closed, Order(p).target, Order(p).close, outages)
    BY <2>1, <2>3 DEF Passes
  <2>7. CASE Order(p).close
    BY <2>5, <2>6, <2>7 DEF Blocks, Gained
  <2>8. CASE ~Order(p).close
    BY <2>5, <2>6, <2>8 DEF Blocks, Lost
  <2> QED  BY <2>7, <2>8
<1> QED  BY <1>1, InterlockInvariance, PTL DEF Spec, InterlocksHold

-----------------------------------------------------------------------------
(* The model and the breaker in the field.                                   *)

OnBreaker(p) == Order(p).kind = "switch" /\ Order(p).target = Breaker

(* The request has moved the breaker in the model, and the device is still   *)
(* to be told or to answer.                                                  *)
Waits(p) == op[p].pc \in {"send", "echo", "timeout"}

\* Where the breaker will be when it has done all that it was told.
LastOrder == IF sent = << >> THEN field ELSE sent[Len(sent)]

\* The breaker is at this position, and all it was told is to be there.
Settled(close) == field = close /\ \A i \in DOMAIN sent : sent[i] = close

(* What a request does follows from the order it works on.                   *)
OrdersInv ==
    /\ field \in BOOLEAN /\ sent \in Seq(BOOLEAN) /\ drift \in BOOLEAN
    /\ \A a \in Actions : act[a].status # "ABSENT" =>
          /\ act[a].order \in Orders
          /\ act[a].order.kind = "switch" => act[a].before = {Step(act[a].order.target, ~act[a].order.close)}
    /\ \A p \in Procs :
          /\ op[p].undo \in BOOLEAN
          /\ Waits(p) => OnBreaker(p)
          /\ op[p].pc \in {"timeout", "resolve"} => ~op[p].undo /\ Order(p).kind = "switch"
          /\ op[p].pc = "write" /\ op[p].undo /\ Order(p).kind = "switch" =>
                op[p].todo = <<Step(Order(p).target, ~Order(p).close)>>

\* The request executes an order on the breaker.
Heeds(p) ==
    op[p].pc \in {"resolve", "write", "send", "echo", "timeout"} /\ ~op[p].undo /\ OnBreaker(p)

\* What the request would put back if the echo does not come is where the breaker
\* was, or the breaker already is where the request wants it.
Reverts(p) ==
    \/ (Breaker \in (IF op[p].pc = "resolve" THEN closed ELSE op[p].found)) = ~Order(p).close
    \/ Settled(Order(p).close) /\ \A q \in Procs : Waits(q) => q = p

(* As long as nothing happened after which nobody compares the two, at most  *)
(* one request waits for the device; when none does, the breaker is told     *)
(* last what the model says; when one does, the model says what it wants.    *)
FieldInv ==
    /\ \A p, q \in Procs : Waits(p) /\ Waits(q) => p = q
    /\ (\A p \in Procs : ~Waits(p)) => LastOrder = (Breaker \in closed)
    /\ \A p \in Procs : Waits(p) =>
          /\ (Breaker \in closed) = Told(p)
          /\ op[p].pc # "send" /\ sent # << >> => LastOrder = Told(p)
    /\ \A p \in Procs : Heeds(p) => Reverts(p)

EchoInv == InterlockInv /\ OrdersInv /\ (~drift => FieldInv)

LEMMA SingletonSeq == ASSUME NEW x PROVE SetToSeq({x}) = <<x>>
<1>1. Cardinality({x}) = 1
  BY FS_Singleton
<1>2. <<x>> \in [1 .. 1 -> {x}] /\ \A f \in [1 .. 1 -> {x}] : f = <<x>>
  OBVIOUS
<1>3. IsInjective(<<x>>)
  BY DEF IsInjective
<1> QED  BY <1>1, <1>2, <1>3 DEF SetToSeq

(* What a request looks like after a step of its own.                        *)
LEMMA PcMoves ==
    ASSUME Shape, NEW p \in Procs, NEW x, op' = [op EXCEPT ![p].pc = x]
    PROVE  /\ op'[p].pc = x /\ op'[p].act = op[p].act /\ op'[p].undo = op[p].undo
           /\ op'[p].todo = op[p].todo /\ op'[p].found = op[p].found
           /\ \A q \in Procs : q # p => op'[q] = op[q]
BY DEF Shape, IsSlot

LEMMA SlotFreed ==
    ASSUME Shape, NEW p \in Procs, op' = [op EXCEPT ![p] = Free]
    PROVE  op'[p].pc = "idle" /\ op'[p].undo = FALSE /\ \A q \in Procs : q # p => op'[q] = op[q]
BY DEF Shape, Free

(* Orders are not changed once they are submitted.                           *)
LEMMA OrdersStand ==
    ASSUME Shape, NEW p \in Procs, Busy(p), op'[p].act = op[p].act,
           \/ act' = act
           \/ \E a, v : act[a].status = "ABSENT" /\ act' = [act EXCEPT ![a] = v]
           \/ \E a, v : act' = [act EXCEPT ![a].status = v]
    PROVE  Order(p)' = Order(p)
<1>1. op[p].act \in Actions /\ act[op[p].act].status # "ABSENT" /\ IsAction(act[op[p].act])
  BY DEF Shape
<1>2. CASE act' = act
  BY <1>2 DEF Order
<1>3. CASE \E a, v : act[a].status = "ABSENT" /\ act' = [act EXCEPT ![a] = v]
  BY <1>1, <1>3 DEF Order, Shape
<1>4. CASE \E a, v : act' = [act EXCEPT ![a].status = v]
  BY <1>1, <1>4 DEF Order, Shape, IsAction
<1> QED  BY <1>2, <1>3, <1>4

(* What one request must look like for OrdersInv.                            *)
FitsOrder(p) ==
    /\ op[p].undo \in BOOLEAN
    /\ Waits(p) => OnBreaker(p)
    /\ op[p].pc \in {"timeout", "resolve"} => ~op[p].undo /\ Order(p).kind = "switch"
    /\ op[p].pc = "write" /\ op[p].undo /\ Order(p).kind = "switch" =>
          op[p].todo = <<Step(Order(p).target, ~Order(p).close)>>

LEMMA OrdersKeep ==
    ASSUME OrdersInv, act' = act, field' \in BOOLEAN, sent' \in Seq(BOOLEAN), drift' \in BOOLEAN,
           \A q \in Procs : op'[q] = op[q] \/ FitsOrder(q)'
    PROVE  OrdersInv'
<1>1. ASSUME NEW q \in Procs PROVE FitsOrder(q)'
  <2>1. FitsOrder(q)
    BY DEF OrdersInv, FitsOrder
  <2> QED  BY <2>1 DEF FitsOrder, Waits, OnBreaker, Order
<1> QED  BY <1>1 DEF OrdersInv, FitsOrder

LEMMA OrdersStep ==
    ASSUME SwitchAssumption, InterlockInv, OrdersInv, [Next]_vars
    PROVE  OrdersInv'
<1>0. /\ Shape /\ field \in BOOLEAN /\ sent \in Seq(BOOLEAN) /\ drift \in BOOLEAN
      /\ act = [a \in Actions |-> act[a]] /\ \A a \in Actions : IsAction(act[a])
      /\ \A p \in Procs : FitsOrder(p)
  BY DEF InterlockInv, Shape, OrdersInv, FitsOrder
<1>1. ASSUME NEW a \in Actions, NEW order \in Wanted, Submit(a, order) PROVE OrdersInv'
  <2>1. PICK iso : /\ act[a].status = "ABSENT"
                   /\ act' = [act EXCEPT ![a] = [status |-> "READY", order |-> order, before |-> Before(order, iso)]]
                   /\ UNCHANGED <<closed, outages, op, field, sent, drift, disturbed>>
    BY <1>1 DEF Submit
  <2>2. /\ act'[a].order = order /\ act'[a].before = Before(order, iso)
        /\ \A b \in Actions : b # a => act'[b] = act[b]
    BY <1>0, <2>1
  <2>3. order \in Orders /\ (order.kind = "switch" => Before(order, iso) = {Step(order.target, ~order.close)})
    BY DEF SwitchAssumption, Before
  <2>4. \A b \in Actions : act'[b].status # "ABSENT" =>
          /\ act'[b].order \in Orders
          /\ act'[b].order.kind = "switch" => act'[b].before = {Step(act'[b].order.target, ~act'[b].order.close)}
    BY <2>2, <2>3 DEF OrdersInv
  <2>5. ASSUME NEW q \in Procs PROVE FitsOrder(q)'
    <3>1. CASE Busy(q)
      <4>1. Order(q)' = Order(q)
        BY <1>0, <2>1, <3>1, OrdersStand
      <4> QED  BY <1>0, <2>1, <4>1 DEF FitsOrder, Waits, OnBreaker
    <3>2. CASE ~Busy(q)
      BY <1>0, <2>1, <3>2 DEF FitsOrder, Waits, Busy
    <3> QED  BY <3>1, <3>2
  <2> QED  BY <1>0, <2>1, <2>4, <2>5 DEF OrdersInv, FitsOrder
<1>2. ASSUME NEW p \in Procs, NEW a \in Actions, ExecuteSwitch(p, a) \/ ExecuteFlisr(p, a) \/ Rollback(p, a)
      PROVE  OrdersInv'
  <2>1. PICK pc, undo, todo :
          /\ Begin(p, a, pc, undo, todo) /\ undo \in BOOLEAN /\ pc \in {"resolve", "write"}
          /\ pc = "resolve" => ~undo /\ act[a].order.kind = "switch"
          /\ undo => todo = SetToSeq(act[a].before) /\ act[a].status = "EXECUTED"
    BY <1>2 DEF ExecuteSwitch, ExecuteFlisr, Rollback
  <2>2. /\ op' = [op EXCEPT ![p] = [pc |-> pc, act |-> a, undo |-> undo, todo |-> todo, done |-> << >>, found |-> closed]]
        /\ UNCHANGED <<act, field, sent, drift>>
    BY <2>1 DEF Begin
  <2>3. /\ op'[p].pc = pc /\ op'[p].act = a /\ op'[p].undo = undo /\ op'[p].todo = todo
        /\ \A q \in Procs : q # p => op'[q] = op[q]
    BY <1>0, <2>2 DEF Shape
  <2>4. Order(p)' = act[a].order
    BY <2>2, <2>3 DEF Order
  <2>5. undo /\ act[a].order.kind = "switch" => todo = <<Step(act[a].order.target, ~act[a].order.close)>>
    BY <2>1, SingletonSeq DEF OrdersInv
  <2>6. FitsOrder(p)'
    BY <2>1, <2>3, <2>4, <2>5 DEF FitsOrder, Waits
  <2> QED  BY <1>0, <2>2, <2>3, <2>6, OrdersKeep
<1>3. ASSUME NEW p \in Procs, Resolve(p) \/ FlisrEvent(p) \/ Send(p) \/ EchoGoes(p) \/ EchoMismatch(p) \/ EchoFails(p)
      PROVE  OrdersInv'
  <2>1. Busy(p) /\ Order(p) \in Orders
    BY <1>0, <1>3
       DEF Resolve, FlisrEvent, Send, EchoGoes, EchoMismatch, EchoFails, Busy, Shape, OrdersInv, Order
  <2>2. Told(p) \in BOOLEAN
    BY <2>1 DEF Told, Orders
  <2>3. act' = act /\ field' = field /\ sent' \in Seq(BOOLEAN) /\ drift' \in BOOLEAN
    <3>1. CASE Send(p)
      BY <1>0, <2>2, <3>1 DEF Send
    <3>2. CASE Resolve(p) \/ FlisrEvent(p) \/ EchoMismatch(p)
      BY <1>0, <3>2 DEF Resolve, FlisrEvent, EchoMismatch
    <3>3. CASE EchoGoes(p) \/ EchoFails(p)
      BY <1>0, <3>3 DEF EchoGoes, EchoFails
    <3> QED  BY <1>3, <3>1, <3>2, <3>3
  <2>4. /\ op'[p].act = op[p].act /\ op'[p].undo = op[p].undo
        /\ \A q \in Procs : q # p => op'[q] = op[q]
        /\ op'[p].pc \in {"send", "echo"} => op[p].pc = "send"
        /\ op'[p].pc = "timeout" => op[p].pc = "echo" /\ ~op[p].undo
        /\ op'[p].pc = "write" => op[p].pc = "resolve"
        /\ op'[p].pc # "resolve"
    <3>1. CASE Resolve(p)
      <4>1. op[p].pc = "resolve" /\ op' = [op EXCEPT ![p].pc = "write", ![p].found = closed]
        BY <3>1 DEF Resolve
      <4> QED  BY <1>0, <4>1 DEF Shape, IsSlot
    <3>2. CASE FlisrEvent(p)
      <4>1. PICK x \in {"end", "failed"} : op' = [op EXCEPT ![p].pc = x]
        BY <3>2 DEF FlisrEvent, Goto
      <4> QED  BY <1>0, <4>1 DEF Shape, IsSlot
    <3>3. CASE Send(p)
      <4>1. op[p].pc = "send" /\ op' = [op EXCEPT ![p].pc = "echo"]
        BY <3>3 DEF Send, Goto
      <4> QED  BY <1>0, <4>1 DEF Shape, IsSlot
    <3>4. CASE EchoGoes(p)
      <4>1. op' = [op EXCEPT ![p].pc = "end"]
        BY <3>4 DEF EchoGoes, Goto
      <4> QED  BY <1>0, <4>1 DEF Shape, IsSlot
    <3>5. CASE EchoMismatch(p)
      <4>1. op[p].pc = "echo" /\ ~op[p].undo /\ op' = [op EXCEPT ![p].pc = "timeout"]
        BY <3>5 DEF EchoMismatch, Goto
      <4> QED  BY <1>0, <4>1 DEF Shape, IsSlot
    <3>6. CASE EchoFails(p)
      <4>1. op' = [op EXCEPT ![p].pc = "failed"]
        BY <3>6 DEF EchoFails, Goto
      <4> QED  BY <1>0, <4>1 DEF Shape, IsSlot
    <3> QED  BY <1>3, <3>1, <3>2, <3>3, <3>4, <3>5, <3>6
  <2>5. Order(p)' = Order(p)
    BY <2>3, <2>4 DEF Order
  <2>6. FitsOrder(p)'
    BY <1>0, <2>4, <2>5 DEF FitsOrder, Waits, OnBreaker
  <2> QED  BY <1>0, <2>3, <2>4, <2>6, OrdersKeep
<1>4. ASSUME NEW p \in Procs, Write(p) PROVE OrdersInv'
  <2>1. /\ op[p].pc = "write" /\ act' = act /\ field' = field /\ sent' = sent /\ drift' \in BOOLEAN
        /\ op' = [op EXCEPT ![p].todo = Tail(@), ![p].done = Append(@, Head(op[p].todo).edge),
                            ![p].pc = IF Len(op[p].todo) = 1 THEN AfterWrites(p) ELSE @]
    BY <1>4 DEF Write
  <2>2. /\ op'[p].pc = (IF Len(op[p].todo) = 1 THEN AfterWrites(p) ELSE op[p].pc)
        /\ op'[p].act = op[p].act /\ op'[p].undo = op[p].undo
        /\ \A q \in Procs : q # p => op'[q] = op[q]
    BY <1>0, <2>1 DEF Shape, IsSlot
  <2>3. Order(p)' = Order(p)
    BY <2>1, <2>2 DEF Order
  <2>4. Busy(p) /\ Order(p) \in Orders
    BY <1>0, <2>1 DEF Busy, Shape, OrdersInv, Order
  <2>5. /\ AfterWrites(p) \in {"end", "event", "send"}
        /\ AfterWrites(p) = "send" => OnBreaker(p)
    BY <2>4 DEF AfterWrites, OnBreaker, Orders
  <2>6. op[p].undo /\ Order(p).kind = "switch" => Len(op[p].todo) = 1
    <3>1. SUFFICES ASSUME op[p].undo, Order(p).kind = "switch" PROVE Len(op[p].todo) = 1
      OBVIOUS
    <3>2. FitsOrder(p)
      BY <1>0
    <3>3. op[p].todo = <<Step(Order(p).target, ~Order(p).close)>>
      BY <2>1, <3>1, <3>2 DEF FitsOrder
    <3> QED  BY <3>3
  <2>7. FitsOrder(p)'
    BY <1>0, <2>1, <2>2, <2>3, <2>5, <2>6 DEF FitsOrder, Waits, OnBreaker
  <2> QED  BY <1>0, <2>1, <2>2, <2>7, OrdersKeep
<1>5. ASSUME NEW p \in Procs, Revert(p) \/ WriteFails(p) \/ SendFails(p) PROVE OrdersInv'
  <2>1. act' = act /\ field' = field /\ sent' = sent /\ drift' \in BOOLEAN
    BY <1>0, <1>5 DEF Revert, WriteFails, SendFails
  <2>2. /\ op'[p].pc \in {"idle", "revert", "failed"} /\ op'[p].undo \in BOOLEAN
        /\ \A q \in Procs : q # p => op'[q] = op[q]
    <3>1. op[p].undo \in BOOLEAN
      BY <1>0 DEF FitsOrder
    <3>2. CASE op' = [op EXCEPT ![p] = Free]
      BY <1>0, <3>2, SlotFreed
    <3>3. CASE op' = [op EXCEPT ![p] = [op[p] EXCEPT !.pc = "revert", !.todo = Abort(p)]]
      BY <1>0, <3>1, <3>3 DEF Shape, IsSlot
    <3>4. CASE op' = [op EXCEPT ![p] = [op[p] EXCEPT !.pc = "failed"]]
      BY <1>0, <3>1, <3>4 DEF Shape, IsSlot
    <3>5. CASE Revert(p)
      <4>1. /\ op[p].pc = "revert"
            /\ op' = [op EXCEPT ![p].todo = Tail(@), ![p].pc = IF Len(op[p].todo) = 1 THEN "failed" ELSE @]
        BY <3>5 DEF Revert
      <4> QED  BY <1>0, <3>1, <4>1 DEF Shape, IsSlot
    <3>6. CASE WriteFails(p)
      <4>1. op' = [op EXCEPT ![p] = IF op[p].undo THEN Free
                ELSE IF Order(p).kind = "flisr" /\ Abort(p) # << >>
                     THEN [op[p] EXCEPT !.pc = "revert", !.todo = Abort(p)]
                     ELSE [op[p] EXCEPT !.pc = "failed"]]
        BY <1>0, <3>6 DEF WriteFails
      <4> QED  BY <3>2, <3>3, <3>4, <4>1
    <3> QED  BY <1>5, <3>2, <3>5, <3>6 DEF SendFails
  <2>3. FitsOrder(p)'
    BY <2>2 DEF FitsOrder, Waits
  <2> QED  BY <1>0, <2>1, <2>2, <2>3, OrdersKeep
<1>6. ASSUME NEW p \in Procs, Finish(p) PROVE OrdersInv'
  <2>1. PICK a, status : /\ a = op[p].act /\ status # "ABSENT" /\ Busy(p)
                         /\ act' = [act EXCEPT ![a].status = status]
                         /\ op' = [op EXCEPT ![p] = Free]
                         /\ UNCHANGED <<field, sent, drift>>
    BY <1>6 DEF Finish, Busy
  <2>2. a \in Actions /\ act[a].status # "ABSENT"
    BY <1>0, <2>1 DEF Shape
  <2>3. \A b \in Actions : /\ act'[b].order = act[b].order /\ act'[b].before = act[b].before
                           /\ act[b].status = "ABSENT" => act'[b].status = "ABSENT"
    BY <1>0, <2>1, <2>2 DEF IsAction
  <2>4. \A b \in Actions : act'[b].status # "ABSENT" =>
          /\ act'[b].order \in Orders
          /\ act'[b].order.kind = "switch" => act'[b].before = {Step(act'[b].order.target, ~act'[b].order.close)}
    BY <2>3 DEF OrdersInv
  <2>5. ASSUME NEW q \in Procs PROVE FitsOrder(q)'
    <3>1. CASE q = p
      BY <1>0, <2>1, <3>1, SlotFreed DEF FitsOrder, Waits
    <3>2. CASE q # p
      <4>1. op'[q] = op[q]
        BY <1>0, <2>1, <3>2, SlotFreed
      <4>2. CASE Busy(q)
        <5>1. Order(q)' = Order(q)
          BY <1>0, <2>1, <4>1, <4>2, OrdersStand
        <5> QED  BY <1>0, <4>1, <5>1 DEF FitsOrder, Waits, OnBreaker
      <4>3. CASE ~Busy(q)
        BY <1>0, <4>1, <4>3 DEF FitsOrder, Waits, Busy
      <4> QED  BY <4>2, <4>3
    <3> QED  BY <3>1, <3>2
  <2> QED  BY <1>0, <2>1, <2>4, <2>5 DEF OrdersInv, FitsOrder
<1>7. ASSUME \/ \E e \in Edges : SetSwitch(e)
             \/ \E n \in Nodes : OutageChanges(n)
             \/ DeviceMoves \/ CommandLost \/ UNCHANGED vars
      PROVE  OrdersInv'
  <2>1. act' = act /\ op' = op /\ field' \in BOOLEAN /\ sent' \in Seq(BOOLEAN) /\ drift' \in BOOLEAN
    <3>1. sent # << >> => Head(sent) \in BOOLEAN /\ Tail(sent) \in Seq(BOOLEAN)
      BY <1>0
    <3> QED  BY <1>0, <1>7, <3>1 DEF SetSwitch, OutageChanges, DeviceMoves, CommandLost, vars
  <2> QED  BY <1>0, <2>1, OrdersKeep
<1> QED
  BY <1>1, <1>2, <1>3, <1>4, <1>5, <1>6, <1>7 DEF Next

LEMMA EchoInit == ASSUME SwitchAssumption, Init PROVE EchoInv
<1>1. \A p \in Procs : op[p] = Free
  BY DEF Init
<1>2. \A a \in Actions : act[a] = NoAction
  BY DEF Init
<1>3. (Breaker \in closed) \in BOOLEAN /\ field = (Breaker \in closed) /\ sent = << >> /\ drift = FALSE
  BY DEF Init
<1>4. OrdersInv
  <2>1. field \in BOOLEAN /\ sent \in Seq(BOOLEAN) /\ drift \in BOOLEAN
    <3>1. field \in BOOLEAN
      BY <1>3
    <3>2. sent \in Seq(BOOLEAN)
      BY <1>3
    <3>3. drift \in BOOLEAN
      BY <1>3
    <3> QED  BY <3>1, <3>2, <3>3
  <2>2. \A a \in Actions : act[a].status = "ABSENT"
    BY <1>2 DEF NoAction
  <2>3. \A p \in Procs : op[p].pc = "idle" /\ op[p].undo = FALSE
    BY <1>1 DEF Free
  <2> QED  BY <2>1, <2>2, <2>3 DEF OrdersInv, Waits
<1>5. FieldInv
  BY <1>1, <1>3 DEF FieldInv, Waits, Heeds, LastOrder, Free
<1> QED  BY <1>4, <1>5, ShapeInit DEF EchoInv

(* A request that stays as it is keeps what it would put back, as long as    *)
(* the breaker does not move in the model and nobody else starts to wait.    *)
LEMMA RevertsStays ==
    ASSUME FieldInv, NEW q \in Procs, op'[q] = op[q], Order(q)' = Order(q), Heeds(q)',
           (Breaker \in closed)' = (Breaker \in closed),
           \A c : Settled(c) => Settled(c)',
           \A r \in Procs : Waits(r)' => Waits(r) \/ r = q
    PROVE  Reverts(q)'
<1>1. Reverts(q)
  BY DEF FieldInv, Heeds, OnBreaker
<1>2. CASE (Breaker \in (IF op[q].pc = "resolve" THEN closed ELSE op[q].found)) = ~Order(q).close
  BY <1>2 DEF Reverts
<1>3. CASE Settled(Order(q).close) /\ \A r \in Procs : Waits(r) => r = q
  <2>1. Settled(Order(q).close)'
    <3>1. PICK c : c = Order(q).close
      OBVIOUS
    <3>2. Settled(c)' /\ c = Order(q)'.close
      BY <1>3, <3>1
    <3> QED  BY <3>2 DEF Settled
  <2> QED  BY <1>3, <2>1 DEF Reverts
<1> QED  BY <1>1, <1>2, <1>3 DEF Reverts

(* The breaker does not move, neither here nor there, and p does not start   *)
(* or stop to wait.                                                          *)
LEMMA FieldCarries ==
    ASSUME FieldInv, NEW p,
           (Breaker \in closed)' = (Breaker \in closed), field' = field, sent' = sent,
           \A q \in Procs : q # p => op'[q] = op[q] /\ (Busy(q) => Order(q)' = Order(q)),
           p \in Procs =>
             /\ Waits(p)' <=> Waits(p)
             /\ Waits(p) => Told(p)' = Told(p) /\ (op[p].pc # "send" <=> op'[p].pc # "send")
             /\ Heeds(p)' => Reverts(p)'
    PROVE  FieldInv'
<1>1. \A q \in Procs : Waits(q)' <=> Waits(q)
  BY DEF Waits
<1>2. \A q \in Procs : Waits(q) => Told(q)' = Told(q) /\ (op[q].pc # "send" <=> op'[q].pc # "send")
  BY DEF Waits, Busy, Told
<1>3. LastOrder' = LastOrder /\ \A c : Settled(c) => Settled(c)'
  BY DEF LastOrder, Settled
<1>4. ASSUME NEW q \in Procs, q # p, Heeds(q)' PROVE Reverts(q)'
  <2>1. op'[q] = op[q] /\ Order(q)' = Order(q)
    BY <1>4 DEF Heeds, Busy
  <2> QED  BY <1>1, <1>3, <1>4, <2>1, RevertsStays
<1>5. \A q \in Procs : Heeds(q)' => Reverts(q)'
  BY <1>4
<1> QED  BY <1>1, <1>2, <1>3, <1>5 DEF FieldInv

(* The steps that move the breaker in the model, or the commands.            *)
LEMMA WriteKeepsField ==
    ASSUME SwitchAssumption, InterlockInv, OrdersInv, FieldInv, NEW p \in Procs, Write(p), ~drift'
    PROVE  FieldInv'
<1> DEFINE s == Head(op[p].todo)
<1>1. /\ op[p].pc = "write" /\ act' = act /\ closed' = Set(closed, s.edge, s.close)
      /\ field' = field /\ sent' = sent /\ Shape
      /\ s.edge = Breaker => Order(p).kind # "flisr" /\ \A q \in Procs \ {p} : ~Busy(q)
  BY DEF Write, InterlockInv
<1>2. /\ op'[p].pc = (IF Len(op[p].todo) = 1 THEN AfterWrites(p) ELSE op[p].pc)
      /\ op'[p].act = op[p].act /\ op'[p].undo = op[p].undo /\ op'[p].found = op[p].found
      /\ \A q \in Procs : q # p => op'[q] = op[q]
  BY <1>1 DEF Write, Shape, IsSlot
<1>3. Busy(p) /\ Order(p) \in Orders /\ \A q \in Procs : Order(q)' = Order(q)
  BY <1>1, <1>2 DEF Busy, Shape, OrdersInv, Order
<1>4. ~Waits(p) /\ op[p].undo \in BOOLEAN /\ Told(p) \in BOOLEAN /\ Told(p)' = Told(p)
  BY <1>1, <1>2, <1>3 DEF Waits, OrdersInv, Told, Orders
<1>5. Order(p).kind = "switch" => op[p].todo = <<Step(Order(p).target, Told(p))>>
  <2>1. SUFFICES ASSUME Order(p).kind = "switch" PROVE op[p].todo = <<Step(Order(p).target, Told(p))>>
    OBVIOUS
  <2>2. CASE op[p].undo
    BY <1>1, <2>1, <2>2 DEF OrdersInv, Told
  <2>3. CASE ~op[p].undo
    BY <1>1, <2>1, <2>3 DEF InterlockInv, Poised, Told
  <2> QED  BY <1>4, <2>2, <2>3
<1>6. Order(p).kind = "switch" => s.edge = Order(p).target /\ s.close = Told(p) /\ Len(op[p].todo) = 1
  BY <1>5 DEF Step
<1>7. CASE s.edge = Breaker
  <2>1. OnBreaker(p)
    BY <1>1, <1>3, <1>6, <1>7 DEF OnBreaker, Orders
  <2>2. op'[p].pc = "send"
    BY <1>2, <1>6, <2>1 DEF OnBreaker, AfterWrites
  <2>3. (Breaker \in closed') = Told(p)
    BY <1>1, <1>4, <1>6, <1>7, <2>1 DEF OnBreaker, Set
  <2>4. \A q \in Procs : q # p => op'[q].pc = "idle"
    BY <1>1, <1>2, <1>7 DEF Busy
  <2>5. /\ \A q \in Procs : Waits(q)' <=> q = p
        /\ \A q \in Procs : Heeds(q)' => q = p
    BY <2>2, <2>4 DEF Waits, Heeds
  <2>6. Heeds(p)' => Reverts(p)'
    <3>1. SUFFICES ASSUME Heeds(p)' PROVE Reverts(p)'
      OBVIOUS
    <3>2. Reverts(p)
      BY <1>1, <1>2, <2>1, <3>1 DEF FieldInv, Heeds
    <3>3. CASE (Breaker \in op[p].found) = ~Order(p).close
      BY <1>2, <1>3, <2>2, <3>3 DEF Reverts
    <3>4. CASE Settled(Order(p).close)
      <4>1. Settled(Order(p).close)'
        BY <1>1, <1>3, <3>4 DEF Settled
      <4> QED  BY <2>5, <4>1 DEF Reverts
    <3> QED  BY <1>1, <3>2, <3>3, <3>4 DEF Reverts
  <2> QED  BY <1>4, <2>2, <2>3, <2>5, <2>6 DEF FieldInv
<1>8. CASE s.edge # Breaker
  <2>1. (Breaker \in closed)' = (Breaker \in closed)
    BY <1>1, <1>8 DEF Set
  <2>2. ~OnBreaker(p)
    BY <1>6, <1>8 DEF OnBreaker
  <2>3. ~Waits(p)'
    BY <1>1, <1>2, <1>3, <2>2 DEF AfterWrites, OnBreaker, Waits, Orders
  <2>4. ~Heeds(p)'
    BY <1>3, <2>2 DEF Heeds, OnBreaker
  <2> QED  BY <1>1, <1>2, <1>3, <1>4, <2>1, <2>3, <2>4, FieldCarries
<1> QED  BY <1>7, <1>8

LEMMA SendKeepsField ==
    ASSUME InterlockInv, OrdersInv, FieldInv, NEW p \in Procs, Send(p)
    PROVE  FieldInv'
<1>1. /\ op[p].pc = "send" /\ UNCHANGED <<closed, act, field>> /\ sent' = Append(sent, Told(p))
      /\ op' = [op EXCEPT ![p].pc = "echo"] /\ Shape
  BY DEF Send, Goto, InterlockInv
<1>2. /\ op'[p].pc = "echo" /\ op'[p].act = op[p].act /\ op'[p].undo = op[p].undo /\ op'[p].found = op[p].found
      /\ \A q \in Procs : q # p => op'[q] = op[q]
  BY <1>1, PcMoves
<1>3. Busy(p) /\ Order(p) \in Orders /\ \A q \in Procs : Order(q)' = Order(q)
  BY <1>1, <1>2 DEF Busy, Shape, OrdersInv, Order
<1>4. Waits(p) /\ Told(p) \in BOOLEAN /\ Told(p)' = Told(p) /\ sent \in Seq(BOOLEAN)
  BY <1>1, <1>2, <1>3 DEF Waits, OrdersInv, Told, Orders
<1>5. \A q \in Procs : (Waits(q)' <=> q = p) /\ (Waits(q) <=> q = p)
  BY <1>2, <1>4 DEF FieldInv, Waits
<1>6. (Breaker \in closed) = Told(p)
  BY <1>4 DEF FieldInv
<1>7. LastOrder' = Told(p)
  BY <1>1, <1>4 DEF LastOrder
<1>8. ASSUME NEW q \in Procs, Heeds(q)' PROVE Reverts(q)'
  <2>1. Heeds(q)
    BY <1>1, <1>2, <1>3, <1>8 DEF Heeds, OnBreaker
  <2>2. Reverts(q)
    BY <2>1 DEF FieldInv
  <2>3. CASE (Breaker \in (IF op[q].pc = "resolve" THEN closed ELSE op[q].found)) = ~Order(q).close
    BY <1>1, <1>2, <1>3, <2>3 DEF Reverts
  <2>4. CASE Settled(Order(q).close) /\ \A r \in Procs : Waits(r) => r = q
    <3>1. q = p /\ Told(p) = Order(p).close
      BY <1>5, <2>1, <2>4 DEF Heeds, Told
    <3>2. Settled(Order(p).close)'
      BY <1>1, <1>3, <1>4, <2>4, <3>1 DEF Settled
    <3> QED  BY <1>5, <3>1, <3>2 DEF Reverts
  <2> QED  BY <2>2, <2>3, <2>4 DEF Reverts
<1> QED  BY <1>1, <1>4, <1>5, <1>6, <1>7, <1>8 DEF FieldInv

LEMMA EchoKeepsField ==
    ASSUME InterlockInv, OrdersInv, FieldInv, NEW p \in Procs, EchoGoes(p) \/ EchoFails(p), ~drift'
    PROVE  FieldInv'
<1>1. /\ Waits(p) /\ op[p].pc # "send" /\ ~Waits(p)' /\ ~Heeds(p)' /\ Shape
      /\ UNCHANGED <<act, field, sent>> /\ \A q \in Procs : q # p => op'[q] = op[q]
  <2>1. PICK x \in {"end", "failed"} : op' = [op EXCEPT ![p].pc = x]
    BY DEF EchoGoes, EchoFails, Goto
  <2>2. op'[p].pc = x /\ \A q \in Procs : q # p => op'[q] = op[q]
    BY <2>1, PcMoves DEF InterlockInv
  <2> QED  BY <2>2 DEF EchoGoes, EchoFails, InterlockInv, Waits, Heeds
<1>2. /\ \A q \in Procs : Waits(q) <=> q = p
      /\ \A q \in Procs : ~Waits(q)'
      /\ LastOrder' = LastOrder /\ \A c : Settled(c)' <=> Settled(c)
  BY <1>1 DEF FieldInv, Waits, LastOrder, Settled
<1>3. /\ (Breaker \in closed) = Told(p) /\ (sent # << >> => LastOrder = Told(p))
      /\ field \in BOOLEAN /\ Order(p) \in Orders /\ Told(p) \in BOOLEAN
  <2>1. /\ (Breaker \in closed) = Told(p) /\ (sent # << >> => LastOrder = Told(p))
    BY <1>1, <1>2 DEF FieldInv
  <2>2. field \in BOOLEAN /\ Order(p) \in Orders
    BY <1>1 DEF OrdersInv, Shape, Busy, Waits, Order
  <2>3. Told(p) \in BOOLEAN
    BY <2>2 DEF Told, Orders
  <2> QED  BY <2>1, <2>2, <2>3
<1>4. ASSUME NEW q \in Procs, Heeds(q)'
      PROVE  /\ q # p /\ op'[q] = op[q] /\ Order(q)' = Order(q) /\ Order(q).close \in BOOLEAN
             /\ (Breaker \in (IF op[q].pc = "resolve" THEN closed ELSE op[q].found)) = ~Order(q).close
  <2>1. q # p /\ op'[q] = op[q] /\ Order(q)' = Order(q)
    BY <1>1, <1>4 DEF Order
  <2>2. Heeds(q)
    BY <1>4, <2>1 DEF Heeds, OnBreaker
  <2>3. Order(q) \in Orders
    BY <1>1, <2>2 DEF OrdersInv, Shape, Busy, Heeds, Order
  <2> QED  BY <1>2, <2>1, <2>2, <2>3 DEF FieldInv, Reverts, Orders
<1>5. CASE EchoGoes(p)
  <2>1. closed' = closed /\ ~(field # Told(p) /\ sent = << >>)
    BY <1>5 DEF EchoGoes
  <2>2. LastOrder' = (Breaker \in closed')
    BY <1>2, <1>3, <2>1 DEF LastOrder
  <2>3. \A q \in Procs : Heeds(q)' => Reverts(q)'
    BY <1>4, <2>1 DEF Reverts
  <2> QED  BY <1>2, <2>2, <2>3 DEF FieldInv
<1>6. CASE EchoFails(p)
  <2>1. /\ closed' = Set(closed, Order(p).target, Order(p).target \in op[p].found)
        /\ field # Order(p).close /\ sent = << >> /\ op[p].pc = "timeout"
    BY <1>6 DEF EchoFails
  <2>2. OnBreaker(p) /\ ~op[p].undo /\ Order(p).target = Breaker
    BY <1>1, <2>1 DEF OrdersInv, OnBreaker
  <2>3. Reverts(p) /\ ~Settled(Order(p).close)
    BY <2>1, <2>2 DEF FieldInv, Heeds, Settled
  <2>4. (Breaker \in op[p].found) = ~Order(p).close
    BY <2>1, <2>3 DEF Reverts
  <2>5. Order(p).close \in BOOLEAN /\ field = ~Order(p).close
    BY <1>3, <2>1 DEF Orders
  <2>6. (Breaker \in closed') = field
    BY <2>1, <2>2, <2>4, <2>5 DEF Set
  <2>7. LastOrder' = field
    BY <1>2, <2>1 DEF LastOrder
  <2>8. (Breaker \in closed) = ~field
    BY <1>3, <2>2, <2>5 DEF Told
  <2>9. ASSUME NEW q \in Procs, Heeds(q)' PROVE Reverts(q)'
    <3>1. CASE op[q].pc = "resolve"
      <4>1. Order(q).close = field
        BY <1>3, <1>4, <2>8, <2>9, <3>1
      <4>2. Settled(Order(q).close)'
        BY <1>1, <1>4, <2>1, <2>9, <4>1 DEF Settled
      <4> QED  BY <1>2, <4>2 DEF Reverts
    <3>2. CASE op[q].pc # "resolve"
      BY <1>4, <2>9, <3>2 DEF Reverts
    <3> QED  BY <3>1, <3>2
  <2> QED  BY <1>2, <2>6, <2>7, <2>9 DEF FieldInv
<1> QED  BY <1>5, <1>6

(* The device does what it is told, or never hears of it.                    *)
LEMMA CommandsKeepField ==
    ASSUME OrdersInv, FieldInv, DeviceMoves \/ CommandLost, ~drift'
    PROVE  FieldInv'
<1>1. /\ sent # << >> /\ sent' = Tail(sent) /\ UNCHANGED <<closed, act, op>> /\ sent \in Seq(BOOLEAN)
      /\ \/ field' = Head(sent)
         \/ field' = field /\ \E p \in Procs : Waits(p)
  BY DEF DeviceMoves, CommandLost, OrdersInv, Waits
<1>2. \A q \in Procs : /\ Waits(q)' <=> Waits(q)
                       /\ Heeds(q)' <=> Heeds(q)
                       /\ Order(q)' = Order(q) /\ Told(q)' = Told(q) /\ op'[q] = op[q]
  BY <1>1 DEF Waits, Heeds, OnBreaker, Order, Told
<1>3. /\ sent' # << >> => LastOrder' = LastOrder
      /\ field' = Head(sent) => LastOrder' = LastOrder
  <2>1. Len(sent) \in Nat \ {0} /\ Len(sent') = Len(sent) - 1 /\ LastOrder = sent[Len(sent)]
    BY <1>1 DEF LastOrder
  <2>2. CASE Len(sent) = 1
    <3>1. sent' = << >> /\ Head(sent) = sent[1]
      BY <1>1, <2>1, <2>2
    <3> QED  BY <2>1, <2>2, <3>1 DEF LastOrder
  <2>3. CASE Len(sent) > 1
    <3>a. Len(Tail(sent)) = Len(sent) - 1 /\ Len(sent) - 1 \in 1 .. Len(Tail(sent))
      BY <1>1, <2>1, <2>3
    <3>b. Len(sent') # Len(<< >>)
      BY <2>1, <2>3
    <3>1. sent' # << >> /\ Len(sent) - 1 \in 1 .. Len(Tail(sent))
      BY <3>a, <3>b
    <3>2. Tail(sent)[Len(sent) - 1] = sent[Len(sent)]
      BY <1>1, <2>1, <3>1
    <3>3. sent'[Len(sent')] = sent[Len(sent)]
      BY <1>1, <2>1, <3>2
    <3> QED  BY <2>1, <3>1, <3>3 DEF LastOrder
  <2> QED  BY <2>1, <2>2, <2>3
<1>4. (\A p \in Procs : ~Waits(p)') => LastOrder' = (Breaker \in closed')
  BY <1>1, <1>2, <1>3 DEF FieldInv
<1>5. ASSUME NEW p \in Procs, Waits(p)'
      PROVE  /\ (Breaker \in closed') = Told(p)'
             /\ op'[p].pc # "send" /\ sent' # << >> => LastOrder' = Told(p)'
  BY <1>1, <1>2, <1>3, <1>5 DEF FieldInv
<1>6. ASSUME NEW c, Settled(c) PROVE Settled(c)'
  <2>1. field' = c
    BY <1>1, <1>6 DEF Settled
  <2>2. \A i \in DOMAIN sent' : sent'[i] = c
    BY <1>1, <1>6 DEF Settled
  <2> QED  BY <2>1, <2>2 DEF Settled
<1>7. \A q \in Procs : Heeds(q)' => Reverts(q)'
  BY <1>1, <1>2, <1>6, RevertsStays
<1> QED  BY <1>2, <1>4, <1>5, <1>7 DEF FieldInv

LEMMA FieldStep ==
    ASSUME SwitchAssumption, EchoInv, [Next]_vars, ~drift'
    PROVE  FieldInv'
<1>0. /\ InterlockInv /\ OrdersInv /\ FieldInv /\ Shape /\ None \notin Procs
  <2>1. ~drift
    <3>1. drift \in BOOLEAN
      BY DEF EchoInv, OrdersInv
    <3>2. CASE UNCHANGED vars
      BY <3>2 DEF vars
    <3>3. CASE \E a \in Actions, order \in Wanted : Submit(a, order)
      BY <3>3 DEF Submit
    <3>4. CASE \E p \in Procs, a \in Actions : ExecuteSwitch(p, a) \/ ExecuteFlisr(p, a) \/ Rollback(p, a)
      BY <3>4 DEF ExecuteSwitch, ExecuteFlisr, Rollback, Begin
    <3>5. CASE \E p \in Procs : \/ Resolve(p) \/ Write(p) \/ WriteFails(p) \/ Revert(p) \/ FlisrEvent(p)
                                \/ Send(p) \/ SendFails(p) \/ EchoGoes(p) \/ EchoMismatch(p) \/ EchoFails(p)
                                \/ Finish(p)
      BY <3>1, <3>5 DEF Resolve, Write, WriteFails, Revert, FlisrEvent, Send, SendFails, EchoGoes,
                        EchoMismatch, EchoFails, Finish
    <3>6. CASE (\E e \in Edges : SetSwitch(e)) \/ (\E n \in Nodes : OutageChanges(n)) \/ DeviceMoves \/ CommandLost
      BY <3>6 DEF SetSwitch, OutageChanges, DeviceMoves, CommandLost
    <3> QED  BY <3>2, <3>3, <3>4, <3>5, <3>6 DEF Next
  <2> QED  BY <2>1 DEF EchoInv, InterlockInv, SwitchAssumption
<1>1. ASSUME NEW a \in Actions, NEW order \in Wanted, Submit(a, order) PROVE FieldInv'
  <2>1. PICK v : act[a].status = "ABSENT" /\ act' = [act EXCEPT ![a] = v] /\ UNCHANGED <<closed, op, field, sent>>
    BY <1>1 DEF Submit
  <2>2. \A q \in Procs : Busy(q) => Order(q)' = Order(q)
    BY <1>0, <2>1, OrdersStand
  <2> QED  BY <1>0, <2>1, <2>2, FieldCarries
<1>2. ASSUME NEW p \in Procs, NEW a \in Actions, ExecuteSwitch(p, a) \/ ExecuteFlisr(p, a) \/ Rollback(p, a)
      PROVE  FieldInv'
  <2>1. PICK pc, undo, todo :
          /\ Begin(p, a, pc, undo, todo) /\ undo \in BOOLEAN /\ pc \in {"resolve", "write"} /\ ~Busy(p)
          /\ act[a].status # "ABSENT"
          /\ act[a].order.kind = "switch" /\ ~undo => pc = "resolve" /\ Passes(act[a].order)
    BY <1>2 DEF ExecuteSwitch, ExecuteFlisr, Rollback
  <2>2. /\ op' = [op EXCEPT ![p] = [pc |-> pc, act |-> a, undo |-> undo, todo |-> todo, done |-> << >>, found |-> closed]]
        /\ UNCHANGED <<closed, act, field, sent>>
    BY <2>1 DEF Begin
  <2>3. /\ op'[p].pc = pc /\ op'[p].act = a /\ op'[p].undo = undo
        /\ \A q \in Procs : q # p => op'[q] = op[q]
    BY <1>0, <2>2 DEF Shape
  <2>4. Order(p)' = act[a].order /\ \A q \in Procs : q # p => Order(q)' = Order(q)
    BY <2>2, <2>3 DEF Order
  <2>5. ~Waits(p) /\ ~Waits(p)'
    BY <2>1, <2>3 DEF Busy, Waits
  <2>6. Heeds(p)' => Reverts(p)'
    <3>1. SUFFICES ASSUME Heeds(p)' PROVE Reverts(p)'
      OBVIOUS
    <3>2. act[a].order.kind = "switch" /\ act[a].order.target = Breaker /\ ~undo
      BY <2>3, <2>4, <3>1 DEF Heeds, OnBreaker
    <3>3. pc = "resolve" /\ (Breaker \in closed) = ~act[a].order.close
      <4>1. act[a].order.close \in BOOLEAN
        BY <1>0, <2>1 DEF OrdersInv, Orders
      <4> QED  BY <2>1, <3>2, <4>1 DEF Passes
    <3> QED  BY <2>2, <2>3, <2>4, <3>3 DEF Reverts
  <2> QED  BY <1>0, <2>2, <2>3, <2>4, <2>5, <2>6, FieldCarries
<1>3. ASSUME NEW p \in Procs, Resolve(p) \/ FlisrEvent(p) \/ WriteFails(p) \/ Revert(p) \/ EchoMismatch(p)
      PROVE  FieldInv'
  <2>1. UNCHANGED <<act, field, sent>> /\ (Breaker \in closed)' = (Breaker \in closed)
    <3>1. CASE Revert(p)
      <4>1. /\ closed' = Set(closed, Head(op[p].todo).edge, Head(op[p].todo).close)
            /\ Head(op[p].todo).edge # Breaker
        BY <3>1 DEF Revert
      <4>2. (Breaker \in closed)' = (Breaker \in closed)
        BY <4>1 DEF Set
      <4> QED  BY <3>1, <4>2 DEF Revert
    <3>2. CASE Resolve(p) \/ FlisrEvent(p) \/ WriteFails(p) \/ EchoMismatch(p)
      BY <3>2 DEF Resolve, FlisrEvent, WriteFails, EchoMismatch
    <3> QED  BY <1>3, <3>1, <3>2
  <2>2. /\ \A q \in Procs : q # p => op'[q] = op[q]
        /\ Waits(p)' <=> Waits(p)
        /\ Waits(p) => op[p].pc = "echo" /\ op'[p].pc = "timeout" /\ op'[p].undo = op[p].undo /\ op'[p].act = op[p].act
                       /\ op'[p].found = op[p].found
        /\ Heeds(p)' => \/ Waits(p)
                        \/ /\ op[p].pc = "resolve" /\ op'[p].pc = "write" /\ op'[p].act = op[p].act
                           /\ op'[p].undo = op[p].undo /\ op'[p].found = closed /\ closed' = closed
    <3>1. CASE Resolve(p)
      <4>1. op[p].pc = "resolve" /\ op' = [op EXCEPT ![p].pc = "write", ![p].found = closed] /\ closed' = closed
        BY <3>1 DEF Resolve
      <4>2. /\ op'[p].pc = "write" /\ op'[p].act = op[p].act /\ op'[p].undo = op[p].undo /\ op'[p].found = closed
            /\ \A q \in Procs : q # p => op'[q] = op[q]
        BY <1>0, <4>1 DEF Shape, IsSlot
      <4> QED  BY <4>1, <4>2 DEF Waits
    <3>2. CASE FlisrEvent(p)
      <4>1. op[p].pc = "event" /\ \E x \in {"end", "failed"} : op' = [op EXCEPT ![p].pc = x]
        BY <3>2 DEF FlisrEvent, Goto
      <4>2. op'[p].pc \in {"end", "failed"} /\ \A q \in Procs : q # p => op'[q] = op[q]
        BY <1>0, <4>1, PcMoves
      <4> QED  BY <4>1, <4>2 DEF Waits, Heeds
    <3>3. CASE EchoMismatch(p)
      <4>1. op[p].pc = "echo" /\ op' = [op EXCEPT ![p].pc = "timeout"]
        BY <3>3 DEF EchoMismatch, Goto
      <4>2. /\ op'[p].pc = "timeout" /\ op'[p].undo = op[p].undo /\ op'[p].act = op[p].act /\ op'[p].found = op[p].found
            /\ \A q \in Procs : q # p => op'[q] = op[q]
        BY <1>0, <4>1, PcMoves
      <4> QED  BY <4>1, <4>2 DEF Waits
    <3>4. CASE WriteFails(p) \/ Revert(p)
      <4>1. op[p].pc \in {"write", "revert"} /\ op'[p].pc \in {"idle", "revert", "failed"}
            /\ \A q \in Procs : q # p => op'[q] = op[q]
        <5>1. CASE Revert(p)
          <6>1. /\ op[p].pc = "revert"
                /\ op' = [op EXCEPT ![p].todo = Tail(@), ![p].pc = IF Len(op[p].todo) = 1 THEN "failed" ELSE @]
            BY <5>1 DEF Revert
          <6> QED  BY <1>0, <6>1 DEF Shape, IsSlot
        <5>2. CASE WriteFails(p)
          <6>1. op[p].pc = "write" /\
                op' = [op EXCEPT ![p] = IF op[p].undo THEN Free
                  ELSE IF Order(p).kind = "flisr" /\ Abort(p) # << >>
                     THEN [op[p] EXCEPT !.pc = "revert", !.todo = Abort(p)]
                     ELSE [op[p] EXCEPT !.pc = "failed"]]
            BY <1>0, <5>2 DEF WriteFails
          <6>2. CASE op' = [op EXCEPT ![p] = Free]
            BY <1>0, <6>1, <6>2, SlotFreed
          <6>3. CASE op' = [op EXCEPT ![p] = [op[p] EXCEPT !.pc = "revert", !.todo = Abort(p)]]
            BY <1>0, <6>1, <6>3 DEF Shape, IsSlot
          <6>4. CASE op' = [op EXCEPT ![p] = [op[p] EXCEPT !.pc = "failed"]]
            BY <1>0, <6>1, <6>4 DEF Shape, IsSlot
          <6> QED  BY <6>1, <6>2, <6>3, <6>4
        <5> QED  BY <3>4, <5>1, <5>2
      <4> QED  BY <4>1 DEF Waits, Heeds
    <3> QED  BY <1>3, <3>1, <3>2, <3>3, <3>4
  <2>3. \A q \in Procs : q # p => op'[q] = op[q] /\ Order(q)' = Order(q)
    BY <2>1, <2>2 DEF Order
  <2>4. Waits(p) => Order(p)' = Order(p) /\ Told(p)' = Told(p) /\ (op[p].pc # "send" <=> op'[p].pc # "send")
    BY <2>1, <2>2 DEF Order, Told
  <2>5. Heeds(p)' => Reverts(p)'
    <3>1. SUFFICES ASSUME Heeds(p)' PROVE Reverts(p)'
      OBVIOUS
    <3>2. op'[p].act = op[p].act /\ op'[p].undo = op[p].undo
      BY <2>2, <3>1
    <3>3. Order(p)' = Order(p) /\ op[p].pc \in {"echo", "resolve"}
      BY <2>1, <2>2, <3>1, <3>2 DEF Order
    <3>4. Reverts(p)
      BY <1>0, <3>1, <3>2, <3>3 DEF FieldInv, Heeds, OnBreaker
    <3>5. CASE (Breaker \in (IF op[p].pc = "resolve" THEN closed ELSE op[p].found)) = ~Order(p).close
      BY <2>2, <3>1, <3>3, <3>5 DEF Reverts
    <3>6. CASE Settled(Order(p).close) /\ \A r \in Procs : Waits(r) => r = p
      <4>1. Settled(Order(p).close)'
        BY <2>1, <3>3, <3>6 DEF Settled
      <4>2. \A r \in Procs : Waits(r)' => r = p
        BY <2>3, <3>6 DEF Waits
      <4> QED  BY <4>1, <4>2 DEF Reverts
    <3> QED  BY <3>4, <3>5, <3>6 DEF Reverts
  <2> QED  BY <1>0, <2>1, <2>2, <2>3, <2>4, <2>5, FieldCarries
<1>4. ASSUME NEW p \in Procs, Finish(p) PROVE FieldInv'
  <2>1. PICK a, status : /\ op[p].pc \in {"end", "failed"} /\ act' = [act EXCEPT ![a].status = status]
                         /\ op' = [op EXCEPT ![p] = Free] /\ UNCHANGED <<closed, field, sent>>
    BY <1>4 DEF Finish
  <2>2. op'[p].pc = "idle" /\ \A q \in Procs : q # p => op'[q] = op[q]
    BY <1>0, <2>1, SlotFreed
  <2>3. \A q \in Procs : q # p /\ Busy(q) => Order(q)' = Order(q)
    BY <1>0, <2>1, <2>2, OrdersStand
  <2> QED  BY <1>0, <2>1, <2>2, <2>3, FieldCarries DEF Waits, Heeds
<1>5. ASSUME NEW p \in Procs, SendFails(p) PROVE FieldInv'
  BY <1>5 DEF SendFails
<1>6. ASSUME (\E e \in Edges : SetSwitch(e)) \/ (\E n \in Nodes : OutageChanges(n)) \/ UNCHANGED vars
      PROVE  FieldInv'
  <2>1. UNCHANGED <<act, op, field, sent>> /\ (Breaker \in closed)' = (Breaker \in closed)
    <3>1. CASE \E e \in Edges : SetSwitch(e)
      <4>1. PICK e \in Edges : SetSwitch(e)
        BY <3>1
      <4>2. closed' = Set(closed, e, e \notin closed) /\ e # Breaker
        BY <4>1 DEF SetSwitch
      <4>3. (Breaker \in closed)' = (Breaker \in closed)
        BY <4>2 DEF Set
      <4> QED  BY <4>1, <4>3 DEF SetSwitch
    <3>2. CASE (\E n \in Nodes : OutageChanges(n)) \/ UNCHANGED vars
      BY <3>2 DEF OutageChanges, vars
    <3> QED  BY <1>6, <3>1, <3>2
  <2>2. \A q \in Procs : Order(q)' = Order(q)
    BY <2>1 DEF Order
  <2> QED  BY <1>0, <2>1, <2>2, FieldCarries
<1> QED
  BY <1>0, <1>1, <1>2, <1>3, <1>4, <1>5, <1>6, WriteKeepsField, SendKeepsField, EchoKeepsField, CommandsKeepField
     DEF Next

(* What every interleaving of switching actions keeps about the breaker.     *)
THEOREM EchoInvariance == Spec => []EchoInv
<1>1. Init => EchoInv
  BY SwitchAssumption, EchoInit
<1>2. EchoInv /\ [Next]_vars => EchoInv'
  BY SwitchAssumption, InterlockStep, OrdersStep, FieldStep DEF EchoInv
<1> QED
  BY <1>1, <1>2, PTL DEF Spec

(* "confirm the breaker actually moved ... revert the model so it matches    *)
(* the (unmoved) field": when no request is at work and no command is on its *)
(* way, the model tells where the breaker is, a command included that was    *)
(* lost while an echo check watched.                                         *)
THEOREM FieldFollowsModelHolds == Spec => []FieldFollowsModel
<1>1. EchoInv => FieldFollowsModel
  BY DEF EchoInv, OrdersInv, FieldInv, FieldFollowsModel, Waits, Busy, LastOrder
<1> QED
  BY <1>1, EchoInvariance, PTL

-----------------------------------------------------------------------------
(* Induction and recursion.                                                  *)

(* A set of natural numbers has a least element: the intervals up to its     *)
(* elements are subsets of a finite one, and the order of those has one.     *)
LEMMA Smallest ==
    ASSUME NEW S \in SUBSET Nat, S # {}
    PROVE  \E x \in S : \A y \in S : x <= y
<1>1. PICK k \in S : TRUE
  OBVIOUS
<1> DEFINE all == 1 .. k
           upto == {1 .. x : x \in {y \in S : y <= k}}
<1>2. IsFiniteSet(all)
  BY FS_Interval
<1>3. IsWellFoundedOn(StrictSubsetOrdering(all), SUBSET all)
  BY <1>2, FS_StrictSubsetOrderingWellFounded, FS_FiniteSubsetsOfFinite
<1>4. upto \subseteq SUBSET all /\ upto # {}
  <2>1. \A x \in S : x <= k => 1 .. x \subseteq 1 .. k
    BY <1>1
  <2>2. 1 .. k \in upto
    BY <1>1
  <2> QED  BY <2>1, <2>2
<1> HIDE DEF upto, all
<1>5. PICK m \in upto : \A y \in upto : ~ (<<y, m>> \in StrictSubsetOrdering(all))
  BY <1>3, <1>4, WFMin
<1>6. \A y \in upto : ~ (y \subseteq m /\ y # m)
  BY <1>4, <1>5 DEF StrictSubsetOrdering
<1>7. PICK x \in S : m = 1 .. x /\ x <= k
  BY <1>5 DEF upto
<1>8. ASSUME NEW y \in S, y < x PROVE FALSE
  <2>1. 1 .. y \in upto
    BY <1>7, <1>8 DEF upto
  <2>2. 1 .. y \subseteq m /\ x \in 1 .. x /\ x \notin 1 .. y
    BY <1>7, <1>8
  <2> QED  BY <1>6, <1>7, <2>1, <2>2
<1> QED  BY <1>8

(* Induction, over a set instead of a predicate.                             *)
LEMMA Induction ==
    ASSUME NEW S, 0 \in S, \A n \in Nat : n \in S => n + 1 \in S
    PROVE  \A n \in Nat : n \in S
<1> DEFINE others == Nat \ S
<1>1. SUFFICES ASSUME others # {} PROVE FALSE
  OBVIOUS
<1>2. PICK m \in others : \A y \in others : m <= y
  BY <1>1, Smallest
<1>3. m # 0 /\ m - 1 \in Nat /\ m - 1 \in S
  BY <1>2
<1>4. (m - 1) + 1 \in S
  BY <1>3
<1> QED  BY <1>2, <1>4

(* The function on the naturals that starts with a and goes on with F.       *)
GoesOn(g, A, a, F) == g \in [Nat -> A] /\ g[0] = a /\ \A n \in Nat : g[n + 1] = F[<<n, g[n]>>]

(* Recursion: there is one. *)
LEMMA Recursion ==
    ASSUME NEW A, NEW a \in A, NEW F, \A n \in Nat, x \in A : F[<<n, x>>] \in A
    PROVE  \E g : GoesOn(g, A, a, F)
<1> DEFINE Runs(m, g) == g \in [0 .. m -> A] /\ g[0] = a /\ \A n \in 0 .. m - 1 : g[n + 1] = F[<<n, g[n]>>]
           known == {m \in Nat : \E g : Runs(m, g)}
<1>1. 0 \in known
  <2>1. Runs(0, [n \in 0 .. 0 |-> a])
    OBVIOUS
  <2> QED  BY <2>1
<1>2. ASSUME NEW m \in Nat, m \in known PROVE m + 1 \in known
  <2>1. PICK g : Runs(m, g)
    BY <1>2
  <2> DEFINE h == [n \in 0 .. m + 1 |-> IF n = m + 1 THEN F[<<m, g[m]>>] ELSE g[n]]
  <2>2. g[m] \in A /\ F[<<m, g[m]>>] \in A
    BY <2>1
  <2>3. h \in [0 .. m + 1 -> A] /\ h[0] = a
    BY <2>1, <2>2
  <2>4. ASSUME NEW n \in 0 .. (m + 1) - 1 PROVE h[n + 1] = F[<<n, h[n]>>]
    <3>1. n \in 0 .. m + 1 /\ n + 1 \in 0 .. m + 1 /\ n # m + 1
      BY <2>4
    <3>2. h[n] = g[n]
      BY <3>1
    <3>3. CASE n = m
      BY <3>1, <3>2, <3>3
    <3>4. CASE n # m
      <4>1. n \in 0 .. m - 1 /\ n + 1 # m + 1
        BY <2>4, <3>4
      <4>2. h[n + 1] = g[n + 1]
        BY <3>1, <4>1
      <4> QED  BY <2>1, <3>2, <4>1, <4>2
    <3> QED  BY <3>3, <3>4
  <2> HIDE DEF h
  <2>5. Runs(m + 1, h)
    BY <2>3, <2>4
  <2>6. m + 1 \in Nat
    OBVIOUS
  <2> QED  BY <2>5, <2>6
<1>3. \A m \in Nat : m \in known
  <2> HIDE DEF known
  <2> QED  BY <1>1, <1>2, Induction
<1> DEFINE run == [m \in Nat |-> CHOOSE g : Runs(m, g)]
<1>4. \A m \in Nat : Runs(m, run[m])
  BY <1>3
<1> DEFINE agreed == {n \in Nat : \A m \in Nat : n <= m => run[m][n] = run[n][n]}
<1>5. 0 \in agreed
  BY <1>4
<1>6. ASSUME NEW n \in Nat, n \in agreed PROVE n + 1 \in agreed
  <2> HIDE DEF run
  <2>1. SUFFICES ASSUME NEW m \in Nat, n + 1 <= m PROVE run[m][n + 1] = run[n + 1][n + 1]
    OBVIOUS
  <2>2. run[m][n + 1] = F[<<n, run[m][n]>>] /\ run[n + 1][n + 1] = F[<<n, run[n + 1][n]>>]
    BY <1>4, <2>1
  <2>3. run[m][n] = run[n][n] /\ run[n + 1][n] = run[n][n]
    BY <1>6, <2>1
  <2> QED  BY <2>2, <2>3
<1>7. \A n \in Nat : n \in agreed
  <2> HIDE DEF agreed
  <2> QED  BY <1>5, <1>6, Induction
<1> DEFINE all == [n \in Nat |-> run[n][n]]
<1>8. all \in [Nat -> A] /\ all[0] = a
  <2> HIDE DEF run
  <2> QED  BY <1>4
<1>9. ASSUME NEW n \in Nat PROVE all[n + 1] = F[<<n, all[n]>>]
  <2> HIDE DEF run
  <2>1. run[n + 1][n + 1] = F[<<n, run[n + 1][n]>>]
    BY <1>4
  <2>2. run[n + 1][n] = run[n][n]
    BY <1>7
  <2> QED  BY <2>1, <2>2
<1> HIDE DEF all
<1> QED  BY <1>8, <1>9 DEF GoesOn

-----------------------------------------------------------------------------
(* What a search finds.                                                      *)

(* What on edges lead to from the nodes of S. *)
Ahead(on, S) == {To[e] : e \in {d \in on : From[d] \in S}}

(* The rounds of the search. *)
Rounds(on, sources, g) ==
    /\ g \in [Nat -> SUBSET Nodes] /\ g[0] = sources
    /\ \A n \in Nat : g[n + 1] = g[n] \cup Ahead(on, g[n])

LEMMA SearchGoesInRounds ==
    ASSUME GridAssumption, NEW on \in SUBSET Edges, NEW sources \in SUBSET Nodes
    PROVE  \E g : Rounds(on, sources, g) /\ Reach(on, sources) = g[Cardinality(Nodes)]
<1> DEFINE F == [p \in Nat \X SUBSET Nodes |-> p[2] \cup Ahead(on, p[2])]
<1>1. \A S \in SUBSET Nodes : Ahead(on, S) \in SUBSET Nodes
  BY DEF GridAssumption, Ahead
<1>2. \A n \in Nat, S \in SUBSET Nodes : F[<<n, S>>] = S \cup Ahead(on, S)
  OBVIOUS
<1> HIDE DEF F
<1> DEFINE A == SUBSET Nodes
<1>3. sources \in A /\ \A n \in Nat, x \in A : F[<<n, x>>] \in A
  BY <1>1, <1>2
<1> HIDE DEF A
<1>4. \E g : GoesOn(g, A, sources, F)
  BY <1>3, Recursion
<1>5. PICK g : g \in [Nat -> SUBSET Nodes] /\ g[0] = sources /\ \A n \in Nat : g[n + 1] = F[<<n, g[n]>>]
  BY <1>4 DEF A, GoesOn
<1>6. Rounds(on, sources, g)
  BY <1>2, <1>5 DEF Rounds
<1> DEFINE Is(w) == w = [n \in Nat |-> IF n = 0 THEN sources
                                       ELSE w[n - 1] \cup {To[e] : e \in {d \in on : From[d] \in w[n - 1]}}]
           within == CHOOSE w : Is(w)
<1>7. Is(g)
  <2>1. \A n \in Nat : n # 0 => g[n] = g[n - 1] \cup {To[e] : e \in {d \in on : From[d] \in g[n - 1]}}
    <3>1. SUFFICES ASSUME NEW n \in Nat, n # 0
                   PROVE  g[n] = g[n - 1] \cup {To[e] : e \in {d \in on : From[d] \in g[n - 1]}}
      OBVIOUS
    <3>2. n - 1 \in Nat /\ (n - 1) + 1 = n
      BY <3>1
    <3> QED  BY <1>6, <3>2 DEF Rounds, Ahead
  <2> QED  BY <1>6, <2>1 DEF Rounds
<1>8. Is(within)
  BY <1>7
<1>9. Reach(on, sources) = within[Cardinality(Nodes)]
  BY DEF Reach
<1> HIDE DEF within
<1>10. within[0] = sources /\ \A n \in Nat : within[n + 1] = within[n] \cup Ahead(on, within[n])
  <2>1. within[0] = sources
    BY <1>8
  <2>2. ASSUME NEW n \in Nat PROVE within[n + 1] = within[n] \cup Ahead(on, within[n])
    <3>1. n + 1 \in Nat /\ n + 1 # 0 /\ (n + 1) - 1 = n
      OBVIOUS
    <3> QED  BY <1>8, <3>1 DEF Ahead
  <2> QED  BY <2>1, <2>2
<1> DEFINE same == {n \in Nat : within[n] = g[n]}
<1>11. 0 \in same
  BY <1>6, <1>10 DEF Rounds
<1>12. ASSUME NEW n \in Nat, n \in same PROVE n + 1 \in same
  <2>1. within[n] = g[n] /\ n + 1 \in Nat
    BY <1>12
  <2>2. within[n + 1] = within[n] \cup Ahead(on, within[n]) /\ g[n + 1] = g[n] \cup Ahead(on, g[n])
    BY <1>6, <1>10 DEF Rounds
  <2> QED  BY <2>1, <2>2
<1>13. \A n \in Nat : n \in same
  <2> HIDE DEF same
  <2> QED  BY <1>11, <1>12, Induction
<1>14. Cardinality(Nodes) \in Nat
  BY FS_CardinalityType DEF GridAssumption
<1> QED  BY <1>6, <1>9, <1>13, <1>14

(* There are no more rounds than nodes: by then the search has come to an    *)
(* end, for each round that finds something finds at least one node.         *)
LEMMA SearchEnds ==
    ASSUME GridAssumption, NEW on \in SUBSET Edges, NEW sources \in SUBSET Nodes, NEW g, Rounds(on, sources, g)
    PROVE  Ahead(on, g[Cardinality(Nodes)]) \subseteq g[Cardinality(Nodes)]
<1> DEFINE N == Cardinality(Nodes)
           grown == {n \in Nat : g[n + 1] = g[n] \/ Cardinality(g[n]) >= n}
<1>0. IsFiniteSet(Nodes) /\ N \in Nat
  BY FS_CardinalityType DEF GridAssumption
<1>1. \A n \in Nat : IsFiniteSet(g[n]) /\ Cardinality(g[n]) \in Nat /\ g[n] \in SUBSET Nodes
  BY <1>0, FS_Subset, FS_CardinalityType DEF Rounds
<1>2. 0 \in grown
  BY <1>1
<1>3. ASSUME NEW n \in Nat, n \in grown PROVE n + 1 \in grown
  <2>0. n + 1 \in Nat
    OBVIOUS
  <2>1. g[n + 1] = g[n] \cup Ahead(on, g[n]) /\ g[(n + 1) + 1] = g[n + 1] \cup Ahead(on, g[n + 1])
    BY <2>0 DEF Rounds
  <2>2. CASE g[n + 1] = g[n]
    <3>1. g[(n + 1) + 1] = g[n + 1]
      BY <2>1, <2>2
    <3> QED  BY <2>0, <3>1
  <2>3. CASE g[n + 1] # g[n]
    <3>0. g[n] \in SUBSET g[n + 1]
      BY <2>1
    <3>1. Cardinality(g[n]) >= n /\ g[n] \in SUBSET g[n + 1] /\ IsFiniteSet(g[n + 1])
      BY <1>1, <1>3, <2>0, <2>3, <3>0
    <3>2. Cardinality(g[n]) <= Cardinality(g[n + 1]) /\ Cardinality(g[n]) # Cardinality(g[n + 1])
      BY <2>3, <3>1, FS_Subset
    <3>3. Cardinality(g[n + 1]) \in Nat /\ Cardinality(g[n]) \in Nat
      BY <1>1, <2>0
    <3>4. Cardinality(g[n + 1]) >= n + 1
      BY <3>1, <3>2, <3>3
    <3> QED  BY <2>0, <3>4
  <2> QED  BY <2>2, <2>3
<1>4. N \in grown
  <2> HIDE DEF grown
  <2>1. \A n \in Nat : n \in grown
    BY <1>2, <1>3, Induction
  <2> QED  BY <1>0, <2>1
<1>5. CASE g[N + 1] = g[N]
  <2>1. g[N + 1] = g[N] \cup Ahead(on, g[N])
    BY <1>0 DEF Rounds
  <2> QED  BY <1>5, <2>1
<1>6. CASE Cardinality(g[N]) >= N
  <2>1. Cardinality(g[N]) <= N /\ (Cardinality(Nodes) = Cardinality(g[N]) => Nodes = g[N])
    BY <1>0, <1>1, FS_Subset
  <2>2. Cardinality(g[N]) = N
    BY <1>0, <1>1, <1>6, <2>1
  <2>3. g[N] = Nodes
    BY <2>1, <2>2
  <2> HIDE DEF N
  <2>4. Ahead(on, Nodes) \subseteq Nodes
    BY DEF GridAssumption, Ahead
  <2> QED  BY <2>3, <2>4 DEF N
<1> QED  BY <1>4, <1>5, <1>6

\* Closed edges lead from nodes of S to nodes of S only.
Holds(on, S) == \A e \in on : From[e] \in S => To[e] \in S

(* What a search finds: the least set that has the sources and whatever      *)
(* closed edges lead to.                                                     *)
LEMMA ReachIs ==
    ASSUME GridAssumption, NEW on \in SUBSET Edges, NEW sources \in SUBSET Nodes
    PROVE  /\ Reach(on, sources) \in SUBSET Nodes
           /\ sources \subseteq Reach(on, sources)
           /\ Holds(on, Reach(on, sources))
           /\ \A S : sources \subseteq S /\ Holds(on, S) => Reach(on, sources) \subseteq S
<1>1. PICK g : Rounds(on, sources, g) /\ Reach(on, sources) = g[Cardinality(Nodes)]
  BY SearchGoesInRounds
<1>2. Cardinality(Nodes) \in Nat
  BY FS_CardinalityType DEF GridAssumption
<1>3. \A n \in Nat : sources \subseteq g[n]
  <2> DEFINE ok == {n \in Nat : sources \subseteq g[n]}
  <2>1. 0 \in ok
    BY <1>1 DEF Rounds
  <2>2. ASSUME NEW n \in Nat, n \in ok PROVE n + 1 \in ok
    BY <1>1, <2>2 DEF Rounds
  <2>3. \A n \in Nat : n \in ok
    <3> HIDE DEF ok
    <3> QED  BY <2>1, <2>2, Induction
  <2> QED  BY <2>3
<1>4. ASSUME NEW S, sources \subseteq S, Holds(on, S) PROVE \A n \in Nat : g[n] \subseteq S
  <2> DEFINE ok == {n \in Nat : g[n] \subseteq S}
  <2>1. 0 \in ok
    BY <1>1, <1>4 DEF Rounds
  <2>2. ASSUME NEW n \in Nat, n \in ok PROVE n + 1 \in ok
    <3>1. g[n] \subseteq S /\ g[n + 1] = g[n] \cup Ahead(on, g[n])
      BY <1>1, <2>2 DEF Rounds
    <3>2. Ahead(on, g[n]) \subseteq S
      BY <1>4, <3>1 DEF Ahead, Holds
    <3> QED  BY <3>1, <3>2
  <2>3. \A n \in Nat : n \in ok
    <3> HIDE DEF ok
    <3> QED  BY <2>1, <2>2, Induction
  <2> QED  BY <2>3
<1>5. Holds(on, Reach(on, sources))
  <2>1. Ahead(on, Reach(on, sources)) \subseteq Reach(on, sources)
    BY <1>1, SearchEnds
  <2> QED  BY <2>1 DEF Ahead, Holds
<1>6. Reach(on, sources) \in SUBSET Nodes
  BY <1>1, <1>2 DEF Rounds
<1>7. sources \subseteq Reach(on, sources)
  BY <1>1, <1>2, <1>3
<1>8. ASSUME NEW S, sources \subseteq S, Holds(on, S) PROVE Reach(on, sources) \subseteq S
  BY <1>1, <1>2, <1>4, <1>8
<1> QED  BY <1>5, <1>6, <1>7, <1>8

LEMMA EnergizedIs ==
    ASSUME GridAssumption, NEW on \in SUBSET Edges
    PROVE  /\ Energized[on] \in SUBSET Nodes /\ Substations \subseteq Energized[on] /\ Holds(on, Energized[on])
           /\ \A S : Substations \subseteq S /\ Holds(on, S) => Energized[on] \subseteq S
<1>1. Substations \in SUBSET Nodes
  BY DEF GridAssumption
<1>2. Energized[on] = Reach(on, Substations)
  BY DEF Energized
<1> QED  BY <1>1, <1>2, ReachIs

(* With more edges closed, more is energized.                                *)
LEMMA EnergizedGrows ==
    ASSUME GridAssumption, NEW more \in SUBSET Edges, NEW on \in SUBSET more
    PROVE  Energized[on] \subseteq Energized[more]
<1>1. Substations \subseteq Energized[more] /\ Holds(more, Energized[more])
  BY EnergizedIs
<1>2. Holds(on, Energized[more])
  BY <1>1 DEF Holds
<1> QED  BY <1>1, <1>2, EnergizedIs

(* What lies behind a closed edge is energized if the edge is what something *)
(* energized hangs on.                                                       *)
LEMMA IsolatorFeeds ==
    ASSUME GridAssumption, NEW on \in SUBSET Edges, NEW iso \in on,
           Energized[on] # Energized[on \ {iso}]
    PROVE  Subtree[on][iso] \subseteq Energized[on]
<1> DEFINE open == on \ {iso}
<1>0. open \in SUBSET Edges /\ open \in SUBSET on /\ iso \in Edges /\ To[iso] \in Nodes
  BY DEF GridAssumption
<1>1. Energized[open] \subseteq Energized[on]
  BY <1>0, EnergizedGrows
<1>2. Holds(on, Energized[on]) /\ Holds(open, Energized[open]) /\ Substations \subseteq Energized[open]
  BY <1>0, EnergizedIs
<1>3. To[iso] \in Energized[on]
  <2>1. SUFFICES ASSUME To[iso] \notin Energized[on] PROVE FALSE
    OBVIOUS
  <2>2. From[iso] \notin Energized[open]
    BY <1>1, <1>2, <2>1 DEF Holds
  <2>3. Holds(on, Energized[open])
    BY <1>2, <2>2 DEF Holds
  <2>4. Energized[on] \subseteq Energized[open]
    BY <1>2, <2>3, EnergizedIs
  <2> QED  BY <1>1, <2>4
<1>4. Subtree[on][iso] = Reach(on, {To[iso]})
  BY <1>0 DEF Subtree
<1>5. {To[iso]} \in SUBSET Nodes /\ {To[iso]} \subseteq Energized[on]
  BY <1>0, <1>3
<1> QED  BY <1>2, <1>4, <1>5, ReachIs

-----------------------------------------------------------------------------
(* The plan of a FLISR.                                                      *)

LEMMA GreatestOf ==
    ASSUME NEW L \in Nat, NEW s \in SUBSET (1 .. L), s # {}
    PROVE  \E x \in s : \A y \in s : x >= y
<1> DEFINE S == {L - x : x \in s}
<1>0. \A x \in s : L - x \in Nat
  OBVIOUS
<1>1. S \in SUBSET Nat /\ S # {}
  BY <1>0
<1> HIDE DEF S
<1>2. PICK m \in S : \A y \in S : m <= y
  BY <1>1, Smallest
<1>3. PICK x \in s : m = L - x
  BY <1>2 DEF S
<1>4. \A y \in s : L - x <= L - y
  BY <1>2, <1>3 DEF S
<1> QED  BY <1>4

\* What becomes of the ties taken so far with one more to look at.
Looked(on, fault, iso, ties, t) ==
    IF /\ t \notin on \ {iso}
       /\ {From[t], To[t]} \cap (Energized[on] \ Energized[on \ {iso}]) # {}
       /\ TieHelps(fault, Energized[on] \ Energized[on \ {iso}], (on \ {iso}) \cup ToSet(ties), t)
    THEN Append(ties, t) ELSE ties

Planned(on, fault, iso, g) ==
    /\ g[0] = << >>
    /\ \A n \in 0 .. Len(Ties) - 1 : g[n + 1] = Looked(on, fault, iso, g[n], Ties[n + 1])

(* The fold looks at the ties one by one, in their order.                    *)
LEMMA PlanGrows ==
    ASSUME GridAssumption, NEW on, NEW fault, NEW iso
    PROVE  \E g : Planned(on, fault, iso, g) /\ Restoring(on, fault, iso) = g[Len(Ties)]
<1> DEFINE L == Len(Ties)
           D == 1 .. L
           A == [SUBSET D -> Seq(Edges)]
           Top(s) == CHOOSE x \in s : \A y \in s : x >= y
           After(k, s) == IF s = {} THEN << >> ELSE Looked(on, fault, iso, k[s \ {Top(s)}], Ties[Top(s)])
           F == [p \in Nat \X A |-> [s \in SUBSET D |-> After(p[2], s)]]
           zero == [s \in SUBSET D |-> << >>]
<1>0. L \in Nat /\ DOMAIN Ties = D /\ \A i \in D : Ties[i] \in Edges
  BY DEF GridAssumption
<1>1. \A s \in SUBSET D : s # {} => Top(s) \in s /\ \A y \in s : Top(s) >= y
  BY <1>0, GreatestOf
<1>2. \A ties \in Seq(Edges), t \in Edges : Looked(on, fault, iso, ties, t) \in Seq(Edges)
  BY DEF Looked
<1>3. ASSUME NEW k \in A, NEW s \in SUBSET D PROVE After(k, s) \in Seq(Edges)
  <2>1. CASE s = {}
    BY <2>1
  <2>2. CASE s # {}
    <3>1. Top(s) \in D /\ s \ {Top(s)} \in SUBSET D
      BY <1>1, <2>2
    <3> HIDE DEF Top
    <3>2. k[s \ {Top(s)}] \in Seq(Edges) /\ Ties[Top(s)] \in Edges
      BY <1>0, <3>1
    <3> QED  BY <1>2, <2>2, <3>2
  <2> QED  BY <2>1, <2>2
<1> HIDE DEF After
<1>4. zero \in A /\ \A n \in Nat, k \in A : F[<<n, k>>] = [s \in SUBSET D |-> After(k, s)] /\ F[<<n, k>>] \in A
  <2>1. zero \in A
    OBVIOUS
  <2>2. ASSUME NEW n \in Nat, NEW k \in A
        PROVE  F[<<n, k>>] = [s \in SUBSET D |-> After(k, s)] /\ F[<<n, k>>] \in A
    <3>1. [s \in SUBSET D |-> After(k, s)] \in A
      BY <1>3
    <3> HIDE DEF A
    <3>2. <<n, k>> \in Nat \X A /\ <<n, k>>[2] = k
      OBVIOUS
    <3>3. F[<<n, k>>] = [s \in SUBSET D |-> After(k, s)]
      BY <3>2
    <3> QED  BY <3>1, <3>3
  <2> QED  BY <2>1, <2>2
<1>5. PICK G : GoesOn(G, A, zero, F)
  <2> HIDE DEF A, zero, F
  <2> QED  BY <1>4, Recursion
<1> DEFINE h == [s \in SUBSET D |-> G[Cardinality(s)][s]]
<1>6. \A s \in SUBSET D : Cardinality(s) \in Nat /\ IsFiniteSet(s) /\ (Cardinality(s) = 0 <=> s = {})
  <2>1. IsFiniteSet(D)
    BY <1>0, FS_Interval
  <2>2. \A s \in SUBSET D : IsFiniteSet(s)
    BY <2>1, FS_Subset
  <2> QED  BY <2>2, FS_EmptySet, FS_CardinalityType
<1>7. ASSUME NEW s \in SUBSET D PROVE h[s] = After(h, s)
  <2>1. CASE s = {}
    <3>1. Cardinality(s) = 0 /\ h[s] = G[Cardinality(s)][s] /\ G[0] = zero
      BY <1>5, <1>6, <2>1 DEF GoesOn
    <3> QED  BY <2>1, <3>1 DEF After
  <2>2. CASE s # {}
    <3> DEFINE r == s \ {Top(s)}
               n == Cardinality(r)
    <3>1. Top(s) \in s /\ r \in SUBSET D
      BY <1>1, <2>2
    <3>2. n \in Nat /\ Cardinality(s) = n + 1
      <4>1. Cardinality(r) = Cardinality(s) - 1
        BY <1>6, <3>1, FS_RemoveElement
      <4>2. Cardinality(r) \in Nat /\ Cardinality(s) \in Nat
        BY <1>6, <3>1
      <4> QED  BY <4>1, <4>2
    <3>3. G[n + 1] = F[<<n, G[n]>>] /\ G[n] \in A
      BY <1>5, <3>2 DEF GoesOn
    <3> HIDE DEF n, F, A, r
    <3>4. G[n + 1][s] = After(G[n], s)
      <4>1. F[<<n, G[n]>>] = [z \in SUBSET D |-> After(G[n], z)]
        BY <1>4, <3>2, <3>3
      <4> QED  BY <3>3, <4>1
    <3>5. h[s] = G[n + 1][s] /\ h[r] = G[n][r]
      BY <3>1, <3>2 DEF n
    <3> QED  BY <2>2, <3>4, <3>5 DEF After, r
  <2> QED  BY <2>1, <2>2
<1> DEFINE Is(w) == w = [s \in SUBSET D |-> After(w, s)]
           iter == CHOOSE w : Is(w)
<1>8. Is(iter)
  <2>1. Is(h)
    BY <1>7
  <2> QED  BY <2>1
<1>9. Restoring(on, fault, iso) = iter[D]
  BY <1>0 DEF Restoring, FoldLeft, MapThenFoldSet, Max, Looked, After
<1> HIDE DEF iter
<1> DEFINE g == [n \in 0 .. L |-> iter[1 .. n]]
<1>10. g[0] = << >>
  <2>1. 1 .. 0 = {} /\ {} \in SUBSET D
    OBVIOUS
  <2>2. g[0] = iter[{}]
    BY <1>0, <2>1
  <2> QED  BY <1>8, <2>1, <2>2 DEF After
<1>11. ASSUME NEW n \in 0 .. L - 1 PROVE g[n + 1] = Looked(on, fault, iso, g[n], Ties[n + 1])
  <2> DEFINE s == 1 .. n + 1
  <2>1. s \in SUBSET D /\ s # {} /\ n + 1 \in s /\ s \ {n + 1} = 1 .. n /\ \A y \in s : n + 1 >= y
    BY <1>0, <1>11
  <2>2. Top(s) = n + 1
    BY <1>1, <2>1
  <2>3. g[n + 1] = iter[s] /\ g[n] = iter[1 .. n]
    BY <1>0, <1>11
  <2> HIDE DEF s, Top
  <2>4. iter[s] = Looked(on, fault, iso, iter[s \ {Top(s)}], Ties[Top(s)])
    BY <1>8, <2>1 DEF After
  <2> QED  BY <2>1, <2>2, <2>3, <2>4
<1>12. Restoring(on, fault, iso) = g[L]
  BY <1>0, <1>9
<1> QED  BY <1>10, <1>11, <1>12 DEF Planned

\* Every tie of a plan was open, and the fault gets no supply once it and those
\* before it are closed.
PlanHolds(on, fault, iso, ties) ==
    /\ ties \in Seq(Edges)
    /\ \A i \in 1 .. Len(ties) :
          ties[i] \notin on /\ fault \notin Energized[(on \ {iso}) \cup {ties[j] : j \in 1 .. i}]

LEMMA PlanIs ==
    ASSUME GridAssumption, NEW on \in SUBSET Edges, NEW iso \in on, NEW fault \in Subtree[on][iso]
    PROVE  PlanHolds(on, fault, iso, Restoring(on, fault, iso))
<1> DEFINE open == on \ {iso}
           Good(ties) == PlanHolds(on, fault, iso, ties)
<1>1. PICK g : Planned(on, fault, iso, g) /\ Restoring(on, fault, iso) = g[Len(Ties)]
  BY PlanGrows
<1>2. Len(Ties) \in Nat /\ \A i \in 1 .. Len(Ties) : Ties[i] \in Edges
  BY DEF GridAssumption
<1>3. ASSUME NEW ties, Good(ties), NEW t \in Edges PROVE Good(Looked(on, fault, iso, ties, t))
  <2>0. ties \in Seq(Edges) /\ Len(ties) \in Nat
    BY <1>3 DEF PlanHolds
  <2>1. SUFFICES ASSUME t \notin open, Energized[on] \ Energized[open] # {},
                        fault \notin Energized[open \cup ToSet(ties) \cup {t}],
                        Looked(on, fault, iso, ties, t) = Append(ties, t)
                 PROVE  Good(Append(ties, t))
    BY <1>3 DEF Looked, TieHelps
  <2>2. ToSet(ties) = {ties[j] : j \in 1 .. Len(ties)} /\ ToSet(ties) \in SUBSET Edges
    BY <2>0 DEF ToSet
  <2>3. t \notin on
    <3>1. SUFFICES ASSUME t = iso PROVE FALSE
      BY <2>1
    <3>2. fault \in Energized[on]
      BY <2>1, IsolatorFeeds
    <3>3. open \cup ToSet(ties) \cup {t} \in SUBSET Edges /\ on \in SUBSET (open \cup ToSet(ties) \cup {t})
      BY <2>2, <3>1
    <3>4. Energized[on] \subseteq Energized[open \cup ToSet(ties) \cup {t}]
      BY <3>3, EnergizedGrows
    <3> QED  BY <2>1, <3>2, <3>4
  <2> DEFINE more == Append(ties, t)
  <2>4. /\ more \in Seq(Edges) /\ Len(more) = Len(ties) + 1 /\ more[Len(ties) + 1] = t
        /\ \A i \in 1 .. Len(ties) : more[i] = ties[i]
    BY <2>0
  <2> HIDE DEF more
  <2>5. ASSUME NEW i \in 1 .. Len(more)
        PROVE  more[i] \notin on /\ fault \notin Energized[open \cup {more[j] : j \in 1 .. i}]
    <3>1. CASE i = Len(ties) + 1
      <4>1. {more[j] : j \in 1 .. i} = ToSet(ties) \cup {t}
        <5>1. ASSUME NEW j \in 1 .. i PROVE more[j] \in ToSet(ties) \cup {t}
          <6>1. CASE j = i
            BY <2>4, <3>1, <6>1
          <6>2. CASE j # i
            <7>1. j \in 1 .. Len(ties)
              BY <2>0, <3>1, <6>2
            <7> QED  BY <2>2, <2>4, <7>1
          <6> QED  BY <6>1, <6>2
        <5>2. ASSUME NEW e \in ToSet(ties) \cup {t} PROVE \E j \in 1 .. i : e = more[j]
          <6>1. CASE e = t
            BY <2>0, <2>4, <3>1, <6>1
          <6>2. CASE e \in ToSet(ties)
            <7>1. PICK j \in 1 .. Len(ties) : e = ties[j]
              BY <2>2, <6>2
            <7>2. j \in 1 .. i
              BY <2>0, <3>1
            <7> QED  BY <2>4, <7>1, <7>2
          <6> QED  BY <6>1, <6>2
        <5> QED  BY <5>1, <5>2
      <4>2. open \cup {more[j] : j \in 1 .. i} = open \cup ToSet(ties) \cup {t}
        BY <4>1
      <4> QED  BY <2>1, <2>3, <2>4, <3>1, <4>2
    <3>2. CASE i # Len(ties) + 1
      <4>1. i \in 1 .. Len(ties)
        BY <2>0, <2>4, <3>2
      <4>2. \A j \in 1 .. i : j \in 1 .. Len(ties)
        BY <2>0, <4>1
      <4>3. {more[j] : j \in 1 .. i} = {ties[j] : j \in 1 .. i}
        BY <2>4, <4>2
      <4> QED  BY <1>3, <2>4, <4>1, <4>3 DEF PlanHolds
    <3> QED  BY <3>1, <3>2
  <2>6. Good(more)
    BY <2>4, <2>5 DEF PlanHolds
  <2> QED  BY <2>6 DEF more
<1> HIDE DEF Good
<1> DEFINE ok == {n \in Nat : n <= Len(Ties) => Good(g[n])}
<1>4. 0 \in ok
  <2>1. Good(<< >>)
    BY DEF Good, PlanHolds
  <2> QED  BY <1>1, <2>1 DEF Planned
<1>5. ASSUME NEW n \in Nat, n \in ok PROVE n + 1 \in ok
  <2>1. SUFFICES ASSUME n + 1 <= Len(Ties) PROVE Good(g[n + 1])
    OBVIOUS
  <2>2. Good(g[n]) /\ n \in 0 .. Len(Ties) - 1 /\ n + 1 \in 1 .. Len(Ties)
    BY <1>2, <1>5, <2>1
  <2>3. g[n + 1] = Looked(on, fault, iso, g[n], Ties[n + 1])
    BY <1>1, <2>2 DEF Planned
  <2> QED  BY <1>2, <1>3, <2>2, <2>3
<1>6. \A n \in Nat : n \in ok
  <2> HIDE DEF ok
  <2> QED  BY <1>4, <1>5, Induction
<1>7. Good(g[Len(Ties)])
  BY <1>2, <1>6
<1> QED  BY <1>1, <1>7 DEF Good

\* What the steps back are: steps of before_state for switches that were moved, and
\* there is one for each of those that before_state knows.
StepsBack(before, done, n, back) ==
    /\ back \in Seq(before)
    /\ \A j \in 1 .. Len(back) : \E i \in 1 .. n : back[j].edge = done[i]
    /\ \A i \in 1 .. n : (\E s \in before : s.edge = done[i]) =>
                            \E j \in 1 .. Len(back) : back[j].edge = done[i]

LEMMA AbortIs ==
    ASSUME NEW p, op[p].done \in Seq(Edges)
    PROVE  StepsBack(act[op[p].act].before, op[p].done, Len(op[p].done), Abort(p))
<1> DEFINE before == act[op[p].act].before
           done == op[p].done
           L == Len(done)
           known(e) == {s \in before : s.edge = e}
           next(n) == IF known(done[n]) = {} THEN << >> ELSE <<CHOOSE s \in known(done[n]) : TRUE>>
           A == Seq(before)
           F == [q \in Nat \X A |-> IF q[1] + 1 \in 1 .. L THEN q[2] \o next(q[1] + 1) ELSE q[2]]
<1>1. L \in Nat
  OBVIOUS
<1>2. ASSUME NEW n
      PROVE  /\ next(n) \in A /\ (known(done[n]) # {} => Len(next(n)) = 1)
             /\ \A j \in 1 .. Len(next(n)) : next(n)[j].edge = done[n]
  <2>1. CASE known(done[n]) = {}
    BY <2>1
  <2>2. CASE known(done[n]) # {}
    <3>1. PICK s : s = (CHOOSE t \in known(done[n]) : TRUE)
      OBVIOUS
    <3>2. s \in known(done[n]) /\ next(n) = <<s>>
      BY <2>2, <3>1
    <3>3. s \in before /\ s.edge = done[n]
      BY <3>2
    <3> HIDE DEF next, known, before
    <3>4. <<s>> \in Seq(before) /\ Len(<<s>>) = 1 /\ \A j \in 1 .. 1 : <<s>>[j] = s
      BY <3>3
    <3> QED  BY <3>2, <3>3, <3>4
  <2> QED  BY <2>1, <2>2
<1> HIDE DEF next, known, before, done
<1>3. ASSUME NEW n \in Nat, NEW k \in A
      PROVE  /\ F[<<n, k>>] = IF n + 1 \in 1 .. L THEN k \o next(n + 1) ELSE k
             /\ F[<<n, k>>] \in A
  <2>0. next(n + 1) \in A
    BY <1>2
  <2>1. k \o next(n + 1) \in A
    BY <2>0
  <2> HIDE DEF A
  <2>2. <<n, k>> \in Nat \X A /\ <<n, k>>[1] = n /\ <<n, k>>[2] = k
    OBVIOUS
  <2>3. F[<<n, k>>] = IF n + 1 \in 1 .. L THEN k \o next(n + 1) ELSE k
    BY <2>2
  <2> QED  BY <2>1, <2>3
<1>4. << >> \in A
  OBVIOUS
<1>5. PICK G : GoesOn(G, A, << >>, F)
  <2> HIDE DEF A, F
  <2> QED  BY <1>3, <1>4, Recursion
<1> DEFINE Is(w) == w = [n \in 0 .. L |-> IF n = 0 THEN << >> ELSE w[n - 1] \o next(n)]
           back == CHOOSE w : Is(w)
<1>6. Is(back)
  <2> DEFINE h == [n \in 0 .. L |-> G[n]]
  <2>1. ASSUME NEW n \in 0 .. L PROVE h[n] = IF n = 0 THEN << >> ELSE h[n - 1] \o next(n)
    <3>1. CASE n = 0
      BY <1>5, <3>1 DEF GoesOn
    <3>2. CASE n # 0
      <4>1. n - 1 \in 0 .. L /\ n - 1 \in Nat /\ (n - 1) + 1 = n /\ n \in 1 .. L
        BY <1>1, <3>2
      <4> HIDE DEF F, A
      <4>2. G[n] = F[<<n - 1, G[n - 1]>>] /\ G[n - 1] \in A
        BY <1>5, <4>1 DEF GoesOn
      <4>3. F[<<n - 1, G[n - 1]>>] = G[n - 1] \o next(n)
        BY <1>3, <4>1, <4>2
      <4> QED  BY <3>2, <4>1, <4>2, <4>3
    <3> QED  BY <3>1, <3>2
  <2>2. Is(h)
    BY <2>1
  <2> QED  BY <2>2
<1>7. Abort(p) = back[L]
  BY DEF Abort, next, known, before, done
<1> HIDE DEF back
<1>8. back[0] = << >> /\ \A n \in Nat : n + 1 <= L => back[n + 1] = back[n] \o next(n + 1)
  <2>1. 0 \in 0 .. L
    BY <1>1
  <2>2. ASSUME NEW n \in Nat, n + 1 <= L PROVE back[n + 1] = back[n] \o next(n + 1)
    <3>1. n + 1 \in 0 .. L /\ n + 1 # 0 /\ (n + 1) - 1 = n
      BY <1>1, <2>2
    <3> QED  BY <1>6, <3>1
  <2> QED  BY <1>6, <2>1, <2>2
<1> DEFINE ok == {n \in Nat : n <= L => StepsBack(before, done, n, back[n])}
<1>9. 0 \in ok
  <2>1. << >> \in Seq(before) /\ 1 .. 0 = {} /\ Len(<< >>) = 0
    OBVIOUS
  <2>2. StepsBack(before, done, 0, << >>)
    BY <2>1 DEF StepsBack
  <2> QED  BY <1>8, <2>2
<1>10. ASSUME NEW n \in Nat, n \in ok PROVE n + 1 \in ok
  <2>1. SUFFICES ASSUME n + 1 <= L PROVE StepsBack(before, done, n + 1, back[n + 1])
    OBVIOUS
  <2> DEFINE b == back[n]
             x == next(n + 1)
  <2>2. StepsBack(before, done, n, b)
    BY <1>1, <1>10, <2>1
  <2>3. back[n + 1] = b \o x
    BY <1>8, <2>1
  <2>4. b \in Seq(before) /\ x \in Seq(before)
    BY <1>2, <2>2 DEF StepsBack
  <2>5. /\ known(done[n + 1]) # {} => Len(x) = 1
        /\ \A j \in 1 .. Len(x) : x[j].edge = done[n + 1]
    BY <1>2
  <2> HIDE DEF b, x
  <2>6. /\ b \o x \in Seq(before) /\ Len(b \o x) = Len(b) + Len(x) /\ Len(b) \in Nat /\ Len(x) \in Nat
        /\ \A j \in 1 .. Len(b) : (b \o x)[j] = b[j]
        /\ \A j \in 1 .. Len(x) : (b \o x)[Len(b) + j] = x[j]
    BY <2>4
  <2>7. ASSUME NEW i \in 1 .. n + 1, \E s \in before : s.edge = done[i]
        PROVE  \E j \in 1 .. Len(b \o x) : (b \o x)[j].edge = done[i]
    <3>1. CASE i = n + 1
      <4>1. Len(x) = 1
        BY <2>5, <2>7, <3>1 DEF known
      <4>2. 1 \in 1 .. Len(x)
        BY <4>1
      <4>3. Len(b) + 1 \in 1 .. Len(b \o x) /\ (b \o x)[Len(b) + 1] = x[1]
        BY <2>6, <4>1
      <4> QED  BY <2>5, <3>1, <4>2, <4>3
    <3>2. CASE i # n + 1
      <4>0. i \in 1 .. n
        BY <3>2
      <4>1. PICK j \in 1 .. Len(b) : b[j].edge = done[i]
        BY <2>2, <2>7, <4>0 DEF StepsBack
      <4>2. j \in 1 .. Len(b \o x)
        BY <2>6
      <4> QED  BY <2>6, <4>1, <4>2
    <3> QED  BY <3>1, <3>2
  <2>8. ASSUME NEW j \in 1 .. Len(b \o x)
        PROVE  \E i \in 1 .. n + 1 : (b \o x)[j].edge = done[i]
    <3>1. CASE j \in 1 .. Len(b)
      <4>1. PICK i \in 1 .. n : b[j].edge = done[i]
        BY <2>2, <3>1 DEF StepsBack
      <4>2. i \in 1 .. n + 1
        OBVIOUS
      <4> QED  BY <2>6, <3>1, <4>1, <4>2
    <3>2. CASE j \notin 1 .. Len(b)
      <4>1. PICK m \in 1 .. Len(x) : j = Len(b) + m
        <5>1. j - Len(b) \in 1 .. Len(x) /\ j = Len(b) + (j - Len(b))
          BY <2>6, <3>2
        <5> QED  BY <5>1
      <4>2. n + 1 \in 1 .. n + 1
        OBVIOUS
      <4> QED  BY <2>5, <2>6, <4>1, <4>2
    <3> QED  BY <3>1, <3>2
  <2> QED  BY <2>3, <2>6, <2>7, <2>8 DEF StepsBack
<1>11. \A n \in Nat : n \in ok
  <2> HIDE DEF ok
  <2> QED  BY <1>9, <1>10, Induction
<1> QED  BY <1>1, <1>7, <1>11 DEF before, done

-----------------------------------------------------------------------------
(* The type of the state, and what a request has left to do.                 *)

\* No two positions of the same switch.
Clear(before) == \A s, t \in before : s.edge = t.edge => s = t

ActionTyped(v) ==
    /\ v \in [status : {"ABSENT", "READY", "EXECUTED", "FAILED", "ROLLED_BACK"},
              order : Orders \cup {None}, before : SUBSET Steps]
    /\ v.status # "ABSENT" => v.before # {} /\ IsFiniteSet(v.before) /\ Clear(v.before)

SlotTyped(v) ==
    /\ v \in [pc : {"idle", "resolve", "write", "send", "echo", "timeout", "revert", "event", "end", "failed"},
              act : Actions \cup {None}, undo : BOOLEAN, todo : Seq(Steps), done : Seq(Edges), found : SUBSET Edges]
    /\ v.pc \in {"resolve", "write", "revert"} => v.todo # << >>

(* Every plan that is kept names a switch once, and a request that is about  *)
(* to move a switch has one to move.                                         *)
TypeInv ==
    /\ closed \in SUBSET Edges /\ outages \in SUBSET Faulty
    /\ Len(sent) <= MaxSent /\ faults \in 0 .. MaxFaults
    /\ \A a \in Actions : ActionTyped(act[a])
    /\ \A p \in Procs : SlotTyped(op[p])

\* The switches that the first k steps put into this position.
Put(todo, k, close) == {todo[j].edge : j \in {i \in 1 .. k : todo[i].close = close}}

\* The steps open at most one switch, the first one, and close others after it; the
\* fault stays without supply at each of them.
Avoids(on, todo, fault) ==
    \A k \in 1 .. Len(todo) :
        /\ k > 1 => todo[k].close
        /\ todo[k].close => fault \notin Energized[(on \ Put(todo, k, FALSE)) \cup Put(todo, k, TRUE)]

\* Outside of these edges the network is as it was found.
AsFound(p, but) == \A e \in Edges \ but : e \in closed <=> e \in op[p].found

(* As long as nobody else moves a switch, a FLISR keeps the fault dead up to *)
(* its last step; what a request has not moved is where it found it; and     *)
(* the steps back of one that failed put the others there.                   *)
Planning(p) ==
    /\ op[p].pc \in {"resolve", "write"} /\ ~op[p].undo /\ Order(p).kind = "switch" => op[p].done = << >>
    /\ ~disturbed[p] => \* nobody else was at the network
         /\ op[p].pc = "write" /\ ~op[p].undo /\ Order(p).kind = "flisr" =>
                Avoids(closed, op[p].todo, Order(p).target)
         /\ op[p].pc = "write" /\ ~op[p].undo => AsFound(p, ToSet(op[p].done))
         /\ op[p].pc = "revert" /\ Foreseen(p) =>
                /\ \A j \in 1 .. Len(op[p].todo) : op[p].todo[j].close = (op[p].todo[j].edge \in op[p].found)
                /\ AsFound(p, {op[p].todo[j].edge : j \in 1 .. Len(op[p].todo)})

PlanInv == TypeInv /\ \A p \in Procs : Planning(p)

LEMMA SetInSeq ==
    ASSUME NEW S, IsFiniteSet(S)
    PROVE  SetToSeq(S) \in Seq(S) /\ (S # {} => SetToSeq(S) # << >>)
<1> DEFINE n == Cardinality(S)
<1>1. n \in Nat /\ ExistsBijection(1 .. n, S)
  BY FS_CardinalityType
<1>2. \E f \in [1 .. n -> S] : IsInjective(f)
  BY <1>1 DEF ExistsBijection, Bijection, Injection
<1>3. SetToSeq(S) \in [1 .. n -> S]
  BY <1>2 DEF SetToSeq
<1>4. S # {} => n # 0
  BY FS_EmptySet
<1> HIDE DEF n
<1>5. SetToSeq(S) \in Seq(S) /\ Len(SetToSeq(S)) = n
  BY <1>1, <1>3
<1> QED  BY <1>4, <1>5

LEMMA StepIs == ASSUME NEW s \in Steps PROVE s.edge \in Edges /\ s.close \in BOOLEAN /\ s = Step(s.edge, s.close)
BY DEF Steps, Step

LEMMA StepMade == ASSUME NEW e \in Edges, NEW close \in BOOLEAN
                  PROVE  Step(e, close) \in Steps /\ Step(e, close).edge = e /\ Step(e, close).close = close
BY DEF Steps, Step

(* What is kept of a plan names every switch once, finitely many.            *)
LEMMA BeforeIs ==
    ASSUME GridAssumption, closed \in SUBSET Edges, NEW order \in Orders, NEW iso,
           order.kind # "switch" => iso \in Isolating(closed, order.target)
    PROVE  /\ Before(order, iso) \in SUBSET Steps /\ Before(order, iso) # {}
           /\ IsFiniteSet(Before(order, iso)) /\ Clear(Before(order, iso))
<1>1. CASE order.kind = "switch"
  <2>1. order.target \in Edges /\ order.close \in BOOLEAN
    BY <1>1 DEF Orders
  <2>2. Before(order, iso) = {Step(order.target, ~order.close)}
    BY <1>1 DEF Before
  <2>3. Step(order.target, ~order.close) \in Steps
    BY <2>1 DEF Step, Steps
  <2> QED  BY <2>2, <2>3, FS_Singleton DEF Clear
<1>2. CASE order.kind # "switch"
  <2> DEFINE ties == Restoring(closed, order.target, iso)
             opened == {Step(t, FALSE) : t \in ToSet(ties)}
  <2>1. iso \in closed /\ order.target \in Subtree[closed][iso]
    BY <1>2 DEF Isolating, Candidates
  <2>2. PlanHolds(closed, order.target, iso, ties)
    BY <2>1, PlanIs
  <2>3. ties \in Seq(Edges) /\ \A i \in 1 .. Len(ties) : ties[i] \notin closed
    BY <2>2 DEF PlanHolds
  <2> HIDE DEF ties
  <2>4. ToSet(ties) = {ties[i] : i \in 1 .. Len(ties)}
    BY <2>3 DEF ToSet
  <2>5. Before(order, iso) = {Step(iso, TRUE)} \cup opened
    BY <1>2 DEF Before, ties
  <2>6. IsFiniteSet(opened)
    <3> DEFINE f == [i \in 1 .. Len(ties) |-> Step(ties[i], FALSE)]
    <3>1. f \in Surjection(1 .. Len(ties), opened)
      BY <2>4 DEF Surjection
    <3>2. IsFiniteSet(1 .. Len(ties))
      BY <2>3, FS_Interval
    <3> HIDE DEF f, opened
    <3> QED  BY <3>1, <3>2, FS_Surjection
  <2>7. opened \in SUBSET Steps /\ \A s \in opened : s.edge \notin closed /\ s = Step(s.edge, FALSE)
    <3>1. ASSUME NEW s \in opened PROVE s \in Steps /\ s.edge \notin closed /\ s = Step(s.edge, FALSE)
      <4>1. PICK t \in ToSet(ties) : s = Step(t, FALSE)
        OBVIOUS
      <4>2. t \in Edges /\ t \notin closed
        BY <2>3, <2>4
      <4> QED  BY <4>1, <4>2, StepMade
    <3> QED  BY <3>1
  <2>8. Step(iso, TRUE) \in Steps /\ Step(iso, TRUE).edge = iso
    BY <2>1 DEF Step, Steps
  <2> HIDE DEF opened
  <2>9. Clear({Step(iso, TRUE)} \cup opened)
    BY <2>1, <2>7, <2>8 DEF Clear
  <2>10. IsFiniteSet({Step(iso, TRUE)} \cup opened)
    BY <2>6, FS_Singleton, FS_Union
  <2> QED  BY <2>5, <2>7, <2>8, <2>9, <2>10
<1> QED  BY <1>1, <1>2

(* One request moves on: every slot has its type if that one does.           *)
LEMMA SlotsTyped ==
    ASSUME Shape, TypeInv, NEW p \in Procs, NEW v, SlotTyped(v), op' = [op EXCEPT ![p] = v]
    PROVE  \A q \in Procs : SlotTyped(op'[q])
<1>1. op'[p] = v /\ \A q \in Procs : q # p => op'[q] = op[q]
  BY OthersStay
<1> QED  BY <1>1 DEF TypeInv

(* The rest of the state.                                                    *)
LEMMA RestTyped ==
    ASSUME TypeInv, closed' \in SUBSET Edges, outages' \in SUBSET Faulty, Len(sent') <= MaxSent,
           faults' \in 0 .. MaxFaults, act' = act, \A q \in Procs : SlotTyped(op'[q])
    PROVE  TypeInv'
BY DEF TypeInv

LEMMA SetTyped ==
    ASSUME NEW on \in SUBSET Edges, NEW e \in Edges, NEW close
    PROVE  Set(on, e, close) \in SUBSET Edges
BY DEF Set

LEMMA TailIs ==
    ASSUME NEW S, NEW s \in Seq(S), s # << >>
    PROVE  /\ Head(s) \in S /\ Head(s) = s[1] /\ Len(s) \in Nat /\ Len(s) >= 1
           /\ Tail(s) \in Seq(S) /\ Len(Tail(s)) = Len(s) - 1
           /\ \A i \in 1 .. Len(s) - 1 : Tail(s)[i] = s[i + 1]
           /\ Len(s) # 1 => Tail(s) # << >>
<1>1. Len(s) \in Nat /\ Len(s) >= 1
  OBVIOUS
<1>2. Tail(s) \in Seq(S) /\ Len(Tail(s)) = Len(s) - 1 /\ \A i \in 1 .. Len(s) - 1 : Tail(s)[i] = s[i + 1]
  BY <1>1
<1>3. Len(s) # 1 => Len(Tail(s)) # 0
  BY <1>1, <1>2
<1>4. Len(s) # 1 => Tail(s) # << >>
  BY <1>3
<1>5. Head(s) = s[1] /\ s[1] \in S
  BY <1>1
<1> QED  BY <1>1, <1>2, <1>4, <1>5

LEMMA PrecededIs ==
    ASSUME NEW S, NEW x \in S, NEW s \in Seq(S)
    PROVE  /\ <<x>> \o s \in Seq(S) /\ <<x>> \o s # << >> /\ Len(<<x>> \o s) = Len(s) + 1
           /\ (<<x>> \o s)[1] = x /\ \A i \in 1 .. Len(s) : (<<x>> \o s)[i + 1] = s[i]
<1>1. <<x>> \in Seq(S) /\ Len(<<x>>) = 1 /\ <<x>>[1] = x /\ Len(s) \in Nat
  OBVIOUS
<1>2. <<x>> \o s \in Seq(S) /\ Len(<<x>> \o s) = Len(s) + 1
  BY <1>1
<1>3. (<<x>> \o s)[1] = x
  BY <1>1
<1>4. \A i \in 1 .. Len(s) : (<<x>> \o s)[i + 1] = s[i]
  BY <1>1
<1> QED  BY <1>1, <1>2, <1>3, <1>4

\* The steps that close these edges.
Closing(ties) == [i \in DOMAIN ties |-> Step(ties[i], TRUE)]

LEMMA ClosingIs ==
    ASSUME NEW ties \in Seq(Edges)
    PROVE  /\ Closing(ties) \in Seq(Steps) /\ Len(Closing(ties)) = Len(ties)
           /\ \A i \in 1 .. Len(ties) : Closing(ties)[i] = Step(ties[i], TRUE)
<1>1. DOMAIN ties = 1 .. Len(ties) /\ Len(ties) \in Nat
  OBVIOUS
<1>2. \A i \in 1 .. Len(ties) : ties[i] \in Edges
  OBVIOUS
<1>3. \A i \in 1 .. Len(ties) : Step(ties[i], TRUE) \in Steps
  BY <1>2, StepMade
<1>4. Closing(ties) = [i \in 1 .. Len(ties) |-> Step(ties[i], TRUE)]
  BY <1>1 DEF Closing
<1>5. Closing(ties) \in [1 .. Len(ties) -> Steps]
  BY <1>3, <1>4
<1> DEFINE n == Len(ties)
           f == Closing(ties)
<1>6. n \in Nat /\ f \in [1 .. n -> Steps]
  BY <1>1, <1>5
<1> HIDE DEF n, f
<1>7. f \in Seq(Steps) /\ Len(f) = n
  BY <1>6
<1> QED  BY <1>4, <1>7 DEF n, f

LEMMA TypeInit == ASSUME SwitchAssumption, GridAssumption, Init PROVE TypeInv
<1>1. \A p \in Procs : op[p] = Free
  BY DEF Init
<1>2. \A a \in Actions : act[a] = NoAction
  BY DEF Init
<1>3. SlotTyped(Free) /\ ActionTyped(NoAction)
  BY DEF SlotTyped, Free, ActionTyped, NoAction
<1>4. closed \in SUBSET Edges /\ outages \in SUBSET Faulty /\ sent = << >> /\ faults = 0
  BY DEF Init
<1>5. Len(sent) <= MaxSent /\ faults \in 0 .. MaxFaults
  BY <1>4 DEF SwitchAssumption
<1> QED  BY <1>1, <1>2, <1>3, <1>4, <1>5 DEF TypeInv

(* Every action keeps the type invariant.                                    *)
LEMMA TypeStep ==
    ASSUME SwitchAssumption, GridAssumption, InterlockInv, OrdersInv, TypeInv, [Next]_vars
    PROVE  TypeInv'
<1>0. /\ Shape /\ op = [p \in Procs |-> op[p]] /\ act = [a \in Actions |-> act[a]]
      /\ closed \in SUBSET Edges /\ outages \in SUBSET Faulty /\ Len(sent) <= MaxSent /\ faults \in 0 .. MaxFaults
      /\ MaxFaults \in Nat /\ MaxSent \in Nat /\ sent \in Seq(BOOLEAN)
      /\ \A p \in Procs : SlotTyped(op[p])
  BY DEF InterlockInv, OrdersInv, Shape, TypeInv, SwitchAssumption
<1>a. SlotTyped(Free)
  BY DEF SlotTyped, Free
<1>b. Fault => faults' \in 0 .. MaxFaults
  BY <1>0 DEF Fault
<1>c. ASSUME NEW p \in Procs, op[p].pc \in {"resolve", "write", "revert"}
      PROVE  /\ op[p].todo \in Seq(Steps) /\ op[p].todo # << >>
             /\ Head(op[p].todo) \in Steps /\ Tail(op[p].todo) \in Seq(Steps)
             /\ Len(op[p].todo) # 1 => Tail(op[p].todo) # << >>
             /\ op[p].done \in Seq(Edges)
             /\ Append(op[p].done, Head(op[p].todo).edge) \in Seq(Edges)
             /\ Set(closed, Head(op[p].todo).edge, Head(op[p].todo).close) \in SUBSET Edges
  <2>1. op[p].todo \in Seq(Steps) /\ op[p].todo # << >> /\ op[p].done \in Seq(Edges)
    BY <1>0, <1>c DEF SlotTyped
  <2>2. Head(op[p].todo) \in Steps /\ Tail(op[p].todo) \in Seq(Steps) /\ (Len(op[p].todo) # 1 => Tail(op[p].todo) # << >>)
    BY <2>1, TailIs
  <2>3. Head(op[p].todo).edge \in Edges
    BY <2>2, StepIs
  <2>4. Append(op[p].done, Head(op[p].todo).edge) \in Seq(Edges)
    BY <2>1, <2>3
  <2> QED  BY <1>0, <2>1, <2>2, <2>3, <2>4, SetTyped
<1>1. ASSUME NEW a \in Actions, NEW order \in Wanted, Submit(a, order) PROVE TypeInv'
  <2>1. PICK iso : /\ iso \in (IF order.kind = "switch" THEN {None} ELSE Isolating(closed, order.target))
                   /\ act' = [act EXCEPT ![a] = [status |-> "READY", order |-> order, before |-> Before(order, iso)]]
                   /\ UNCHANGED <<closed, outages, op, sent, faults>>
    BY <1>1 DEF Submit
  <2>2. order \in Orders /\ (order.kind # "switch" => iso \in Isolating(closed, order.target))
    BY <2>1 DEF SwitchAssumption
  <2>3. /\ Before(order, iso) \in SUBSET Steps /\ Before(order, iso) # {}
        /\ IsFiniteSet(Before(order, iso)) /\ Clear(Before(order, iso))
    BY <1>0, <2>2, BeforeIs
  <2>4. ActionTyped([status |-> "READY", order |-> order, before |-> Before(order, iso)])
    BY <2>2, <2>3 DEF ActionTyped
  <2>5. \A b \in Actions : ActionTyped(act'[b])
    BY <1>0, <2>1, <2>4 DEF TypeInv
  <2> QED  BY <1>0, <2>1, <2>5 DEF TypeInv
<1>2. ASSUME NEW p \in Procs, NEW a \in Actions, ExecuteSwitch(p, a) \/ ExecuteFlisr(p, a) \/ Rollback(p, a)
      PROVE  TypeInv'
  <2>0. act[a].status # "ABSENT" /\ act[a].order \in Orders
    BY <1>2 DEF ExecuteSwitch, ExecuteFlisr, Rollback, OrdersInv
  <2>1. PICK pc \in {"resolve", "write"}, undo \in BOOLEAN, todo \in Seq(Steps) :
          todo # << >> /\ Begin(p, a, pc, undo, todo)
    <3>1. CASE ExecuteSwitch(p, a)
      <4>1. act[a].order.target \in Edges /\ act[a].order.close \in BOOLEAN
        BY <2>0, <3>1 DEF ExecuteSwitch, Orders
      <4> DEFINE todo == <<Step(act[a].order.target, act[a].order.close)>>
      <4>2. todo \in Seq(Steps) /\ todo # << >>
        BY <4>1, StepMade
      <4>3. Begin(p, a, "resolve", FALSE, todo)
        BY <3>1 DEF ExecuteSwitch
      <4> HIDE DEF todo
      <4> QED  BY <4>2, <4>3
    <3>2. CASE ExecuteFlisr(p, a)
      <4>1. PICK iso \in Isolating(closed, act[a].order.target) :
               LET ties == Restoring(closed, act[a].order.target, iso) IN
               Begin(p, a, "write", FALSE, <<Step(iso, FALSE)>> \o [i \in DOMAIN ties |-> Step(ties[i], TRUE)])
        BY <3>2 DEF ExecuteFlisr
      <4> DEFINE ties == Restoring(closed, act[a].order.target, iso)
      <4>2. iso \in closed /\ act[a].order.target \in Subtree[closed][iso]
        BY <4>1 DEF Isolating, Candidates
      <4>3. ties \in Seq(Edges)
        BY <1>0, <4>2, PlanIs DEF PlanHolds
      <4>4. Begin(p, a, "write", FALSE, <<Step(iso, FALSE)>> \o Closing(ties))
        BY <4>1 DEF Closing
      <4> HIDE DEF ties
      <4>5. Closing(ties) \in Seq(Steps) /\ Step(iso, FALSE) \in Steps
        BY <1>0, <4>2, <4>3, ClosingIs, StepMade
      <4>6. <<Step(iso, FALSE)>> \o Closing(ties) \in Seq(Steps) /\ <<Step(iso, FALSE)>> \o Closing(ties) # << >>
        BY <4>5, PrecededIs
      <4> QED  BY <4>4, <4>6
    <3>3. CASE Rollback(p, a)
      <4>1. ActionTyped(act[a])
        BY DEF TypeInv
      <4>2. act[a].before \in SUBSET Steps /\ act[a].before # {} /\ IsFiniteSet(act[a].before)
        BY <2>0, <4>1 DEF ActionTyped
      <4>3. SetToSeq(act[a].before) \in Seq(Steps) /\ SetToSeq(act[a].before) # << >>
        BY <4>2, SetInSeq
      <4>4. Begin(p, a, "write", TRUE, SetToSeq(act[a].before))
        BY <3>3 DEF Rollback
      <4> QED  BY <4>3, <4>4
    <3> QED  BY <1>2, <3>1, <3>2, <3>3
  <2> DEFINE v == [pc |-> pc, act |-> a, undo |-> undo, todo |-> todo, done |-> << >>, found |-> closed]
  <2>2. op' = [op EXCEPT ![p] = v] /\ UNCHANGED <<closed, outages, act, sent, faults>>
    BY <2>1 DEF Begin
  <2>3. SlotTyped(v)
    BY <1>0, <2>1 DEF SlotTyped
  <2> HIDE DEF v
  <2>4. \A q \in Procs : SlotTyped(op'[q])
    BY <1>0, <2>2, <2>3, SlotsTyped
  <2> QED  BY <1>0, <2>2, <2>4, RestTyped
<1>3. ASSUME NEW p \in Procs,
             \/ Resolve(p) \/ FlisrEvent(p) \/ Send(p) \/ SendFails(p) \/ EchoGoes(p) \/ EchoMismatch(p)
             \/ Write(p) \/ WriteFails(p) \/ Revert(p) \/ EchoFails(p)
      PROVE  TypeInv'
  <2>0. SlotTyped(op[p])
    BY <1>0
  <2>1. ASSUME NEW x \in {"send", "echo", "timeout", "event", "end", "failed"} PROVE SlotTyped([op[p] EXCEPT !.pc = x])
    BY <2>0 DEF SlotTyped
  <2>2. PICK v : SlotTyped(v) /\ op' = [op EXCEPT ![p] = v]
    <3>1. CASE Resolve(p)
      <4> DEFINE v == [op[p] EXCEPT !.pc = "write", !.found = closed]
      <4>1. op' = [op EXCEPT ![p] = v] /\ op[p].todo # << >>
        BY <1>0, <1>c, <3>1 DEF Resolve
      <4>2. SlotTyped(v)
        BY <1>0, <2>0, <4>1 DEF SlotTyped
      <4> HIDE DEF v
      <4> QED  BY <4>1, <4>2
    <3>2. CASE FlisrEvent(p) \/ Send(p) \/ SendFails(p) \/ EchoGoes(p) \/ EchoMismatch(p) \/ EchoFails(p)
      <4>1. \/ op' = [op EXCEPT ![p] = Free]
            \/ \E x \in {"end", "failed", "echo", "timeout"} : op' = [op EXCEPT ![p].pc = x]
        BY <3>2 DEF FlisrEvent, Send, SendFails, EchoGoes, EchoMismatch, EchoFails, Goto
      <4>2. CASE op' = [op EXCEPT ![p] = Free]
        BY <1>a, <4>2
      <4>3. CASE \E x \in {"end", "failed", "echo", "timeout"} : op' = [op EXCEPT ![p].pc = x]
        <5>1. PICK x \in {"end", "failed", "echo", "timeout"} : op' = [op EXCEPT ![p].pc = x]
          BY <4>3
        <5>2. op' = [op EXCEPT ![p] = [op[p] EXCEPT !.pc = x]]
          BY <1>0, <5>1
        <5> QED  BY <2>1, <5>2
      <4> QED  BY <4>1, <4>2, <4>3
    <3>3. CASE Write(p)
      <4> DEFINE pc == IF Len(op[p].todo) = 1 THEN AfterWrites(p) ELSE op[p].pc
                 v == [op[p] EXCEPT !.todo = Tail(op[p].todo), !.done = Append(op[p].done, Head(op[p].todo).edge), !.pc = pc]
      <4>1. op' = [op EXCEPT ![p] = v] /\ op[p].pc = "write"
        BY <1>0, <3>3 DEF Write
      <4>2. AfterWrites(p) \in {"end", "event", "send"}
        BY DEF AfterWrites
      <4>3. pc \in {"end", "event", "send"} \/ (pc = "write" /\ Len(op[p].todo) # 1)
        BY <4>1, <4>2
      <4> HIDE DEF pc
      <4>4. SlotTyped(v)
        BY <1>c, <2>0, <4>1, <4>3 DEF SlotTyped
      <4> HIDE DEF v
      <4> QED  BY <4>1, <4>4
    <3>4. CASE Revert(p)
      <4> DEFINE pc == IF Len(op[p].todo) = 1 THEN "failed" ELSE op[p].pc
                 v == [op[p] EXCEPT !.todo = Tail(op[p].todo), !.pc = pc]
      <4>1. op' = [op EXCEPT ![p] = v] /\ op[p].pc = "revert"
        BY <1>0, <3>4 DEF Revert
      <4>2. pc = "failed" \/ (pc = "revert" /\ Len(op[p].todo) # 1)
        BY <4>1
      <4> HIDE DEF pc
      <4>3. SlotTyped(v)
        BY <1>c, <2>0, <4>1, <4>2 DEF SlotTyped
      <4> HIDE DEF v
      <4> QED  BY <4>1, <4>3
    <3>5. CASE WriteFails(p)
      <4> DEFINE v == [op[p] EXCEPT !.pc = "revert", !.todo = Abort(p)]
      <4>1. /\ op[p].pc = "write"
            /\ op' = [op EXCEPT ![p] = IF op[p].undo THEN Free
                         ELSE IF Order(p).kind = "flisr" /\ Abort(p) # << >> THEN v
                         ELSE [op[p] EXCEPT !.pc = "failed"]]
        BY <1>0, <3>5 DEF WriteFails
      <4>2. Abort(p) \in Seq(Steps)
        <5>1. StepsBack(act[op[p].act].before, op[p].done, Len(op[p].done), Abort(p))
          BY <1>c, <4>1, AbortIs
        <5>2. Busy(p)
          BY <4>1 DEF Busy
        <5>3. op[p].act \in Actions /\ ActionTyped(act[op[p].act])
          BY <1>0, <5>2 DEF Shape, TypeInv
        <5>4. act[op[p].act].before \in SUBSET Steps
          BY <5>3 DEF ActionTyped
        <5> QED  BY <5>1, <5>4 DEF StepsBack
      <4>3. Abort(p) # << >> => SlotTyped(v)
        BY <2>0, <4>2 DEF SlotTyped
      <4> HIDE DEF v
      <4> QED  BY <1>a, <2>1, <4>1, <4>3
    <3> QED  BY <1>3, <3>1, <3>2, <3>3, <3>4, <3>5
  <2>3. \A q \in Procs : SlotTyped(op'[q])
    BY <1>0, <2>2, SlotsTyped
  <2>4. closed' \in SUBSET Edges
    <3>1. CASE Write(p) \/ Revert(p)
      BY <1>c, <3>1 DEF Write, Revert
    <3>2. CASE EchoFails(p)
      <4>1. op[p].pc = "timeout" /\ closed' = Set(closed, Order(p).target, Order(p).target \in op[p].found)
        BY <3>2 DEF EchoFails
      <4>2. Busy(p) /\ Waits(p) /\ OnBreaker(p)
        BY <4>1 DEF Busy, Waits, OrdersInv
      <4>3. Order(p) \in Orders
        BY <1>0, <4>2 DEF Shape, OrdersInv, Order
      <4>4. Order(p).target \in Edges
        BY <4>2, <4>3 DEF OnBreaker, Orders
      <4> QED  BY <1>0, <4>1, <4>4, SetTyped
    <3>3. CASE closed' = closed
      BY <1>0, <3>3
    <3> QED
      BY <1>3, <3>1, <3>2, <3>3
         DEF Resolve, FlisrEvent, Send, SendFails, EchoGoes, EchoMismatch, WriteFails
  <2>5. Len(sent') <= MaxSent
    <3>1. CASE Send(p)
      <4>1. Len(Append(sent, Told(p))) = Len(sent) + 1 /\ Len(sent) \in Nat
        BY <1>0
      <4> QED  BY <1>0, <3>1, <4>1 DEF Send
    <3>2. CASE sent' = sent
      BY <1>0, <3>2
    <3> QED
      BY <1>3, <3>1, <3>2
         DEF Resolve, FlisrEvent, SendFails, EchoGoes, EchoMismatch, WriteFails, Write, Revert, EchoFails
  <2>6. faults' \in 0 .. MaxFaults
    BY <1>0, <1>3, <1>b
       DEF Resolve, FlisrEvent, Send, SendFails, EchoGoes, EchoMismatch, WriteFails, Write, Revert, EchoFails
  <2>7. outages' = outages /\ act' = act
    BY <1>3
       DEF Resolve, FlisrEvent, Send, SendFails, EchoGoes, EchoMismatch, WriteFails, Write, Revert, EchoFails
  <2> QED  BY <1>0, <2>3, <2>4, <2>5, <2>6, <2>7, RestTyped
<1>4. ASSUME NEW p \in Procs, Finish(p) PROVE TypeInv'
  <2>1. PICK status \in {"FAILED", "ROLLED_BACK", "EXECUTED"} :
          /\ Busy(p) /\ act' = [act EXCEPT ![op[p].act].status = status]
          /\ op' = [op EXCEPT ![p] = Free]
          /\ UNCHANGED <<closed, outages, sent, faults>>
    BY <1>4 DEF Finish, Busy
  <2>2. \A q \in Procs : SlotTyped(op'[q])
    BY <1>0, <1>a, <2>1, SlotsTyped
  <2>3. op[p].act \in Actions /\ act[op[p].act].status # "ABSENT"
    BY <1>0, <2>1 DEF Shape
  <2>4. ActionTyped([act[op[p].act] EXCEPT !.status = status])
    BY <2>3 DEF TypeInv, ActionTyped
  <2>5. act' = [act EXCEPT ![op[p].act] = [act[op[p].act] EXCEPT !.status = status]]
    BY <1>0, <2>1
  <2>6. \A b \in Actions : ActionTyped(act'[b])
    BY <1>0, <2>3, <2>4, <2>5 DEF TypeInv
  <2> QED  BY <1>0, <2>1, <2>2, <2>6 DEF TypeInv
<1>5. ASSUME \/ \E e \in Edges : SetSwitch(e)
             \/ \E n \in Nodes : OutageChanges(n)
             \/ DeviceMoves \/ CommandLost \/ UNCHANGED vars
      PROVE  TypeInv'
  <2>1. closed' \in SUBSET Edges
    BY <1>0, <1>5, SetTyped DEF SetSwitch, OutageChanges, DeviceMoves, CommandLost, vars
  <2>2. outages' \in SUBSET Faulty
    BY <1>0, <1>5 DEF SetSwitch, OutageChanges, DeviceMoves, CommandLost, vars
  <2>3. Len(sent') <= MaxSent
    <3>1. sent # << >> => Len(Tail(sent)) = Len(sent) - 1 /\ Len(sent) \in Nat
      BY <1>0
    <3> QED  BY <1>0, <1>5, <3>1 DEF SetSwitch, OutageChanges, DeviceMoves, CommandLost, vars
  <2>4. faults' \in 0 .. MaxFaults
    BY <1>0, <1>5, <1>b DEF SetSwitch, OutageChanges, DeviceMoves, CommandLost, vars
  <2>5. op' = op /\ act' = act
    BY <1>5 DEF SetSwitch, OutageChanges, DeviceMoves, CommandLost, vars
  <2> QED  BY <1>0, <2>1, <2>2, <2>3, <2>4, <2>5, RestTyped
<1> QED
  BY <1>1, <1>2, <1>3, <1>4, <1>5 DEF Next

-----------------------------------------------------------------------------
(* What is left of a FLISR keeps the fault without supply.                   *)

LEMMA AvoidsStarts ==
    ASSUME GridAssumption, NEW on \in SUBSET Edges, NEW iso \in on, NEW fault, NEW ties, PlanHolds(on, fault, iso, ties)
    PROVE  Avoids(on, <<Step(iso, FALSE)>> \o Closing(ties), fault)
<1> DEFINE todo == <<Step(iso, FALSE)>> \o Closing(ties)
<1>1. ties \in Seq(Edges) /\ Len(ties) \in Nat /\ iso \in Edges
  BY DEF PlanHolds
<1>2. Step(iso, FALSE) \in Steps
  BY <1>1, StepMade
<1>3. /\ Closing(ties) \in Seq(Steps) /\ Len(Closing(ties)) = Len(ties)
      /\ \A i \in 1 .. Len(ties) : Closing(ties)[i] = Step(ties[i], TRUE)
  BY <1>1, ClosingIs
<1>4. /\ Len(todo) = Len(ties) + 1 /\ todo[1] = Step(iso, FALSE)
      /\ \A i \in 1 .. Len(ties) : todo[i + 1] = Step(ties[i], TRUE)
  <2>1. /\ Len(todo) = Len(Closing(ties)) + 1 /\ todo[1] = Step(iso, FALSE)
        /\ \A i \in 1 .. Len(Closing(ties)) : todo[i + 1] = Closing(ties)[i]
    BY <1>2, <1>3, PrecededIs
  <2> HIDE DEF todo
  <2> QED  BY <1>3, <2>1
<1> HIDE DEF todo
<1>5. todo[1].edge = iso /\ todo[1].close = FALSE
  BY <1>1, <1>4, StepMade
<1>6. \A i \in 1 .. Len(ties) : todo[i + 1].edge = ties[i] /\ todo[i + 1].close = TRUE
  <2>1. \A i \in 1 .. Len(ties) : ties[i] \in Edges
    BY <1>1
  <2> QED  BY <1>4, <2>1, StepMade
<1>7. \A k \in 1 .. Len(todo) : k > 1 => k - 1 \in 1 .. Len(ties) /\ (k - 1) + 1 = k
  BY <1>1, <1>4
<1>8. ASSUME NEW k \in 1 .. Len(todo), k > 1
      PROVE  todo[k].close /\ fault \notin Energized[(on \ Put(todo, k, FALSE)) \cup Put(todo, k, TRUE)]
  <2>1. todo[k].close
    BY <1>6, <1>7, <1>8
  <2>2. \A j \in 1 .. k : j = 1 \/ (j - 1 \in 1 .. k - 1 /\ j - 1 \in 1 .. Len(ties) /\ (j - 1) + 1 = j)
    BY <1>1, <1>4
  <2>3. \A j \in 1 .. k : todo[j].close = TRUE \/ todo[j].close = FALSE
    BY <1>5, <1>6, <2>2
  <2>4. \A j \in 1 .. k : todo[j].close = FALSE <=> j = 1
    BY <1>5, <1>6, <2>2
  <2>5. 1 \in 1 .. k
    BY <1>8
  <2>6. Put(todo, k, FALSE) = {iso}
    BY <1>5, <2>4, <2>5 DEF Put
  <2>7. Put(todo, k, TRUE) = {ties[j] : j \in 1 .. k - 1}
    <3>1. ASSUME NEW e \in Put(todo, k, TRUE) PROVE e \in {ties[j] : j \in 1 .. k - 1}
      <4>1. PICK j \in 1 .. k : todo[j].close = TRUE /\ e = todo[j].edge
        BY DEF Put
      <4>2. j - 1 \in 1 .. k - 1 /\ j - 1 \in 1 .. Len(ties) /\ (j - 1) + 1 = j
        BY <1>5, <2>2, <4>1
      <4>3. e = ties[j - 1]
        BY <1>6, <4>1, <4>2
      <4> QED  BY <4>2, <4>3
    <3>2. ASSUME NEW j \in 1 .. k - 1 PROVE ties[j] \in Put(todo, k, TRUE)
      <4>1. j + 1 \in 1 .. k /\ j \in 1 .. Len(ties) /\ j + 1 # 1
        BY <1>1, <1>4
      <4>2. todo[j + 1].edge = ties[j] /\ todo[j + 1].close = TRUE
        BY <1>6, <2>3, <4>1
      <4> QED  BY <4>1, <4>2 DEF Put
    <3> QED  BY <3>1, <3>2
  <2>8. fault \notin Energized[(on \ {iso}) \cup {ties[j] : j \in 1 .. k - 1}]
    BY <1>7, <1>8 DEF PlanHolds
  <2> QED  BY <2>1, <2>6, <2>7, <2>8
<1>9. ASSUME NEW k \in 1 .. Len(todo)
      PROVE  /\ k > 1 => todo[k].close
             /\ todo[k].close => fault \notin Energized[(on \ Put(todo, k, FALSE)) \cup Put(todo, k, TRUE)]
  <2>1. CASE k > 1
    BY <1>8, <2>1
  <2>2. CASE ~(k > 1)
    <3>1. k = 1
      BY <1>1, <1>4, <2>2
    <3> QED  BY <1>5, <2>2, <3>1
  <2> QED  BY <2>1, <2>2
<1> QED  BY <1>9 DEF Avoids, todo

LEMMA AvoidsGoesOn ==
    ASSUME NEW on, NEW fault, NEW todo \in Seq(Steps), todo # << >>, Avoids(on, todo, fault)
    PROVE  Avoids(Set(on, Head(todo).edge, Head(todo).close), Tail(todo), fault)
<1> DEFINE s == Head(todo)
           rest == Tail(todo)
           n == Len(todo)
<1>1. /\ s \in Steps /\ s = todo[1] /\ n \in Nat /\ n >= 1 /\ rest \in Seq(Steps) /\ Len(rest) = n - 1
      /\ \A i \in 1 .. n - 1 : rest[i] = todo[i + 1]
  BY TailIs
<1>2. s.close \in BOOLEAN
  BY <1>1, StepIs
<1>a. \A i \in 1 .. n : todo[i].close \in BOOLEAN
  <2>1. \A i \in 1 .. n : todo[i] \in Steps
    OBVIOUS
  <2> QED  BY <2>1, StepIs
<1> HIDE DEF s, rest, n
<1>3. ASSUME NEW i \in 1 .. n - 1 PROVE i + 1 \in 1 .. n /\ i + 1 > 1 /\ rest[i] = todo[i + 1] /\ rest[i].close = TRUE
  <2>1. i + 1 \in 1 .. n /\ i + 1 > 1 /\ rest[i] = todo[i + 1]
    BY <1>1
  <2> QED  BY <1>a, <2>1 DEF Avoids, n
<1>4. ASSUME NEW k \in 1 .. n - 1
      PROVE  fault \notin Energized[(Set(on, s.edge, s.close) \ Put(rest, k, FALSE)) \cup Put(rest, k, TRUE)]
  <2>1. k + 1 \in 1 .. n /\ todo[k + 1].close
    BY <1>3
  <2>2. fault \notin Energized[(on \ Put(todo, k + 1, FALSE)) \cup Put(todo, k + 1, TRUE)]
    BY <2>1 DEF Avoids, n
  <2>3. \A j \in 1 .. k : j \in 1 .. n - 1
    BY <1>1
  <2>4. Put(rest, k, FALSE) = {}
    BY <1>3, <2>3 DEF Put
  <2>5. \A j \in 1 .. k + 1 : j = 1 \/ (j - 1 \in 1 .. k /\ (j - 1) + 1 = j)
    OBVIOUS
  <2>6. 1 \in 1 .. k + 1 /\ \A j \in 1 .. k : j + 1 \in 1 .. k + 1
    OBVIOUS
  <2>7. Put(todo, k + 1, FALSE) = IF s.close THEN {} ELSE {s.edge}
    <3>1. \A j \in 1 .. k + 1 : j = 1 \/ todo[j].close = TRUE
      BY <1>3, <2>3, <2>5
    <3> QED  BY <1>1, <1>2, <2>6, <3>1 DEF Put
  <2>8. Put(todo, k + 1, TRUE) = Put(rest, k, TRUE) \cup (IF s.close THEN {s.edge} ELSE {})
    <3>1. ASSUME NEW e \in Put(todo, k + 1, TRUE) PROVE e \in Put(rest, k, TRUE) \cup (IF s.close THEN {s.edge} ELSE {})
      <4>1. PICK j \in 1 .. k + 1 : todo[j].close = TRUE /\ e = todo[j].edge
        BY DEF Put
      <4>2. CASE j = 1
        BY <1>1, <4>1, <4>2
      <4>3. CASE j # 1
        <5>1. j - 1 \in 1 .. k /\ (j - 1) + 1 = j
          BY <2>5, <4>3
        <5>2. rest[j - 1].close = TRUE /\ e = rest[j - 1].edge
          BY <1>3, <2>3, <4>1, <5>1
        <5> QED  BY <5>1, <5>2 DEF Put
      <4> QED  BY <4>2, <4>3
    <3>2. ASSUME NEW e \in Put(rest, k, TRUE) PROVE e \in Put(todo, k + 1, TRUE)
      <4>1. PICK j \in 1 .. k : rest[j].close = TRUE /\ e = rest[j].edge
        BY DEF Put
      <4>2. j + 1 \in 1 .. k + 1 /\ todo[j + 1].close = TRUE /\ e = todo[j + 1].edge
        BY <1>3, <2>3, <2>6, <4>1
      <4> QED  BY <4>2 DEF Put
    <3>3. s.close => s.edge \in Put(todo, k + 1, TRUE)
      BY <1>1, <1>2, <2>6 DEF Put
    <3> QED  BY <3>1, <3>2, <3>3
  <2>9. (Set(on, s.edge, s.close) \ Put(rest, k, FALSE)) \cup Put(rest, k, TRUE)
            = (on \ Put(todo, k + 1, FALSE)) \cup Put(todo, k + 1, TRUE)
    <3>1. CASE s.close
      BY <2>4, <2>7, <2>8, <3>1 DEF Set
    <3>2. CASE ~s.close
      BY <2>4, <2>7, <2>8, <3>2 DEF Set
    <3> QED  BY <3>1, <3>2
  <2> QED  BY <2>2, <2>9
<1> QED  BY <1>1, <1>3, <1>4 DEF Avoids, s, rest

-----------------------------------------------------------------------------
(* The plan of a request and the network.                                    *)

(* A request that does nothing keeps its plan if nobody moves a switch, or   *)
(* if it is told so.                                                         *)
LEMMA PlanningStays ==
    ASSUME NEW q \in Procs, Planning(q), op'[q] = op[q],
           Busy(q) => act'[op[q].act].order = act[op[q].act].order /\ act'[op[q].act].before = act[op[q].act].before,
           Busy(q) => disturbed'[q] \/ (closed' = closed /\ disturbed'[q] = disturbed[q])
    PROVE  Planning(q)'
<1>1. CASE ~Busy(q)
  BY <1>1 DEF Planning, Busy
<1>2. CASE Busy(q)
  <2>1. Order(q)' = Order(q) /\ (Foreseen(q)' <=> Foreseen(q))
    BY <1>2 DEF Order, Foreseen
  <2>2. op[q].pc \in {"resolve", "write"} /\ ~op[q].undo /\ Order(q).kind = "switch" => op[q].done = << >>
    BY DEF Planning
  <2>3. CASE disturbed'[q]
    BY <2>1, <2>2, <2>3 DEF Planning
  <2>4. CASE closed' = closed /\ disturbed'[q] = disturbed[q]
    <3>1. Avoids(closed, op[q].todo, Order(q).target)' <=> Avoids(closed, op[q].todo, Order(q).target)
      BY <2>1, <2>4 DEF Avoids
    <3>2. AsFound(q, ToSet(op[q].done))' <=> AsFound(q, ToSet(op[q].done))
      BY <2>4 DEF AsFound
    <3>3. AsFound(q, {op[q].todo[j].edge : j \in 1 .. Len(op[q].todo)})'
             <=> AsFound(q, {op[q].todo[j].edge : j \in 1 .. Len(op[q].todo)})
      BY <2>4 DEF AsFound
    <3> QED  BY <2>1, <2>4, <3>1, <3>2, <3>3 DEF Planning
  <2> QED  BY <1>2, <2>3, <2>4
<1> QED  BY <1>1, <1>2

LEMMA PlanningOver ==
    ASSUME NEW q \in Procs, op'[q].pc \notin {"resolve", "write", "revert"}
    PROVE  Planning(q)'
BY DEF Planning

(* A switch is moved by the request of p.                                    *)
LEMMA OthersAreTold ==
    ASSUME Shape, NEW p, Disturb(p)
    PROVE  /\ \A q \in Procs : q # p /\ Busy(q) => disturbed'[q]
           /\ p \in Procs => disturbed'[p] = disturbed[p]
BY DEF Shape, Disturb

(* FLISR writes the next switch.                                             *)
LEMMA PlanningWrites ==
    ASSUME SwitchAssumption, InterlockInv, OrdersInv, PlanInv, NEW p \in Procs, Write(p)
    PROVE  Planning(p)'
<1> DEFINE s == Head(op[p].todo)
           pc == IF Len(op[p].todo) = 1 THEN AfterWrites(p) ELSE op[p].pc
<1>0. Shape /\ SlotTyped(op[p])
  BY DEF InterlockInv, PlanInv, TypeInv
<1>1. /\ op[p].pc = "write" /\ act' = act /\ closed' = Set(closed, s.edge, s.close) /\ Disturb(p)
      /\ op' = [op EXCEPT ![p].todo = Tail(@), ![p].done = Append(@, s.edge), ![p].pc = pc]
  BY DEF Write
<1>2. /\ op'[p].pc = pc /\ op'[p].act = op[p].act /\ op'[p].undo = op[p].undo /\ op'[p].todo = Tail(op[p].todo)
      /\ op'[p].done = Append(op[p].done, s.edge) /\ op'[p].found = op[p].found
  <2> HIDE DEF pc, s
  <2> QED  BY <1>0, <1>1 DEF Shape, IsSlot
<1>3. disturbed'[p] = disturbed[p]
  BY <1>0, <1>1, OthersAreTold
<1>4. Order(p)' = Order(p)
  BY <1>1, <1>2 DEF Order
<1>5. AfterWrites(p) \in {"end", "event", "send"}
  BY DEF AfterWrites
<1>6. CASE Len(op[p].todo) = 1
  <2>1. op'[p].pc \in {"end", "event", "send"}
    BY <1>2, <1>5, <1>6
  <2> QED  BY <2>1, PlanningOver
<1>7. CASE Len(op[p].todo) # 1
  <2>1. op'[p].pc = "write"
    BY <1>1, <1>2, <1>7
  <2>2. ASSUME ~op[p].undo PROVE Order(p).kind # "switch"
    <3>1. SUFFICES ASSUME Order(p).kind = "switch" PROVE FALSE
      OBVIOUS
    <3>2. op[p].todo = <<Step(Order(p).target, Order(p).close)>>
      BY <1>1, <2>2, <3>1 DEF InterlockInv, Poised
    <3> QED  BY <1>7, <3>2
  <2>3. /\ op[p].todo \in Seq(Steps) /\ op[p].todo # << >> /\ op[p].done \in Seq(Edges)
    BY <1>0, <1>1 DEF SlotTyped
  <2>4. s \in Steps /\ s.edge \in Edges
    BY <2>3, TailIs, StepIs
  <2>5. ASSUME ~op[p].undo, ~disturbed[p], Order(p).kind = "flisr"
        PROVE  Avoids(closed, op[p].todo, Order(p).target)'
    <3>1. Avoids(closed, op[p].todo, Order(p).target)
      BY <1>1, <2>5 DEF PlanInv, Planning
    <3>2. Avoids(Set(closed, s.edge, s.close), Tail(op[p].todo), Order(p).target)
      BY <2>3, <3>1, AvoidsGoesOn
    <3> HIDE DEF s
    <3> QED  BY <1>1, <1>2, <1>4, <3>2 DEF Avoids
  <2>6. ASSUME ~op[p].undo, ~disturbed[p]
        PROVE  AsFound(p, ToSet(op[p].done))'
    <3>1. AsFound(p, ToSet(op[p].done))
      BY <1>1, <2>6 DEF PlanInv, Planning
    <3> HIDE DEF s
    <3>2. /\ ToSet(op[p].done) = {op[p].done[i] : i \in 1 .. Len(op[p].done)}
          /\ ToSet(Append(op[p].done, s.edge)) = ToSet(op[p].done) \cup {s.edge}
      <4> DEFINE d == op[p].done
                 m == Append(d, s.edge)
      <4>1. /\ d \in Seq(Edges) /\ Len(d) \in Nat /\ m \in Seq(Edges) /\ Len(m) = Len(d) + 1
            /\ m[Len(d) + 1] = s.edge /\ \A i \in 1 .. Len(d) : m[i] = d[i]
        BY <2>3, <2>4
      <4> HIDE DEF d, m
      <4>2. ToSet(d) = {d[i] : i \in 1 .. Len(d)} /\ ToSet(m) = {m[i] : i \in 1 .. Len(m)}
        BY <4>1 DEF ToSet
      <4>3. ASSUME NEW i \in 1 .. Len(m) PROVE m[i] \in ToSet(d) \cup {s.edge}
        <5>1. i = Len(d) + 1 \/ i \in 1 .. Len(d)
          BY <4>1
        <5> QED  BY <4>1, <4>2, <5>1
      <4>4. ASSUME NEW e \in ToSet(d) \cup {s.edge} PROVE \E i \in 1 .. Len(m) : e = m[i]
        <5>1. CASE e = s.edge
          BY <4>1, <5>1
        <5>2. CASE e \in ToSet(d)
          <6>1. PICK i \in 1 .. Len(d) : e = d[i]
            BY <4>2, <5>2
          <6>2. i \in 1 .. Len(m)
            BY <4>1
          <6> QED  BY <4>1, <6>1, <6>2
        <5> QED  BY <5>1, <5>2
      <4>5. ToSet(m) = ToSet(d) \cup {s.edge}
        BY <4>2, <4>3, <4>4
      <4> QED  BY <4>2, <4>5 DEF d, m
    <3>3. \A e \in Edges \ (ToSet(op[p].done) \cup {s.edge}) : e \in closed' <=> e \in op[p].found
      BY <1>1, <3>1 DEF AsFound, Set
    <3>4. ToSet(op'[p].done) = ToSet(op[p].done) \cup {s.edge}
      BY <1>2, <3>2
    <3> QED  BY <1>2, <3>3, <3>4 DEF AsFound
  <2> QED  BY <1>2, <1>3, <1>4, <2>1, <2>2, <2>5, <2>6 DEF Planning
<1> QED  BY <1>6, <1>7

(* A FLISR fails, and knows the way back.                                    *)
LEMMA PlanningFails ==
    ASSUME SwitchAssumption, InterlockInv, OrdersInv, PlanInv, NEW p \in Procs, op[p].pc = "write", ~op[p].undo,
           act' = act, closed' = closed, disturbed' = disturbed,
           op' = [op EXCEPT ![p] = [op[p] EXCEPT !.pc = "revert", !.todo = Abort(p)]]
    PROVE  Planning(p)'
<1>0. Shape /\ SlotTyped(op[p]) /\ op[p].done \in Seq(Edges)
  BY DEF InterlockInv, PlanInv, TypeInv, SlotTyped
<1>1. /\ op'[p].pc = "revert" /\ op'[p].act = op[p].act /\ op'[p].undo = op[p].undo /\ op'[p].todo = Abort(p)
      /\ op'[p].done = op[p].done /\ op'[p].found = op[p].found
  BY <1>0 DEF Shape, IsSlot
<1> DEFINE before == act[op[p].act].before
           back == Abort(p)
           done == op[p].done
<1>2. SUFFICES ASSUME ~disturbed[p], Foreseen(p)
               PROVE  /\ \A j \in 1 .. Len(back) : back[j].close = (back[j].edge \in op[p].found)
                      /\ \A e \in Edges \ {back[j].edge : j \in 1 .. Len(back)} : e \in closed <=> e \in op[p].found
  <2>1. Foreseen(p)' <=> Foreseen(p)
    BY <1>1 DEF Foreseen
  <2> HIDE DEF back
  <2> QED  BY <1>1, <2>1 DEF Planning, AsFound, back
<1>3. /\ back \in Seq(before) /\ Len(back) \in Nat
      /\ \A j \in 1 .. Len(back) : back[j] \in before /\ \E i \in 1 .. Len(done) : back[j].edge = done[i]
      /\ \A i \in 1 .. Len(done) : (\E t \in before : t.edge = done[i]) => \E j \in 1 .. Len(back) : back[j].edge = done[i]
  <2>1. StepsBack(before, done, Len(done), back)
    BY <1>0, AbortIs
  <2> HIDE DEF back, before, done
  <2>2. back \in Seq(before)
    BY <2>1 DEF StepsBack
  <2>3. Len(back) \in Nat /\ \A j \in 1 .. Len(back) : back[j] \in before
    BY <2>2
  <2> QED  BY <2>1, <2>2, <2>3 DEF StepsBack
<1>4. Clear(before) /\ before \in SUBSET Steps
  <2>1. op[p].act \in Actions /\ act[op[p].act].status # "ABSENT"
    BY <1>0 DEF Shape, Busy
  <2> QED  BY <2>1 DEF PlanInv, TypeInv, ActionTyped
<1>5. ToSet(done) = {done[i] : i \in 1 .. Len(done)}
  BY <1>0 DEF ToSet
<1>6. \A e \in ToSet(done) : Step(e, e \in op[p].found) \in before
  BY <1>2 DEF Foreseen
<1>7. \A e \in ToSet(done) : Step(e, e \in op[p].found).edge = e /\ Step(e, e \in op[p].found).close = (e \in op[p].found)
  BY DEF Step
<1>8. AsFound(p, ToSet(done))
  BY <1>2 DEF PlanInv, Planning
<1> HIDE DEF back, before, done
<1>9. ASSUME NEW j \in 1 .. Len(back) PROVE back[j].close = (back[j].edge \in op[p].found)
  <2>1. PICK i \in 1 .. Len(done) : back[j].edge = done[i]
    BY <1>3
  <2>2. done[i] \in ToSet(done) /\ back[j] \in before
    BY <1>3, <1>5
  <2>3. back[j] = Step(done[i], done[i] \in op[p].found)
    BY <1>4, <1>6, <1>7, <2>1, <2>2 DEF Clear
  <2> QED  BY <1>7, <2>1, <2>2, <2>3
<1>10. ASSUME NEW e \in Edges, e \notin {back[j].edge : j \in 1 .. Len(back)} PROVE e \in closed <=> e \in op[p].found
  <2>1. e \notin ToSet(done)
    <3>1. SUFFICES ASSUME e \in ToSet(done) PROVE FALSE
      OBVIOUS
    <3>2. PICK i \in 1 .. Len(done) : e = done[i]
      BY <1>5, <3>1
    <3>3. \E t \in before : t.edge = done[i]
      BY <1>6, <1>7, <3>1, <3>2
    <3> QED  BY <1>3, <1>10, <3>2, <3>3
  <2> QED  BY <1>8, <2>1 DEF AsFound
<1> QED  BY <1>9, <1>10

(* FLISR reverts the next switch.                                            *)
LEMMA PlanningReverts ==
    ASSUME SwitchAssumption, InterlockInv, OrdersInv, PlanInv, NEW p \in Procs, Revert(p)
    PROVE  Planning(p)'
<1> DEFINE todo == op[p].todo
           s == Head(todo)
           rest == Tail(todo)
           pc == IF Len(todo) = 1 THEN "failed" ELSE op[p].pc
<1>0. Shape /\ SlotTyped(op[p])
  BY DEF InterlockInv, PlanInv, TypeInv
<1>1. /\ op[p].pc = "revert" /\ act' = act /\ closed' = Set(closed, s.edge, s.close) /\ Disturb(p)
      /\ op' = [op EXCEPT ![p].todo = Tail(@), ![p].pc = pc]
  BY DEF Revert
<1>2. /\ op'[p].pc = pc /\ op'[p].act = op[p].act /\ op'[p].undo = op[p].undo /\ op'[p].todo = rest
      /\ op'[p].done = op[p].done /\ op'[p].found = op[p].found
  <2> HIDE DEF pc, s
  <2> QED  BY <1>0, <1>1 DEF Shape, IsSlot
<1>3. disturbed'[p] = disturbed[p]
  BY <1>0, <1>1, OthersAreTold
<1>4. Foreseen(p)' <=> Foreseen(p)
  BY <1>1, <1>2 DEF Foreseen
<1>5. CASE Len(todo) = 1
  BY <1>2, <1>5, PlanningOver
<1>6. CASE Len(todo) # 1
  <2>1. op'[p].pc = "revert"
    BY <1>1, <1>2, <1>6
  <2>2. SUFFICES ASSUME ~disturbed[p], Foreseen(p)
                 PROVE  /\ \A j \in 1 .. Len(rest) : rest[j].close = (rest[j].edge \in op[p].found)
                        /\ \A e \in Edges \ {rest[j].edge : j \in 1 .. Len(rest)} : e \in closed' <=> e \in op[p].found
    <3> HIDE DEF rest
    <3> QED  BY <1>2, <1>3, <1>4, <2>1 DEF Planning, AsFound
  <2>3. /\ \A j \in 1 .. Len(todo) : todo[j].close = (todo[j].edge \in op[p].found)
        /\ \A e \in Edges \ {todo[j].edge : j \in 1 .. Len(todo)} : e \in closed <=> e \in op[p].found
    BY <1>1, <2>2 DEF PlanInv, Planning, AsFound
  <2>4. todo \in Seq(Steps) /\ todo # << >>
    BY <1>0, <1>1 DEF SlotTyped
  <2>5. /\ s = todo[1] /\ Len(todo) \in Nat /\ Len(todo) >= 1 /\ Len(rest) = Len(todo) - 1
        /\ \A i \in 1 .. Len(todo) - 1 : rest[i] = todo[i + 1]
    BY <2>4, TailIs
  <2> HIDE DEF todo, s, rest
  <2>6. ASSUME NEW j \in 1 .. Len(rest) PROVE rest[j].close = (rest[j].edge \in op[p].found)
    <3>1. j + 1 \in 1 .. Len(todo) /\ rest[j] = todo[j + 1]
      BY <2>5
    <3> QED  BY <2>3, <3>1
  <2>7. ASSUME NEW e \in Edges, e \notin {rest[j].edge : j \in 1 .. Len(rest)} PROVE e \in closed' <=> e \in op[p].found
    <3>1. CASE e = s.edge
      <4>1. s.close = (s.edge \in op[p].found)
        BY <2>3, <2>5
      <4> QED  BY <1>1, <3>1, <4>1 DEF Set
    <3>2. CASE e # s.edge
      <4>1. e \notin {todo[j].edge : j \in 1 .. Len(todo)}
        <5>1. SUFFICES ASSUME NEW j \in 1 .. Len(todo), e = todo[j].edge PROVE FALSE
          OBVIOUS
        <5>2. j # 1
          BY <2>5, <3>2, <5>1
        <5>3. j - 1 \in 1 .. Len(rest) /\ rest[j - 1] = todo[j]
          BY <2>5, <5>2
        <5> QED  BY <2>7, <5>1, <5>3
      <4>2. e \in closed <=> e \in op[p].found
        BY <2>3, <4>1
      <4> QED  BY <1>1, <3>2, <4>2 DEF Set
    <3> QED  BY <3>1, <3>2
  <2> QED  BY <2>6, <2>7
<1> QED  BY <1>5, <1>6

LEMMA PlanInit == ASSUME SwitchAssumption, GridAssumption, Init PROVE PlanInv
<1>1. \A p \in Procs : op[p].pc = "idle"
  BY DEF Init, Free
<1> QED  BY <1>1, TypeInit DEF PlanInv, Planning

(* Every action keeps the invariant.                                         *)
LEMMA PlanStep ==
    ASSUME SwitchAssumption, GridAssumption, EchoInv, PlanInv, [Next]_vars
    PROVE  PlanInv'
<1>0. /\ InterlockInv /\ OrdersInv /\ TypeInv /\ Shape /\ closed \in SUBSET Edges
      /\ \A q \in Procs : Planning(q)
  BY DEF EchoInv, InterlockInv, PlanInv, TypeInv
<1>b. TypeInv'
  BY <1>0, TypeStep
<1>a. \A q \in Procs : Busy(q) => op[q].act \in Actions /\ act[op[q].act].status # "ABSENT"
  BY <1>0 DEF Shape
<1>1. ASSUME NEW a \in Actions, NEW order \in Wanted, Submit(a, order), NEW q \in Procs PROVE Planning(q)'
  <2>1. PICK v : /\ act[a].status = "ABSENT" /\ act' = [act EXCEPT ![a] = v]
                 /\ UNCHANGED <<closed, op, disturbed>>
    BY <1>1 DEF Submit
  <2>2. Busy(q) => act'[op[q].act] = act[op[q].act]
    BY <1>0, <1>a, <2>1 DEF Shape
  <2> QED  BY <1>0, <2>1, <2>2, PlanningStays
<1>2. ASSUME NEW p \in Procs, NEW a \in Actions, ExecuteSwitch(p, a) \/ ExecuteFlisr(p, a) \/ Rollback(p, a),
             NEW q \in Procs
      PROVE  Planning(q)'
  <2>1. PICK pc, undo, todo :
          /\ Begin(p, a, pc, undo, todo)
          /\ pc = "write" /\ ~undo => /\ act[a].order.kind = "flisr"
                                      /\ Avoids(closed, todo, act[a].order.target)
          /\ pc \in {"resolve", "write"}
    <3>1. CASE ExecuteSwitch(p, a)
      BY <3>1 DEF ExecuteSwitch
    <3>2. CASE ExecuteFlisr(p, a)
      <4>1. PICK iso \in Isolating(closed, act[a].order.target) :
               LET ties == Restoring(closed, act[a].order.target, iso) IN
               Begin(p, a, "write", FALSE, <<Step(iso, FALSE)>> \o [i \in DOMAIN ties |-> Step(ties[i], TRUE)])
        BY <3>2 DEF ExecuteFlisr
      <4> DEFINE ties == Restoring(closed, act[a].order.target, iso)
      <4>2. iso \in closed /\ act[a].order.target \in Subtree[closed][iso]
        BY <4>1 DEF Isolating, Candidates
      <4>3. PlanHolds(closed, act[a].order.target, iso, ties)
        BY <1>0, <4>2, PlanIs
      <4>4. Begin(p, a, "write", FALSE, <<Step(iso, FALSE)>> \o Closing(ties)) /\ act[a].order.kind = "flisr"
        BY <3>2, <4>1 DEF Closing, ExecuteFlisr
      <4> HIDE DEF ties
      <4>5. Avoids(closed, <<Step(iso, FALSE)>> \o Closing(ties), act[a].order.target)
        BY <1>0, <4>2, <4>3, AvoidsStarts
      <4> QED  BY <4>4, <4>5
    <3>3. CASE Rollback(p, a)
      BY <3>3 DEF Rollback
    <3> QED  BY <1>2, <3>1, <3>2, <3>3
  <2> DEFINE v == [pc |-> pc, act |-> a, undo |-> undo, todo |-> todo, done |-> << >>, found |-> closed]
  <2>2. /\ op' = [op EXCEPT ![p] = v] /\ disturbed' = [disturbed EXCEPT ![p] = FALSE]
        /\ UNCHANGED <<closed, act>>
    BY <2>1 DEF Begin
  <2>3. v.pc = pc /\ v.act = a /\ v.undo = undo /\ v.todo = todo /\ v.done = << >> /\ v.found = closed
    OBVIOUS
  <2> HIDE DEF v
  <2>4. op'[p] = v /\ \A x \in Procs : x # p => op'[x] = op[x] /\ disturbed'[x] = disturbed[x]
    BY <1>0, <2>2, OthersStay DEF Shape
  <2>5. CASE q = p
    <3>1. op'[p].pc \in {"resolve", "write"} /\ op'[p].done = << >> /\ op'[p].found = closed
      BY <2>1, <2>3, <2>4
    <3>2. Order(p)' = act[a].order
      BY <2>2, <2>3, <2>4 DEF Order
    <3>3. op'[p].pc = "write" /\ ~op'[p].undo => Avoids(closed, op[p].todo, Order(p).target)'
      <4>1. SUFFICES ASSUME op'[p].pc = "write", ~op'[p].undo PROVE Avoids(closed, op[p].todo, Order(p).target)'
        OBVIOUS
      <4>2. Avoids(closed, todo, act[a].order.target)
        BY <2>1, <2>3, <2>4, <4>1
      <4> QED  BY <2>2, <2>3, <2>4, <3>2, <4>2 DEF Avoids
    <3>4. AsFound(p, ToSet(op[p].done))'
      BY <2>2, <3>1 DEF AsFound
    <3> QED  BY <2>5, <3>1, <3>3, <3>4 DEF Planning
  <2>6. CASE q # p
    BY <1>0, <2>2, <2>4, <2>6, PlanningStays
  <2> QED  BY <2>5, <2>6
<1>3. ASSUME NEW p \in Procs,
             FlisrEvent(p) \/ Send(p) \/ SendFails(p) \/ EchoGoes(p) \/ EchoMismatch(p) \/ Finish(p),
             NEW q \in Procs
      PROVE  Planning(q)'
  <2>1. /\ Busy(p) /\ closed' = closed /\ disturbed' = disturbed
        /\ act' = act \/ \E status : act' = [act EXCEPT ![op[p].act].status = status]
        /\ \/ op' = [op EXCEPT ![p] = Free]
           \/ \E x \in {"end", "failed", "echo", "timeout"} : op' = [op EXCEPT ![p].pc = x]
    BY <1>3 DEF FlisrEvent, Send, SendFails, EchoGoes, EchoMismatch, Finish, Goto, Busy
  <2>2. /\ op'[p].pc \notin {"resolve", "write", "revert"}
        /\ \A x \in Procs : x # p => op'[x] = op[x]
    <3>1. CASE op' = [op EXCEPT ![p] = Free]
      BY <1>0, <3>1, SlotFreed
    <3>2. CASE \E x \in {"end", "failed", "echo", "timeout"} : op' = [op EXCEPT ![p].pc = x]
      <4>1. PICK x \in {"end", "failed", "echo", "timeout"} : op' = [op EXCEPT ![p].pc = x]
        BY <3>2
      <4> QED  BY <1>0, <4>1, PcMoves
    <3> QED  BY <2>1, <3>1, <3>2
  <2>3. op[q].act \in Actions => act'[op[q].act].order = act[op[q].act].order /\ act'[op[q].act].before = act[op[q].act].before
    <3>1. CASE act' = act
      BY <3>1
    <3>2. CASE \E status : act' = [act EXCEPT ![op[p].act].status = status]
      BY <1>0, <3>2 DEF Shape, IsAction
    <3> QED  BY <2>1, <3>1, <3>2
  <2>4. CASE q = p
    BY <2>2, <2>4, PlanningOver
  <2>5. CASE q # p
    BY <1>0, <1>a, <2>1, <2>2, <2>3, <2>5, PlanningStays
  <2> QED  BY <2>4, <2>5
<1>4. ASSUME NEW p \in Procs, Resolve(p), NEW q \in Procs PROVE Planning(q)'
  <2>1. /\ op[p].pc = "resolve" /\ op' = [op EXCEPT ![p].pc = "write", ![p].found = closed]
        /\ UNCHANGED <<closed, act, disturbed>>
    BY <1>4 DEF Resolve
  <2>2. /\ op'[p].pc = "write" /\ op'[p].act = op[p].act /\ op'[p].undo = op[p].undo /\ op'[p].done = op[p].done
        /\ op'[p].found = closed /\ \A x \in Procs : x # p => op'[x] = op[x]
    BY <1>0, <2>1 DEF Shape, IsSlot
  <2>3. CASE q = p
    <3>1. ~op[p].undo /\ Order(p).kind = "switch"
      BY <1>0, <2>1 DEF OrdersInv
    <3>2. op[p].done = << >> /\ Order(p)' = Order(p)
      BY <1>0, <2>1, <2>2, <3>1 DEF Planning, Order
    <3>3. AsFound(p, ToSet(op[p].done))'
      BY <2>1, <2>2 DEF AsFound
    <3> QED  BY <2>2, <2>3, <3>1, <3>2, <3>3 DEF Planning
  <2>4. CASE q # p
    BY <1>0, <2>1, <2>2, <2>4, PlanningStays
  <2> QED  BY <2>3, <2>4
<1>5. ASSUME NEW p \in Procs, WriteFails(p), NEW q \in Procs PROVE Planning(q)'
  <2> DEFINE v == [op[p] EXCEPT !.pc = "revert", !.todo = Abort(p)]
  <2>1. /\ op[p].pc = "write" /\ UNCHANGED <<closed, act, disturbed>>
        /\ op' = [op EXCEPT ![p] = IF op[p].undo THEN Free
                     ELSE IF Order(p).kind = "flisr" /\ Abort(p) # << >> THEN v
                     ELSE [op[p] EXCEPT !.pc = "failed"]]
    BY <1>0, <1>5 DEF WriteFails, Shape
  <2>2. PICK u : op' = [op EXCEPT ![p] = u]
    BY <2>1
  <2>3. CASE q = p
    <3>1. CASE op[p].undo
      <4>1. op' = [op EXCEPT ![p] = Free]
        BY <2>1, <3>1
      <4> QED  BY <1>0, <2>3, <4>1, SlotFreed, PlanningOver
    <3>2. CASE ~op[p].undo /\ op' = [op EXCEPT ![p] = v]
      BY <1>0, <2>1, <2>3, <3>2, PlanningFails
    <3>3. CASE op' = [op EXCEPT ![p] = [op[p] EXCEPT !.pc = "failed"]]
      <4>1. op'[p].pc = "failed"
        BY <1>0, <3>3 DEF Shape, IsSlot
      <4> QED  BY <2>3, <4>1, PlanningOver
    <3> HIDE DEF v
    <3> QED  BY <2>1, <3>1, <3>2, <3>3
  <2>4. CASE q # p
    <3>1. op'[q] = op[q]
      BY <1>0, <2>2, <2>4, OthersStay
    <3> QED  BY <1>0, <2>1, <3>1, PlanningStays
  <2> QED  BY <2>3, <2>4
<1>6. ASSUME NEW p \in Procs, Write(p) \/ Revert(p) \/ EchoFails(p), NEW q \in Procs PROVE Planning(q)'
  <2>1. Disturb(p) /\ act' = act
    BY <1>6 DEF Write, Revert, EchoFails
  <2>2. CASE q = p
    <3>1. CASE Write(p)
      BY <1>0, <2>2, <3>1, PlanningWrites
    <3>2. CASE Revert(p)
      BY <1>0, <2>2, <3>2, PlanningReverts
    <3>3. CASE EchoFails(p)
      <4>1. op'[p].pc = "failed"
        BY <1>0, <3>3, PcMoves DEF EchoFails, Goto
      <4> QED  BY <2>2, <4>1, PlanningOver
    <3> QED  BY <1>6, <3>1, <3>2, <3>3
  <2>3. CASE q # p
    <3>1. op'[q] = op[q]
      <4>1. \E v : op' = [op EXCEPT ![p] = v]
        BY <1>6 DEF Write, Revert, EchoFails, Goto
      <4> QED  BY <1>0, <2>3, <4>1, OthersStay
    <3>2. Busy(q) => disturbed'[q]
      BY <1>0, <2>1, <2>3, OthersAreTold
    <3> QED  BY <1>0, <2>1, <3>1, <3>2, PlanningStays
  <2> QED  BY <2>2, <2>3
<1>7. ASSUME \/ \E e \in Edges : SetSwitch(e)
             \/ \E n \in Nodes : OutageChanges(n)
             \/ DeviceMoves \/ CommandLost \/ UNCHANGED vars,
             NEW q \in Procs
      PROVE  Planning(q)'
  <2>1. /\ op' = op /\ act' = act
        /\ Disturb(None) \/ (closed' = closed /\ disturbed' = disturbed)
    BY <1>7 DEF SetSwitch, OutageChanges, DeviceMoves, CommandLost, vars
  <2>2. Disturb(None) => (Busy(q) => disturbed'[q])
    BY <1>0, OthersAreTold DEF SwitchAssumption
  <2> QED  BY <1>0, <2>1, <2>2, PlanningStays
<1>8. ASSUME NEW q \in Procs PROVE Planning(q)'
  BY <1>1, <1>2, <1>3, <1>4, <1>5, <1>6, <1>7, <1>8 DEF Next
<1> QED  BY <1>b, <1>8 DEF PlanInv

(* Every interleaving keeps the plans sound: the types of the state, the     *)
(* fault without supply up to the last step of a FLISR, and the way back.    *)
THEOREM PlanInvariance == Spec => []PlanInv
<1>1. Init => PlanInv
  BY SwitchAssumption, GridAssumption, PlanInit
<1>2. EchoInv /\ PlanInv /\ [Next]_vars => PlanInv'
  BY SwitchAssumption, GridAssumption, PlanStep
<1> QED
  BY <1>1, <1>2, EchoInvariance, PTL DEF Spec

(* Every state has its types, the plans of a FLISR and its way back included. *)
THEOREM TypeCorrect == Spec => []TypeOK
<1>1. EchoInv /\ PlanInv => TypeOK
  <2>1. SUFFICES ASSUME EchoInv, PlanInv PROVE TypeOK
    OBVIOUS
  <2>2. /\ field \in BOOLEAN /\ sent \in Seq(BOOLEAN) /\ drift \in BOOLEAN /\ disturbed \in [Procs -> BOOLEAN]
        /\ op = [p \in Procs |-> op[p]] /\ act = [a \in Actions |-> act[a]]
    BY <2>1 DEF EchoInv, OrdersInv, InterlockInv, Shape
  <2>3. act \in [Actions -> [status : {"ABSENT", "READY", "EXECUTED", "FAILED", "ROLLED_BACK"},
                             order : Orders \cup {None}, before : SUBSET Steps]]
    BY <2>1, <2>2 DEF PlanInv, TypeInv, ActionTyped
  <2>4. op \in [Procs -> [pc : {"idle", "resolve", "write", "send", "echo", "timeout", "revert", "event", "end", "failed"},
                          act : Actions \cup {None}, undo : BOOLEAN, todo : Seq(Steps), done : Seq(Edges),
                          found : SUBSET Edges]]
    BY <2>1, <2>2 DEF PlanInv, TypeInv, SlotTyped
  <2>5. closed \in SUBSET Edges /\ outages \in SUBSET Faulty /\ Len(sent) <= MaxSent /\ faults \in 0 .. MaxFaults
    BY <2>1 DEF PlanInv, TypeInv
  <2> QED  BY <2>2, <2>3, <2>4, <2>5 DEF TypeOK
<1> QED  BY <1>1, EchoInvariance, PlanInvariance, PTL

(* "confirm the breaker actually moved": when nothing is going on the model  *)
(* tells where the breaker is, and every state on the way has its types.     *)
THEOREM ModelAndFieldHolds == Spec => []ModelAndField
<1>1. TypeOK /\ FieldFollowsModel => ModelAndField
  BY DEF ModelAndField
<1> QED
  BY <1>1, TypeCorrect, FieldFollowsModelHolds, PTL

(* What changes the slot of a request at work is a step of that request.     *)
LEMMA WhoseStep ==
    ASSUME Shape, Next, NEW p \in Procs, Busy(p), op'[p] # op[p]
    PROVE  \/ Resolve(p) \/ Write(p) \/ WriteFails(p) \/ Revert(p) \/ FlisrEvent(p) \/ Send(p) \/ SendFails(p)
           \/ EchoGoes(p) \/ EchoMismatch(p) \/ EchoFails(p) \/ Finish(p)
<1>1. op' # op
  OBVIOUS
<1>2. \A q \in Procs, a \in Actions : q # p => ~(ExecuteSwitch(q, a) \/ ExecuteFlisr(q, a) \/ Rollback(q, a))
  <2>1. \A q \in Procs, a \in Actions : (ExecuteSwitch(q, a) \/ ExecuteFlisr(q, a) \/ Rollback(q, a)) =>
            \E v : op' = [op EXCEPT ![q] = v]
    BY DEF ExecuteSwitch, ExecuteFlisr, Rollback, Begin
  <2> QED  BY <2>1, OthersStay
<1>3. \A a \in Actions : ~(ExecuteSwitch(p, a) \/ ExecuteFlisr(p, a) \/ Rollback(p, a))
  BY DEF ExecuteSwitch, ExecuteFlisr, Rollback
<1>4. \A q \in Procs : q # p =>
         ~(Resolve(q) \/ Write(q) \/ WriteFails(q) \/ Revert(q) \/ FlisrEvent(q) \/ Send(q) \/ SendFails(q)
           \/ EchoGoes(q) \/ EchoMismatch(q) \/ EchoFails(q) \/ Finish(q))
  <2>1. ASSUME NEW q \in Procs,
               Resolve(q) \/ Write(q) \/ WriteFails(q) \/ Revert(q) \/ FlisrEvent(q) \/ Send(q) \/ SendFails(q)
               \/ EchoGoes(q) \/ EchoMismatch(q) \/ EchoFails(q) \/ Finish(q)
        PROVE  \E v : op' = [op EXCEPT ![q] = v]
    BY <2>1 DEF Resolve, Write, WriteFails, Revert, FlisrEvent, Send, SendFails, EchoGoes, EchoMismatch, EchoFails,
                Finish, Goto
  <2> QED  BY <2>1, OthersStay
<1>5. /\ \A a \in Actions, order \in Wanted : ~Submit(a, order)
      /\ \A e \in Edges : ~SetSwitch(e)
      /\ \A n \in Nodes : ~OutageChanges(n)
      /\ ~DeviceMoves /\ ~CommandLost
  BY <1>1 DEF Submit, SetSwitch, OutageChanges, DeviceMoves, CommandLost
<1> QED  BY <1>2, <1>3, <1>4, <1>5 DEF Next

(* "it refuses to re-energize the faulted node": no switch that an           *)
(* undisturbed FLISR moves brings the fault back, on any network.            *)
THEOREM FaultStaysOutAlways == Spec => FaultStaysOut
<1> DEFINE Held == \A p \in Procs :
          (Moves(p) /\ Executing(p, "flisr")) => Order(p).target \notin Gained
<1>1. EchoInv /\ PlanInv /\ [Next]_vars => [Held]_vars
  <2>1. SUFFICES ASSUME EchoInv, PlanInv, Next, NEW p \in Procs, Moves(p), Executing(p, "flisr")
                 PROVE  Order(p).target \notin Gained
    OBVIOUS
  <2>2. Shape /\ op[p].pc = "write" /\ ~op[p].undo /\ Order(p).kind = "flisr" /\ ~disturbed[p] /\ Busy(p)
    BY <2>1 DEF EchoInv, InterlockInv, Executing, Busy
  <2>3. closed' # closed /\ op'[p] # op[p]
    BY <2>1 DEF Moves
  <2>4. Write(p)
    <3>1. ~(Resolve(p) \/ Revert(p) \/ FlisrEvent(p) \/ Send(p) \/ SendFails(p) \/ EchoGoes(p) \/ EchoMismatch(p)
            \/ EchoFails(p) \/ Finish(p))
      BY <2>2 DEF Resolve, Revert, FlisrEvent, Send, SendFails, EchoGoes, EchoMismatch, EchoFails, Finish
    <3>2. ~WriteFails(p)
      BY <2>3 DEF WriteFails
    <3> QED  BY <2>1, <2>2, <2>3, <3>1, <3>2, WhoseStep
  <2> DEFINE s == Head(op[p].todo)
  <2>5. closed' = Set(closed, s.edge, s.close)
    BY <2>4 DEF Write
  <2>6. op[p].todo \in Seq(Steps) /\ op[p].todo # << >> /\ closed \in SUBSET Edges
    BY <2>1, <2>2 DEF PlanInv, TypeInv, SlotTyped
  <2>7. s = op[p].todo[1] /\ s \in Steps /\ Len(op[p].todo) >= 1 /\ Len(op[p].todo) \in Nat
    BY <2>6, TailIs
  <2>8. Avoids(closed, op[p].todo, Order(p).target)
    BY <2>1, <2>2 DEF PlanInv, Planning
  <2> HIDE DEF s
  <2>9. CASE s.close
    <3>1. s.close = TRUE
      BY <2>7, <2>9, StepIs
    <3>2. 1 \in 1 .. Len(op[p].todo)
      BY <2>7
    <3>3. Order(p).target \notin Energized[(closed \ Put(op[p].todo, 1, FALSE)) \cup Put(op[p].todo, 1, TRUE)]
      BY <2>7, <2>8, <2>9, <3>2 DEF Avoids
    <3>4. \A j \in 1 .. 1 : j = 1
      OBVIOUS
    <3>5. 1 \in 1 .. 1
      OBVIOUS
    <3>6. Put(op[p].todo, 1, FALSE) = {} /\ Put(op[p].todo, 1, TRUE) = {s.edge}
      BY <2>7, <3>1, <3>4, <3>5 DEF Put
    <3>7. closed' = (closed \ Put(op[p].todo, 1, FALSE)) \cup Put(op[p].todo, 1, TRUE)
      BY <2>5, <3>1, <3>6 DEF Set
    <3> QED  BY <3>3, <3>7 DEF Gained
  <2>10. CASE ~s.close
    <3>1. closed' \in SUBSET closed
      BY <2>5, <2>10 DEF Set
    <3>2. Energized[closed'] \subseteq Energized[closed]
      BY <2>6, <3>1, EnergizedGrows, GridAssumption
    <3> QED  BY <3>2 DEF Gained
  <2> QED  BY <2>9, <2>10
<1> QED  BY <1>1, EchoInvariance, PlanInvariance, PTL DEF Spec, FaultStaysOut

(* "any failure mid-sequence reverts every switch already moved": as long as *)
(* nobody else was at the network, and before_state is right about what the  *)
(* request moved, a FLISR that failed leaves every switch where it was.      *)
THEOREM AbortRestoresAlways == Spec => AbortRestores
<1> DEFINE Held == \A p \in Procs :
          (/\ op[p].pc \in {"write", "revert"} /\ op'[p].pc = "failed"
           /\ ~disturbed[p] /\ Foreseen(p)) => closed' = op[p].found
<1>1. EchoInv /\ PlanInv /\ [Next]_vars => [Held]_vars
  <2>1. SUFFICES ASSUME EchoInv, PlanInv, Next, NEW p \in Procs,
                        op[p].pc \in {"write", "revert"}, op'[p].pc = "failed", ~disturbed[p], Foreseen(p)
                 PROVE  closed' = op[p].found
    OBVIOUS
  <2>2. Shape /\ Busy(p) /\ op'[p] # op[p]
    BY <2>1 DEF EchoInv, InterlockInv, Busy
  <2>3. SlotTyped(op[p]) /\ closed \in SUBSET Edges /\ op[p].found \in SUBSET Edges /\ op[p].done \in Seq(Edges)
    BY <2>1 DEF PlanInv, TypeInv, SlotTyped
  <2>4. ToSet(op[p].done) = {op[p].done[i] : i \in 1 .. Len(op[p].done)}
    BY <2>3 DEF ToSet
  <2>5. CASE Write(p)
    <3>1. AfterWrites(p) \in {"end", "event", "send"} /\ op[p].pc = "write"
      BY <2>5 DEF AfterWrites, Write
    <3>2. op'[p].pc = IF Len(op[p].todo) = 1 THEN AfterWrites(p) ELSE op[p].pc
      BY <2>2, <2>5 DEF Write, Shape, IsSlot
    <3> QED  BY <2>1, <3>1, <3>2
  <2>6. CASE WriteFails(p)
    <3>1. op[p].pc = "write" /\ closed' = closed
      BY <2>6 DEF WriteFails
    <3>2. ~op[p].undo
      <4>1. op[p].undo => op' = [op EXCEPT ![p] = Free]
        BY <2>6 DEF WriteFails
      <4> QED  BY <2>1, <2>2, <4>1, SlotFreed
    <3>3. op[p].done = << >>
      <4>1. op[p].act \in Actions /\ act[op[p].act].status # "ABSENT"
        BY <2>2 DEF Shape
      <4>2. Order(p) \in Orders
        BY <2>1, <4>1 DEF EchoInv, OrdersInv, Order
      <4>3. CASE Order(p).kind = "switch"
        BY <2>1, <3>1, <3>2, <4>3 DEF PlanInv, Planning
      <4>4. CASE Order(p).kind = "flisr"
        <5>1. Abort(p) = << >>
          <6>1. SUFFICES ASSUME Abort(p) # << >> PROVE FALSE
            OBVIOUS
          <6>2. op' = [op EXCEPT ![p] = [op[p] EXCEPT !.pc = "revert", !.todo = Abort(p)]]
            BY <2>2, <2>6, <3>2, <4>4, <6>1 DEF WriteFails, Shape
          <6>3. op'[p].pc = "revert"
            BY <2>2, <6>2 DEF Shape, IsSlot
          <6> QED  BY <2>1, <6>3
        <5>2. StepsBack(act[op[p].act].before, op[p].done, Len(op[p].done), << >>)
          BY <2>3, <5>1, AbortIs
        <5>3. \A i \in 1 .. Len(op[p].done) : ~\E t \in act[op[p].act].before : t.edge = op[p].done[i]
          <6>1. 1 .. Len(<< >>) = {}
            OBVIOUS
          <6> QED  BY <5>2, <6>1 DEF StepsBack
        <5>4. \A e \in ToSet(op[p].done) : \E t \in act[op[p].act].before : t.edge = e
          BY <2>1 DEF Foreseen, Step
        <5>5. \A i \in 1 .. Len(op[p].done) : op[p].done[i] \in ToSet(op[p].done)
          BY <2>4
        <5>6. \A i \in 1 .. Len(op[p].done) : FALSE
          BY <5>3, <5>4, <5>5
        <5>7. Len(op[p].done) \in Nat /\ (Len(op[p].done) # 0 => 1 \in 1 .. Len(op[p].done))
          BY <2>3
        <5>8. Len(op[p].done) = 0
          BY <5>6, <5>7
        <5> QED  BY <2>3, <5>8
      <4> QED  BY <4>2, <4>3, <4>4 DEF Orders
    <3>4. ToSet(op[p].done) = {}
      BY <2>4, <3>3
    <3>5. AsFound(p, ToSet(op[p].done))
      BY <2>1, <3>1, <3>2 DEF PlanInv, Planning
    <3> QED  BY <2>3, <3>1, <3>4, <3>5 DEF AsFound
  <2>7. CASE Revert(p)
    <3> DEFINE todo == op[p].todo
               s == Head(todo)
    <3>1. op[p].pc = "revert" /\ closed' = Set(closed, s.edge, s.close)
      BY <2>7 DEF Revert
    <3>2. Len(todo) = 1
      <4>1. op'[p].pc = IF Len(op[p].todo) = 1 THEN "failed" ELSE op[p].pc
        BY <2>2, <2>7 DEF Revert, Shape, IsSlot
      <4> QED  BY <2>1, <3>1, <4>1
    <3>3. todo \in Seq(Steps) /\ todo # << >>
      BY <2>3, <3>1 DEF SlotTyped
    <3>4. s = todo[1]
      BY <3>3, TailIs
    <3>5. /\ \A j \in 1 .. Len(todo) : todo[j].close = (todo[j].edge \in op[p].found)
          /\ AsFound(p, {todo[j].edge : j \in 1 .. Len(todo)})
      BY <2>1, <3>1 DEF PlanInv, Planning
    <3> HIDE DEF todo, s
    <3>6. 1 .. Len(todo) = {1}
      BY <3>2
    <3>7. s.close = (s.edge \in op[p].found) /\ {todo[j].edge : j \in 1 .. Len(todo)} = {s.edge}
      BY <3>4, <3>5, <3>6
    <3>8. s.edge \in Edges
      BY <3>3, TailIs, StepIs DEF s
    <3>9. \A e \in Edges : e \in closed' <=> e \in op[p].found
      BY <3>1, <3>5, <3>7 DEF AsFound, Set
    <3> QED  BY <2>3, <3>1, <3>8, <3>9, SetTyped
  <2>8. ~(Resolve(p) \/ FlisrEvent(p) \/ Send(p) \/ SendFails(p) \/ EchoGoes(p) \/ EchoMismatch(p)
          \/ EchoFails(p) \/ Finish(p))
    BY <2>1 DEF Resolve, FlisrEvent, Send, SendFails, EchoGoes, EchoMismatch, EchoFails, Finish
  <2> QED  BY <2>1, <2>2, <2>5, <2>6, <2>7, <2>8, WhoseStep
<1> QED  BY <1>1, EchoInvariance, PlanInvariance, PTL DEF Spec, AbortRestores
=============================================================================
