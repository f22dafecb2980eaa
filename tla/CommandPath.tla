---------------------------- MODULE CommandPath ----------------------------
(***************************************************************************)
(* The command path of one device: POST /commands (fastapi/app.py) ->      *)
(* Kafka -> the command dispatcher (dispatcher/command_dispatcher.py) ->   *)
(* MQTT -> the edge runner of the device (drivers/diep_driver/runner.py)   *)
(* -> MQTT ack -> the dispatcher -> POST /commands/{id}/ack.               *)
(*                                                                         *)
(* The table `commands' is the record; Redis mirrors each status           *)
(* (command:<id>) and the last command of the device (state:<device>).     *)
(* Each SQL statement commits by itself and each Redis call is a step of   *)
(* its own, so the request that issues a command and the request that      *)
(* brings its ack interleave between any two of them.                      *)
(***************************************************************************)
EXTENDS Naturals, Sequences

CONSTANTS
    Commands,       \* command identities (uuid4), all for one device
    None,
    MaxFaults,      \* bound: faults of the environment in a behaviour
    MaxQueue        \* bound: messages the broker holds in each direction

ASSUME CommandPathAssumption ==
    /\ MaxFaults \in Nat
    /\ MaxQueue \in Nat
    /\ None \notin Commands

VARIABLES
    row,        \* commands.status of each command
    mirror,     \* Redis command:<id>, field status
    twin,       \* Redis state:<device>, fields last_command_id and _status
    issue,      \* the request that issues each command: its next step
    got,        \* the status its UPDATE returned
    log,        \* the Kafka topic diep.commands, partition of the device
    lingering,  \* sends that timed out and that the producer still retries
    next,       \* the dispatcher's position in log
    committed,  \* its committed offset
    cmds,       \* MQTT: commands on their way to the device
    acks,       \* MQTT: acks on their way to the dispatcher
    posts,      \* POST /commands/{id}/ack requests not yet handled
    acking,     \* ack requests past their UPDATE, and their next step
    executed,   \* what the device did, in order: a history variable
    been,       \* every status a row has held: a history variable
    faults      \* faults so far

api == <<row, mirror, twin, issue, got, been>>
kafka == <<log, lingering, next, committed>>
mqtt == <<cmds, acks>>
ackvars == <<posts, acking>>
vars == <<api, kafka, mqtt, ackvars, executed, faults>>

-----------------------------------------------------------------------------
Terminal == {"ACKED", "FAILED"}     \* COMPLETED is never written
Statuses == {"PENDING", "SENT"} \cup Terminal
Acks == [id : Commands, status : Terminal]

TypeOK ==
    /\ row \in [Commands -> Statuses \cup {"ABSENT"}]
    /\ mirror \in [Commands -> Statuses \cup {None}]
    /\ twin \in [id : Commands \cup {None}, status : Statuses \cup {None}]
    /\ issue \in [Commands -> {"new", "mirror PENDING", "produce", "stamp", "fail",
                               "mirror", "mirror FAILED", "twin", "done"}]
    /\ got \in [Commands -> Statuses \cup {None}]
    /\ log \in Seq(Commands)
    /\ lingering \subseteq Commands
    /\ next \in 1..(Len(log) + 1) /\ committed \in 1..next
    /\ cmds \in Seq(Commands)
    /\ acks \in Seq(Acks)
    /\ posts \subseteq Acks
    /\ acking \subseteq [ack : Acks, step : {"mirror", "twin"}]
    /\ executed \in Seq(Acks)
    /\ been \in [Commands -> SUBSET Statuses]
    /\ faults \in 0..MaxFaults

Init ==
    /\ row = [c \in Commands |-> "ABSENT"]
    /\ mirror = [c \in Commands |-> None]
    /\ twin = [id |-> None, status |-> None]
    /\ issue = [c \in Commands |-> "new"]
    /\ got = [c \in Commands |-> None]
    /\ log = << >>
    /\ lingering = {}
    /\ next = 1 /\ committed = 1
    /\ cmds = << >> /\ acks = << >>
    /\ posts = {} /\ acking = {}
    /\ executed = << >>
    /\ been = [c \in Commands |-> {}]
    /\ faults = 0

Fault == faults < MaxFaults /\ faults' = faults + 1

SetRow(c, status) ==
    /\ row' = [row EXCEPT ![c] = status]
    /\ been' = [been EXCEPT ![c] = @ \cup {status}]

\* _mirror_status: a RedisError is swallowed.
Mirrored(c, status) ==
    \/ mirror' = [mirror EXCEPT ![c] = status] /\ UNCHANGED faults
    \/ Fault /\ UNCHANGED mirror

\* _persist_state, likewise.
TwinSet(c, status) ==
    \/ twin' = [id |-> c, status |-> status] /\ UNCHANGED faults
    \/ Fault /\ UNCHANGED twin

Goto(c, step) == issue' = [issue EXCEPT ![c] = step]

-----------------------------------------------------------------------------
(* _dispatch_command.  A command that is refused (unknown device, command  *)
(* not allowed for its type) leaves no trace.                              *)

\* A slip: produced before it is persisted.
InsertAfterProduce(c) ==
    /\ issue[c] = "new"
    /\ Goto(c, "stamp")
    /\ log' = Append(log, c)
    /\ UNCHANGED <<row, been, mirror, twin, got, lingering, next, committed,
                   mqtt, ackvars, executed, faults>>

\* Persisted as PENDING before it is dispatched.
Insert(c) ==
    /\ issue[c] = "new"
    /\ Goto(c, "mirror PENDING")
    /\ SetRow(c, "PENDING")
    /\ got' = [got EXCEPT ![c] = "PENDING"]
    /\ UNCHANGED <<mirror, twin, kafka, mqtt, ackvars, executed, faults>>

\* future.get(timeout=10) returned: the brokers have the message.
Produce(c) ==
    /\ issue[c] = "produce"
    /\ Goto(c, "stamp")
    /\ log' = Append(log, c)
    /\ UNCHANGED <<row, been, mirror, twin, got, lingering, next, committed,
                   mqtt, ackvars, executed, faults>>

\* It raised KafkaError.  A timeout is one, and does not recall the message.
ProduceError(c, retried) ==
    /\ issue[c] = "produce"
    /\ Fault
    /\ Goto(c, "fail")
    /\ lingering' = IF retried THEN lingering \cup {c} ELSE lingering
    /\ UNCHANGED <<row, been, mirror, twin, got, log, next, committed, mqtt,
                   ackvars, executed>>

\* The producer's own retry succeeds after the caller gave up.
LateSend(c) ==
    /\ c \in lingering
    /\ lingering' = lingering \ {c}
    /\ log' = Append(log, c)
    /\ UNCHANGED <<api, next, committed, mqtt, ackvars, executed, faults>>

\* UPDATE ... SET status='FAILED', whatever the status is by now.
Fail(c) ==
    /\ issue[c] = "fail"
    /\ Goto(c, "mirror FAILED")
    /\ SetRow(c, "FAILED")
    /\ got' = [got EXCEPT ![c] = "FAILED"]
    /\ UNCHANGED <<mirror, twin, kafka, mqtt, ackvars, executed, faults>>

\* A slip: the plain status='SENT' that the CASE replaces.
PlainSent(status) == "SENT"

\* CASE WHEN status IN ('ACKED', 'FAILED', 'COMPLETED') THEN status ELSE 'SENT'
NotDowngraded(status) == IF status \in Terminal THEN status ELSE "SENT"

\* UPDATE ... RETURNING status: one atomic statement.
Stamp(c) ==
    /\ issue[c] = "stamp"
    /\ Goto(c, "mirror")
    /\ SetRow(c, NotDowngraded(row[c]))
    /\ got' = [got EXCEPT ![c] = NotDowngraded(row[c])]
    /\ UNCHANGED <<mirror, twin, kafka, mqtt, ackvars, executed, faults>>

\* The three calls of _mirror_status; a send that failed ends there.
MirrorIssue(c) ==
    /\ \/ issue[c] = "mirror PENDING" /\ Goto(c, "produce")
       \/ issue[c] = "mirror" /\ Goto(c, "twin")
       \/ issue[c] = "mirror FAILED" /\ Goto(c, "done")
    /\ Mirrored(c, got[c])
    /\ UNCHANGED <<row, been, twin, got, kafka, mqtt, ackvars, executed>>

TwinIssue(c) ==
    /\ issue[c] = "twin"
    /\ Goto(c, "done")
    /\ TwinSet(c, got[c])
    /\ UNCHANGED <<row, been, mirror, got, kafka, mqtt, ackvars, executed>>

\* The process that serves the request dies.
AbortIssue(c) ==
    /\ issue[c] \notin {"new", "done"}
    /\ Fault
    /\ Goto(c, "done")
    /\ UNCHANGED <<row, been, mirror, twin, got, kafka, mqtt, ackvars, executed>>

-----------------------------------------------------------------------------
(* The dispatcher: run polls Kafka and publishes each command; the paho    *)
(* thread receives acks and posts them, one by one.                        *)

\* A slip: the position is not advanced past the command.
PollAgain(published) ==
    /\ next <= Len(log)
    /\ published
    /\ Len(cmds) < MaxQueue
    /\ cmds' = Append(cmds, log[next])
    /\ UNCHANGED <<api, kafka, acks, ackvars, executed, faults>>

\* publish qos=1 queues the message; a publish that raises is logged only.
Poll(published) ==
    /\ next <= Len(log)
    /\ next' = next + 1
    /\ IF published
       THEN /\ Len(cmds) < MaxQueue
            /\ cmds' = Append(cmds, log[next])
            /\ UNCHANGED faults
       ELSE Fault /\ UNCHANGED cmds
    /\ UNCHANGED <<api, log, lingering, committed, acks, ackvars, executed>>

\* enable_auto_commit, from time to time.
Commit ==
    /\ committed # next
    /\ committed' = next
    /\ UNCHANGED <<api, log, lingering, next, mqtt, ackvars, executed, faults>>

\* It starts over from the committed offset.  The commands its client still
\* queued are lost, and so are the acks that come in the meantime: the
\* session is clean.  The ack it was posting may or may not have left.
RestartDispatcher(sent) ==
    /\ Fault
    /\ next' = committed
    /\ cmds' = SubSeq(cmds, 1, sent)
    /\ acks' = << >>
    /\ UNCHANGED <<api, log, lingering, committed, ackvars, executed>>

\* _post_ack_to_fastapi.  The paho thread does not wait longer than 5 s, but
\* the request may still be served after that.
PostAck ==
    /\ acks # << >>
    /\ acks' = Tail(acks)
    /\ posts' = posts \cup {Head(acks)}
    /\ UNCHANGED <<api, kafka, cmds, acking, executed, faults>>

\* A failure to post, or an answer other than 200, is logged only.
LosePost ==
    /\ acks # << >>
    /\ Fault
    /\ acks' = Tail(acks)
    /\ UNCHANGED <<api, kafka, cmds, ackvars, executed>>

-----------------------------------------------------------------------------
(* The device.                                                             *)

\* Runner._on_command: executed, then acked with what came of it.
Execute(status) ==
    LET ack == [id |-> Head(cmds), status |-> status] IN
    /\ cmds # << >> /\ Len(acks) < MaxQueue
    /\ cmds' = Tail(cmds)
    /\ acks' = Append(acks, ack)
    /\ executed' = Append(executed, ack)
    /\ UNCHANGED <<api, kafka, ackvars, faults>>

\* QoS 1 delivers a message again when its PUBACK was lost.
Redeliver ==
    \/ /\ cmds # << >> /\ Len(cmds) < MaxQueue
       /\ Fault
       /\ cmds' = <<Head(cmds)>> \o cmds
       /\ UNCHANGED <<api, kafka, acks, ackvars, executed>>
    \/ /\ acks # << >> /\ Len(acks) < MaxQueue
       /\ Fault
       /\ acks' = <<Head(acks)>> \o acks
       /\ UNCHANGED <<api, kafka, cmds, ackvars, executed>>

\* The device is not there to receive it.
LoseCommand ==
    /\ cmds # << >>
    /\ Fault
    /\ cmds' = Tail(cmds)
    /\ UNCHANGED <<api, kafka, acks, ackvars, executed>>

-----------------------------------------------------------------------------
(* ack_command.                                                            *)

\* A slip: an ack that comes before SENT is refused.
AckOnlySent(ack) ==
    /\ ack \in posts
    /\ posts' = posts \ {ack}
    /\ IF row[ack.id] # "SENT"
       THEN UNCHANGED <<row, been, acking>>
       ELSE /\ SetRow(ack.id, ack.status)
            /\ acking' = acking \cup {[ack |-> ack, step |-> "mirror"]}
    /\ UNCHANGED <<mirror, twin, issue, got, kafka, mqtt, executed, faults>>

\* UPDATE commands SET status, whatever it was; an unknown id gets a 404.
Ack(ack) ==
    /\ ack \in posts
    /\ posts' = posts \ {ack}
    /\ IF row[ack.id] = "ABSENT"
       THEN UNCHANGED <<row, been, acking>>
       ELSE /\ SetRow(ack.id, ack.status)
            /\ acking' = acking \cup {[ack |-> ack, step |-> "mirror"]}
    /\ UNCHANGED <<mirror, twin, issue, got, kafka, mqtt, executed, faults>>

MirrorAck(ack) ==
    /\ [ack |-> ack, step |-> "mirror"] \in acking
    /\ acking' = (acking \ {[ack |-> ack, step |-> "mirror"]})
                    \cup {[ack |-> ack, step |-> "twin"]}
    /\ Mirrored(ack.id, ack.status)
    /\ UNCHANGED <<row, been, twin, issue, got, kafka, mqtt, posts, executed>>

TwinAck(ack) ==
    /\ [ack |-> ack, step |-> "twin"] \in acking
    /\ acking' = acking \ {[ack |-> ack, step |-> "twin"]}
    /\ TwinSet(ack.id, ack.status)
    /\ UNCHANGED <<row, been, mirror, issue, got, kafka, mqtt, posts, executed>>

-----------------------------------------------------------------------------
IssueStep(c) == Produce(c) \/ Fail(c) \/ Stamp(c) \/ MirrorIssue(c) \/ TwinIssue(c)

AckStep == \E ack \in Acks : Ack(ack) \/ MirrorAck(ack) \/ TwinAck(ack)

Deliver == Poll(TRUE) \/ PostAck \/ (\E status \in Terminal : Execute(status))

Next ==
    \/ \E c \in Commands : \/ Insert(c) \/ IssueStep(c) \/ AbortIssue(c)
                           \/ LateSend(c)
                           \/ \E retried \in BOOLEAN : ProduceError(c, retried)
    \/ Deliver \/ Commit \/ AckStep
    \/ Poll(FALSE) \/ LosePost \/ Redeliver \/ LoseCommand
    \/ \E sent \in 0..Len(cmds) : RestartDispatcher(sent)

Spec == Init /\ [][Next]_vars

\* Requests that started, the dispatcher's threads, the brokers and the device
\* go on; nobody has to issue a command, and no fault has to happen.
FairSpec ==
    /\ Spec
    /\ \A c \in Commands : WF_vars(IssueStep(c))
    /\ \A ack \in Acks : /\ WF_vars(Ack(ack))
                         /\ WF_vars(MirrorAck(ack))
                         /\ WF_vars(TwinAck(ack))
    /\ WF_vars(Poll(TRUE)) /\ WF_vars(PostAck)
    /\ WF_vars(\E status \in Terminal : Execute(status))

-----------------------------------------------------------------------------
(* Properties.                                                             *)

\* "never downgrade an already-terminal status" (app.py:2145): the outcome the
\* device reported is not replaced by SENT, however late the dispatching
\* request comes to its UPDATE.
KeepsOutcomes ==
    \A c \in Commands : row[c] \in Terminal => row'[c] \in Terminal

\* An outcome that is in the table stays, whatever arrives late (app.py:2148, 2250).
NeverDowngrade == [][KeepsOutcomes]_vars

Executed(c, status) ==
    \E n \in 1..Len(executed) : executed[n] = [id |-> c, status |-> status]

\* A command is recorded as ACKED only when the device has carried it out, and
\* every ack under way tells of an execution.
AckedWasExecuted ==
    /\ \A c \in Commands : "ACKED" \in been[c] => Executed(c, "ACKED")
    /\ \A n \in 1..Len(acks) : Executed(acks[n].id, acks[n].status)

\* "Persist as PENDING (audit source of truth) before dispatch": no command
\* travels, and none is executed, without its row.
DispatchedIsRecorded ==
    /\ \A n \in 1..Len(log) : row[log[n]] # "ABSENT"
    /\ \A n \in 1..Len(executed) : row[executed[n].id] # "ABSENT"

\* Redis never runs ahead of the table: what the mirror and the twin show, the
\* row has been.
MirrorFollowsRow ==
    /\ \A c \in Commands : mirror[c] # None => mirror[c] \in been[c]
    /\ twin.id # None => twin.status \in been[twin.id]

(* What the table, the mirror and the acks say of a command has happened, in *)
(* the order row, log, device, ack, row, mirror (app.py:2065-2300).          *)
RecordsAreTrue == TypeOK /\ AckedWasExecuted /\ DispatchedIsRecorded /\ MirrorFollowsRow

\* Commands leave the device's partition one by one and in order: without a
\* fault the device executes a prefix of the log, each command once.
ExecutedInOrder ==
    faults = 0 =>
        /\ Len(executed) <= Len(log)
        /\ \A n \in 1..Len(executed) : executed[n].id = log[n]

\* No request is at work on c.
Settled(c) ==
    /\ issue[c] = "done"
    /\ \A m \in acking : m.ack.id # c

\* "RETURNING gives us the true resulting status to mirror" (app.py:2146): with
\* Redis up, once nobody works on a command its live status is its status.
MirrorIsTrue ==
    \A c \in Commands : (faults = 0 /\ Settled(c)) => mirror[c] = row[c]

\* Without a fault every command that was issued gets an outcome, and its row
\* keeps it.
OutcomeArrives ==
    \A c \in Commands :
        (row[c] = "PENDING") ~> (row[c] \in Terminal \/ faults > 0)
=============================================================================
