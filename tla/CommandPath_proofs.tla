-------------------------- MODULE CommandPath_proofs --------------------------
(***************************************************************************)
(* Proofs about CommandPath, for any set of commands, any number of faults *)
(* and queues of any length.                                               *)
(***************************************************************************)
EXTENDS CommandPath, SequenceTheorems, TLAPS

\* What a sequence holds.
Entries(s) == {s[n] : n \in 1..Len(s)}

\* Commands with a row.
Rows == {c \in Commands : row[c] # "ABSENT"}

-----------------------------------------------------------------------------
(* The inductive invariant.                                                *)

\* Every ack, wherever it is, and every row that is ACKED tell of an execution.
Told ==
    /\ Entries(acks) \subseteq Entries(executed)
    /\ posts \subseteq Entries(executed)
    /\ \A c \in Commands :
          "ACKED" \in been[c] => [id |-> c, status |-> "ACKED"] \in Entries(executed)

\* A command has a row from the first step of its request on, and nothing else
\* is in Kafka, on its way to the device, or executed by it.
Recorded ==
    /\ \A c \in Commands : issue[c] # "new" <=> c \in Rows
    /\ Entries(log) \subseteq Rows /\ lingering \subseteq Rows
    /\ Entries(cmds) \subseteq Rows
    /\ \A x \in Entries(executed) : x.id \in Rows

\* What is mirrored, or is about to be, the row has been.
Remembered ==
    /\ \A c \in Rows : row[c] \in been[c]
    /\ \A c \in Rows : got[c] \in been[c]
    /\ \A m \in acking : m.ack.status \in been[m.ack.id]

\* Without a fault, what the device did and what is on its way to it are what the
\* dispatcher has read of the log, in order.
InOrder ==
    faults = 0 =>
        /\ next = Len(executed) + Len(cmds) + 1
        /\ \A n \in 1..Len(executed) : executed[n].id = log[n]
        /\ \A n \in 1..Len(cmds) : cmds[n] = log[Len(executed) + n]

IInv ==
    /\ TypeOK
    /\ Told
    /\ Recorded
    /\ Remembered /\ MirrorFollowsRow
    /\ InOrder

-----------------------------------------------------------------------------
(* Sequences and what they hold.                                           *)

LEMMA EntriesAppend ==
    ASSUME NEW S, NEW s \in Seq(S), NEW x \in S
    PROVE  /\ Append(s, x) \in Seq(S)
           /\ Entries(Append(s, x)) = Entries(s) \cup {x}
<1> DEFINE t == Append(s, x)
<1>1. /\ t \in Seq(S) /\ Len(t) = Len(s) + 1 /\ Len(s) \in Nat
      /\ \A i \in 1..Len(s) : t[i] = s[i]
      /\ t[Len(s) + 1] = x
  BY AppendProperties, LenProperties
<1> HIDE DEF t
<1>2. 1..Len(t) = (1..Len(s)) \cup {Len(s) + 1}
  BY <1>1
<1>3. Entries(t) = Entries(s) \cup {x}
  BY <1>1, <1>2 DEF Entries
<1>4. QED
  BY <1>1, <1>3 DEF t

LEMMA EntriesHeadTail ==
    ASSUME NEW S, NEW s \in Seq(S), s # << >>
    PROVE  /\ Head(s) \in S /\ Head(s) \in Entries(s)
           /\ Tail(s) \in Seq(S)
           /\ Entries(Tail(s)) \subseteq Entries(s)
<1>1. /\ Tail(s) \in Seq(S) /\ Len(Tail(s)) = Len(s) - 1 /\ Len(s) \in Nat \ {0}
      /\ \A i \in 1..Len(Tail(s)) : Tail(s)[i] = s[i + 1]
  BY HeadTailProperties, LenProperties, EmptySeq
<1>2. Head(s) = s[1] /\ Head(s) \in S
  BY HeadTailProperties
<1>3. Head(s) \in Entries(s)
  BY <1>1, <1>2 DEF Entries
<1>4. ASSUME NEW i \in 1..Len(Tail(s))
      PROVE  Tail(s)[i] \in Entries(s)
  BY <1>1 DEF Entries
<1>5. Entries(Tail(s)) \subseteq Entries(s)
  BY <1>4 DEF Entries
<1>6. QED
  BY <1>1, <1>2, <1>3, <1>5

\* A message that is delivered again.
LEMMA EntriesRepeat ==
    ASSUME NEW S, NEW s \in Seq(S), s # << >>
    PROVE  /\ <<Head(s)>> \o s \in Seq(S)
           /\ Entries(<<Head(s)>> \o s) \subseteq Entries(s)
<1> DEFINE t == <<Head(s)>> \o s
<1>1. Head(s) \in S /\ Head(s) \in Entries(s)
  BY EntriesHeadTail
<1>2. /\ <<Head(s)>> \in Seq(S) /\ Len(<<Head(s)>>) = 1 /\ Len(s) \in Nat
      /\ <<Head(s)>>[1] = Head(s)
  BY <1>1, LenProperties
<1>3. /\ t \in Seq(S) /\ Len(t) = 1 + Len(s)
      /\ \A i \in 1..Len(t) : t[i] = IF i <= 1 THEN Head(s) ELSE s[i - 1]
  BY <1>2, ConcatProperties
<1> HIDE DEF t
<1>4. ASSUME NEW i \in 1..Len(t)
      PROVE  t[i] \in Entries(s)
  BY <1>1, <1>2, <1>3 DEF Entries
<1>5. QED
  BY <1>3, <1>4 DEF Entries, t

LEMMA EntriesSubSeq ==
    ASSUME NEW S, NEW s \in Seq(S), NEW n \in 0..Len(s)
    PROVE  /\ SubSeq(s, 1, n) \in Seq(S)
           /\ Entries(SubSeq(s, 1, n)) \subseteq Entries(s)
<1>1. Len(s) \in Nat /\ \A i \in 1..n : s[i] \in S
  BY LenProperties, ElementOfSeq
<1>2. /\ SubSeq(s, 1, n) \in Seq(S) /\ Len(SubSeq(s, 1, n)) = n
      /\ \A i \in 1..n : SubSeq(s, 1, n)[i] = s[i]
  BY <1>1, SubSeqProperties
<1>3. QED
  BY <1>1, <1>2 DEF Entries

LEMMA EntriesEmpty == Entries(<< >>) = {}
BY DEF Entries

LEMMA EntriesType ==
    ASSUME NEW S, NEW s \in Seq(S)
    PROVE  Entries(s) \subseteq S
BY ElementOfSeq DEF Entries

-----------------------------------------------------------------------------
(* The request that issues a command.                                      *)

LEMMA InitInv == Init => IInv
<1> SUFFICES ASSUME Init PROVE IInv
  OBVIOUS
<1>1. << >> \in Seq(Commands) /\ << >> \in Seq(Acks) /\ Len(<< >>) = 0
  BY EmptySeq
<1>2. TypeOK
  BY <1>1, CommandPathAssumption DEF Init, TypeOK, Statuses, Terminal
<1>3. Told
  BY EntriesEmpty DEF Init, Told
<1>4. Rows = {}
  BY DEF Init, Rows
<1>5. Recorded
  BY <1>4, EntriesEmpty DEF Init, Recorded
<1>6. Remembered /\ MirrorFollowsRow
  BY <1>4 DEF Init, Remembered, MirrorFollowsRow
<1>7. InOrder
  BY <1>1 DEF Init, InOrder
<1>8. QED
  BY <1>2, <1>3, <1>5, <1>6, <1>7 DEF IInv

\* A row is given a status other than ABSENT, which is remembered.
LEMMA SetRowRemembers ==
    ASSUME TypeOK, NEW c \in Commands, NEW status \in Statuses, SetRow(c, status)
    PROVE  /\ row' \in [Commands -> Statuses \cup {"ABSENT"}]
           /\ been' \in [Commands -> SUBSET Statuses]
           /\ Rows' = Rows \cup {c}
           /\ row'[c] = status /\ status \in been'[c]
           /\ \A d \in Commands \ {c} : row'[d] = row[d] /\ been'[d] = been[d]
           /\ \A d \in Commands : been[d] \subseteq been'[d]
           /\ \A d \in Commands : \A x \in been'[d] : x \in been[d] \/ (d = c /\ x = status)
<1>1. row' = [row EXCEPT ![c] = status] /\ been' = [been EXCEPT ![c] = been[c] \cup {status}]
  BY DEF SetRow, TypeOK
<1>2. row \in [Commands -> Statuses \cup {"ABSENT"}] /\ been \in [Commands -> SUBSET Statuses]
  BY DEF TypeOK
<1>3. status # "ABSENT"
  BY DEF Statuses, Terminal
<1>4. /\ row' \in [Commands -> Statuses \cup {"ABSENT"}] /\ row'[c] = status
      /\ \A d \in Commands \ {c} : row'[d] = row[d]
  BY <1>1, <1>2
<1>5. /\ been' \in [Commands -> SUBSET Statuses] /\ been'[c] = been[c] \cup {status}
      /\ \A d \in Commands \ {c} : been'[d] = been[d]
  BY <1>1, <1>2
<1>6. Rows' = Rows \cup {c}
  BY <1>3, <1>4 DEF Rows
<1>7. ASSUME NEW d \in Commands
      PROVE  been[d] \subseteq been'[d] /\ \A x \in been'[d] : x \in been[d] \/ (d = c /\ x = status)
  BY <1>5
<1>8. status \in been'[c]
  BY <1>5
<1>9. QED
  BY <1>4, <1>5, <1>6, <1>7, <1>8

LEMMA AckTypes ==
    ASSUME TypeOK
    PROVE  /\ \A x \in Acks : x.id \in Commands /\ x.status \in Terminal
                              /\ x = [id |-> x.id, status |-> x.status]
           /\ \A m \in acking : /\ m.ack \in Acks /\ m.ack.id \in Commands
                                /\ m.ack.status \in Terminal
           /\ Terminal \subseteq Statuses
<1>1. ASSUME NEW x \in Acks
      PROVE  /\ x.id \in Commands /\ x.status \in Terminal
             /\ x = [id |-> x.id, status |-> x.status]
  BY DEF Acks
<1>2. \A m \in acking : m.ack \in Acks
  BY DEF TypeOK
<1>3. QED
  BY <1>1, <1>2 DEF Statuses

LEMMA FaultType ==
    ASSUME TypeOK, faults' = faults \/ Fault
    PROVE  faults' \in 0..MaxFaults /\ (Fault => faults' # 0)
<1>1. faults \in 0..MaxFaults /\ MaxFaults \in Nat
  BY CommandPathAssumption DEF TypeOK
<1>2. CASE Fault
  <2>1. faults < MaxFaults /\ faults' = faults + 1
    BY <1>2 DEF Fault
  <2>2. QED
    BY <1>1, <2>1
<1>3. CASE faults' = faults /\ ~Fault
  BY <1>1, <1>3
<1>4. QED
  BY <1>2, <1>3

\* Nothing was read, executed or put into the log; or there was a fault.
LEMMA InOrderKept ==
    ASSUME TypeOK, InOrder, UNCHANGED <<next, executed, cmds, log>> \/ Fault,
           faults' = faults \/ Fault
    PROVE  InOrder'
<1>1. CASE Fault
  BY <1>1, FaultType DEF InOrder
<1>2. CASE UNCHANGED <<next, executed, cmds, log, faults>>
  BY <1>2 DEF InOrder
<1>3. QED
  BY <1>1, <1>2

\* One of the three statements by which the request writes the row.
LEMMA WriteInv ==
    ASSUME IInv, NEW c \in Commands, NEW status \in Statuses,
           NEW step \in {"mirror PENDING", "mirror FAILED", "mirror"},
           Goto(c, step), SetRow(c, status), got' = [got EXCEPT ![c] = status],
           status = "ACKED" => row[c] = "ACKED",
           UNCHANGED <<mirror, twin, kafka, mqtt, ackvars, executed, faults>>
    PROVE  IInv'
<1> USE DEF IInv, kafka, mqtt, ackvars
<1>1. /\ row' \in [Commands -> Statuses \cup {"ABSENT"}]
      /\ been' \in [Commands -> SUBSET Statuses]
      /\ Rows' = Rows \cup {c}
      /\ row'[c] = status /\ status \in been'[c]
      /\ \A d \in Commands \ {c} : row'[d] = row[d] /\ been'[d] = been[d]
      /\ \A d \in Commands : been[d] \subseteq been'[d]
      /\ \A d \in Commands : \A x \in been'[d] : x \in been[d] \/ (d = c /\ x = status)
  BY SetRowRemembers
<1>2. /\ issue' = [issue EXCEPT ![c] = step]
      /\ got \in [Commands -> Statuses \cup {None}]
      /\ issue' \in [Commands -> {"new", "mirror PENDING", "produce", "stamp", "fail",
                                  "mirror", "mirror FAILED", "twin", "done"}]
  BY DEF TypeOK, Goto
<1>3. /\ got' \in [Commands -> Statuses \cup {None}] /\ got'[c] = status
      /\ \A d \in Commands \ {c} : got'[d] = got[d]
  BY <1>2
<1>4. TypeOK'
  BY <1>1, <1>2, <1>3 DEF TypeOK
<1>5. Told'
  <2>1. ASSUME NEW d \in Commands, "ACKED" \in been'[d]
        PROVE  "ACKED" \in been[d]
    <3>1. CASE status = "ACKED" /\ d = c
      <4>1. c \in Rows /\ row[c] = "ACKED"
        BY <3>1 DEF Rows
      <4>2. QED
        BY <3>1, <4>1 DEF Remembered
    <3>2. QED
      BY <1>1, <2>1, <3>1
  <2>2. QED
    BY <2>1 DEF Told
<1>6. Recorded'
  BY <1>1, <1>2 DEF Recorded, TypeOK
<1>7. Remembered'
  <2>1. \A d \in Rows : d \in Commands /\ row[d] \in been[d] /\ got[d] \in been[d]
    BY DEF Remembered, Rows
  <2>2. \A d \in Rows' : row'[d] \in been'[d] /\ got'[d] \in been'[d]
    BY <1>1, <1>3, <2>1
  <2>3. \A m \in acking' : m.ack.status \in been'[m.ack.id]
    BY <1>1, AckTypes DEF Remembered
  <2>4. QED
    BY <2>2, <2>3 DEF Remembered
<1>8. MirrorFollowsRow'
  BY <1>1 DEF MirrorFollowsRow, TypeOK
<1>9. InOrder'
  BY InOrderKept
<1>10. QED
  BY <1>4, <1>5, <1>6, <1>7, <1>8, <1>9

LEMMA InsertInv == ASSUME IInv, NEW c \in Commands, Insert(c) PROVE IInv'
<1>1. row[c] # "ACKED" /\ "PENDING" \in Statuses
  BY DEF IInv, Recorded, Insert, Rows, Statuses
<1>2. QED
  BY <1>1, WriteInv DEF Insert

LEMMA FailInv == ASSUME IInv, NEW c \in Commands, Fail(c) PROVE IInv'
<1>1. "FAILED" \in Statuses
  BY DEF Statuses, Terminal
<1>2. QED
  BY <1>1, WriteInv DEF Fail

LEMMA StampInv == ASSUME IInv, NEW c \in Commands, Stamp(c) PROVE IInv'
<1>1. /\ NotDowngraded(row[c]) \in Statuses
      /\ NotDowngraded(row[c]) = "ACKED" => row[c] = "ACKED"
  BY DEF NotDowngraded, Statuses, Terminal
<1>2. QED
  BY <1>1, WriteInv DEF Stamp

\* The command is in the log once more, behind all that was there.
LEMMA LogGrows ==
    ASSUME IInv, NEW c \in Rows, log' = Append(log, c),
           UNCHANGED <<next, committed, cmds, executed, faults>>
    PROVE  /\ log' \in Seq(Commands) /\ Entries(log') = Entries(log) \cup {c}
           /\ next' \in 1..(Len(log') + 1) /\ committed' \in 1..next'
           /\ InOrder'
<1> USE DEF IInv
<1>1. c \in Commands /\ log \in Seq(Commands)
  BY DEF TypeOK, Rows
<1>2. /\ log' \in Seq(Commands) /\ Len(log') = Len(log) + 1 /\ Len(log) \in Nat
      /\ \A i \in 1..Len(log) : log'[i] = log[i]
      /\ Entries(log') = Entries(log) \cup {c}
  BY <1>1, AppendProperties, EntriesAppend, LenProperties
<1>3. next \in 1..(Len(log) + 1) /\ committed \in 1..next
  BY DEF TypeOK
<1>4. next' \in 1..(Len(log') + 1) /\ committed' \in 1..next'
  BY <1>2, <1>3
<1>5. Len(executed) \in Nat /\ Len(cmds) \in Nat
  BY LenProperties DEF TypeOK
<1>6. InOrder'
  <2>1. SUFFICES ASSUME faults = 0
                 PROVE  /\ next = Len(executed) + Len(cmds) + 1
                        /\ \A n \in 1..Len(executed) : executed[n].id = log'[n]
                        /\ \A n \in 1..Len(cmds) : cmds[n] = log'[Len(executed) + n]
    BY DEF InOrder
  <2>2. next = Len(executed) + Len(cmds) + 1
    BY <2>1 DEF InOrder
  <2>3. ASSUME NEW n \in 1..Len(executed)
        PROVE  executed[n].id = log'[n]
    BY <1>2, <1>3, <1>5, <2>1, <2>2 DEF InOrder
  <2>4. ASSUME NEW n \in 1..Len(cmds)
        PROVE  cmds[n] = log'[Len(executed) + n]
    <3>1. Len(executed) + n \in 1..Len(log)
      BY <1>2, <1>3, <1>5, <2>2
    <3>2. QED
      BY <1>2, <2>1, <3>1 DEF InOrder
  <2>5. QED
    BY <2>2, <2>3, <2>4
<1>7. QED
  BY <1>2, <1>4, <1>6

LEMMA ProduceInv == ASSUME IInv, NEW c \in Commands, Produce(c) PROVE IInv'
<1> USE DEF IInv, Produce, mqtt, ackvars
<1>1. c \in Rows
  BY DEF Recorded
<1>2. /\ log' \in Seq(Commands) /\ Entries(log') = Entries(log) \cup {c}
      /\ next' \in 1..(Len(log') + 1) /\ committed' \in 1..next'
      /\ InOrder'
  BY <1>1, LogGrows
<1>3. TypeOK'
  BY <1>2 DEF TypeOK, Goto
<1>4. Told'
  BY DEF Told
<1>5. Recorded'
  BY <1>1, <1>2 DEF Recorded, Goto, TypeOK, Rows
<1>6. Remembered' /\ MirrorFollowsRow'
  BY DEF Remembered, MirrorFollowsRow, Rows
<1>7. QED
  BY <1>2, <1>3, <1>4, <1>5, <1>6

LEMMA LateSendInv == ASSUME IInv, NEW c \in Commands, LateSend(c) PROVE IInv'
<1> USE DEF IInv, LateSend, api, mqtt, ackvars
<1>1. c \in Rows
  BY DEF Recorded
<1>2. /\ log' \in Seq(Commands) /\ Entries(log') = Entries(log) \cup {c}
      /\ next' \in 1..(Len(log') + 1) /\ committed' \in 1..next'
      /\ InOrder'
  BY <1>1, LogGrows
<1>3. TypeOK'
  BY <1>2 DEF TypeOK
<1>4. Told'
  BY DEF Told
<1>5. Recorded'
  BY <1>1, <1>2 DEF Recorded, TypeOK, Rows
<1>6. Remembered' /\ MirrorFollowsRow'
  BY DEF Remembered, MirrorFollowsRow, Rows
<1>7. QED
  BY <1>2, <1>3, <1>4, <1>5, <1>6

LEMMA ProduceErrorInv ==
    ASSUME IInv, NEW c \in Commands, NEW retried \in BOOLEAN, ProduceError(c, retried)
    PROVE  IInv'
<1> USE DEF IInv, ProduceError, mqtt, ackvars
<1>1. faults' \in 0..MaxFaults
  BY FaultType
<1>2. TypeOK'
  BY <1>1 DEF TypeOK, Goto
<1>3. Told'
  BY DEF Told
<1>4. Recorded'
  BY DEF Recorded, Goto, TypeOK, Rows
<1>5. Remembered' /\ MirrorFollowsRow'
  BY DEF Remembered, MirrorFollowsRow, Rows
<1>6. InOrder'
  BY InOrderKept
<1>7. QED
  BY <1>2, <1>3, <1>4, <1>5, <1>6

LEMMA MirrorIssueInv == ASSUME IInv, NEW c \in Commands, MirrorIssue(c) PROVE IInv'
<1> USE DEF IInv, MirrorIssue, kafka, mqtt, ackvars
<1>1. c \in Rows /\ got[c] \in been[c] /\ got[c] \in Statuses
  BY DEF Recorded, Remembered, TypeOK
<1>2. faults' \in 0..MaxFaults /\ (faults' = faults \/ Fault)
  BY FaultType DEF Mirrored
<1>3. \/ mirror' = mirror
      \/ mirror' = [mirror EXCEPT ![c] = got[c]]
  BY DEF Mirrored
<1>4. TypeOK'
  BY <1>1, <1>2, <1>3 DEF TypeOK, Goto
<1>5. Told'
  BY DEF Told
<1>6. Recorded'
  BY <1>1 DEF Recorded, Goto, TypeOK, Rows
<1>7. Remembered'
  BY DEF Remembered, Rows
<1>8. MirrorFollowsRow'
  BY <1>1, <1>3 DEF MirrorFollowsRow, TypeOK
<1>9. InOrder'
  BY <1>2, InOrderKept
<1>10. QED
  BY <1>4, <1>5, <1>6, <1>7, <1>8, <1>9

LEMMA TwinIssueInv == ASSUME IInv, NEW c \in Commands, TwinIssue(c) PROVE IInv'
<1> USE DEF IInv, TwinIssue, kafka, mqtt, ackvars
<1>1. c \in Rows /\ got[c] \in been[c] /\ got[c] \in Statuses
  BY DEF Recorded, Remembered, TypeOK
<1>2. faults' \in 0..MaxFaults /\ (faults' = faults \/ Fault)
  BY FaultType DEF TwinSet
<1>3. \/ twin' = twin
      \/ twin' = [id |-> c, status |-> got[c]]
  BY DEF TwinSet
<1>4. TypeOK'
  <2>1. twin' \in [id : Commands \cup {None}, status : Statuses \cup {None}]
    <3>1. CASE twin' = twin
      BY <3>1 DEF TypeOK
    <3>2. CASE twin' = [id |-> c, status |-> got[c]]
      BY <1>1, <3>2
    <3>3. QED
      BY <1>3, <3>1, <3>2
  <2>2. QED
    BY <1>2, <2>1 DEF TypeOK, Goto
<1>5. Told'
  BY DEF Told
<1>6. Recorded'
  BY <1>1 DEF Recorded, Goto, TypeOK, Rows
<1>7. Remembered'
  BY DEF Remembered, Rows
<1>8. MirrorFollowsRow'
  <2>1. twin'.id # None => twin'.status \in been[twin'.id]
    BY <1>1, <1>3 DEF MirrorFollowsRow
  <2>2. QED
    BY <2>1 DEF MirrorFollowsRow
<1>9. InOrder'
  BY <1>2, InOrderKept
<1>10. QED
  BY <1>4, <1>5, <1>6, <1>7, <1>8, <1>9

LEMMA AbortIssueInv == ASSUME IInv, NEW c \in Commands, AbortIssue(c) PROVE IInv'
<1> USE DEF IInv, AbortIssue, kafka, mqtt, ackvars
<1>1. faults' \in 0..MaxFaults
  BY FaultType
<1>2. TypeOK'
  BY <1>1 DEF TypeOK, Goto
<1>3. Told'
  BY DEF Told
<1>4. Recorded'
  BY DEF Recorded, Goto, TypeOK, Rows
<1>5. Remembered' /\ MirrorFollowsRow'
  BY DEF Remembered, MirrorFollowsRow, Rows
<1>6. InOrder'
  BY InOrderKept
<1>7. QED
  BY <1>2, <1>3, <1>4, <1>5, <1>6

-----------------------------------------------------------------------------
(* The dispatcher and the device.                                          *)

LEMMA QueueTypes ==
    ASSUME TypeOK
    PROVE  /\ log \in Seq(Commands) /\ cmds \in Seq(Commands)
           /\ acks \in Seq(Acks) /\ executed \in Seq(Acks)
           /\ {Len(log), Len(cmds), Len(acks), Len(executed)} \subseteq Nat
           /\ next \in 1..(Len(log) + 1) /\ committed \in 1..next
<1>1. /\ log \in Seq(Commands) /\ cmds \in Seq(Commands)
      /\ acks \in Seq(Acks) /\ executed \in Seq(Acks)
      /\ next \in 1..(Len(log) + 1) /\ committed \in 1..next
  BY DEF TypeOK
<1>2. Len(log) \in Nat /\ Len(cmds) \in Nat
  BY <1>1, LenProperties
<1>3. Len(acks) \in Nat /\ Len(executed) \in Nat
  BY <1>1, LenProperties
<1>4. QED
  BY <1>1, <1>2, <1>3

LEMMA PollInv ==
    ASSUME IInv, NEW published \in BOOLEAN, Poll(published)
    PROVE  IInv'
<1> USE DEF IInv, Poll, api, ackvars
<1>1. /\ next \in Nat \ {0} /\ next <= Len(log) /\ Len(log) \in Nat
      /\ committed \in 1..next /\ log[next] \in Commands /\ log[next] \in Entries(log)
      /\ cmds \in Seq(Commands) /\ Len(cmds) \in Nat /\ Len(executed) \in Nat
  <2>1. next \in 1..Len(log)
    BY QueueTypes
  <2>2. log[next] \in Commands
    BY <2>1, QueueTypes, ElementOfSeq
  <2>3. QED
    BY <2>1, <2>2, QueueTypes DEF Entries
<1>2. /\ cmds' \in Seq(Commands)
      /\ Entries(cmds') \subseteq Entries(cmds) \cup {log[next]}
      /\ faults' = faults \/ Fault
  <2>1. CASE published
    <3>1. cmds' = Append(cmds, log[next])
      BY <2>1
    <3>2. QED
      BY <1>1, <2>1, <3>1, EntriesAppend
  <2>2. CASE ~published
    BY <1>1, <2>2
  <2>3. QED
    BY <2>1, <2>2
<1>3. TypeOK'
  <2>1. next' \in 1..(Len(log') + 1) /\ committed' \in 1..next'
    BY <1>1
  <2>2. QED
    BY <1>2, <2>1, FaultType DEF TypeOK
<1>4. Told'
  BY DEF Told
<1>5. Recorded'
  BY <1>1, <1>2 DEF Recorded, Rows
<1>6. Remembered' /\ MirrorFollowsRow'
  BY DEF Remembered, MirrorFollowsRow, Rows
<1>7. InOrder'
  <2>1. CASE published
    <3>1. /\ Len(cmds') = Len(cmds) + 1 /\ cmds'[Len(cmds) + 1] = log[next]
          /\ \A n \in 1..Len(cmds) : cmds'[n] = cmds[n]
      BY <1>1, <2>1, AppendProperties
    <3>2. SUFFICES ASSUME faults = 0
                   PROVE  /\ next + 1 = Len(executed) + Len(cmds') + 1
                          /\ \A n \in 1..Len(executed) : executed[n].id = log[n]
                          /\ \A n \in 1..Len(cmds') : cmds'[n] = log[Len(executed) + n]
      BY <2>1 DEF InOrder
    <3>3. next = Len(executed) + Len(cmds) + 1
      BY <3>2 DEF InOrder
    <3>4. ASSUME NEW n \in 1..Len(cmds')
          PROVE  cmds'[n] = log[Len(executed) + n]
      <4>1. CASE n \in 1..Len(cmds)
        BY <3>1, <3>2, <4>1 DEF InOrder
      <4>2. CASE n = Len(cmds) + 1
        BY <1>1, <3>1, <3>3, <4>2
      <4>3. QED
        BY <1>1, <3>1, <4>1, <4>2
    <3>5. QED
      BY <1>1, <3>1, <3>2, <3>3, <3>4 DEF InOrder
  <2>2. CASE ~published
    BY <2>2, InOrderKept
  <2>3. QED
    BY <2>1, <2>2
<1>8. QED
  BY <1>3, <1>4, <1>5, <1>6, <1>7

LEMMA CommitInv == ASSUME IInv, Commit PROVE IInv'
<1> USE DEF IInv, Commit, api, mqtt, ackvars
<1>1. TypeOK'
  <2>1. committed' \in 1..next'
    BY QueueTypes
  <2>2. QED
    BY <2>1 DEF TypeOK
<1>2. Told' /\ Recorded' /\ InOrder'
  BY DEF Told, Recorded, Rows, InOrder
<1>3. Remembered' /\ MirrorFollowsRow'
  BY DEF Remembered, MirrorFollowsRow, Rows
<1>4. QED
  BY <1>1, <1>2, <1>3

LEMMA RestartDispatcherInv ==
    ASSUME IInv, NEW sent \in 0..Len(cmds), RestartDispatcher(sent)
    PROVE  IInv'
<1> USE DEF IInv, RestartDispatcher, api, ackvars
<1>1. /\ cmds' \in Seq(Commands) /\ Entries(cmds') \subseteq Entries(cmds)
      /\ acks' \in Seq(Acks) /\ Entries(acks') = {}
  BY EntriesSubSeq, EntriesEmpty, EmptySeq DEF TypeOK
<1>2. next' \in 1..(Len(log') + 1) /\ committed' \in 1..next'
  BY QueueTypes
<1>3. TypeOK'
  BY <1>1, <1>2, FaultType DEF TypeOK
<1>4. Told' /\ Recorded'
  BY <1>1 DEF Told, Recorded, Rows
<1>5. Remembered' /\ MirrorFollowsRow'
  BY DEF Remembered, MirrorFollowsRow, Rows
<1>6. InOrder'
  BY InOrderKept
<1>7. QED
  BY <1>3, <1>4, <1>5, <1>6

LEMMA PostAckInv == ASSUME IInv, PostAck \/ LosePost PROVE IInv'
<1> USE DEF IInv, api, kafka, ackvars
<1>1. /\ acks' \in Seq(Acks) /\ Entries(acks') \subseteq Entries(acks)
      /\ Head(acks) \in Acks /\ Head(acks) \in Entries(acks)
  <2>1. acks # << >> /\ acks' = Tail(acks) /\ acks \in Seq(Acks)
    BY QueueTypes DEF PostAck, LosePost
  <2>2. QED
    BY <2>1, EntriesHeadTail
<1>2. /\ posts' \subseteq posts \cup {Head(acks)}
      /\ faults' = faults \/ Fault
      /\ UNCHANGED <<api, kafka, cmds, acking, executed>>
  BY DEF PostAck, LosePost
<1>3. TypeOK'
  BY <1>1, <1>2, FaultType DEF TypeOK
<1>4. Told' /\ Recorded'
  BY <1>1, <1>2 DEF Told, Recorded, Rows
<1>5. Remembered' /\ MirrorFollowsRow'
  BY <1>2 DEF Remembered, MirrorFollowsRow, Rows
<1>6. InOrder'
  BY <1>2, InOrderKept
<1>7. QED
  BY <1>3, <1>4, <1>5, <1>6

LEMMA ExecuteInv ==
    ASSUME IInv, NEW status \in Terminal, Execute(status)
    PROVE  IInv'
<1> DEFINE ack == [id |-> Head(cmds), status |-> status]
<1> USE DEF IInv, Execute, api, kafka, ackvars
<1>1. /\ cmds \in Seq(Commands) /\ acks \in Seq(Acks) /\ executed \in Seq(Acks)
      /\ Len(cmds) \in Nat /\ Len(executed) \in Nat
  BY LenProperties DEF TypeOK
<1>2. /\ Head(cmds) \in Commands /\ Head(cmds) \in Entries(cmds) /\ ack \in Acks
      /\ cmds' \in Seq(Commands) /\ Entries(cmds') \subseteq Entries(cmds)
  BY <1>1, EntriesHeadTail DEF Acks
<1>3. /\ acks' \in Seq(Acks) /\ Entries(acks') = Entries(acks) \cup {ack}
      /\ executed' \in Seq(Acks) /\ Entries(executed') = Entries(executed) \cup {ack}
  BY <1>1, <1>2, EntriesAppend
<1>4. TypeOK'
  BY <1>2, <1>3 DEF TypeOK
<1>5. Told' /\ Recorded'
  <2>1. Told'
    BY <1>3 DEF Told
  <2>2. \A x \in Entries(executed') : x.id \in Rows
    BY <1>2, <1>3 DEF Recorded
  <2>3. QED
    BY <1>2, <2>1, <2>2 DEF Recorded, Rows
<1>6. Remembered' /\ MirrorFollowsRow'
  BY DEF Remembered, MirrorFollowsRow, Rows
<1>7. InOrder'
  <2>1. /\ Len(cmds') = Len(cmds) - 1 /\ Len(cmds) >= 1 /\ Head(cmds) = cmds[1]
        /\ \A n \in 1..Len(cmds') : cmds'[n] = cmds[n + 1]
    BY <1>1, HeadTailProperties, EmptySeq
  <2>2. /\ Len(executed') = Len(executed) + 1
        /\ executed'[Len(executed) + 1] = ack
        /\ \A n \in 1..Len(executed) : executed'[n] = executed[n]
    BY <1>1, <1>2, AppendProperties
  <2>3. SUFFICES ASSUME faults = 0
                 PROVE  /\ next = Len(executed') + Len(cmds') + 1
                        /\ \A n \in 1..Len(executed') : executed'[n].id = log[n]
                        /\ \A n \in 1..Len(cmds') : cmds'[n] = log[Len(executed') + n]
    BY DEF InOrder
  <2>4. /\ next = Len(executed) + Len(cmds) + 1
        /\ \A n \in 1..Len(executed) : executed[n].id = log[n]
        /\ \A n \in 1..Len(cmds) : cmds[n] = log[Len(executed) + n]
    BY <2>3 DEF InOrder
  <2>5. ASSUME NEW n \in 1..Len(executed')
        PROVE  executed'[n].id = log[n]
    <3>1. CASE n \in 1..Len(executed)
      BY <2>2, <2>4, <3>1
    <3>2. CASE n = Len(executed) + 1
      BY <1>1, <2>1, <2>2, <2>4, <3>2
    <3>3. QED
      BY <1>1, <2>2, <3>1, <3>2
  <2>6. ASSUME NEW n \in 1..Len(cmds')
        PROVE  cmds'[n] = log[Len(executed') + n]
    <3>1. cmds'[n] = cmds[n + 1] /\ n + 1 \in 1..Len(cmds)
      BY <1>1, <2>1
    <3>2. Len(executed) + (n + 1) = Len(executed') + n
      BY <1>1, <2>1, <2>2
    <3>3. QED
      BY <2>4, <3>1, <3>2
  <2>7. QED
    BY <1>1, <2>1, <2>2, <2>4, <2>5, <2>6
<1>8. QED
  BY <1>4, <1>5, <1>6, <1>7

LEMMA RedeliverInv == ASSUME IInv, Redeliver \/ LoseCommand PROVE IInv'
<1> USE DEF IInv, api, kafka, ackvars
<1>1. /\ cmds' \in Seq(Commands) /\ Entries(cmds') \subseteq Entries(cmds)
      /\ acks' \in Seq(Acks) /\ Entries(acks') \subseteq Entries(acks)
  <2>1. cmds \in Seq(Commands) /\ acks \in Seq(Acks)
    BY QueueTypes
  <2>2. CASE cmds # << >> /\ cmds' \in {<<Head(cmds)>> \o cmds, Tail(cmds)} /\ acks' = acks
    <3>1. /\ <<Head(cmds)>> \o cmds \in Seq(Commands) /\ Tail(cmds) \in Seq(Commands)
          /\ Entries(<<Head(cmds)>> \o cmds) \subseteq Entries(cmds)
          /\ Entries(Tail(cmds)) \subseteq Entries(cmds)
      BY <2>1, <2>2, EntriesRepeat, EntriesHeadTail
    <3>2. QED
      BY <2>1, <2>2, <3>1
  <2>3. CASE acks # << >> /\ acks' = <<Head(acks)>> \o acks /\ cmds' = cmds
    <3>1. /\ <<Head(acks)>> \o acks \in Seq(Acks)
          /\ Entries(<<Head(acks)>> \o acks) \subseteq Entries(acks)
      BY <2>1, <2>3, EntriesRepeat
    <3>2. QED
      BY <2>1, <2>3, <3>1
  <2>4. QED
    BY <2>2, <2>3 DEF Redeliver, LoseCommand
<1>2. Fault /\ UNCHANGED <<api, kafka, ackvars, executed>>
  BY DEF Redeliver, LoseCommand
<1>3. TypeOK'
  BY <1>1, <1>2, FaultType DEF TypeOK
<1>4. Told' /\ Recorded'
  BY <1>1, <1>2 DEF Told, Recorded, Rows
<1>5. Remembered' /\ MirrorFollowsRow'
  BY <1>2 DEF Remembered, MirrorFollowsRow, Rows
<1>6. InOrder'
  BY <1>2, InOrderKept
<1>7. QED
  BY <1>3, <1>4, <1>5, <1>6

-----------------------------------------------------------------------------
(* The request that brings an ack.                                         *)

LEMMA AckInv == ASSUME IInv, NEW ack \in Acks, Ack(ack) PROVE IInv'
<1> USE DEF IInv, Ack, kafka, mqtt
<1>1. /\ ack.id \in Commands /\ ack.status \in Terminal /\ ack.status \in Statuses
      /\ ack = [id |-> ack.id, status |-> ack.status] /\ ack \in Entries(executed)
  BY AckTypes DEF Told
<1>2. CASE row[ack.id] = "ABSENT"
  <2>1. posts' \subseteq posts /\ UNCHANGED <<row, been, acking>>
    BY <1>2
  <2>2. TypeOK' /\ Told'
    BY <2>1 DEF TypeOK, Told
  <2>3. Recorded' /\ Remembered' /\ MirrorFollowsRow' /\ InOrder'
    BY <2>1 DEF Recorded, Remembered, MirrorFollowsRow, InOrder, Rows
  <2>4. QED
    BY <2>2, <2>3
<1>3. CASE row[ack.id] # "ABSENT"
  <2> DEFINE c == ack.id
             status == ack.status
             m == [ack |-> ack, step |-> "mirror"]
  <2>1. /\ posts' \subseteq posts /\ acking' = acking \cup {m}
        /\ SetRow(c, status) /\ c \in Rows
    BY <1>1, <1>3 DEF Rows
  <2>2. /\ row' \in [Commands -> Statuses \cup {"ABSENT"}]
        /\ been' \in [Commands -> SUBSET Statuses]
        /\ Rows' = Rows \cup {c}
        /\ row'[c] = status /\ status \in been'[c]
        /\ \A d \in Commands \ {c} : row'[d] = row[d] /\ been'[d] = been[d]
        /\ \A d \in Commands : been[d] \subseteq been'[d]
        /\ \A d \in Commands : \A x \in been'[d] : x \in been[d] \/ (d = c /\ x = status)
    BY <1>1, <2>1, SetRowRemembers
  <2>3. Rows' = Rows
    BY <2>1, <2>2
  <2>4. TypeOK'
    <3>1. acking' \subseteq [ack : Acks, step : {"mirror", "twin"}]
      <4>1. m \in [ack : Acks, step : {"mirror", "twin"}]
        OBVIOUS
      <4>2. acking \subseteq [ack : Acks, step : {"mirror", "twin"}]
        BY DEF TypeOK
      <4>3. QED
        BY <2>1, <4>1, <4>2
    <3>2. QED
      BY <2>1, <2>2, <3>1 DEF TypeOK
  <2>5. Told'
    <3>1. ASSUME NEW d \in Commands, "ACKED" \in been'[d]
          PROVE  [id |-> d, status |-> "ACKED"] \in Entries(executed)
      <4>1. CASE d = c /\ status = "ACKED"
        BY <1>1, <4>1
      <4>2. QED
        BY <2>2, <3>1, <4>1 DEF Told
    <3>2. QED
      BY <2>1, <3>1 DEF Told
  <2>6. Recorded'
    BY <2>3 DEF Recorded
  <2>7. Remembered'
    <3>1. \A d \in Rows : d \in Commands /\ row[d] \in been[d] /\ got[d] \in been[d]
      BY DEF Remembered, Rows
    <3>2. \A d \in Rows' : row'[d] \in been'[d] /\ got'[d] \in been'[d]
      BY <2>2, <2>3, <3>1
    <3>3. \A n \in acking : n.ack.status \in been'[n.ack.id]
      BY <2>2, AckTypes DEF Remembered
    <3>4. m.ack.status \in been'[m.ack.id]
      BY <2>2
    <3>5. QED
      BY <2>1, <3>2, <3>3, <3>4 DEF Remembered
  <2>8. MirrorFollowsRow'
    BY <2>2 DEF MirrorFollowsRow, TypeOK
  <2>9. InOrder'
    BY DEF InOrder
  <2>10. QED
    BY <2>4, <2>5, <2>6, <2>7, <2>8, <2>9
<1>4. QED
  BY <1>2, <1>3

\* The mirror and the twin are given a status that the row has been.
LEMMA MirrorAckInv == ASSUME IInv, NEW ack \in Acks, MirrorAck(ack) \/ TwinAck(ack) PROVE IInv'
<1> USE DEF IInv, kafka, mqtt
<1>1. \E step \in {"mirror", "twin"} : [ack |-> ack, step |-> step] \in acking
  BY DEF MirrorAck, TwinAck
<1>2. /\ ack.id \in Commands /\ ack.status \in Statuses
      /\ ack.status \in been[ack.id]
  <2>1. PICK step \in {"mirror", "twin"} : [ack |-> ack, step |-> step] \in acking
    BY <1>1
  <2>2. [ack |-> ack, step |-> step].ack.status \in been[[ack |-> ack, step |-> step].ack.id]
    BY <2>1 DEF Remembered
  <2>3. QED
    BY <2>2, AckTypes
<1>3. /\ acking' \subseteq acking \cup {[ack |-> ack, step |-> "twin"]}
      /\ UNCHANGED <<row, been, issue, got, kafka, mqtt, posts, executed>>
      /\ mirror' = mirror \/ mirror' = [mirror EXCEPT ![ack.id] = ack.status]
      /\ twin' = twin \/ twin' = [id |-> ack.id, status |-> ack.status]
      /\ faults' = faults \/ Fault
  BY DEF MirrorAck, TwinAck, Mirrored, TwinSet
<1>4. TypeOK'
  <2>1. acking' \subseteq [ack : Acks, step : {"mirror", "twin"}]
    <3>1. [ack |-> ack, step |-> "twin"] \in [ack : Acks, step : {"mirror", "twin"}]
      OBVIOUS
    <3>2. acking \subseteq [ack : Acks, step : {"mirror", "twin"}]
      BY DEF TypeOK
    <3>3. QED
      BY <1>3, <3>1, <3>2
  <2>2. mirror' \in [Commands -> Statuses \cup {None}]
    BY <1>2, <1>3 DEF TypeOK
  <2>3. twin' \in [id : Commands \cup {None}, status : Statuses \cup {None}]
    <3>1. CASE twin' = twin
      BY <3>1 DEF TypeOK
    <3>2. CASE twin' = [id |-> ack.id, status |-> ack.status]
      BY <1>2, <3>2
    <3>3. QED
      BY <1>3, <3>1, <3>2
  <2>4. QED
    BY <1>3, <2>1, <2>2, <2>3, FaultType DEF TypeOK
<1>5. Told' /\ Recorded'
  BY <1>3 DEF Told, Recorded, Rows
<1>6. Remembered'
  BY <1>2, <1>3 DEF Remembered, Rows
<1>7. MirrorFollowsRow'
  <2>1. \A c \in Commands : mirror'[c] # None => mirror'[c] \in been[c]
    BY <1>2, <1>3 DEF MirrorFollowsRow, TypeOK
  <2>2. twin'.id # None => twin'.status \in been[twin'.id]
    BY <1>2, <1>3 DEF MirrorFollowsRow
  <2>3. QED
    BY <1>3, <2>1, <2>2 DEF MirrorFollowsRow
<1>8. InOrder'
  BY <1>3, InOrderKept
<1>9. QED
  BY <1>4, <1>5, <1>6, <1>7, <1>8

-----------------------------------------------------------------------------
(* The theorems.                                                           *)

LEMMA NextInv == IInv /\ [Next]_vars => IInv'
<1> SUFFICES ASSUME IInv, [Next]_vars PROVE IInv'
  OBVIOUS
<1>1. ASSUME NEW c \in Commands,
             Insert(c) \/ IssueStep(c) \/ AbortIssue(c) \/ LateSend(c)
      PROVE  IInv'
  BY <1>1, InsertInv, ProduceInv, FailInv, StampInv, MirrorIssueInv, TwinIssueInv,
     AbortIssueInv, LateSendInv DEF IssueStep
<1>2. ASSUME NEW c \in Commands, NEW retried \in BOOLEAN, ProduceError(c, retried)
      PROVE  IInv'
  BY <1>2, ProduceErrorInv
<1>3. CASE Deliver
  BY <1>3, PollInv, PostAckInv, ExecuteInv DEF Deliver
<1>4. CASE Commit
  BY <1>4, CommitInv
<1>5. CASE AckStep
  BY <1>5, AckInv, MirrorAckInv DEF AckStep
<1>6. CASE Poll(FALSE) \/ LosePost \/ Redeliver \/ LoseCommand
  BY <1>6, PollInv, PostAckInv, RedeliverInv
<1>7. ASSUME NEW sent \in 0..Len(cmds), RestartDispatcher(sent)
      PROVE  IInv'
  BY <1>7, RestartDispatcherInv
<1>8. CASE UNCHANGED vars
  BY <1>8 DEF vars, api, kafka, mqtt, ackvars, IInv, TypeOK, Told, Recorded, Rows,
     Remembered, MirrorFollowsRow, InOrder
<1>9. QED
  BY <1>1, <1>2, <1>3, <1>4, <1>5, <1>6, <1>7, <1>8 DEF Next

\* The strengthened invariant: wherever a command or its ack is, in Kafka, in MQTT,
\* with the device or in a request, it is recorded in the table and told truly.
THEOREM Invariance == Spec => []IInv
BY InitInv, NextInv, PTL DEF Spec

\* Rows, mirror, twin and acks say of a command what has happened to it
\* (_dispatch_command, ack_command, command_dispatcher.py, runner.py).
THEOREM RecordsAreTrueHolds == Spec => []RecordsAreTrue
<1>1. IInv => RecordsAreTrue
  <2> SUFFICES ASSUME IInv PROVE RecordsAreTrue
    OBVIOUS
  <2> USE DEF IInv
  <2>1. ASSUME NEW x \in Entries(executed)
        PROVE  Executed(x.id, x.status)
    <3>1. PICK n \in 1..Len(executed) : executed[n] = x
      BY DEF Entries
    <3>2. x \in Acks
      BY EntriesType, QueueTypes
    <3>3. QED
      BY <3>1, <3>2, AckTypes DEF Executed
  <2>2. AckedWasExecuted
    <3>1. ASSUME NEW c \in Commands, "ACKED" \in been[c]
          PROVE  Executed(c, "ACKED")
      BY <2>1, <3>1 DEF Told
    <3>2. ASSUME NEW n \in 1..Len(acks)
          PROVE  Executed(acks[n].id, acks[n].status)
      BY <2>1 DEF Told, Entries
    <3>3. QED
      BY <3>1, <3>2 DEF AckedWasExecuted
  <2>3. DispatchedIsRecorded
    <3>1. \A n \in 1..Len(log) : log[n] \in Rows
      BY DEF Recorded, Entries
    <3>2. \A n \in 1..Len(executed) : executed[n].id \in Rows
      BY DEF Recorded, Entries
    <3>3. QED
      BY <3>1, <3>2 DEF DispatchedIsRecorded, Rows
  <2>4. QED
    BY <2>2, <2>3 DEF RecordsAreTrue
<1>2. QED
  BY <1>1, Invariance, PTL

\* Without a fault the device executes a prefix of the log, each command once and in
\* the order in which they were produced (CommandDispatcher.run, Runner._on_command).
THEOREM ExecutedInOrderHolds == Spec => []ExecutedInOrder
<1>1. IInv => ExecutedInOrder
  <2> SUFFICES ASSUME IInv, faults = 0
               PROVE  /\ Len(executed) <= Len(log)
                      /\ \A n \in 1..Len(executed) : executed[n].id = log[n]
    BY DEF ExecutedInOrder
  <2>1. next = Len(executed) + Len(cmds) + 1
    BY DEF IInv, InOrder
  <2>2. Len(executed) <= Len(log)
    BY <2>1, QueueTypes DEF IInv
  <2>3. QED
    BY <2>2 DEF IInv, InOrder
<1>2. QED
  BY <1>1, Invariance, PTL

\* "never downgrade an already-terminal status" (app.py:2145): no step of any request
\* replaces an outcome by a status that is none, however late the request comes.
THEOREM NeverDowngradeHolds == Spec => NeverDowngrade
<1>1. IInv /\ [Next]_vars => [KeepsOutcomes]_vars
  <2> SUFFICES ASSUME IInv, Next, NEW c \in Commands, row[c] \in Terminal
               PROVE  row'[c] \in Terminal
    BY DEF KeepsOutcomes
  <2> USE DEF IInv
  <2>1. row \in [Commands -> Statuses \cup {"ABSENT"}] /\ issue[c] # "new"
    BY DEF TypeOK, Recorded, Rows, Terminal
  <2>2. ASSUME NEW d \in Commands, Insert(d)
        PROVE  row'[c] \in Terminal
    BY <2>1, <2>2 DEF Insert, SetRow
  <2>3. ASSUME NEW d \in Commands, Fail(d)
        PROVE  row'[c] \in Terminal
    BY <2>1, <2>3 DEF Fail, SetRow, Terminal
  <2>4. ASSUME NEW d \in Commands, Stamp(d)
        PROVE  row'[c] \in Terminal
    BY <2>1, <2>4 DEF Stamp, SetRow, NotDowngraded
  <2>5. ASSUME NEW ack \in Acks, Ack(ack)
        PROVE  row'[c] \in Terminal
    BY <2>1, <2>5, AckTypes DEF Ack, SetRow
  <2>6. CASE UNCHANGED row
    BY <2>6
  <2>7. QED
    BY <2>2, <2>3, <2>4, <2>5, <2>6 DEF Next, IssueStep, AckStep, Deliver, Produce,
       MirrorIssue, TwinIssue, AbortIssue, LateSend, ProduceError, Poll, PostAck, Execute,
       Commit, MirrorAck, TwinAck, LosePost, Redeliver, LoseCommand, RestartDispatcher, api
<1>2. QED
  BY <1>1, Invariance, PTL DEF Spec, NeverDowngrade
=============================================================================
