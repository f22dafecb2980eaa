--------------------------------- MODULE OMS ---------------------------------
(***************************************************************************)
(* Outage management (fastapi/routers/oms.py): the detection sweep         *)
(* (_run_detection), statement by statement, run every 30 s by             *)
(* oms/outage_detector.py and by every call the Call Handler takes, and    *)
(* the people who open and change cases by hand meanwhile.                 *)
(*                                                                         *)
(* What a sweep reads it reads once: the meters that are out, the reports  *)
(* that are new, the case that is open for a section, the cases that are   *)
(* open.  Its writes come later, one statement each, and do not ask again. *)
(* A loop of queries, one a meter, is one step.                            *)
(***************************************************************************)
EXTENDS Naturals, FiniteSets, FiniteSetsExt

CONSTANTS
    Meters, Reports, None,
    SectionOf,      \* _section_root of each meter; the meter itself if it has no node
    Sections,       \* the sections, all of them nodes of grid_nodes
    Sweepers,       \* request slots; Detector is the one of oms/outage_detector.py
    Detector,
    MaxCases,       \* bound: cases that are opened
    MaxChanges,     \* bound: changes of the meters
    MaxTouches      \* bound: calls, and cases people open or touch

OMSAssumption ==
    /\ Detector \in Sweepers
    /\ SectionOf \in [Meters -> Sections \cup Meters]
    /\ MaxCases \in Nat /\ MaxChanges \in Nat /\ MaxTouches \in Nat
    /\ None \notin Meters \cup Sections

VARIABLES
    signal,     \* what the latest telemetry of each meter shows, if any ever came
    case,       \* outage_cases and outage_case_meters, in the order detected
    report,     \* outage_reports
    sweep,      \* what each sweep is doing
    changes, touches,
    alone       \* history: no sweep met another, or a person who opened a case

vars == <<signal, case, report, sweep, changes, touches, alone>>

-----------------------------------------------------------------------------
Cases == 1..MaxCases
Statuses == {"DETECTED", "CONFIRMED", "RESTORED", "CLOSED"}
OPEN_STATUSES == {"DETECTED", "CONFIRMED"}

NoCase == [status |-> "ABSENT", node |-> None, meters |-> {}]
NoReport == [status |-> "ABSENT", node |-> None, meter |-> None, case |-> 0]

Off == [pc |-> "off", out |-> {}, new |-> {}, groups |-> {}, node |-> None,
        report |-> None, found |-> 0, todo |-> {}]

TypeOK ==
    /\ signal \in [Meters -> {"never", "out", "live"}]
    /\ case \in [Cases -> [status : Statuses \cup {"ABSENT"},
                           node : Sections \cup {None}, meters : SUBSET Meters]]
    /\ report \in [Reports -> [status : {"ABSENT", "NEW", "LINKED"},
                               node : Sections \cup {None},
                               meter : Meters \cup {None}, case : 0..MaxCases]]
    /\ sweep \in [Sweepers ->
          [pc : {"off", "meters", "reports", "group", "upsert", "attach", "link",
                 "mark", "confirm", "list", "check", "restore"},
           out : SUBSET Meters, new : SUBSET Reports,
           groups : SUBSET (Sections \cup Meters),
           node : Sections \cup Meters \cup {None}, report : Reports \cup {None},
           found : 0..MaxCases, todo : SUBSET Cases]]
    /\ changes \in 0..MaxChanges /\ touches \in 0..MaxTouches
    /\ alone \in BOOLEAN

Init ==
    /\ signal \in [Meters -> {"never", "live"}]
    /\ case = [c \in Cases |-> NoCase]
    /\ report = [r \in Reports |-> NoReport]
    /\ sweep = [p \in Sweepers |-> Off]
    /\ changes = 0 /\ touches = 0 /\ alone = TRUE

IsOpen(c) == case[c].status \in OPEN_STATUSES

OpenFor(node) == {c \in Cases : IsOpen(c) /\ case[c].node = node}

\* _open_case_for_node: the one detected last, 0 for none.
_open_case_for_node(node) ==
    IF OpenFor(node) = {} THEN 0 ELSE Max(OpenFor(node))

\* The row the next INSERT makes.
NewCase == 1 + Cardinality({c \in Cases : case[c].status # "ABSENT"})

\* _meters_out: a meter that never reported is not one of them.
MetersOut == {m \in Meters : signal[m] = "out"}

At(p, pc) == sweep[p].pc = pc
Busy(p) == ~At(p, "off")
To(p, new) == sweep' = [sweep EXCEPT ![p] = new]
Goto(p, pc) == To(p, [sweep[p] EXCEPT !.pc = pc])

-----------------------------------------------------------------------------
(* _run_detection                                                          *)

\* The poller calls every 30 s, and gives up on a sweep after 10 s: the sweep
\* goes on, and the next may find it running.
DetectorCalls ==
    /\ At(Detector, "off")
    /\ To(Detector, [Off EXCEPT !.pc = "meters"])
    /\ alone' = (alone /\ \A p \in Sweepers : At(p, "off"))
    /\ UNCHANGED <<signal, case, report, changes, touches>>

ReadMeters(p) ==
    /\ At(p, "meters")
    /\ To(p, [sweep[p] EXCEPT !.pc = "reports", !.out = MetersOut])
    /\ UNCHANGED <<signal, case, report, changes, touches, alone>>

\* The sections with a meter that is out, or with a new report.
Groups(meters, new) ==
    ({SectionOf[m] : m \in meters} \cup {report[r].node : r \in new}) \ {None}

ReadReports(p) ==
    LET new == {r \in Reports : report[r].status = "NEW"} IN
    /\ At(p, "reports")
    /\ To(p, [sweep[p] EXCEPT !.pc = "group", !.new = new,
                 !.groups = Groups(sweep[p].out, new)])
    /\ UNCHANGED <<signal, case, report, changes, touches, alone>>

\* _upsert_case looks for an open case of the next group.
NextGroup(p) ==
    /\ At(p, "group")
    /\ IF sweep[p].groups = {}
       THEN Goto(p, "link")
       ELSE \E n \in sweep[p].groups :
              To(p, [sweep[p] EXCEPT !.pc = "upsert", !.groups = @ \ {n},
                        !.node = n, !.found = _open_case_for_node(n)])
    /\ UNCHANGED <<signal, case, report, changes, touches, alone>>

\* A slip: the case that was found is not looked at.
InsertAlways(p) ==
    LET s == sweep[p] IN
    /\ At(p, "upsert")
    /\ NewCase \in Cases
    /\ case' = [case EXCEPT ![NewCase] =
                  [status |-> "DETECTED", node |-> s.node, meters |-> {}]]
    /\ To(p, [s EXCEPT !.pc = "attach", !.found = NewCase])
    /\ UNCHANGED <<signal, report, changes, touches, alone>>

\* It is updated, whatever became of it, or else a case is inserted.  The INSERT
\* raises for what is no node of the network, and the sweep ends there.
Upsert(p) ==
    LET s == sweep[p] IN
    /\ At(p, "upsert")
    /\ IF s.found # 0 THEN Goto(p, "attach") /\ UNCHANGED case
       ELSE IF s.node \notin Sections THEN To(p, Off) /\ UNCHANGED case
       ELSE /\ NewCase \in Cases
            /\ case' = [case EXCEPT ![NewCase] =
                          [status |-> "DETECTED", node |-> s.node, meters |-> {}]]
            /\ To(p, [s EXCEPT !.pc = "attach", !.found = NewCase])
    /\ UNCHANGED <<signal, report, changes, touches, alone>>

\* INSERT INTO outage_case_meters ... ON CONFLICT DO NOTHING
Attach(p) ==
    LET s == sweep[p]
        meters == {m \in s.out : SectionOf[m] = s.node}
                    \cup {report[r].meter : r \in {q \in s.new : report[q].node = s.node}}
    IN
    /\ At(p, "attach")
    /\ case' = [case EXCEPT ![s.found].meters = @ \cup (meters \ {None})]
    /\ To(p, [s EXCEPT !.pc = "group", !.node = None, !.found = 0])
    /\ UNCHANGED <<signal, report, changes, touches, alone>>

\* The reports are linked one by one; new now holds those that are left.
NextReport(p) ==
    /\ At(p, "link")
    /\ IF sweep[p].new = {} THEN Goto(p, "list")
       ELSE \E r \in sweep[p].new :
              LET c == IF report[r].node = None THEN 0
                       ELSE _open_case_for_node(report[r].node)
              IN
              To(p, [sweep[p] EXCEPT !.new = @ \ {r},
                        !.pc = IF c = 0 THEN "link" ELSE "mark",
                        !.report = IF c = 0 THEN None ELSE r, !.found = c,
                        \* the status as it was read
                        !.todo = IF c # 0 /\ case[c].status = "DETECTED"
                                 THEN {c} ELSE {}])
    /\ UNCHANGED <<signal, case, report, changes, touches, alone>>

MarkLinked(p) ==
    LET s == sweep[p] IN
    /\ At(p, "mark")
    /\ report' = [report EXCEPT ![s.report].status = "LINKED",
                                ![s.report].case = s.found]
    /\ To(p, [s EXCEPT !.report = None,
                 !.pc = IF s.todo = {} THEN "link" ELSE "confirm",
                 !.found = IF s.todo = {} THEN 0 ELSE @])
    /\ UNCHANGED <<signal, case, changes, touches, alone>>

\* A corroborated case is CONFIRMED, whatever its status is by now.
Confirm(p) ==
    LET s == sweep[p] IN
    /\ At(p, "confirm")
    /\ case' = [case EXCEPT ![s.found].status = "CONFIRMED"]
    /\ To(p, [s EXCEPT !.pc = "link", !.found = 0, !.todo = {}])
    /\ UNCHANGED <<signal, report, changes, touches, alone>>

\* A slip: only the cases that are CONFIRMED.
ListConfirmed(p) ==
    /\ At(p, "list")
    /\ To(p, [Off EXCEPT !.pc = "check",
                  !.todo = {c \in Cases : case[c].status = "CONFIRMED"}])
    /\ UNCHANGED <<signal, case, report, changes, touches, alone>>

\* The open cases, as the loop of the auto-restore will see them.
ListOpen(p) ==
    /\ At(p, "list")
    /\ To(p, [Off EXCEPT !.pc = "check", !.todo = {c \in Cases : IsOpen(c)}])
    /\ UNCHANGED <<signal, case, report, changes, touches, alone>>

\* All meters of the case are back, and there is one.
AllBack(c) == case[c].meters # {} /\ \A m \in case[c].meters : signal[m] = "live"

CheckNext(p) ==
    LET s == sweep[p] IN
    /\ At(p, "check")
    /\ IF s.todo = {} THEN To(p, Off)
       ELSE \E c \in s.todo :
              To(p, [s EXCEPT !.todo = @ \ {c}, !.found = c,
                        !.pc = IF AllBack(c) THEN "restore" ELSE "check"])
    /\ UNCHANGED <<signal, case, report, changes, touches, alone>>

\* RESTORED, whatever its status is by now.
Restore(p) ==
    LET s == sweep[p] IN
    /\ At(p, "restore")
    /\ case' = [case EXCEPT ![s.found].status = "RESTORED"]
    /\ Goto(p, "check")
    /\ UNCHANGED <<signal, report, changes, touches, alone>>

-----------------------------------------------------------------------------
(* The meters and the people.                                              *)

Touch == touches < MaxTouches /\ touches' = touches + 1

\* A last gasp, a heartbeat that is too old, or telemetry that comes (again).
MeterChanges(m) ==
    /\ changes < MaxChanges /\ changes' = changes + 1
    /\ \E new \in {"out", "live"} \ {signal[m]} :
          /\ new = "out" => signal[m] # "never"
          /\ signal' = [signal EXCEPT ![m] = new]
    /\ UNCHANGED <<case, report, sweep, touches, alone>>

\* call_handler: the report, and then a sweep.  node is the section of the place
\* the call names, None if it names none; the meter is what the caller says.
Call(p, r, meter, node) ==
    /\ Touch
    /\ At(p, "off") /\ p # Detector
    /\ report[r].status = "ABSENT"
    /\ report' = [report EXCEPT ![r] = [status |-> "NEW", node |-> node,
                                        meter |-> meter, case |-> 0]]
    /\ To(p, [Off EXCEPT !.pc = "meters"])
    /\ alone' = (alone /\ \A q \in Sweepers : At(q, "off"))
    /\ UNCHANGED <<signal, case, changes>>

\* create_case: it does not ask whether one is open.
CreateCase(node) ==
    /\ Touch
    /\ NewCase \in Cases
    /\ case' = [case EXCEPT ![NewCase] =
                  [status |-> "CONFIRMED", node |-> node, meters |-> {}]]
    /\ alone' = FALSE
    /\ UNCHANGED <<signal, report, sweep, changes>>

\* update_case: any status, from any status.
UpdateCase(c, status) ==
    /\ Touch
    /\ case[c].status \notin {"ABSENT", status}
    /\ case' = [case EXCEPT ![c].status = status]
    /\ alone' = (alone /\ (status \in OPEN_STATUSES => IsOpen(c)))
    /\ UNCHANGED <<signal, report, sweep, changes>>

-----------------------------------------------------------------------------
SweepStep(p) ==
    \/ ReadMeters(p) \/ ReadReports(p)
    \/ NextGroup(p) \/ Upsert(p) \/ Attach(p)
    \/ NextReport(p) \/ MarkLinked(p) \/ Confirm(p)
    \/ ListOpen(p) \/ CheckNext(p) \/ Restore(p)

Next ==
    \/ DetectorCalls
    \/ \E p \in Sweepers : SweepStep(p)
    \/ \E m \in Meters : MeterChanges(m)
    \/ \E p \in Sweepers, r \in Reports, meter \in Meters \cup {None},
          node \in Sections \cup {None} : Call(p, r, meter, node)
    \/ \E node \in Sections : CreateCase(node)
    \/ \E c \in Cases, status \in Statuses : UpdateCase(c, status)

Spec == Init /\ [][Next]_vars

\* The poller keeps calling, and a sweep that started is run to its end.
FairSpec ==
    /\ Spec
    /\ WF_vars(DetectorCalls)
    /\ \A p \in Sweepers : WF_vars(SweepStep(p))

-----------------------------------------------------------------------------
(* Properties.                                                             *)

\* "opens/extends one outage_case per section" (DIEP_ADMS_ARCHITECTURE.md:124):
\* as long as sweeps do not meet and no person opens a case, no section has two.
OneCasePerSection ==
    alone => \A n \in Sections : Cardinality(OpenFor(n)) <= 1

\* A meter that goes out, and stays out, is put on an open case of its section,
\* also when a person closes the case it was on.
OutageGetsCase ==
    \A m \in Meters :
        []<>(signal[m] = "out" => \E c \in OpenFor(SectionOf[m]) : m \in case[c].meters)

\* "record a customer-reported outage, then correlate it" (oms.py:272): no call
\* that names a place on the network is left NEW.
ReportGetsCase ==
    \A r \in Reports :
        (report[r].status = "NEW" /\ report[r].node # None) ~> (report[r].status = "LINKED")

\* "auto-restores cases whose meters are all back online"
\* (DIEP_ADMS_ARCHITECTURE.md:126): time and again there is none left to restore.
BackMeansRestored ==
    []<>(\A c \in Cases : IsOpen(c) => ~AllBack(c))
=============================================================================
