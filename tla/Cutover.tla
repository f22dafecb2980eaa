------------------------------ MODULE Cutover ------------------------------
(* The readiness assessment and the production cutover: the probes and their *)
(* scores, the assessments a script persists, the record of a cutover with   *)
(* its GO / NO_GO gate, its audit events and the gauge. Each statement of a  *)
(* request is a step of its own, and nothing locks a record.                 *)
EXTENDS Integers, Sequences, FiniteSetsExt

CONSTANTS
    Calls,          \* bound: calls of the API and runs of the readiness script
    Conditions,     \* what may be wrong with the platform: sets of troubles
    Threshold,      \* pass_threshold
    MaxDelta,       \* READINESS_MAX_RESTART_DELTA
    MaxChanges,     \* bound: restarts, days and changes of the condition
    MaxMishaps,     \* bound: requests that die and reads that fail
    None

VARIABLES
    condition,      \* the troubles of the platform
    restarts,       \* RestartCount of a critical container
    young,          \* it has not been up for min_uptime_seconds
    runs,           \* platform_readiness_reports, in the order of their INSERTs
    deployment,     \* platform_deployment_runs, by the request that started it
    trail,          \* platform_deployment_events of each
    request,        \* where each request is, and what it read
    overlapped,     \* history: two runs of the script were under way at once
    gauge,          \* diep_deployment_status
    clock, changes, mishaps

cutoverVars == <<condition, restarts, young, runs, deployment, trail, request, overlapped, gauge, clock, changes, mishaps>>

Turns == 1 .. Calls         \* in the order in which they come
Parts == {"app", "postgres", "redis", "broker", "exporter", "disk", "memory", "containers", "docker",
          "portal", "backups", "old backups", "archive", "prometheus", "target down", "grafana"}
Gate == {"IN_PROGRESS", "GO", "NO_GO"}
Assessment == [at : Nat, passed : BOOLEAN, count : Nat, blind : BOOLEAN]
Deployment == [gate : Gate, status : {"STARTED", "VALIDATED", "FAILED"}, at : Nat, ready : BOOLEAN]

CutoverAssumption ==
    /\ {Calls, Threshold, MaxDelta, MaxChanges, MaxMishaps} \subseteq Nat
    /\ \A c \in Conditions : c \subseteq Parts
    /\ None \notin Gate \union Deployment \union Assessment \union Nat
Idle == [at |-> "new", id |-> None, left |-> <<>>, passed |-> FALSE, previous |-> None]

Init ==
    /\ condition = {}
    /\ restarts = 0 /\ young = FALSE /\ runs = <<>>
    /\ deployment = [r \in Turns |-> None] /\ trail = [r \in Turns |-> <<>>]
    /\ request = [r \in Turns |-> Idle]
    /\ overlapped = FALSE /\ gauge = None /\ clock = 0 /\ changes = 0 /\ mishaps = 0

-----------------------------------------------------------------------------
(* The scores. A check that warns counts for half its weight, and the score  *)
(* is Python's round of the percentage: a tie goes to the even number.       *)

Round(a, b) ==
    LET q == (2 * a + b) \div (2 * b)
    IN IF (2 * a + b) % (2 * b) = 0 /\ q % 2 = 1 THEN q - 1 ELSE q

Check(name, weight, critical, fails, warns) ==
    [name |-> name, weight |-> weight, critical |-> critical,
     score |-> IF fails THEN 0 ELSE IF warns THEN weight \div 2 ELSE weight, fails |-> fails]

Points(checks) == MapThenSumSet(LAMBDA c : c.score, checks)
Weight(checks) == MapThenSumSet(LAMBDA c : c.weight, checks)

Passes(checks) ==
    /\ ~ \E c \in checks : c.critical /\ c.fails
    /\ Round(100 * Points(checks), Weight(checks)) >= Threshold

PostChecks ==
    LET Bad(x) == x \in condition
    IN {Check("fastapi_readyz", 25, TRUE, Bad("app"), FALSE),
        Check("portal_login", 15, TRUE, Bad("portal"), FALSE),
        Check("redis_connectivity", 10, TRUE, Bad("redis"), FALSE),
        Check("kafka_metrics", 10, TRUE, Bad("exporter"), FALSE),
        Check("prometheus_targets", 10, FALSE, Bad("prometheus"), Bad("target down")),
        Check("grafana_availability", 10, FALSE, Bad("grafana"), FALSE)}

(* The assessment passes when no check fails, for every check is worth what  *)
(* the threshold leaves. The restarts are counted from the previous one.     *)
Offends(previous, count) == previous # None /\ count - previous.count > MaxDelta

ServiceChecks ==
    LET Bad(x) == x \in condition
    IN {Check("fastapi_readyz", 15, TRUE, Bad("app"), FALSE),
        Check("postgres_connectivity", 10, TRUE, Bad("postgres"), FALSE),
        Check("redis_connectivity", 10, TRUE, Bad("redis"), FALSE),
        Check("kafka_broker_health", 15, TRUE, Bad("broker"), FALSE)}

HostChecks(previous) ==
    LET Bad(x) == x \in condition
    IN {Check("kafka_exporter_metrics", 10, TRUE, Bad("exporter"), FALSE),
        Check("container_restart_counts", 10, TRUE, Offends(previous, restarts), FALSE),
        Check("disk_utilization", 10, TRUE, Bad("disk"), FALSE),
        Check("memory_utilization", 10, TRUE, Bad("memory"), FALSE)}

UptimeCheck ==
    Check("critical_service_uptime", 10, TRUE, young \/ "containers" \in condition, FALSE)

ReadinessChecks(previous) == ServiceChecks \union HostChecks(previous) \union {UptimeCheck}

\* Without docker inspect there is no assessment: the call raises.
Assessed == "docker" \notin condition
Ready(previous) ==
    /\ \A c \in ReadinessChecks(previous) : ~c.fails
    /\ Points(ReadinessChecks(previous)) >= Threshold

PreChecks(previous) ==
    LET Bad(x) == x \in condition
    IN {Check("mw2_readiness_certification", 25, TRUE, ~Assessed \/ ~Ready(previous), FALSE),
        Check("critical_containers_healthy", 20, TRUE, ~Assessed \/ Bad("containers"), FALSE),
        Check("database_backups_present", 20, TRUE, Bad("backups"), Bad("old backups")),
        Check("minio_archive_accessible", 15, TRUE, Bad("archive"), FALSE),
        Check("kafka_health", 10, TRUE, Bad("exporter"), FALSE),
        Check("redis_health", 10, TRUE, Bad("redis"), FALSE)}

-----------------------------------------------------------------------------
(* The platform. A container that is recreated counts from zero.             *)

Change == changes < MaxChanges /\ changes' = changes + 1
Mishap == mishaps < MaxMishaps /\ mishaps' = mishaps + 1

Worsen ==
    /\ Change /\ condition' \in Conditions \ {condition}
    /\ UNCHANGED <<restarts, young, runs, deployment, trail, request, overlapped, gauge, clock, mishaps>>

Restart(recreated) ==
    /\ Change
    /\ restarts' = IF recreated THEN 0 ELSE restarts + 1
    /\ young' = TRUE
    /\ UNCHANGED <<condition, runs, deployment, trail, request, overlapped, gauge, clock, mishaps>>

DayPasses ==
    /\ Change /\ young /\ young' = FALSE
    /\ UNCHANGED <<condition, restarts, runs, deployment, trail, request, overlapped, gauge, clock, mishaps>>

platform == <<condition, restarts, young, changes>>

-----------------------------------------------------------------------------
(* The script: the latest assessment by checked_at, which the new one takes  *)
(* before it probes; then the INSERT.                                        *)

Latest == IF runs = <<>> THEN None
          ELSE LET all == {runs[i] : i \in DOMAIN runs}
               IN CHOOSE x \in all : \A y \in all : x.at >= y.at

Comes(r) == request[r].at = "new" /\ \A q \in 1 .. r - 1 : request[q].at # "new"
Goes(r, at) == request' = [request EXCEPT ![r].at = at]
Ends(r) == request' = [request EXCEPT ![r] = [Idle EXCEPT !.at = "done"]]

BeginAssessment(r, fails) ==
    /\ Comes(r)
    /\ IF fails THEN Mishap ELSE mishaps' = mishaps
    /\ request' = [request EXCEPT ![r] = [Idle EXCEPT !.at = "assess", !.id = clock + 1,
                                                     !.previous = IF fails THEN None ELSE Latest]]
    /\ clock' = clock + 1
    /\ overlapped' = (overlapped \/ \E q \in Turns : request[q].at \in {"assess", "persist"})
    /\ UNCHANGED <<platform, runs, deployment, trail, gauge>>

\* Either it probes, and persists what it found, or it raises.
Assess(r) ==
    /\ request[r].at = "assess"
    /\ LET q == request[r]
           found == [at |-> q.id, passed |-> Ready(q.previous), count |-> restarts, blind |-> q.previous = None]
       IN request' = [request EXCEPT ![r] = IF Assessed THEN [Idle EXCEPT !.at = "persist", !.left = <<found>>]
                                                        ELSE [Idle EXCEPT !.at = "done"]]
    /\ UNCHANGED <<platform, runs, deployment, trail, overlapped, gauge, clock, mishaps>>

PersistAssessment(r) ==
    /\ request[r].at = "persist"
    /\ runs' = runs \o request[r].left
    /\ Ends(r)
    /\ UNCHANGED <<platform, deployment, trail, overlapped, gauge, clock, mishaps>>

-----------------------------------------------------------------------------
(* A cutover is recorded whatever the validation before it found, and any    *)
(* record may be validated, also one that is finished. The checklist's items *)
(* and the operator's notes, more events of the same kind, are left out.     *)

StartCutover(r) ==
    /\ Comes(r)
    /\ request' = [request EXCEPT ![r] =
           [Idle EXCEPT !.at = "insert", !.id = r, !.passed = Passes(PreChecks(Latest)),
                        !.left = <<"CUTOVER_STARTED", "BASELINE_CAPTURED", "PRE_CUTOVER_VALIDATED">>]]
    /\ clock' = clock + 1
    /\ UNCHANGED <<platform, runs, deployment, trail, overlapped, gauge, mishaps>>

PersistDeployment(r) ==
    /\ request[r].at = "insert"
    /\ deployment' = [deployment EXCEPT ![r] = [gate |-> "IN_PROGRESS", status |-> "STARTED",
                                                at |-> clock, ready |-> request[r].passed]]
    /\ Goes(r, "record")
    /\ UNCHANGED <<platform, runs, trail, overlapped, gauge, clock, mishaps>>

Recorded == {d \in Turns : deployment[d] # None}
Newest(ds) == CHOOSE d \in ds : \A e \in ds : deployment[d].at >= deployment[e].at

ValidateCutover(r) ==
    /\ Comes(r)
    /\ \E d \in Recorded :
          request' = [request EXCEPT ![r] = [Idle EXCEPT !.at = "probe", !.id = d]]
    /\ UNCHANGED <<platform, runs, deployment, trail, overlapped, gauge, clock, mishaps>>

\* A slip: the two verdicts are swapped.
VerdictEventsSwapped(passed) == <<"POST_CUTOVER_VALIDATED", IF passed THEN "NO_GO" ELSE "GO">>

\* The two events of a validation: POST_CUTOVER_VALIDATED, and EVIDENCE_RECORDED, which
\* carries the gate and is named after it here.
VerdictEvents(passed) == <<"POST_CUTOVER_VALIDATED", IF passed THEN "GO" ELSE "NO_GO">>

RunPostCutoverValidation(r) ==
    /\ request[r].at = "probe"
    /\ LET ok == Passes(PostChecks) IN
       request' = [request EXCEPT ![r] = [@ EXCEPT !.at = "update", !.passed = ok, !.left = VerdictEvents(ok)]]
    /\ UNCHANGED <<platform, runs, deployment, trail, overlapped, gauge, clock, mishaps>>

UpdateDeployment(r) ==
    /\ request[r].at = "update"
    /\ deployment' = [deployment EXCEPT ![request[r].id] =
           [@ EXCEPT !.gate = IF request[r].passed THEN "GO" ELSE "NO_GO",
                     !.status = IF request[r].passed THEN "VALIDATED" ELSE "FAILED"]]
    /\ Goes(r, "record")
    /\ UNCHANGED <<platform, runs, trail, overlapped, gauge, clock, mishaps>>

\* One audit event, in its own transaction; after the last, validate refreshes the gauge.
RecordEvent(r) ==
    /\ request[r].at = "record"
    /\ LET q == request[r] IN
       /\ trail' = [trail EXCEPT ![q.id] = Append(@, Head(q.left))]
       /\ IF Len(q.left) > 1 THEN request' = [request EXCEPT ![r].left = Tail(@)]
          ELSE IF q.id = r THEN Ends(r)
          ELSE request' = [request EXCEPT ![r] = [Idle EXCEPT !.at = "refresh"]]
    /\ UNCHANGED <<platform, runs, deployment, overlapped, gauge, clock, mishaps>>

RefreshMetrics(r) ==
    /\ request[r].at = "refresh"
    /\ gauge' = deployment[Newest(Recorded)].gate
    /\ Ends(r)
    /\ UNCHANGED <<platform, runs, deployment, trail, overlapped, clock, mishaps>>

\* The process dies, or a statement fails and the caller gets a 503.
RequestDies(r) ==
    /\ request[r].at \notin {"new", "done", "died"} /\ Mishap
    /\ Goes(r, "died")
    /\ UNCHANGED <<platform, runs, deployment, trail, overlapped, gauge, clock>>

Next ==
    \/ Worsen \/ DayPasses \/ \E recreated \in BOOLEAN : Restart(recreated)
    \/ \E r \in Turns :
          \/ \E fails \in BOOLEAN : BeginAssessment(r, fails)
          \/ Assess(r) \/ PersistAssessment(r)
          \/ StartCutover(r) \/ PersistDeployment(r) \/ ValidateCutover(r)
          \/ RunPostCutoverValidation(r) \/ UpdateDeployment(r)
          \/ RecordEvent(r) \/ RefreshMetrics(r) \/ RequestDies(r)

Spec == Init /\ [][Next]_cutoverVars

-----------------------------------------------------------------------------
(* Types: of the rows, the trail and the assessments.                        *)
TypeOK ==
    /\ condition \subseteq Parts /\ restarts \in Nat /\ young \in BOOLEAN /\ gauge \in Gate \union {None}
    /\ \A i \in DOMAIN runs : runs[i] \in Assessment
    /\ \A d \in Recorded : deployment[d].gate \in Gate /\ deployment[d].ready \in BOOLEAN
    /\ \A r \in Turns : request[r].at \in {"new", "assess", "persist", "insert", "probe", "update", "record",
                                              "refresh", "done", "died"}

Events(d) == {trail[d][i] : i \in DOMAIN trail[d]}
AtWork(d) == {r \in Turns : request[r].id = d /\ request[r].at \in {"insert", "probe", "update", "record", "died"}}

(* The gate of a cutover and its audit trail agree: a verdict is in the      *)
(* trail only when the record was given one, and once every request on the   *)
(* cutover is over (and none died), the trail holds the record's verdict     *)
(* (validate_cutover: UPDATE first, then the two events).                    *)
VerdictIsAudited ==
    \A d \in Recorded :
       /\ deployment[d].gate = "IN_PROGRESS" => Events(d) \cap {"POST_CUTOVER_VALIDATED", "GO", "NO_GO"} = {}
       /\ AtWork(d) = {} =>
             /\ {"CUTOVER_STARTED", "PRE_CUTOVER_VALIDATED"} \subseteq Events(d)
             /\ deployment[d].gate # "IN_PROGRESS" => {"POST_CUTOVER_VALIDATED", deployment[d].gate} \subseteq Events(d)

(* A container that restarted since an earlier assessment is not passed      *)
(* over: of two persisted assessments the later of which counts more         *)
(* restarts than are allowed, the later failed, or one between them, or one  *)
(* could not read its predecessor and set a new baseline; provided the runs  *)
(* of the script do not overlap (check_container_restart_counts).            *)
RestartsAreCaught ==
    ~overlapped => \A i, j \in DOMAIN runs :
       i < j /\ runs[j].count > runs[i].count + MaxDelta
          => \E k \in i + 1 .. j : ~runs[k].passed \/ runs[k].blind
=============================================================================
