-------------------------------- MODULE Fleet --------------------------------
(***************************************************************************)
(* The fleet as people see it: the health, analytics, recommendation and   *)
(* overview endpoints of the platform (fastapi/app.py), and the digital    *)
(* twin service (digitaltwin/app.py), which puts its dashboard together    *)
(* from three calls while the fleet goes on.  All of them read what the    *)
(* other parts write: the registry, telemetry, commands and alarms in      *)
(* Postgres, and the state of each device in Redis.                        *)
(*                                                                         *)
(* Time is in units of the five minutes after which a state is stale.      *)
(***************************************************************************)
EXTENDS Integers, FiniteSets, FiniteSetsExt, SequencesExt

CONSTANTS
    Devices,       \* devices that may be registered
    Batteries,     \* those of type battery
    Sites,         \* sites
    Readings,      \* readings: [power, frequency, soc]
    Severities,    \* severities of alarms; "OK" is one of them
    Listed,        \* how many commands the dashboard asks for: 200
    MaxNow, MaxEvents,   \* bounds: time, and what happens, of which a reading is a third
    None

FleetAssumption ==
    /\ Batteries \subseteq Devices
    /\ Readings \subseteq [power : Nat, frequency : Nat, soc : 0 .. 100]
    /\ Listed \in Nat \ {0}
    /\ None \notin Nat \cup Sites /\ None \notin [device : Devices, severity : Severities]

VARIABLES
    now,
    registry,      \* devices: status and site_name, or None
    telemetry,     \* per device, its rows in the order of their times
    commands,      \* commands, in the order of created_at
    alarms,        \* alarms, in the order of raised_at
    state,         \* device:<id>:state in Redis: last_seen and battery_soc
    lost,          \* a state was lost: Redis flushed, or nothing written for a day
    pc, twin,      \* the dashboard: the call it makes next, and what it has
    events

fleetVars == <<now, registry, telemetry, commands, alarms, state, lost, pc, twin, events>>

Registered == {d \in Devices : registry[d] # None}

-----------------------------------------------------------------------------
(* What the endpoints answer.                                              *)

\* The last alarm raised for a device.
LatestOf(rows, d) ==
    LET of == {i \in DOMAIN rows : rows[i].device = d}
    IN IF of = {} THEN None ELSE rows[Max(of)]

_evaluate_health(d) ==
    LET alarm == LatestOf(alarms, d) IN
    CASE registry[d].status # "ONLINE" -> "OFFLINE"
      [] state[d].last_seen = None -> "UNKNOWN"
      [] now - state[d].last_seen > 1 -> "DEGRADED"
      [] alarm # None /\ alarm.severity # "OK" -> "DEGRADED"
      [] OTHER -> "OK"

\* n times the sum of squares less the square of the sum: n (n - 1) variances.
Spread(values) ==
    LET sum == SumFunction(values)
    IN Len(values) * SumFunction([i \in DOMAIN values |-> values[i] * values[i]]) - sum * sum

\* How far a value is from the mean, n times.
Off(values, value) == Len(values) * value - SumFunction(values)

Powers(series) == [i \in DOMAIN series |-> series[i].power]

\* A slip: three deviations.
DeviatesByThree(series, row) ==
    LET n == Len(series)
        off == Off(Powers(series), row.power)
    IN n > 1 /\ off * off * (n - 1) > 9 * n * Spread(Powers(series))

\* A row is an anomaly when its power is more than two standard deviations from the
\* mean of the window, or its frequency is off.  Multiplied out, over the integers.
Deviates(series, row) ==
    LET n == Len(series)
        spread == Spread(Powers(series))
        off == Off(Powers(series), row.power)
    IN n > 1 /\ spread > 0 /\ off * off * (n - 1) > 4 * n * spread

\* The slope of the least squares line through the readings, as a fraction.  The code
\* counts x in readings and then walks it in hours.
_compute_trend(values) ==
    LET n == Len(values)
        xs == [i \in DOMAIN values |-> i]
        products == [i \in DOMAIN values |-> i * values[i]]
    IN [rise |-> n * SumFunction(products) - SumFunction(xs) * SumFunction(values), run |-> Spread(xs)]

\* From the last reading along the trend, never below zero; << >> without readings.
_forecast_series(values, hour) ==
    IF values = << >> THEN << >>
    ELSE IF Len(values) = 1 THEN <<Last(values), 1>>
    ELSE LET trend == _compute_trend(values)
             top == trend.run * Last(values) + trend.rise * hour
         IN <<IF top < 0 THEN 0 ELSE top, trend.run>>

_detect_anomalies(d) ==
    IF Len(telemetry[d]) < 2 THEN << >>
    ELSE SelectSeq(telemetry[d], LAMBDA row : Deviates(telemetry[d], row) \/ row.frequency \notin 49 .. 51)

\* Redis answers with what it has; the row from Postgres that stands in for a missing
\* state keeps the charge one level deeper, where it is not looked for.
ChargeOf(d) == state[d].battery_soc

LowCharge(d) == d \in Batteries /\ ChargeOf(d) # None /\ ChargeOf(d) < 30

Failures(d) == Len(SelectSeq(commands, LAMBDA c : c.device = d /\ c.status = "FAILED"))

AlarmsOf(d) == Len(SelectSeq(alarms, LAMBDA a : a.device = d))

_predictive_maintenance_insight(d) ==
    LET score == 2 * Failures(d) + 2 * AlarmsOf(d) + (IF LowCharge(d) THEN 2 ELSE 0) IN
    CASE score >= 6 -> "HIGH"
      [] score \in 3 .. 5 -> "MEDIUM"
      [] score \in 1 .. 2 -> "LOW"
      [] OTHER -> "OK"

recommendations ==
    {<<d, "soc_low">> : d \in {e \in Registered : LowCharge(e)}}
    \cup {<<d, "predictive_maintenance">> :
            d \in {e \in Registered : _predictive_maintenance_insight(e) \in {"MEDIUM", "HIGH"}}}
    \cup {<<d, "anomaly">> : d \in {e \in Registered : _detect_anomalies(e) # << >>}}

fleet_overview ==
    [total |-> Cardinality(Registered),
     by_site |-> [s \in {registry[d].site : d \in Registered} \ {None} |->
                    Cardinality({d \in Registered : registry[d].site = s})]]

sites_overview ==
    [s \in Sites |->
       LET at == {d \in Registered : registry[d].site = s} IN
       [asset_count |-> Cardinality(at),
        online_assets |-> Cardinality({d \in at : registry[d].status = "ONLINE"})]]

reports_summary ==
    [commands |-> [s \in {commands[i].status : i \in DOMAIN commands} |->
                     Cardinality({i \in DOMAIN commands : commands[i].status = s})],
     latest |-> [d \in Registered |-> IF telemetry[d] = << >> THEN None ELSE Last(telemetry[d]).time],
     alarms |-> [s \in {alarms[i].severity : i \in DOMAIN alarms} |->
                     Cardinality({i \in DOMAIN alarms : alarms[i].severity = s})]]

\* GET /commands: the newest so many.
list_commands(limit) == {i \in DOMAIN commands : i > Len(commands) - limit}

\* A slip: the list is taken to be in the order of time.
OldestListed(d) ==
    LET shown == {i \in list_commands(Listed) : commands[i].device = d}
    IN IF shown = {} THEN None ELSE Min(shown)

\* The newest command of a device among those.
LastCommand(d) ==
    LET shown == {i \in list_commands(Listed) : commands[i].device = d}
    IN IF shown = {} THEN None ELSE Max(shown)

-----------------------------------------------------------------------------
(* What goes on underneath, and the dashboard.                             *)

Event == events + 2 < 3 * MaxEvents /\ events' = events + 3

\* register_asset.
Register(d) ==
    /\ Event /\ registry[d] = None
    /\ \E status \in {"ONLINE", "OFFLINE"}, site \in Sites \cup {None} :
          registry' = [registry EXCEPT ![d] = [status |-> status, site |-> site]]
    /\ UNCHANGED <<now, telemetry, commands, alarms, state, lost, pc, twin>>

\* ingest_telemetry: the row, and the state.
Ingest(d) ==
    /\ registry[d] # None /\ events < 3 * MaxEvents /\ events' = events + 1
    /\ \E r \in Readings :
          /\ telemetry' = [telemetry EXCEPT ![d] = Append(@, [time |-> now, power |-> r.power, frequency |-> r.frequency, soc |-> r.soc])]
          /\ state' = [state EXCEPT ![d] = [last_seen |-> now, battery_soc |-> r.soc]]
    /\ UNCHANGED <<now, registry, commands, alarms, lost, pc, twin>>

Command(d) ==
    /\ Event /\ registry[d] # None
    /\ \E status \in {"ACKED", "FAILED"} :
          commands' = Append(commands, [device |-> d, status |-> status])
    /\ UNCHANGED <<now, registry, telemetry, alarms, state, lost, pc, twin>>

Alarm(d) ==
    /\ Event /\ registry[d] # None
    /\ \E severity \in Severities :
          alarms' = Append(alarms, [device |-> d, severity |-> severity])
    /\ UNCHANGED <<now, registry, telemetry, commands, state, lost, pc, twin>>

NoState == [last_seen |-> None, battery_soc |-> None]

\* The state is flushed with Redis, or expires a day after it was last written.
Loses(d) ==
    /\ Event /\ state[d].last_seen # None
    /\ state' = [state EXCEPT ![d] = NoState]
    /\ lost' = TRUE
    /\ UNCHANGED <<now, registry, telemetry, commands, alarms, pc, twin>>

Tick == now < MaxNow /\ now' = now + 1 /\ UNCHANGED <<registry, telemetry, commands, alarms, state, lost, pc, twin, events>>

\* build_all_twins: GET /assets, then GET /health/assets, then GET /commands.
ReadAssets ==
    /\ pc = "assets" /\ pc' = "health"
    /\ twin' = [d \in Registered |-> [asset |-> registry[d], health |-> "UNKNOWN", command |-> None]]

ReadHealth ==
    /\ pc = "health" /\ pc' = "commands"
    /\ twin' = [d \in DOMAIN twin |-> [twin[d] EXCEPT !.health = _evaluate_health(d)]]

\* A call that fails leaves the twins without their health.
HealthFails == pc = "health" /\ pc' = "commands" /\ UNCHANGED twin

ReadCommands ==
    /\ pc = "commands" /\ pc' = "assets"
    /\ twin' = [d \in DOMAIN twin |-> [twin[d] EXCEPT !.command = LastCommand(d)]]

BuildTwins ==
    /\ ReadAssets \/ ReadHealth \/ HealthFails \/ ReadCommands
    /\ UNCHANGED <<now, registry, telemetry, commands, alarms, state, lost, events>>

Init ==
    /\ now = 0
    /\ registry = [d \in Devices |-> None]
    /\ telemetry = [d \in Devices |-> << >>]
    /\ commands = << >> /\ alarms = << >>
    /\ state = [d \in Devices |-> NoState] /\ lost = FALSE
    /\ pc = "assets" /\ twin = << >>
    /\ events = 0

Next ==
    \/ \E d \in Devices : Register(d) \/ Ingest(d) \/ Command(d) \/ Alarm(d) \/ Loses(d)
    \/ Tick \/ BuildTwins

Spec == Init /\ [][Next]_fleetVars

-----------------------------------------------------------------------------
(* Properties.                                                             *)

\* Two sigma need six readings: one that differs from all others is told from the
\* sixth on, and no power is told before (_detect_anomalies).
OutlierIsTold(d) ==
    LET series == telemetry[d]
        Odd(i) == \A j, k \in DOMAIN series \ {i} :
                     series[j].power = series[k].power /\ series[i].power # series[j].power
    IN \A i \in DOMAIN series :
          /\ Len(series) >= 6 /\ Odd(i) => Deviates(series, series[i])
          /\ Len(series) < 6 => ~Deviates(series, series[i])

\* Powers on a line are forecast on that line, down to zero (_forecast_series).
LineIsForecast(d) ==
    LET powers == Powers(telemetry[d])
        step == IF Len(powers) < 2 THEN 0 ELSE powers[2] - powers[1]
        next == Last(powers) + step
        point == _forecast_series(powers, 1)
    IN powers # << >> /\ (\A i \in 2 .. Len(powers) : powers[i] - powers[i - 1] = step)
       => point[1] = point[2] * (IF next < 0 THEN 0 ELSE next)

\* What Redis has of a device and what Postgres has tell the same: a battery whose last
\* reading is below thirty percent is recommended for recharging, as long as no state was
\* lost, and the report dates its latest reading when the state was last seen.
StateIsNewest ==
    ~lost => /\ \A d \in Registered \cap Batteries :
                    (<<d, "soc_low">> \in recommendations) <=>
                       telemetry[d] # << >> /\ Last(telemetry[d]).soc < 30
             /\ \A d \in Registered : reports_summary.latest[d] = state[d].last_seen

\* The views agree with the tables and with each other: the state of a device is its newest
\* reading; the sites of an overview add up to its total, and the commands of a report to
\* all commands; an outlier is told, and a line is forecast.
ViewsAgree ==
    /\ StateIsNewest
    /\ SumFunction(reports_summary.commands) = Len(commands)
    /\ LET view == fleet_overview IN
       /\ view.total = Cardinality({d \in Registered : registry[d].site = None})
                       + SumFunction(view.by_site)
       /\ \A s \in Sites : sites_overview[s].asset_count = IF s \in DOMAIN view.by_site THEN view.by_site[s] ELSE 0
    /\ \A d \in Devices : OutlierIsTold(d) /\ LineIsForecast(d)

\* The dashboard goes forward: the command it shows of a device is the last there is at
\* that time, and a device it calls OK had a reading within the time a state is fresh
\* for, and no alarm that was not cleared (build_all_twins, _evaluate_health).
GoesForward ==
    \A d \in DOMAIN twin \cap DOMAIN twin' :
       /\ pc = "commands" /\ twin'[d].command # None =>
             \A i \in DOMAIN commands : commands[i].device = d => i <= twin'[d].command
       /\ pc = "health" /\ twin'[d].health = "OK" =>
             /\ \E i \in DOMAIN telemetry[d] : telemetry[d][i].time >= now - 1
             /\ \A i \in DOMAIN alarms :
                   alarms[i].device = d => \E j \in DOMAIN alarms : j >= i /\ alarms[j] = [device |-> d, severity |-> "OK"]
=============================================================================
