----------------------------- MODULE Onboarding -----------------------------
(* Devices: registration as an asset of a tenant, and the onboarding         *)
(* pipeline REGISTERED -> VALIDATED -> CERTIFIED -> PRODUCTION_READY. A      *)
(* request reads the row, looks at the platform for a while (certification   *)
(* opens sockets), and writes the row without another look at its status.    *)
EXTENDS Integers, FiniteSets

CONSTANTS
    Devices,        \* identities of devices
    Tenants,        \* tenants; "default" is one of them
    Reviews,        \* the requests that may be at work at the same time
    None

VARIABLES
    asset,          \* devices: the tenant and the status of each, or None
    onboarding,     \* device_onboarding: the status and what was declared, or None
    certificates,   \* device_certifications: the latest result of each test
    review,         \* what each request has read and is about to write
    earned,         \* history: what a device once passed
    peak,           \* history: the furthest status it ever had
    overlapped      \* history: devices that two requests were at together

onboardingVars == <<asset, onboarding, certificates, review, earned, peak, overlapped>>

ONBOARDING_STATES == <<"REGISTERED", "VALIDATED", "CERTIFIED", "PRODUCTION_READY">>
CERTIFICATION_TESTS == {"connectivity", "telemetry", "command", "ack", "failover", "security"}
Results == {"PASS", "FAIL", "PENDING"}
States == {ONBOARDING_STATES[k] : k \in 1 .. 4}
Rank(status) == CHOOSE k \in 1 .. 4 : ONBOARDING_STATES[k] = status
AssetRow == [tenant : Tenants, status : {"ONLINE", "OFFLINE"}]
OnboardingRow == [status : States, protocol : BOOLEAN, site : BOOLEAN, passed : BOOLEAN]
Review == [device : Devices, kind : {"validate", "certify", "approve"}, saw : States, step : {"look", "advance"}]

OnboardingAssumption ==
    /\ "default" \in Tenants /\ None \notin Tenants
    /\ None \notin AssetRow \union OnboardingRow \union Review

Init ==
    /\ asset = [d \in Devices |-> None]
    /\ onboarding = [d \in Devices |-> None]
    /\ certificates = [d \in Devices |-> [t \in CERTIFICATION_TESTS |-> None]]
    /\ review = [r \in Reviews |-> None]
    /\ earned = [d \in Devices |-> {}]
    /\ peak = [d \in Devices |-> 0]
    /\ overlapped = {}

-----------------------------------------------------------------------------
(* The tenant of a new device is the one that is asked for, or the caller's, *)
(* or the default one. The site and the device are one transaction.          *)
RegisterAsset(d, asked, caller, status) ==
    /\ asset[d] = None
    /\ asset' = [asset EXCEPT ![d] =
           [tenant |-> IF asked # None THEN asked ELSE IF caller # None THEN caller ELSE "default",
            status |-> status]]
    /\ UNCHANGED <<onboarding, certificates, review, earned, peak, overlapped>>

(* The UNIQUE constraint turns a second enrollment into a 409.               *)
EnrollDevice(d, protocol, site) ==
    /\ asset[d] # None /\ onboarding[d] = None
    /\ onboarding' = [onboarding EXCEPT ![d] =
           [status |-> "REGISTERED", protocol |-> protocol, site |-> site, passed |-> FALSE]]
    /\ peak' = [peak EXCEPT ![d] = 1]
    /\ UNCHANGED <<asset, certificates, review, earned, overlapped>>

(* From which statuses each request may start.                               *)
StartsFrom(kind) ==
    CASE kind = "validate" -> {"REGISTERED", "VALIDATED"}
      [] kind = "certify"  -> {"VALIDATED", "CERTIFIED", "PRODUCTION_READY"}
      [] kind = "approve"  -> {"CERTIFIED"}

At(d) == {r \in Reviews : review[r] # None /\ review[r].device = d}

ReadRow(r, d, kind) ==
    /\ review[r] = None /\ onboarding[d] # None
    /\ onboarding[d].status \in StartsFrom(kind)
    /\ review' = [review EXCEPT ![r] =
           [device |-> d, kind |-> kind, saw |-> onboarding[d].status,
            step |-> IF kind = "approve" THEN "advance" ELSE "look"]]
    /\ overlapped' = IF At(d) = {} THEN overlapped ELSE overlapped \union {d}
    /\ UNCHANGED <<asset, onboarding, certificates, earned, peak>>

(* _advance_onboarding: the status is set whatever it is by now.             *)
AdvanceOnboarding(d, status, passed) ==
    /\ onboarding' = [onboarding EXCEPT ![d].status = status, ![d].passed = passed]
    /\ peak' = [peak EXCEPT ![d] = IF Rank(status) > @ THEN Rank(status) ELSE @]

(* Protocol and telemetry are the hard gates; the site is advisory. A failed *)
(* validation is recorded and does not move the device.                      *)
Passed(d, telemetrySeen) == asset[d] # None /\ onboarding[d].protocol /\ telemetrySeen

ValidateOnboarding(r, telemetrySeen) ==
    /\ review[r] # None /\ review[r].kind = "validate"
    /\ LET d == review[r].device IN
       IF Passed(d, telemetrySeen)
       THEN /\ AdvanceOnboarding(d, "VALIDATED", TRUE)
            /\ earned' = [earned EXCEPT ![d] = @ \union {"valid"}]
       ELSE /\ onboarding' = [onboarding EXCEPT ![d].passed = FALSE]
            /\ UNCHANGED <<peak, earned>>
    /\ review' = [review EXCEPT ![r] = None]
    /\ UNCHANGED <<asset, certificates, overlapped>>

(* What the tests find: the latest telemetry is missing, old, fresh, or      *)
(* fresh and steady; the latest command is missing, failed, sent or          *)
(* acknowledged; Redis has a replica; the API enforces authentication and    *)
(* plain MQTT refuses connections.                                           *)
Findings == [telemetry : {"none", "old", "fresh", "steady"},
             command : {"none", "failed", "sent", "acked"},
             replica : BOOLEAN, locked : BOOLEAN]

Mark(ok) == IF ok THEN "PASS" ELSE "FAIL"

CertificationTests(d, f) ==
    [t \in CERTIFICATION_TESTS |->
       CASE t = "connectivity" -> Mark(asset[d] # None /\ asset[d].status # "OFFLINE")
         [] t = "telemetry"    -> Mark(f.telemetry \in {"fresh", "steady"})
         [] t = "command"      -> IF f.command = "none" THEN "PENDING" ELSE Mark(f.command \in {"sent", "acked"})
         [] t = "ack"          -> IF f.command = "none" THEN "PENDING" ELSE Mark(f.command = "acked")
         [] t = "failover"     -> Mark(f.telemetry = "steady" /\ f.replica)
         [] t = "security"     -> Mark(f.locked)]

\* A slip: what is pending does not count.
CertifiedUnlessFailed(results) == \A t \in CERTIFICATION_TESTS : results[t] # "FAIL"

Certified(results) == \A t \in CERTIFICATION_TESTS : results[t] \notin {"FAIL", "PENDING"}

(* All six results are stored in one transaction; the row is moved in        *)
(* another one, and only when it was VALIDATED before the tests.             *)
RunCertificationTests(r, f) ==
    /\ review[r] # None /\ review[r].kind = "certify" /\ review[r].step = "look"
    /\ LET d == review[r].device
           results == CertificationTests(d, f)
       IN /\ certificates' = [certificates EXCEPT ![d] = results]
          /\ earned' = [earned EXCEPT ![d] =
                 IF \A t \in CERTIFICATION_TESTS : results[t] = "PASS" THEN @ \union {"certificate"} ELSE @]
          /\ review' = [review EXCEPT ![r] =
                 IF Certified(results) /\ @.saw = "VALIDATED" THEN [@ EXCEPT !.step = "advance"] ELSE None]
    /\ UNCHANGED <<asset, onboarding, peak, overlapped>>

CertifyOnboarding(r) ==
    /\ review[r] # None /\ review[r].kind = "certify" /\ review[r].step = "advance"
    /\ AdvanceOnboarding(review[r].device, "CERTIFIED", onboarding[review[r].device].passed)
    /\ review' = [review EXCEPT ![r] = None]
    /\ UNCHANGED <<asset, certificates, earned, overlapped>>

ApproveOnboarding(r) ==
    /\ review[r] # None /\ review[r].kind = "approve"
    /\ AdvanceOnboarding(review[r].device, "PRODUCTION_READY", onboarding[review[r].device].passed)
    /\ earned' = [earned EXCEPT ![review[r].device] = @ \union {"approval"}]
    /\ review' = [review EXCEPT ![r] = None]
    /\ UNCHANGED <<asset, certificates, overlapped>>

(* The process dies, or a statement raises.                                  *)
ReviewEnds(r) ==
    /\ review[r] # None
    /\ review' = [review EXCEPT ![r] = None]
    /\ UNCHANGED <<asset, onboarding, certificates, earned, peak, overlapped>>

Next ==
    \/ \E d \in Devices :
         \/ \E asked, caller \in Tenants \union {None}, status \in {"ONLINE", "OFFLINE"} :
                RegisterAsset(d, asked, caller, status)
         \/ \E protocol, site \in BOOLEAN : EnrollDevice(d, protocol, site)
         \/ \E r \in Reviews, kind \in {"validate", "certify", "approve"} : ReadRow(r, d, kind)
    \/ \E r \in Reviews :
         \/ \E seen \in BOOLEAN : ValidateOnboarding(r, seen)
         \/ \E f \in Findings : RunCertificationTests(r, f)
         \/ CertifyOnboarding(r) \/ ApproveOnboarding(r) \/ ReviewEnds(r)

Spec == Init /\ [][Next]_onboardingVars

-----------------------------------------------------------------------------
(* The state keeps its types; only a registered device is enrolled.          *)
TypeOK ==
    /\ asset \in [Devices -> AssetRow \union {None}]
    /\ onboarding \in [Devices -> OnboardingRow \union {None}]
    /\ certificates \in [Devices -> [CERTIFICATION_TESTS -> Results \union {None}]]
    /\ review \in [Reviews -> Review \union {None}]
    /\ earned \in [Devices -> SUBSET {"valid", "certificate", "approval"}]
    /\ peak \in [Devices -> 0 .. 4] /\ overlapped \subseteq Devices

(* A device stands where it stands for a reason, whatever requests overlap   *)
(* or die: VALIDATED and beyond it passed the gates, CERTIFIED and beyond    *)
(* all six tests passed in one run, PRODUCTION_READY it was approved. And    *)
(* "never downgrade an already-approved device" (app.py) is kept by requests *)
(* that do not overlap.                                                      *)
Deserves(d, status) ==
    /\ Rank(status) >= 2 => "valid" \in earned[d]
    /\ Rank(status) >= 3 => "certificate" \in earned[d]
    /\ Rank(status) >= 4 => "approval" \in earned[d]
StageIsEarned ==
    \A d \in Devices : onboarding[d] # None =>
        /\ Deserves(d, onboarding[d].status)
        /\ d \notin overlapped => Rank(onboarding[d].status) = peak[d]

=============================================================================
