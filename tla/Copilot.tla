------------------------------- MODULE Copilot -------------------------------
(***************************************************************************)
(* The copilot library (copilot/): answers about the fleet, written by a   *)
(* chain of three language models and kept for a while in Redis.  No       *)
(* service of the repository calls it yet; a caller here does what the     *)
(* example in cache/redis_cache.py does: get_or_compute, under its tenant, *)
(* of an answer about the devices its tenant may see.                      *)
(***************************************************************************)
EXTENDS Integers, Sequences, FiniteSets, SequencesExt

CONSTANTS
    Callers,       \* requests in progress at a time
    Tenants,       \* tenants; None is a global principal
    Devices,       \* numbers, in the order of their names
    Owner,         \* the tenant of each device
    Signals,       \* what is known of a device: [status, fresh, critical]
    TTL,           \* how long an answer is kept
    TopN,          \* how many concerns are listed
    MaxNow, MaxChanges,   \* bounds
    None

AllSignals == [status : {"ONLINE", "OFFLINE", "DEGRADED", "UNKNOWN"},
               fresh : {"yes", "no", "unknown"}, critical : BOOLEAN]

CopilotAssumption ==
    /\ Devices \subseteq Nat /\ IsFiniteSet(Devices) /\ DOMAIN Owner = Devices
    /\ None \notin Tenants /\ "__global__" \notin Tenants     \* nothing refuses that name
    /\ None \notin {s.status : s \in AllSignals}
    /\ Signals \subseteq AllSignals
    /\ TTL \in Nat \ {0} /\ TopN \in Nat

\* How the call of each tier can end: with a text or an empty one, with a ProviderError
\* of a refused key (401, 403) or another, or with an exception that is none, such as a
\* connection reset while the answer is read.  An empty text is an error of the others.
OpenRouter == {"text", "empty", "auth", "error", "reset"}
OllamaLocal == {"text", "auth", "error", "reset"}
OllamaCloud == {"text", "auth", "error", "reset"}
Outcomes == [openrouter |-> OpenRouter, ollama_local |-> OllamaLocal, ollama_cloud |-> OllamaCloud]

\* The tier that is tried after one that failed.
NextTier == [openrouter |-> "ollama_local", ollama_local |-> "ollama_cloud", ollama_cloud |-> None]
Tiers == DOMAIN NextTier

VARIABLES
    now,
    signals,       \* what the database and Redis say of each device
    cache,         \* per key, an answer and when it expires, or None
    pc,            \* per caller: "idle", "miss", the tier it waits for, "store"
    tenant,        \* whom it asks for
    about,         \* the context it read, or None
    answer,        \* its latest answer, or None
    changes

copilotVars == <<now, signals, cache, pc, tenant, about, answer, changes>>

-----------------------------------------------------------------------------
(* Health of a device, and what to worry about first.                      *)

evaluate_health_for_device(s) ==
    CASE s.status \in {"OFFLINE", "DEGRADED"} -> s.status
      [] s.critical \/ s.fresh = "no" -> "DEGRADED"
      [] s.status = "ONLINE" -> "OK"
      [] OTHER -> s.status

\* One for each device.
evaluate_health_bulk(known) ==
    [d \in DOMAIN known |-> [health |-> evaluate_health_for_device(known[d]),
                             critical |-> known[d].critical, fresh |-> known[d].fresh]]

Score(h) ==
    (IF h.critical THEN 1000 ELSE 0)
    + (CASE h.health = "OFFLINE" -> 500 [] h.health = "DEGRADED" -> 200 [] OTHER -> 0)
    + (IF h.fresh = "no" THEN 50 ELSE 0)

get_top_concerns(healths) ==
    LET known == DOMAIN healths
        Before(d, e) == \/ Score(healths[d]) > Score(healths[e])
                        \/ Score(healths[d]) = Score(healths[e]) /\ d < e
        worst == CHOOSE list \in [1 .. Cardinality(known) -> known] :
                    \A i, j \in DOMAIN list : i < j => Before(list[i], list[j])
    IN SubSeq(worst, 1, IF TopN < Len(worst) THEN TopN ELSE Len(worst))

-----------------------------------------------------------------------------
(* Asking.                                                                 *)

\* Queries are filtered by the tenant, unless there is none.
Visible(t) == {d \in Devices : t = None \/ Owner[d] = t}

\* One device, and whether a critical one is among its latest alarms: nothing is found
\* of the devices of others.
get_device_row(d, t) == IF d \in Visible(t) THEN signals[d].status ELSE None
get_alarms_by_device(d, t) == d \in Visible(t) /\ signals[d].critical

\* A slip: the tenant is no part of the key.
KeyOfEndpoint(t) == "__global__"

\* The tenant and the endpoint, hashed.
KeyOf(t) == IF t = None THEN "__global__" ELSE t

\* Nothing when there is no entry, it expired, or Redis cannot be reached.
CacheGets(key) ==
    {None} \cup (IF cache[key] # None /\ now < cache[key].expires THEN {cache[key].answer} ELSE {})

Ask(c) ==
    /\ pc[c] = "idle"
    /\ \E t \in Tenants \cup {None} : \E found \in CacheGets(KeyOf(t)) :
          /\ tenant' = [tenant EXCEPT ![c] = t]
          /\ pc' = [pc EXCEPT ![c] = IF found = None THEN "miss" ELSE "idle"]
          /\ answer' = [answer EXCEPT ![c] = found]
    /\ UNCHANGED <<now, signals, cache, about, changes>>

\* What the tenant finds of its devices; the last sign of life is in Redis.
Found(t) ==
    [d \in {e \in Devices : get_device_row(e, t) # None} |->
        [status |-> get_device_row(d, t), fresh |-> signals[d].fresh,
         critical |-> get_alarms_by_device(d, t)]]

\* compute_fn: the context is read, then the first tier is called.
Read(c) ==
    /\ pc[c] = "miss"
    /\ about' = [about EXCEPT ![c] = Found(tenant[c])]
    /\ pc' = [pc EXCEPT ![c] = "openrouter"]
    /\ UNCHANGED <<now, signals, cache, tenant, answer, changes>>

\* A tier answers; an empty answer is one.
Answers(c) ==
    /\ pc[c] \in Tiers
    /\ \E text \in Outcomes[pc[c]] \cap {"text", "empty"} :
          answer' = [answer EXCEPT ![c] = [text |-> text, about |-> about[c]]]
    /\ pc' = [pc EXCEPT ![c] = "store"]
    /\ UNCHANGED <<now, signals, cache, tenant, about, changes>>

Fallback(c) == [answer EXCEPT ![c] = [text |-> "fallback", about |-> about[c]]]

\* A tier raises ProviderError: the next one is tried, unless the key was refused or
\* there is none; then the answer is the context itself.
Fails(c) ==
    /\ pc[c] \in Tiers
    /\ \E why \in Outcomes[pc[c]] \cap {"auth", "error"} :
          IF why = "auth" \/ NextTier[pc[c]] = None
          THEN answer' = Fallback(c) /\ pc' = [pc EXCEPT ![c] = "store"]
          ELSE pc' = [pc EXCEPT ![c] = NextTier[@]] /\ UNCHANGED answer
    /\ UNCHANGED <<now, signals, cache, tenant, about, changes>>

\* Any other exception leaves get_or_compute.
Breaks(c) ==
    /\ pc[c] \in Tiers /\ "reset" \in Outcomes[pc[c]]
    /\ pc' = [pc EXCEPT ![c] = "idle"] /\ answer' = [answer EXCEPT ![c] = None]
    /\ about' = [about EXCEPT ![c] = None]
    /\ UNCHANGED <<now, signals, cache, tenant, changes>>

\* setex, if Redis can be reached; whatever the answer, and over a newer one.
Store(c) ==
    /\ pc[c] = "store"
    /\ \/ cache' = [cache EXCEPT ![KeyOf(tenant[c])] = [answer |-> answer[c], expires |-> now + TTL]]
       \/ UNCHANGED cache
    /\ pc' = [pc EXCEPT ![c] = "idle"]
    /\ about' = [about EXCEPT ![c] = None]
    /\ UNCHANGED <<now, signals, tenant, answer, changes>>

Change(d) ==
    /\ changes < MaxChanges /\ changes' = changes + 1
    /\ \E s \in Signals : signals' = [signals EXCEPT ![d] = s]
    /\ UNCHANGED <<now, cache, pc, tenant, about, answer>>

Tick == now < MaxNow /\ now' = now + 1 /\ UNCHANGED <<signals, cache, pc, tenant, about, answer, changes>>

Init ==
    /\ now = 0
    /\ signals \in [Devices -> Signals]
    /\ cache = [k \in {KeyOf(t) : t \in Tenants \cup {None}} |-> None]
    /\ pc = [c \in Callers |-> "idle"]
    /\ tenant = [c \in Callers |-> None]
    /\ about = [c \in Callers |-> None] /\ answer = [c \in Callers |-> None]
    /\ changes = 0

Next ==
    \/ \E c \in Callers : Ask(c) \/ Read(c) \/ Answers(c) \/ Fails(c) \/ Breaks(c) \/ Store(c)
    \/ \E d \in Devices : Change(d)
    \/ Tick

Spec == Init /\ [][Next]_copilotVars

-----------------------------------------------------------------------------
(* Properties.                                                             *)

\* Nobody is answered about the devices of another tenant, whoever asked before and
\* filled the cache (redis_cache.get_or_compute); an answer is about all of one's own.
AnswersStayInTenant ==
    \A c \in Callers : pc[c] = "idle" /\ answer[c] # None => DOMAIN answer[c].about = Visible(tenant[c])

\* "Sorting priority" of get_top_concerns: critical alarms before offline devices before
\* degraded ones before stale ones, then by name; whatever is known of the devices, the
\* scores add up to that order, and what is cut off is no worse.
WorstComesFirst ==
    \A known \in [Devices -> AllSignals] :
       LET h == evaluate_health_bulk(known)
           rank(x) == << ~h[x].critical, h[x].health # "OFFLINE", h[x].health # "DEGRADED", h[x].fresh # "no" >>
           Worse(d, e) ==
              LET differ == {k \in 1 .. 4 : rank(d)[k] # rank(e)[k]}
              IN IF differ = {} THEN d < e ELSE ~rank(d)[CHOOSE k \in differ : \A j \in differ : k <= j]
           top == get_top_concerns(h)
       IN /\ \A i \in 2 .. Len(top) : Worse(top[i - 1], top[i])
          /\ \A d \in Devices \ ToSet(top) : Len(top) = TopN /\ \A i \in DOMAIN top : Worse(top[i], d)
=============================================================================
