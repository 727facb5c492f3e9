------------------------------ MODULE LlmClient ------------------------------
(***************************************************************************)
(* The health of the LLM providers as the threads of one worker share it:  *)
(* PROVIDER_COOLDOWNS, PROVIDER_CONSECUTIVE_429S and                       *)
(* PROVIDER_AUTH_FAILURES of src/src/worker/services/llm_client.py, the    *)
(* retry ladder of LLMClient.complete, and the two legs of a translation   *)
(* call of src/src/worker/services/translation.py: the pinned target, then *)
(* the fallback.                                                           *)
(*                                                                         *)
(* Time is counted in units of COOLDOWN_BASE_SECONDS; a cooldown and a     *)
(* park are kept as what is left of them.                                  *)
(***************************************************************************)
EXTENDS Integers, FiniteSets

CONSTANTS Caller,         \* threads that translate, each for a job of its own
          Nobody,         \* no thread
          Provider,
          Keyed,          \* providers with an API key
          Jobs,           \* for each thread what it may be pinned to
          Global,         \* TL_CONFIG: the default provider and model
          Second,         \* TL_FALLBACK_MODEL, or NoModel
          NoModel,
          Attempts,       \* stop_after_attempt
          MaxMultiplier,  \* COOLDOWN_MAX_SECONDS / COOLDOWN_BASE_SECONDS
          MaxWait,        \* max_wait of wait_for_cooldown
          AuthPark,       \* AUTH_FAILURE_COOLDOWN_SECONDS
          RetryAfters,    \* bound: the Retry-After headers a 429 may carry
          Filters,        \* what a 400 or a routing 404 can turn off in a payload
          MaxStrikes      \* bound: 429s in a row that are told apart

AllJobs == UNION {Jobs[c] : c \in Caller}
Targets == {[provider |-> j.provider, model |-> j.model] : j \in AllJobs}
           \cup {Global} \cup {[provider |-> p, model |-> Second] : p \in Provider}

ASSUME ClientAssumption ==
    /\ IsFiniteSet(Caller) /\ Caller # {} /\ Nobody \notin Caller /\ Keyed \subseteq Provider
    /\ \A j \in AllJobs : j.provider \in Provider /\ j.fallbacks \in BOOLEAN
    /\ Global.provider \in Provider
    /\ Attempts \in Nat \ {0} /\ MaxMultiplier \in Nat \ {0} /\ MaxStrikes \in Nat \ {0}
    /\ MaxWait \in Nat /\ AuthPark \in Nat \ {0}
    /\ RetryAfters \subseteq Nat

VARIABLES cooldown,  \* PROVIDER_COOLDOWNS: the time left
          parked,    \* PROVIDER_AUTH_FAILURES: the time left
          strikes,   \* PROVIDER_CONSECUTIVE_429S
          lock,      \* _STATE_LOCK: its holder or Nobody
          job,       \* what a thread is pinned to
          pc, target, sleep,
          client,    \* the LLMClient of a call: the try it is at, and what
                     \* its payload still carries
          seen,      \* the strikes a thread read under the lock
          limited,   \* ghost: 429s registered since the last success
          knocks,    \* ghost: requests to a provider since it was parked
          hurried,   \* ghost: requests to a provider during its cooldown
          rejected   \* ghost: providers that ever answered 401 or 403

health == <<cooldown, parked, strikes>>
call == <<target, sleep, client>>
ghosts == <<limited, knocks, hurried, rejected>>
vars == <<health, lock, job, pc, call, seen, ghosts>>

Least(a, b) == IF a < b THEN a ELSE b
Most(a, b) == IF a > b THEN a ELSE b
Less(n) == IF n = 0 THEN 0 ELSE n - 1

Pin(c) == [provider |-> job[c].provider, model |-> job[c].model]
At(c) == target[c].provider

NewClient == [try |-> 1, filters |-> Filters]

Init ==
    /\ cooldown = [p \in Provider |-> 0]
    /\ parked = [p \in Provider |-> 0]
    /\ strikes = [p \in Provider |-> 0]
    /\ lock = Nobody
    /\ job \in [Caller -> AllJobs] /\ \A c \in Caller : job[c] \in Jobs[c]
    /\ pc = [c \in Caller |-> "idle"]
    /\ target = [c \in Caller |-> Pin(c)]
    /\ sleep = [c \in Caller |-> 0]
    /\ client = [c \in Caller |-> NewClient]
    /\ seen = [c \in Caller |-> 0]
    /\ limited = [p \in Provider |-> 0]
    /\ knocks = [p \in Provider |-> 0]
    /\ hurried = [p \in Provider |-> 0]
    /\ rejected = {}

Goto(c, l) == pc' = [pc EXCEPT ![c] = l]

(* The translation call is over. *)
Close(c) ==
    /\ Goto(c, "idle")
    /\ target' = [target EXCEPT ![c] = Pin(c)]
    /\ client' = [client EXCEPT ![c] = NewClient]

(* complete returns None; its client is not used again. *)
Fail(c) == Goto(c, "failed") /\ client' = [client EXCEPT ![c] = NewClient]

(***************************************************************************)
(* LLMClient.complete, with a client of its own for each call.  A parked   *)
(* provider is not asked; a cooling one is waited for, as long as max_wait *)
(* allows, and looked at once more.                                        *)
(***************************************************************************)
Nap(p) == Least(cooldown[p], MaxWait)   \* wait_for_cooldown

(* mistake: a rejected key is not remembered *)
OpenUnchecked(c, t) ==
    /\ target' = [target EXCEPT ![c] = t]
    /\ Goto(c, "waiting")
    /\ sleep' = [sleep EXCEPT ![c] = Nap(t.provider)]

Open(c, t) ==
    /\ target' = [target EXCEPT ![c] = t]
    /\ IF parked[t.provider] > 0
         THEN Goto(c, "failed") /\ sleep' = [sleep EXCEPT ![c] = 0]
         ELSE /\ Goto(c, "waiting")
              /\ sleep' = [sleep EXCEPT ![c] = Nap(t.provider)]


Wake(c) ==
    /\ pc[c] = "waiting" /\ sleep[c] = 0
    /\ Goto(c, IF cooldown[At(c)] > 0 THEN "failed" ELSE "sending")
    /\ UNCHANGED <<health, lock, job, call, seen, ghosts>>

(* requests.post, after the rate limiter or the back-off of the ladder. *)
Send(c) ==
    /\ pc[c] = "sending"
    /\ Goto(c, "inflight")
    /\ knocks' = [knocks EXCEPT ![At(c)] = @ + (IF parked[At(c)] > 0 THEN 1 ELSE 0)]
    /\ hurried' = [hurried EXCEPT ![At(c)] = @ + (IF cooldown[At(c)] > 0 THEN 1 ELSE 0)]
    /\ UNCHANGED <<health, lock, job, call, seen, limited, rejected>>

(* mistake: no stop_after_attempt *)
AgainForever(c, filters) ==
    Goto(c, "sending") /\ client' = [client EXCEPT ![c].filters = filters]

(* TransientAPIError: the next rung of the ladder, if there is one. *)
Again(c, filters) ==
    IF client[c].try < Attempts
      THEN /\ Goto(c, "sending")
           /\ client' = [client EXCEPT ![c] = [try |-> @.try + 1, filters |-> filters]]
      ELSE Fail(c)

(* A time-out, a broken connection or a 5xx. *)
Flaky(c) ==
    /\ pc[c] = "inflight"
    /\ Again(c, client[c].filters)
    /\ UNCHANGED <<health, lock, job, target, sleep, seen, ghosts>>

(* A 400 degrades the schema, a routing 404 relaxes a filter; the payload of
   this call keeps the change.  require_parameters goes after reasoning. *)
Relax(c) ==
    /\ pc[c] = "inflight"
    /\ \E f \in client[c].filters :
          /\ f = "require_parameters" => "reasoning" \notin client[c].filters
          /\ Again(c, client[c].filters \ {f})
    /\ UNCHANGED <<health, lock, job, target, sleep, seen, ghosts>>

(* A content refusal or any other 4xx: PermanentAPIError. *)
Refused(c) ==
    /\ pc[c] = "inflight"
    /\ Fail(c)
    /\ UNCHANGED <<health, lock, job, target, sleep, seen, ghosts>>

(* mistake: the count is read without the lock *)
LimitedUnlocked(c) ==
    /\ pc[c] = "inflight"
    /\ seen' = [seen EXCEPT ![c] = strikes[At(c)]]
    /\ Goto(c, "counting")
    /\ UNCHANGED <<health, lock, job, call, ghosts>>

(* A 429: _register_rate_limit takes the lock and reads the count ... *)
Limited(c) ==
    /\ pc[c] = "inflight" /\ lock = Nobody
    /\ lock' = c
    /\ seen' = [seen EXCEPT ![c] = strikes[At(c)]]
    /\ Goto(c, "counting")
    /\ UNCHANGED <<health, job, call, ghosts>>

(* ... and writes it back one higher, with the cooldown it calls for. *)
Multiplier(n) ==   \* min(2 ** (n - 1), the cap)
    IF 2 ^ (n - 1) \in 1 .. MaxMultiplier THEN 2 ^ (n - 1) ELSE MaxMultiplier
Cooldown(n, header) == Most(header, Multiplier(n))

Count(c) ==
    LET p == At(c)
        n == Least(seen[c] + 1, MaxStrikes)
    IN  /\ pc[c] = "counting"
        /\ strikes' = [strikes EXCEPT ![p] = n]
        /\ \E header \in RetryAfters \cup {1} :
              cooldown' = [cooldown EXCEPT ![p] = Cooldown(n, header)]
        /\ limited' = [limited EXCEPT ![p] = Least(@ + 1, MaxStrikes)]
        /\ lock' = Nobody
        /\ seen' = [seen EXCEPT ![c] = 0]
        /\ Again(c, client[c].filters)
        /\ UNCHANGED <<parked, job, target, sleep, knocks, hurried, rejected>>

(* A 401 or 403 parks the provider. *)
Reject(c) ==
    LET p == At(c)
    IN  /\ pc[c] = "inflight" /\ lock = Nobody
        /\ parked' = [parked EXCEPT ![p] = AuthPark]
        /\ rejected' = rejected \cup {p}
        /\ Fail(c)
        /\ UNCHANGED <<cooldown, strikes, lock, job, target, sleep, seen, limited, knocks, hurried>>

(* _parse_response forgets the strikes and the park, not the cooldown.  An
   empty content is no answer to the caller. *)
Answer(c) ==
    LET p == At(c)
    IN  /\ pc[c] = "inflight" /\ lock = Nobody
        /\ strikes' = [strikes EXCEPT ![p] = 0]
        /\ limited' = [limited EXCEPT ![p] = 0]
        /\ parked' = [parked EXCEPT ![p] = 0]
        /\ knocks' = [knocks EXCEPT ![p] = 0]
        /\ \/ Close(c)
           \/ Fail(c) /\ UNCHANGED target
        /\ UNCHANGED <<cooldown, lock, job, sleep, seen, hurried, rejected>>

(* A 200 whose body is no JSON: the error is none that complete catches, and
   ends the translation call. *)
Garbled(c) ==
    /\ pc[c] = "inflight"
    /\ Close(c)
    /\ UNCHANGED <<health, lock, job, sleep, seen, ghosts>>

(***************************************************************************)
(* translate_text and translate_batch_llm: the pinned target and then, if  *)
(* it gave nothing, the fallback.                                          *)
(***************************************************************************)
Ask(c) ==
    /\ pc[c] = "idle" /\ job[c].provider \in Keyed
    /\ Open(c, Pin(c))
    /\ UNCHANGED <<health, lock, job, client, seen, ghosts>>

SecondModels(t) == {[t EXCEPT !.model = m] : m \in {Second} \ {NoModel, t.model}}

(* mistake: any failure may cross to the global provider *)
FallbackAnywhere(t) ==
    IF Global.provider = t.provider
      THEN IF Global.model # t.model THEN {Global} ELSE SecondModels(t)
      ELSE IF Global.provider \in Keyed THEN {Global} ELSE {}

(* resolve_fallback_target, as a set of at most one target: the provider is
   kept unless its key is parked at this moment. *)
FallbackTarget(t) ==
    IF Global.provider = t.provider
      THEN IF Global.model # t.model THEN {Global} ELSE SecondModels(t)
      ELSE IF parked[t.provider] > 0 /\ Global.provider \in Keyed THEN {Global} ELSE {}

FallBack(c) ==
    /\ pc[c] = "failed" /\ target[c] = Pin(c) /\ job[c].fallbacks
    /\ \E t \in FallbackTarget(Pin(c)) : Open(c, t)
    /\ UNCHANGED <<health, lock, job, client, seen, ghosts>>

GiveUp(c) ==
    /\ pc[c] = "failed"
    /\ target[c] = Pin(c) /\ job[c].fallbacks => FallbackTarget(Pin(c)) = {}
    /\ Close(c)
    /\ UNCHANGED <<health, lock, job, sleep, seen, ghosts>>

Tick ==
    /\ cooldown' = [p \in Provider |-> Less(cooldown[p])]
    /\ parked' = [p \in Provider |-> Less(parked[p])]
    /\ sleep' = [c \in Caller |-> Less(sleep[c])]
    /\ knocks' = [p \in Provider |-> IF parked[p] <= 1 THEN 0 ELSE knocks[p]]
    /\ hurried' = [p \in Provider |-> IF cooldown[p] <= 1 THEN 0 ELSE hurried[p]]
    /\ UNCHANGED <<strikes, lock, job, pc, target, client, seen, limited, rejected>>

AnswerArrives(c) ==
    Flaky(c) \/ Relax(c) \/ Refused(c) \/ Limited(c) \/ Reject(c) \/ Answer(c)
    \/ Garbled(c)
Own(c) == Wake(c) \/ Send(c) \/ Count(c) \/ FallBack(c) \/ GiveUp(c)

Next ==
    \/ Tick
    \/ \E c \in Caller : Ask(c) \/ AnswerArrives(c) \/ Own(c)

Spec == Init /\ [][Next]_vars

(* Time passes, a thread goes on, and requests.post ends: it has a time-out.
   No thread has to ask.  *)
FairSpec ==
    /\ Spec
    /\ WF_vars(Tick)
    /\ \A c \in Caller : WF_vars(Own(c)) /\ WF_vars(AnswerArrives(c))
-----------------------------------------------------------------------------
(* The type invariant; a thread never sleeps longer than max_wait. *)
TypeOK ==
    /\ cooldown \in [Provider -> Nat]
    /\ parked \in [Provider -> 0 .. AuthPark]
    /\ strikes \in [Provider -> 0 .. MaxStrikes]
    /\ lock \in Caller \cup {Nobody}
    /\ job \in [Caller -> AllJobs]
    /\ pc \in [Caller -> {"idle", "waiting", "sending", "inflight", "counting", "failed"}]
    /\ target \in [Caller -> Targets]
    /\ client \in [Caller -> [try : 1 .. Attempts, filters : SUBSET Filters]]
    /\ sleep \in [Caller -> 0 .. MaxWait]
    /\ seen \in [Caller -> 0 .. MaxStrikes]
    /\ limited \in [Provider -> 0 .. MaxStrikes]
    /\ knocks \in [Provider -> Nat] /\ hurried \in [Provider -> Nat]
    /\ rejected \subseteq Provider

(* Concurrent 429s do not collapse into one: outside the critical section the
   count that the back-off escalates on is the number of 429s registered since
   the provider last answered. *)
NoLost429 == lock = Nobody => strikes = limited

(* A rejected key stops the traffic: from the 401 until the park lapses or an
   earlier request is answered after all, the provider receives no more than
   the ladders that were already past the check, one per other thread. *)
ParkStopsTraffic ==
    \A p \in Provider : knocks[p] <= Attempts * (Cardinality(Caller) - 1)

(* A cooldown stops the traffic likewise: the ladders do not look at it, but
   only those under way when it began go on. *)
CooldownStopsTraffic ==
    \A p \in Provider : hurried[p] <= Attempts * Cardinality(Caller) - 1

(* The registries stop the traffic, whatever the threads were about to do. *)
TrafficStops == ParkStopsTraffic /\ CooldownStopsTraffic

(* A pin is kept: a thread is at another provider only if the one it is pinned
   to has rejected a key, and at another model only if its job allows
   fallbacks. *)
PinIsKept ==
    \A c \in Caller :
        /\ At(c) # job[c].provider => job[c].provider \in rejected
        /\ ~job[c].fallbacks => target[c] = Pin(c)

(* Every call ends, with an answer or without, whatever the providers do. *)
EachCallEnds == \A c \in Caller : pc[c] # "idle" ~> pc[c] = "idle"

=============================================================================
