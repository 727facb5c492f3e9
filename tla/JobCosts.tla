------------------------------- MODULE JobCosts --------------------------------
(***************************************************************************)
(* What a job spends (src/src/worker/utils/rate_limit.py): each call of a  *)
(* model is priced and recorded in the list that the context variable      *)
(* _job_costs binds, by the thread of the job or by a chunk thread it      *)
(* started, and the callback of the job carries the sum.  The prices of    *)
(* the configured models are fetched when the process starts.              *)
(*                                                                         *)
(* Amounts are 0 for a free call, 1 for an estimate, 2 for the provider's  *)
(* own figure; tokens and currencies are left out.                         *)
(***************************************************************************)
EXTENDS Integers, Sequences, FiniteSets

CONSTANTS Job,            \* each with a thread of its own
          Chunk,          \* the chunk threads of a job
          Primary,        \* the configured models
          Fallback,       \* the models of the fallback lists
          Free,           \* ":free" slugs, and those of local providers
          Anchored,       \* priced by the table in _resolve_rates
          MaxCalls        \* calls of a job

CostAssumption == "main" \notin Chunk /\ MaxCalls \in Nat

VARIABLES priced,         \* what is stored under model_cost:{model}
          unchecked,      \* models update_model_costs has still to look at
          phase,          \* of the process: "boot", "up" or "exited"
          calculation,    \* DISABLE_COST_CALCULATION is not set
          stage,          \* of a job
          context,        \* the list _job_costs binds in each thread, or Unbound
          lists,
          report,         \* the cost object of the callback
          made            \* ghost: the calls of each job

costVars == <<priced, unchecked, phase, calculation, stage, context, lists, report, made>>

Model == Primary \cup Fallback
Unbound == 0
Unknown == -1
None == [breakdown |-> <<>>, total |-> Unknown, unknown |-> 0, sent |-> FALSE]

Main(j) == <<j, "main">>
Threads == {<<j, c>> : j \in Job, c \in Chunk \cup {"main"}}

CostInit ==
    /\ priced \in SUBSET Model              \* from an earlier process, perhaps old
    /\ unchecked = Model
    /\ phase = "boot"
    /\ calculation \in BOOLEAN
    /\ stage = [j \in Job |-> "queued"]
    /\ context = [t \in Threads |-> Unbound]
    /\ lists = <<>>
    /\ report = [j \in Job |-> None]
    /\ made = [j \in Job |-> <<>>]

(* update_model_costs: a price that is not a week old stays.  Without one, or with
   an older one, the endpoints are asked for; those of a fallback in a thread of
   its own, while the process serves. *)
MayCheck(m) == m \in unchecked /\ IF m \in Primary THEN phase = "boot" ELSE phase = "up"

PriceFound(m) ==
    /\ MayCheck(m)
    /\ unchecked' = unchecked \ {m}
    /\ priced' = priced \cup {m}
    /\ UNCHANGED <<phase, calculation, stage, context, lists, report, made>>

(* A status other than 200, no usable price, no network: what is stored stays.  A
   fallback that is not served is left out in the same way. *)
PriceNotFound(m) ==
    /\ MayCheck(m)
    /\ unchecked' = unchecked \ {m}
    /\ UNCHANGED <<priced, phase, calculation, stage, context, lists, report, made>>

(* ValueError for a configured model that is not served: the process exits. *)
NotServed(m) ==
    /\ MayCheck(m) /\ m \in Primary
    /\ phase' = "exited"
    /\ UNCHANGED <<priced, unchecked, calculation, stage, context, lists, report, made>>

Serve ==
    /\ phase = "boot" /\ unchecked \cap Primary = {}
    /\ phase' = "up"
    /\ UNCHANGED <<priced, unchecked, calculation, stage, context, lists, report, made>>

(* reset_job_costs *)
Bind(t) ==
    /\ lists' = Append(lists, <<>>)
    /\ context' = [context EXCEPT ![t] = Len(lists) + 1]

Dispatch(j) ==
    /\ phase = "up" /\ stage[j] = "queued"
    /\ Bind(Main(j))
    /\ stage' = [stage EXCEPT ![j] = "running"]
    /\ UNCHANGED <<priced, unchecked, phase, calculation, report, made>>

(* mistake: a chunk thread starts with a context of its own *)
OwnContext(j) == [c \in Threads |-> IF c[1] = j /\ c # Main(j) THEN Unbound ELSE context[c]]

(* copy_context().run *)
CopiedContext(j) == [c \in Threads |-> IF c[1] = j /\ c # Main(j) THEN context[Main(j)] ELSE context[c]]

(* The executor runs the chunks; leaving it waits for all of them. *)
Fan(j) ==
    /\ stage[j] = "running"
    /\ context' = CopiedContext(j)
    /\ stage' = [stage EXCEPT ![j] = "chunks"]
    /\ UNCHANGED <<priced, unchecked, phase, calculation, lists, report, made>>

Join(j) ==
    /\ stage[j] = "chunks"
    /\ stage' = [stage EXCEPT ![j] = "running"]
    /\ UNCHANGED <<priced, unchecked, phase, calculation, context, lists, report, made>>

(* A table or a stored price; with Valkey away only the table. *)
HasRates(m, away) == m \in Anchored \/ (m \in priced /\ ~away)

(* record_llm_call, _price_call: a paid call without counters or rates has no
   known price. *)
Price(call) ==
    CASE ~calculation -> Unknown
      [] calculation /\ call.told -> 2
      [] calculation /\ ~call.told /\ call.model \in Free -> 0
      [] OTHER -> IF call.usage /\ HasRates(call.model, call.away) THEN 1 ELSE Unknown

Calls(j) == Len(made[j])

(* _current_job_costs: a thread without a list gets one at its first call. *)
Record(t) ==
    /\ \/ t[2] = "main" /\ stage[t[1]] = "running"
       \/ t[2] # "main" /\ stage[t[1]] = "chunks"
    /\ Calls(t[1]) < MaxCalls
    /\ \E m \in Model, usage, told, away \in BOOLEAN :
          LET call == [model |-> m, usage |-> usage, told |-> told, away |-> away]
              entry == [by |-> t[1], amount |-> Price(call)]
          IN  /\ IF context[t] = Unbound
                   THEN /\ lists' = Append(lists, <<entry>>)
                        /\ context' = [context EXCEPT ![t] = Len(lists) + 1]
                   ELSE /\ lists' = [lists EXCEPT ![context[t]] = Append(@, entry)]
                        /\ UNCHANGED context
              /\ made' = [made EXCEPT ![t[1]] = Append(@, [told |-> calculation /\ told,
                     known |-> calculation /\ (told \/ m \in Free \/ (usage /\ HasRates(m, away)))])]
    /\ UNCHANGED <<priced, unchecked, phase, calculation, stage, report>>

Sum(costs) ==
    LET sum[n \in 0 .. Len(costs)] == IF n = 0 THEN 0 ELSE sum[n - 1] + costs[n].amount
    IN  sum[Len(costs)]

UnknownCalls(costs) == Cardinality({i \in DOMAIN costs : costs[i].amount = Unknown})

(* build_cost_payload omits the total if a call has no price. *)
Total(costs) == IF UnknownCalls(costs) > 0 THEN Unknown ELSE Sum(costs)

(* get_job_costs and build_cost_payload, for the callback. *)
Report(j) ==
    /\ stage[j] = "running"
    /\ LET costs == IF context[Main(j)] = Unbound THEN <<>> ELSE lists[context[Main(j)]]
       IN  report' = [report EXCEPT ![j] =
                         [breakdown |-> costs, sent |-> costs # <<>>,
                          total |-> Total(costs), unknown |-> UnknownCalls(costs)]]
    /\ stage' = [stage EXCEPT ![j] = "over"]
    /\ UNCHANGED <<priced, unchecked, phase, calculation, context, lists, made>>

(* A handler that raises sends nothing: what it spent is in no report. *)
Abandon(j) ==
    /\ stage[j] = "running"
    /\ stage' = [stage EXCEPT ![j] = "abandoned"]
    /\ UNCHANGED <<priced, unchecked, phase, calculation, context, lists, report, made>>

CostNext ==
    \/ \E m \in Model : PriceFound(m) \/ PriceNotFound(m) \/ NotServed(m)
    \/ Serve
    \/ \E j \in Job : Dispatch(j) \/ Fan(j) \/ Join(j) \/ Report(j) \/ Abandon(j)
    \/ \E t \in Threads : Record(t)

CostSpec == CostInit /\ [][CostNext]_costVars
-----------------------------------------------------------------------------
(* The type invariant. *)
CostTypeOK ==
    /\ priced \subseteq Model /\ unchecked \subseteq Model
    /\ phase \in {"boot", "up", "exited"} /\ calculation \in BOOLEAN
    /\ stage \in [Job -> {"queued", "running", "chunks", "over", "abandoned"}]
    /\ context \in [Threads -> 0 .. Len(lists)]
    /\ \A j \in Job : Calls(j) <= MaxCalls

(* The report of a job has all of its calls, those of its chunk threads included,
   and no call of another job. *)
ReportIsItsOwn ==
    \A j \in Job : stage[j] = "over" =>
        /\ Len(report[j].breakdown) = Calls(j)
        /\ \A i \in DOMAIN report[j].breakdown : report[j].breakdown[i].by = j

(* The docstring of build_cost_payload: a partial total is never presented as a
   complete one, and what nobody knows is not zero. *)
NoPartialTotal ==
    \A j \in Job :
        report[j].total # Unknown =>
            /\ \A i \in DOMAIN made[j] : made[j][i].known
            /\ report[j].total >= 2 * Cardinality({i \in DOMAIN made[j] : made[j][i].told})
=============================================================================
