------------------------------ MODULE Spending ------------------------------
(***************************************************************************)
(* What an organisation's model calls may cost in a month: api/ai/budget.py*)
(* and metering.py, and the three that spend: explain.py (with cache.py),  *)
(* strategist.py and the prose of plan.py.  Every call is admitted before  *)
(* it is made, answered by the provider (providers.py) and recorded in     *)
(* llm_calls, each in a step of its own, with other spenders in between.   *)
(***************************************************************************)
EXTENDS Integers, FiniteSets

CONSTANTS
    Explainers, Chats, Planners,    \* runs of ExplanationService, conversations, plan writers
    Problems,                       \* what there is to explain: the keys of the cache
    Allowance,                      \* organizations.monthly_ai_budget_usd
    CallCosts,                      \* what a call may be recorded at; 0: no price is known
    MaxRounds, MaxToolCalls,        \* of one question
    MaxModelCalls                   \* how many calls are made at all (bound)

Spenders == Explainers \cup Chats \cup Planners
Unread == -1
Nothing == "nothing"
Dearest == CHOOSE x \in CallCosts : \A y \in CallCosts : y <= x

ASSUME SpendersAssumption ==
    /\ Explainers \cap Chats = {} /\ Planners \cap (Explainers \cup Chats) = {}
    /\ IsFiniteSet(Spenders) /\ Nothing \notin Problems
ASSUME CostsAssumption ==
    /\ CallCosts \subseteq Nat /\ \E x \in CallCosts : \A y \in CallCosts : y <= x
    /\ {Allowance, MaxToolCalls, MaxModelCalls} \subseteq Nat /\ MaxRounds \in Nat \ {0}

VARIABLES
    spent, bulk,    \* sum of llm_calls.cost_usd this month, and the bulk purposes' share
    explained,      \* issue_explanations: the problems with a cached explanation
    spending,       \* where each spender is
    modelCalls

spendingVars == <<spent, bulk, explained, spending, modelCalls>>

Resting == [pc |-> "resting", problem |-> Nothing, seen |-> {}, budget |-> Unread,
            cost |-> 0, round |-> 0, tools |-> 0]

SpendingInit ==
    /\ spent = 0 /\ bulk = 0
    /\ explained = {}
    /\ spending = [s \in Spenders |-> Resting]
    /\ modelCalls = 0

Spends(s, pc) == spending[s].pc = pc

\* allows(essential=False)
Allows(budget) == budget < Allowance

Call(s, where) ==
    /\ modelCalls < MaxModelCalls
    /\ modelCalls' = modelCalls + 1
    /\ spending' = [spending EXCEPT ![s] = [where EXCEPT !.pc = "calling"]]

\* record_call, in a transaction of its own.
Record(s) ==
    /\ spent' = spent + spending[s].cost
    /\ bulk' = IF s \in Planners THEN bulk ELSE bulk + spending[s].cost

-----------------------------------------------------------------------------
(* Explanations: one run explains many problems, each once.                 *)

Remember(e, where) == [where EXCEPT !.pc = "resting", !.problem = Nothing, !.cost = 0,
                                    !.seen = @ \cup {where.problem}]

LookUp(e, p) ==
    /\ Spends(e, "resting") /\ p \notin spending[e].seen
    /\ LET where == [spending[e] EXCEPT !.problem = p]
       IN  spending' = [spending EXCEPT ![e] =
               IF p \in explained THEN Remember(e, where) ELSE [where EXCEPT !.pc = "asking"]]
    /\ UNCHANGED <<spent, bulk, explained, modelCalls>>

\* The budget is read once and kept until a call of this run has been recorded.
Budget(e) == IF spending[e].budget = Unread THEN spent ELSE spending[e].budget

Explain(e) ==
    /\ Spends(e, "asking")
    /\ LET where == [spending[e] EXCEPT !.budget = Budget(e)]
       IN  IF Allows(Budget(e))
           THEN Call(e, where)
           ELSE /\ spending' = [spending EXCEPT ![e] = Remember(e, where)]  \* a template
                /\ UNCHANGED modelCalls
    /\ UNCHANGED <<spent, bulk, explained>>

\* MUTANT: the budget is read once per run, as the docstring of budget has it.
Recorded_BudgetKept(e) == Remember(e, spending[e])

Recorded(e) == [Remember(e, spending[e]) EXCEPT !.budget = Unread]

\* An answer that validates is cached before it is recorded; a refused one is recorded too.
Cached(e) == Spends(e, "answered") /\ explained' = explained \cup {spending[e].problem}

MeterExplanation(e) ==
    /\ Spends(e, "cached") \/ Spends(e, "answered")
    /\ Record(e)
    /\ spending' = [spending EXCEPT ![e] = Recorded(e)]
    /\ UNCHANGED <<explained, modelCalls>>

CacheExplanation(e) ==
    /\ Cached(e)
    /\ spending' = [spending EXCEPT ![e].pc = "cached"]
    /\ UNCHANGED <<spent, bulk, modelCalls>>

\* Recorded as an error that cost nothing, whatever the provider billed.
ExplanationFails(e) ==
    /\ Spends(e, "calling")
    /\ spending' = [spending EXCEPT ![e] = Remember(e, spending[e])]
    /\ UNCHANGED <<spent, bulk, explained, modelCalls>>

-----------------------------------------------------------------------------
(* The Strategist: one question is several rounds, admitted together.       *)

Ask(c) ==
    /\ Spends(c, "resting") /\ Allows(spent)
    /\ Call(c, [Resting EXCEPT !.round = 1, !.tools = MaxToolCalls])
    /\ UNCHANGED <<spent, bulk, explained>>

\* MUTANT: the rounds go on for as long as the model asks for tools.
LastRound_Never(c) == FALSE

LastRound(c) == spending[c].round = MaxRounds \/ spending[c].tools = 0

\* The model asks for tools, unless it was sent none; no round is admitted again.
MeterTurn(c) ==
    /\ Spends(c, "answered")
    /\ Record(c)
    /\ \/ /\ spending' = [spending EXCEPT ![c] = Resting]
          /\ UNCHANGED modelCalls
       \/ /\ ~ LastRound(c)
          /\ \E asked \in 1..(MaxToolCalls + 1) :
                 Call(c, [Resting EXCEPT !.round = spending[c].round + 1,
                              !.tools = IF asked < spending[c].tools
                                        THEN spending[c].tools - asked ELSE 0])
    /\ UNCHANGED explained

-----------------------------------------------------------------------------
(* The weekly plan runs over budget too.                                    *)

WritePlan(p) ==
    /\ Spends(p, "resting")
    /\ Call(p, Resting)
    /\ UNCHANGED <<spent, bulk, explained>>

MeterPlan(p) ==
    /\ Spends(p, "answered")
    /\ Record(p)
    /\ spending' = [spending EXCEPT ![p] = Resting]
    /\ UNCHANGED <<explained, modelCalls>>

-----------------------------------------------------------------------------
(* The provider, and the end of things.                                     *)

Answered(s, cost) ==
    /\ Spends(s, "calling")
    /\ spending' = [spending EXCEPT ![s].pc = "answered", ![s].cost = cost]
    /\ UNCHANGED <<spent, bulk, explained, modelCalls>>

\* A run is over or killed, a reader hangs up, a provider fails or refuses a chat or a
\* plan: what was called and is not recorded yet never is.
SpenderStops(s) ==
    /\ spending[s] # Resting
    /\ spending' = [spending EXCEPT ![s] = Resting]
    /\ UNCHANGED <<spent, bulk, explained, modelCalls>>

\* date_trunc('month', now()): a new month has no calls yet.
MonthTurns ==
    /\ spent > 0
    /\ spent' = 0 /\ bulk' = 0
    /\ UNCHANGED <<explained, spending, modelCalls>>

SpendingNext ==
    \/ \E e \in Explainers :
           \/ \E p \in Problems : LookUp(e, p)
           \/ Explain(e) \/ CacheExplanation(e) \/ MeterExplanation(e) \/ ExplanationFails(e)
    \/ \E c \in Chats : Ask(c) \/ MeterTurn(c)
    \/ \E p \in Planners : WritePlan(p) \/ MeterPlan(p)
    \/ \E s \in Spenders : SpenderStops(s) \/ \E cost \in CallCosts : Answered(s, cost)
    \/ MonthTurns

SpendingSpec == SpendingInit /\ [][SpendingNext]_spendingVars

-----------------------------------------------------------------------------
SpendingTypeOK ==
    /\ spent \in Nat /\ bulk \in 0..spent
    /\ explained \subseteq Problems
    /\ \A s \in Spenders :
           /\ spending[s].pc \in {"resting", "asking", "calling", "answered", "cached"}
           /\ spending[s].seen \subseteq Problems
           /\ spending[s].problem \in Problems \cup {Nothing}
           /\ spending[s].budget \in {Unread} \cup Nat
           /\ spending[s].cost \in CallCosts \cup {0}
           /\ spending[s].round \in 0..MaxRounds /\ spending[s].tools \in 0..MaxToolCalls
    /\ modelCalls \in 0..MaxModelCalls

\* Admission is before the call (budget.py), so what is recorded for everything but the
\* plan can pass the allowance by the calls under way when it is reached, one for each
\* run of explanations and one question's rounds for each conversation, and by no more.
OverspendBounded ==
    bulk > 0 =>
        bulk < Allowance + Dearest * (Cardinality(Explainers) + MaxRounds * Cardinality(Chats))
=============================================================================
