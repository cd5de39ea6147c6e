------------------------------ MODULE TokenBudget ------------------------------
(***************************************************************************)
(* The token budget guard of token_budget.rs: check() reserves an estimate *)
(* against the budget of the current period, release() corrects it once    *)
(* the provider has reported the real count.  A reservation may be         *)
(* corrected in a later period than it was made in, or never; the window   *)
(* is rolled by the next check() only.  A limit of 0 is no limit.          *)
(***************************************************************************)
EXTENDS FiniteSets, Integers

CONSTANTS
    Prompts,             \* requests
    Tokens,              \* token counts, estimated or real
    MaxPerRequest,       \* max_tokens_per_request
    MaxPerPeriod,        \* max_tokens_per_period
    Period               \* in ticks

ASSUME BudgetAssumption ==
    /\ IsFiniteSet(Prompts) /\ Tokens \subseteq Nat
    /\ {MaxPerRequest, MaxPerPeriod, Period} \subseteq Nat

VARIABLES
    prompt,        \* where each request is
    estimate,      \* what was reserved for it
    tokensUsed,    \* period.tokens_used
    elapsed,       \* ticks since window_start, up to Period
    inWindow,      \* history: requests reserved since window_start
    actual,        \* history: what a released request really used
    lateSurplus,   \* history: surplus of earlier windows released in this one
    cutOverage     \* history: overage of this window above the limit

windowHistory == <<inWindow, lateSurplus, cutOverage>>
budgetHistory == <<windowHistory, actual>>
budgetVars == <<prompt, estimate, tokensUsed, elapsed, budgetHistory>>

BudgetTypeOK ==
    /\ prompt \in [Prompts -> {"new", "reserved", "released", "rejected"}]
    /\ estimate \in [Prompts -> Tokens \cup {0}]
    /\ tokensUsed \in 0..MaxPerPeriod
    /\ elapsed \in 0..Period
    /\ inWindow \subseteq {p \in Prompts : prompt[p] \in {"reserved", "released"}}
    /\ actual \in [Prompts -> Tokens \cup {0}]
    /\ lateSurplus \in Nat /\ cutOverage \in Nat

BudgetInit ==
    /\ prompt = [p \in Prompts |-> "new"]
    /\ estimate = [p \in Prompts |-> 0]
    /\ tokensUsed = 0 /\ elapsed = 0
    /\ inWindow = {} /\ lateSurplus = 0 /\ cutOverage = 0
    /\ actual = [p \in Prompts |-> 0]

-----------------------------------------------------------------------------
Smaller(a, b) == IF a < b THEN a ELSE b
SaturatingSub(a, b) == IF a < b THEN 0 ELSE a - b

\* check(): over the limit of one request.
TooLarge(n) == MaxPerRequest > 0 /\ n > MaxPerRequest

RejectLarge(p, n) ==
    /\ prompt[p] = "new" /\ TooLarge(n)
    /\ prompt' = [prompt EXCEPT ![p] = "rejected"]
    /\ UNCHANGED <<estimate, tokensUsed, elapsed, budgetHistory>>

\* The period has elapsed: check() starts a new window.
PeriodCapped == MaxPerPeriod > 0
Rolls == elapsed >= Period
UsedNow == IF Rolls THEN 0 ELSE tokensUsed

Fits(n) == PeriodCapped => UsedNow + n <= MaxPerPeriod

\* The window as check() finds it or starts it, with the requests in New.
RollWindow(New) ==
    /\ elapsed' = IF Rolls THEN 0 ELSE elapsed
    /\ inWindow' = (IF Rolls THEN {} ELSE inWindow) \cup New
    /\ lateSurplus' = IF Rolls THEN 0 ELSE lateSurplus
    /\ cutOverage' = IF Rolls THEN 0 ELSE cutOverage

\* check(): Ok, with the estimate reserved if the period has a limit.
Reserve(p, n) ==
    /\ prompt[p] = "new" /\ ~TooLarge(n) /\ Fits(n)
    /\ IF PeriodCapped
         THEN RollWindow({p}) /\ tokensUsed' = UsedNow + n
         ELSE UNCHANGED <<tokensUsed, elapsed, windowHistory>>
    /\ prompt' = [prompt EXCEPT ![p] = "reserved"]
    /\ estimate' = [estimate EXCEPT ![p] = n]
    /\ UNCHANGED actual

\* check(): the period has no room.
RejectPeriod(p, n) ==
    /\ prompt[p] = "new" /\ ~TooLarge(n) /\ ~Fits(n)
    /\ RollWindow({})
    /\ tokensUsed' = UsedNow
    /\ prompt' = [prompt EXCEPT ![p] = "rejected"]
    /\ UNCHANGED <<estimate, actual>>

\* .min(max_tokens_per_period)
Limited(n) == Smaller(n, MaxPerPeriod)

\* mutant: a surplus is credited twice
CreditedTwice(p, n) == SaturatingSub(tokensUsed, 2 * (estimate[p] - n))

Credited(p, n) == SaturatingSub(tokensUsed, estimate[p] - n)

\* release() with the real count, in whatever window is current.
ReleaseSurplus(p, n) ==
    /\ n < estimate[p]
    /\ tokensUsed' = Credited(p, n)
    /\ lateSurplus' = IF p \in inWindow THEN lateSurplus
                      ELSE lateSurplus + (estimate[p] - n)
    /\ UNCHANGED cutOverage

Charged(p, n) == Limited(tokensUsed + (n - estimate[p]))

ReleaseOverage(p, n) ==
    /\ n >= estimate[p]
    /\ tokensUsed' = Charged(p, n)
    /\ cutOverage' = IF p \in inWindow
          THEN cutOverage + SaturatingSub(tokensUsed + (n - estimate[p]), MaxPerPeriod)
          ELSE cutOverage
    /\ UNCHANGED lateSurplus

ReleaseTokens(p, n) ==
    /\ prompt[p] = "reserved"
    /\ ReleaseSurplus(p, n) \/ ReleaseOverage(p, n)
    /\ prompt' = [prompt EXCEPT ![p] = "released"]
    /\ actual' = [actual EXCEPT ![p] = n]
    /\ UNCHANGED <<estimate, elapsed, inWindow>>

BudgetTick ==
    /\ elapsed < Period
    /\ elapsed' = elapsed + 1
    /\ UNCHANGED <<prompt, estimate, tokensUsed, budgetHistory>>

-----------------------------------------------------------------------------
BudgetNext ==
    \/ \E p \in Prompts, n \in Tokens :
          RejectLarge(p, n) \/ Reserve(p, n) \/ RejectPeriod(p, n) \/ ReleaseTokens(p, n)
    \/ BudgetTick

BudgetSpec == BudgetInit /\ [][BudgetNext]_budgetVars

-----------------------------------------------------------------------------
\* What a request has cost, or may still cost.
Cost(p) == IF prompt[p] = "released" THEN actual[p] ELSE estimate[p]

\* The tokens of the requests of this window: <<p, k>> is the k-th token of p.
Spent == Cardinality(UNION {{p} \X (1..Cost(p)) : p \in inWindow})

\* The requests of one window cost no more than the limit, but for two amounts:
\* the surplus of earlier windows' reservations that was released in this one,
\* and the overage of its own requests above the limit.
WindowBounded == Spent <= MaxPerPeriod + lateSurplus + cutOverage
=============================================================================
