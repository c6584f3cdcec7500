-------------------------- MODULE RouteTournament --------------------------
(***************************************************************************)
(* RouteTournament (services/tournament.py) over the policy engine: build  *)
(* a candidate per representation, quote it through the wallet, evaluate   *)
(* the policy, score the survivors. Pipeline.run takes the first of the    *)
(* sorted survivors; the keeper's EVALUATE_EQUITY_INTENT evaluates without *)
(* quotes (services/keeper.py).                                            *)
(*                                                                         *)
(* The graph of this commit knows no source timestamp, so every age it     *)
(* gives is None; Ages says what a graph that knows some would give.       *)
(***************************************************************************)
EXTENDS PolicyEngine, Sequences, FiniteSets

CONSTANTS
  Settings,       \* settings the process may run with
  Constitutions,  \* constitutions the owner may have approved
  Portfolios,     \* portfolios the caller may report
  Intents,        \* intents
  Reps,           \* representations discovery may return
  Ages,           \* ages of a reference, None among them
  Slips,          \* slippages a quote may state
  Quotable,       \* quote assets with a known address (QUOTE_ASSET_ADDR)
  MaxRoutes       \* representations of one discovery (bound)

ASSUME UniverseAssumption ==
  /\ Settings \subseteq SystemSettings
  /\ Constitutions \subseteq Constitution
  /\ Portfolios \subseteq Portfolio
  /\ Intents \subseteq Intent
  /\ Reps \subseteq Representation
  /\ Ages \subseteq Cap
  /\ Slips \subseteq Nat
  /\ MaxRoutes \in Nat

\* PortfolioState(): nothing is known of the portfolio.
EmptyPortfolio ==
  [balance |-> 0, total |-> 0, underlying |-> 0, spent |-> 0,
   platform |-> [f \in Platforms |-> 0]]

VARIABLES
  settings,      \* Settings of the process
  caller,        \* "pipeline" or "keeper"
  constitution,  \* the constitution of this tournament
  portfolio,     \* the portfolio it is judged against
  intent,        \* what is to be bought
  stage,         \* the next call on the tournament
  routes,        \* the candidates, in the order of discovery
  chosen         \* index of the route that is selected, 0 if none is

given == <<settings, caller, constitution, portfolio, intent>>
vars  == <<given, stage, routes, chosen>>

Status == {"ELIGIBLE", "REJECTED", "REQUIRES_CONFIRMATION", "STALE_REFERENCE", "NO_QUOTE"}

Route ==
  [rep : Representation, premium : Int \cup {None}, age : Cap, slippage : Cap,
   quoted : BOOLEAN, sim : {"none"}, status : Status]

RoutesOK ==
  /\ settings \in Settings /\ caller \in {"pipeline", "keeper"}
  /\ constitution \in Constitutions /\ intent \in Intents
  /\ portfolio \in Portfolios \cup {EmptyPortfolio}
  /\ stage \in {"build", "quote", "judge", "done"}
  /\ routes \in Seq(Route)

TypeOK == RoutesOK /\ chosen \in 0..Len(routes)

Init ==
  /\ settings \in Settings /\ caller \in {"pipeline", "keeper"}
  /\ constitution \in Constitutions /\ intent \in Intents
  /\ portfolio \in IF caller = "keeper" THEN {EmptyPortfolio} ELSE Portfolios
  /\ caller = "keeper" =>
       intent.side = "BUY" /\ intent.maxPremium = None /\ intent.maxSlippage = None
  /\ stage = "build"
  /\ routes = <<>>
  /\ chosen = 0

-----------------------------------------------------------------------------
(***************************************************************************)
(* A premium needs the price of the token and a reference above zero: a    *)
(* reference of zero is falsy, premium_bps raises on a negative one, and   *)
(* the exception is swallowed. Either still counts as a stated reference   *)
(* for the engine, which asks `is None` (engine.py:282).                   *)
(***************************************************************************)
Comparable(rep) == rep.priced /\ rep.reference # "none" /\ rep.positive

\* Slip: the reference of another issuer is none.
SlipPeersDoNotCount(rep, age) ==
  [rep |-> rep,
   premium |-> IF Comparable(rep) /\ rep.reference # "peer" THEN rep.gap ELSE None,
   age |-> age, slippage |-> None, quoted |-> FALSE, sim |-> "none", status |-> "ELIGIBLE"]

Candidate(rep, age) ==
  [rep |-> rep, premium |-> IF Comparable(rep) THEN rep.gap ELSE None,
   age |-> age, slippage |-> None, quoted |-> FALSE, sim |-> "none", status |-> "ELIGIBLE"]

\* The pipeline returns before it builds anything if discovery finds nothing.
Builds(reps, ages) ==
  /\ stage = "build"
  /\ caller = "pipeline" => reps # <<>>
  /\ routes' = [k \in DOMAIN reps |-> Candidate(reps[k], ages[k])]
  /\ stage' = IF caller = "pipeline" THEN "quote" ELSE "judge"
  /\ UNCHANGED <<given, chosen>>

Unquotable ==
  \/ intent.notional = None \/ intent.side # "BUY"
  \/ settings.demo
  \/ intent.asset \notin Quotable

NoQuote(x) == [x EXCEPT !.status = "NO_QUOTE"]

\* The intent or the settings rule out every quote.
QuotesNothing ==
  /\ stage = "quote" /\ Unquotable
  /\ routes' = [k \in DOMAIN routes |-> NoQuote(routes[k])]
  /\ stage' = "judge"
  /\ UNCHANGED <<given, chosen>>

\* baw is not installed, or its wallet is not connected.
WalletAway ==
  /\ stage = "quote" /\ ~Unquotable
  /\ routes' = [k \in DOMAIN routes |-> NoQuote(routes[k])]
  /\ stage' = "judge"
  /\ UNCHANGED <<given, chosen>>

\* The wallet answers for the candidates in DOMAIN slip and fails for the others.
Quotes(slip) ==
  /\ stage = "quote" /\ ~Unquotable
  /\ routes' = [k \in DOMAIN routes |->
                  IF k \in DOMAIN slip
                  THEN [routes[k] EXCEPT !.quoted = TRUE, !.slippage = slip[k]]
                  ELSE NoQuote(routes[k])]
  /\ stage' = "judge"
  /\ UNCHANGED <<given, chosen>>

-----------------------------------------------------------------------------
\* Slip: the tournament knows only the system's maximum age.
SlipSystemAge(x) == x.age # None /\ x.age > settings.maxAge

\* The tournament's own test of staleness, beside the engine's rule max_age.
Stale(x) == x.age # None /\ x.age > MaxAge(settings, constitution)

Admitted(x) == Eligible(settings, constitution, portfolio, intent, x)

Verdict(x) ==
  CASE x.status # "ELIGIBLE"                         -> x.status
    [] x.status = "ELIGIBLE" /\ Stale(x)             -> "STALE_REFERENCE"
    [] x.status = "ELIGIBLE" /\ ~Stale(x) /\ ~Admitted(x) -> "REJECTED"
    [] OTHER -> IF Asks(settings, constitution, intent, x)
                THEN "REQUIRES_CONFIRMATION" ELSE "ELIGIBLE"

Survivors(rs) ==
  {k \in DOMAIN rs : rs[k].status \in {"ELIGIBLE", "REQUIRES_CONFIRMATION"}}

(***************************************************************************)
(* score_route times 1200: a penalty of 1/10 per bps of premium and of     *)
(* slippage, of 0.05/60 per second of age and of 20 for depth, which       *)
(* nobody states. A discount is no bonus; what is unknown costs nothing.   *)
(***************************************************************************)
Known(v) == IF v = None THEN 0 ELSE v
Above(v) == IF v > 0 THEN v ELSE 0

\* Slip: a discount is a bonus.
SlipDiscountPays(x) ==
  Above(96000 - 120 * Known(x.premium) - 120 * Above(Known(x.slippage)) - Known(x.age))

Score(x) ==
  Above(96000 - 120 * Above(Known(x.premium)) - 120 * Above(Known(x.slippage)) - Known(x.age))

\* The head of the sorted candidates; sorted() keeps the order of equals.
Best(rs) ==
  IF Survivors(rs) = {} THEN 0
  ELSE CHOOSE k \in Survivors(rs) :
         \A j \in Survivors(rs) :
           Score(rs[k]) > Score(rs[j]) \/ (Score(rs[k]) = Score(rs[j]) /\ k <= j)

Evaluates ==
  /\ stage = "judge"
  /\ routes' = [k \in DOMAIN routes |-> [routes[k] EXCEPT !.status = Verdict(routes[k])]]
  /\ chosen' = Best(routes')
  /\ stage' = "done"
  /\ UNCHANGED given

-----------------------------------------------------------------------------
\* What discovery returns: at most MaxRoutes representations, each token once.
Discoveries ==
  {reps \in UNION {[1..n -> Reps] : n \in 0..MaxRoutes} :
     \A j, k \in DOMAIN reps : reps[j].token = reps[k].token => j = k}

Next ==
  \/ \E reps \in Discoveries : \E ages \in [DOMAIN reps -> Ages] : Builds(reps, ages)
  \/ QuotesNothing
  \/ WalletAway
  \/ \E answered \in SUBSET (DOMAIN routes) :
       \E slip \in [answered -> Slips \cup {None}] : Quotes(slip)
  \/ Evaluates

Spec == Init /\ [][Next]_vars

-----------------------------------------------------------------------------
Judged(k) == stage = "done" /\ k \in Survivors(routes)

(***************************************************************************)
(* config.py:3-4: even a permissive constitution can never exceed the      *)
(* system's ceilings. Whatever the constitution, the intent's limits and   *)
(* the wallet's answers, every route that survives respects each ceiling,  *)
(* and is marked for confirmation if the system wants one.                 *)
(***************************************************************************)
SystemCeilings ==
  \A k \in DOMAIN routes : Judged(k) =>
    LET x == routes[k] IN
    /\ Spend(intent) > 0 /\ Spend(intent) <= settings.maxNotional
    /\ x.rep.chain \in settings.chains
    /\ x.rep.platform \in settings.platforms
    /\ intent.asset \in settings.assets
    /\ x.premium # None => x.premium <= settings.maxPremium
    /\ x.slippage # None => x.slippage <= settings.maxSlippage
    /\ settings.confirms => x.status = "REQUIRES_CONFIRMATION"

(***************************************************************************)
(* A constitution that is at least as strict never opens a route: what     *)
(* survives under it is admitted by every constitution it tightens, and    *)
(* what one of those wants confirmed it wants confirmed too. The closed-   *)
(* market cap, the intent's limits and the system's ceilings all meet in   *)
(* the same minimum (engine.py:169-208).                                   *)
(***************************************************************************)
TighteningIsSafe ==
  \A d \in Constitutions : Tightens(settings, constitution, d) =>
    \A k \in DOMAIN routes : Judged(k) =>
      /\ Eligible(settings, d, portfolio, intent, routes[k])
      /\ Asks(settings, d, intent, routes[k]) => routes[k].status = "REQUIRES_CONFIRMATION"

(***************************************************************************)
(* project-overview-pdr.md:54 and tournament.py:85: a route the pipeline   *)
(* goes on with was quoted by the wallet, and recorded data never is.      *)
(***************************************************************************)
SurvivorsAreQuoted ==
  \A k \in DOMAIN routes : Judged(k) /\ caller = "pipeline" =>
    routes[k].quoted /\ ~settings.demo /\ intent.side = "BUY"

(***************************************************************************)
(* Staleness is judged twice, by the engine and by the tournament, and the *)
(* second overrides the first (tournament.py:144-148): the two agree, so   *)
(* that a quoted route survives exactly when the engine admits it.         *)
(***************************************************************************)
VerdictsAgree ==
  stage = "done" =>
    \A k \in DOMAIN routes : routes[k].status # "NO_QUOTE" =>
      (k \in Survivors(routes) <=> Admitted(routes[k]))

(***************************************************************************)
(* The selection is sound: a route is chosen if one survives, it is a      *)
(* survivor, and no other survivor is better in one respect and no worse   *)
(* in the others (a discount counts as no premium), as long as the score   *)
(* has not reached its floor of zero; equals are taken in order.           *)
(***************************************************************************)
AtLeastAsGood(x, y) ==
  /\ Above(Known(x.premium)) <= Above(Known(y.premium))
  /\ Above(Known(x.slippage)) <= Above(Known(y.slippage))
  /\ Known(x.age) <= Known(y.age)

ChoiceIsSound ==
  stage = "done" =>
    /\ chosen = 0 <=> Survivors(routes) = {}
    /\ chosen # 0 =>
         /\ chosen \in Survivors(routes)
         /\ \A k \in Survivors(routes) :
              AtLeastAsGood(routes[k], routes[chosen]) =>
                \/ k >= chosen /\ AtLeastAsGood(routes[chosen], routes[k])
                \/ Score(routes[chosen]) = 0

(***************************************************************************)
(* What a limit on premiums is worth: where the provider prices a token    *)
(* and a reference above zero is known, from the stock, from another       *)
(* issuer's token or from a candle, a survivor costs no more over it than  *)
(* the system, the intent, the constitution and its closed-market rule     *)
(* each allow. Even under a constitution that requires a reference two     *)
(* kinds of token escape them: one that nobody prices, and one whose       *)
(* reference is stated as zero or below, which satisfies the requirement   *)
(* (engine.py:169-186 and :282, tournament.py:55-58).                      *)
(***************************************************************************)
PremiumBoundWhereKnown ==
  \A k \in DOMAIN routes : Judged(k) =>
    LET rep == routes[k].rep IN
    /\ rep.priced /\ rep.reference # "none" /\ rep.positive =>
         Within(rep.gap, PremiumCaps(settings, constitution, intent, rep))
    /\ constitution.requireRef => rep.reference \in {"stock", "peer"}

\* A candidate's premium is its token's gap, where both prices are known and usable.
PremiumIsGap ==
  \A k \in DOMAIN routes :
    LET rep == routes[k].rep IN
    Comparable(rep) => routes[k].premium = rep.gap

(***************************************************************************)
(* What makes these inductive: before the evaluation a candidate is        *)
(* eligible or without a quote, and one that the pipeline still holds      *)
(* eligible was quoted; after it, its status says what the engine said.    *)
(***************************************************************************)
Unjudged ==
  stage \in {"quote", "judge"} =>
    \A k \in DOMAIN routes :
      /\ routes[k].status \in {"ELIGIBLE", "NO_QUOTE"}
      /\ stage = "judge" /\ caller = "pipeline" /\ routes[k].status = "ELIGIBLE" =>
           routes[k].quoted /\ ~settings.demo /\ intent.side = "BUY"

StatusIsVerdict ==
  stage = "done" =>
    \A k \in Survivors(routes) :
      Asks(settings, constitution, intent, routes[k]) =>
        routes[k].status = "REQUIRES_CONFIRMATION"

IInv ==
  /\ RoutesOK
  /\ Unjudged
  /\ VerdictsAgree
  /\ StatusIsVerdict
  /\ SurvivorsAreQuoted

(***************************************************************************)
(* config.py:3-4 of the ceiling on premiums: no survivor costs more over   *)
(* its reference than MAX_PREMIUM_BPS_HARD.                                *)
(***************************************************************************)
PremiumWithinCeiling ==
  \A k \in DOMAIN routes : Judged(k) => routes[k].rep.gap <= settings.maxPremium
=============================================================================
