----------------------- MODULE RouteTournamentProofs -----------------------
(***************************************************************************)
(* Proofs about the policy engine and the route tournament. The theorems   *)
(* about the engine hold for all settings, constitutions, portfolios,      *)
(* intents and candidates; the tournament inherits them, its invariant     *)
(* IInv saying that a status is the engine's verdict. That a best survivor *)
(* exists is the well-ordering of the natural numbers, applied to what a   *)
(* score lacks and then to the position.                                   *)
(***************************************************************************)
EXTENDS RouteTournament, WellFoundedInduction, TLAPS

(***************************************************************************)
(* The verdict of the engine, spelled out rule by rule.                    *)
(***************************************************************************)
LEMMA EligibleRules ==
  ASSUME NEW s, NEW c, NEW p, NEW i, NEW x
  PROVE  LET n == Spend(i)  rep == x.rep IN
    Eligible(s, c, p, i, x) <=>
      /\ ~(n <= 0) /\ ~(n > s.maxNotional)
      /\ rep.chain \in s.chains /\ rep.platform \in s.platforms /\ i.asset \in s.assets
      /\ ~(c.reserve # None /\ p.balance - n < c.reserve)
      /\ ~((c.underlyingPct # None \/ c.platformPct # None) /\ p.total <= 0)
      /\ ~Exceeds(p.underlying + n, c.underlyingPct, p.total)
      /\ ~Exceeds(p.platform[rep.platform] + n, c.platformPct, p.total)
      /\ Within(p.spent + n, {c.daily})
      /\ Within(n, {c.maxNotional})
      /\ ~(x.premium # None /\ ~Within(x.premium, PremiumCaps(s, c, i, rep)))
      /\ ~(x.slippage # None /\
             ~Within(x.slippage, {s.maxSlippage, i.maxSlippage, c.maxSlippage}))
      /\ rep.platform \in c.platforms
      /\ ~(c.contracts # {} /\ rep.token \notin c.contracts)
      /\ ~(c.attestation /\ ~rep.attested)
      /\ ~(c.audit /\ ~rep.audited)
      /\ ~(c.blockHalted /\ rep.market = "HALTED")
      /\ ~(~c.whenClosed /\ rep.market = "CLOSED")
      /\ ~(~c.extended /\ rep.market = "EXTENDED")
      /\ ~(c.requireRef /\ rep.reference = "none")
      /\ ~(c.requireRef /\ rep.reference = "candle")
      /\ ~(c.requireRef /\ x.age = None)
      /\ ~(x.age # None /\ x.age > MaxAge(s, c))
      /\ ~((c.requireSim \/ s.requireSim) /\ x.sim \in {"FAIL", "SKIP"})
<1> DEFINE broken == Broken(s, c, p, i, x)
<1>1. DOMAIN broken =
        {"positive_notional", "system_max_notional", "system_chain_id",
         "system_platform", "system_quote_asset", "min_quote_reserve",
         "portfolio_required", "single_underlying", "single_platform", "max_daily",
         "max_notional", "max_premium", "max_slippage", "allowed_platforms",
         "allowed_contracts", "require_attestation", "require_audit",
         "block_when_halted", "allow_when_closed", "allow_extended",
         "reference_price", "independent_source", "timestamp_required", "max_age",
         "simulation_failed"}
  BY DEF Broken
<1>2. Eligible(s, c, p, i, x) <=> \A rule \in DOMAIN broken : ~broken[rule]
  BY DEF Eligible
<1>3. Eligible(s, c, p, i, x) <=>
        /\ ~broken.positive_notional /\ ~broken.system_max_notional /\ ~broken.system_chain_id
        /\ ~broken.system_platform /\ ~broken.system_quote_asset /\ ~broken.min_quote_reserve
        /\ ~broken.portfolio_required /\ ~broken.single_underlying /\ ~broken.single_platform
        /\ ~broken.max_daily /\ ~broken.max_notional /\ ~broken.max_premium
        /\ ~broken.max_slippage /\ ~broken.allowed_platforms /\ ~broken.allowed_contracts
        /\ ~broken.require_attestation /\ ~broken.require_audit /\ ~broken.block_when_halted
        /\ ~broken.allow_when_closed /\ ~broken.allow_extended /\ ~broken.reference_price
        /\ ~broken.independent_source /\ ~broken.timestamp_required /\ ~broken.max_age
        /\ ~broken.simulation_failed
  <2> HIDE DEF broken
  <2> QED BY <1>1, <1>2
<1>4. QED BY <1>3 DEF Broken

-----------------------------------------------------------------------------
(***************************************************************************)
(* config.py:3-4: a permissive constitution never exceeds the ceilings the *)
(* system sets, whatever the portfolio and the intent.                     *)
(***************************************************************************)
THEOREM CeilingsBind ==
  ASSUME NEW s \in SystemSettings, NEW c \in Constitution, NEW p,
         NEW i \in Intent, NEW x \in Route, Eligible(s, c, p, i, x)
  PROVE  /\ Spend(i) > 0 /\ Spend(i) <= s.maxNotional
         /\ x.rep.chain \in s.chains
         /\ x.rep.platform \in s.platforms
         /\ i.asset \in s.assets
         /\ x.premium # None => x.premium <= s.maxPremium
         /\ x.slippage # None => x.slippage <= s.maxSlippage
<1>1. s.maxNotional \in Int /\ s.maxPremium \in Int /\ s.maxSlippage \in Int
  BY DEF SystemSettings
<1>2. s.maxPremium # None /\ s.maxSlippage # None
  BY <1>1, NoneAssumption
<1>3. Spend(i) \in Int
  BY DEF Intent, Spend
<1>4. x.premium # None => Within(x.premium, PremiumCaps(s, c, i, x.rep))
  BY EligibleRules
<1>5. x.slippage # None =>
        Within(x.slippage, {s.maxSlippage, i.maxSlippage, c.maxSlippage})
  BY EligibleRules
<1>6. x.premium # None => x.premium <= s.maxPremium
  BY <1>2, <1>4 DEF Within, PremiumCaps
<1>7. x.slippage # None => x.slippage <= s.maxSlippage
  BY <1>2, <1>5 DEF Within
<1>8. /\ Spend(i) > 0 /\ Spend(i) <= s.maxNotional
      /\ x.rep.chain \in s.chains /\ x.rep.platform \in s.platforms /\ i.asset \in s.assets
  <2>1. /\ ~(Spend(i) <= 0) /\ ~(Spend(i) > s.maxNotional)
        /\ x.rep.chain \in s.chains /\ x.rep.platform \in s.platforms /\ i.asset \in s.assets
    BY EligibleRules
  <2>2. QED BY <1>1, <1>3, <2>1
<1>9. QED BY <1>6, <1>7, <1>8

-----------------------------------------------------------------------------
(* Caps: a value within the stricter caps is within the laxer ones. *)

LEMMA StricterCap ==
  ASSUME NEW u \in Cap, NEW v \in Cap, Stricter(u, v), NEW n \in Int, Within(n, {u})
  PROVE  Within(n, {v})
<1>1. CASE v = None
  BY <1>1 DEF Within
<1>2. CASE v # None
  <2>1. u # None /\ u \in Int /\ v \in Int /\ u <= v
    BY <1>2 DEF Stricter, Cap
  <2>2. n <= u
    BY <2>1 DEF Within
  <2>3. n <= v
    BY <2>1, <2>2
  <2>4. QED BY <2>3 DEF Within
<1>3. QED BY <1>1, <1>2

LEMMA StricterShare ==
  ASSUME NEW u \in Cap, NEW v \in Cap, Stricter(u, v),
         NEW e \in Int, NEW t \in Int, Exceeds(e, v, t)
  PROVE  Exceeds(e, u, t)
<1>1. v # None /\ t > 0 /\ e * 100 > v * t
  BY DEF Exceeds
<1>2. u # None /\ u \in Int /\ v \in Int /\ u <= v
  BY <1>1 DEF Stricter, Cap
<1>3. u * t <= v * t
  BY <1>1, <1>2
<1>4. e * 100 > u * t
  BY <1>1, <1>2, <1>3
<1>5. QED BY <1>1, <1>2, <1>4 DEF Exceeds

LEMMA StricterPremium ==
  ASSUME NEW s \in SystemSettings, NEW c \in Constitution, NEW d \in Constitution,
         NEW i \in Intent, NEW rep, Tightens(s, c, d), NEW n \in Int,
         Within(n, PremiumCaps(s, c, i, rep))
  PROVE  Within(n, PremiumCaps(s, d, i, rep))
<1>1. /\ c.maxPremium \in Cap /\ d.maxPremium \in Cap
      /\ c.closedPremium \in Cap /\ d.closedPremium \in Cap
  BY DEF Constitution
<1>2. Stricter(c.maxPremium, d.maxPremium) /\ Stricter(c.closedPremium, d.closedPremium)
  BY DEF Tightens
<1>3. Within(n, {s.maxPremium, i.maxPremium}) /\ Within(n, {c.maxPremium})
  BY DEF Within, PremiumCaps
<1>4. Within(n, {d.maxPremium})
  BY <1>1, <1>2, <1>3, StricterCap
<1>5. CASE rep.market \in {"CLOSED", "EXTENDED"}
  <2>1. Within(n, {c.closedPremium})
    BY <1>5 DEF Within, PremiumCaps
  <2>2. Within(n, {d.closedPremium})
    BY <2>1, <1>1, <1>2, StricterCap
  <2>3. QED BY <1>3, <1>4, <2>2 DEF Within, PremiumCaps
<1>6. CASE rep.market \notin {"CLOSED", "EXTENDED"}
  BY <1>3, <1>4, <1>6 DEF Within, PremiumCaps
<1>7. QED BY <1>5, <1>6

LEMMA StricterSlippage ==
  ASSUME NEW a, NEW b, NEW u \in Cap, NEW v \in Cap, Stricter(u, v), NEW n \in Int,
         Within(n, {a, b, u})
  PROVE  Within(n, {a, b, v})
<1>1. Within(n, {u})
  BY DEF Within
<1>2. Within(n, {v})
  BY <1>1, StricterCap
<1>3. QED BY <1>2 DEF Within

-----------------------------------------------------------------------------
(***************************************************************************)
(* Of two constitutions the stricter admits no more: every rule of the     *)
(* engine is monotone in what the constitution says.                       *)
(***************************************************************************)
THEOREM StricterAdmitsLess ==
  ASSUME NEW s \in SystemSettings, NEW c \in Constitution, NEW d \in Constitution,
         NEW p \in Portfolio, NEW i \in Intent, NEW x \in Route,
         Tightens(s, c, d), Eligible(s, c, p, i, x)
  PROVE  Eligible(s, d, p, i, x)
<1> DEFINE n == Spend(i)  rep == x.rep
<1>1. n \in Int
  BY DEF Intent, Spend
<1>2. /\ rep \in Representation /\ x.age \in Cap
      /\ x.premium # None => x.premium \in Int
      /\ x.slippage # None => x.slippage \in Int
  BY DEF Route, Cap
<1>3. /\ p.balance \in Int /\ p.total \in Int /\ p.spent + n \in Int
      /\ p.underlying + n \in Int /\ p.platform[rep.platform] + n \in Int
  BY <1>1, <1>2 DEF Portfolio, Representation
<1>4. /\ c.reserve \in Cap /\ d.reserve \in Cap /\ c.daily \in Cap /\ d.daily \in Cap
      /\ c.underlyingPct \in Cap /\ d.underlyingPct \in Cap
      /\ c.platformPct \in Cap /\ d.platformPct \in Cap
      /\ c.maxNotional \in Cap /\ d.maxNotional \in Cap
      /\ c.maxSlippage \in Cap /\ d.maxSlippage \in Cap
      /\ c.maxAge \in Cap /\ d.maxAge \in Cap /\ s.maxAge \in Nat
  BY DEF Constitution, SystemSettings
<1>5. /\ Stricter(c.underlyingPct, d.underlyingPct) /\ Stricter(c.platformPct, d.platformPct)
      /\ Stricter(c.daily, d.daily) /\ Stricter(c.maxNotional, d.maxNotional)
      /\ Stricter(c.maxSlippage, d.maxSlippage)
  BY DEF Tightens
<1>6. ~(d.reserve # None /\ p.balance - n < d.reserve)
  <2>1. d.reserve = None \/ (c.reserve # None /\ c.reserve >= d.reserve)
    BY DEF Tightens
  <2>2. ~(c.reserve # None /\ p.balance - n < c.reserve)
    BY EligibleRules
  <2>3. QED BY <1>1, <1>3, <1>4, <2>1, <2>2 DEF Cap
<1>7. ~((d.underlyingPct # None \/ d.platformPct # None) /\ p.total <= 0)
  <2>1. ~((c.underlyingPct # None \/ c.platformPct # None) /\ p.total <= 0)
    BY EligibleRules
  <2>2. QED BY <1>5, <2>1 DEF Stricter
<1>8. ~Exceeds(p.underlying + n, d.underlyingPct, p.total)
  <2>1. ~Exceeds(p.underlying + n, c.underlyingPct, p.total)
    BY EligibleRules
  <2>2. QED BY <1>3, <1>4, <1>5, <2>1, StricterShare
<1>9. ~Exceeds(p.platform[rep.platform] + n, d.platformPct, p.total)
  <2>1. ~Exceeds(p.platform[rep.platform] + n, c.platformPct, p.total)
    BY EligibleRules
  <2>2. QED BY <1>3, <1>4, <1>5, <2>1, StricterShare
<1>10. Within(p.spent + n, {d.daily}) /\ Within(n, {d.maxNotional})
  <2>1. Within(p.spent + n, {c.daily}) /\ Within(n, {c.maxNotional})
    BY EligibleRules
  <2>2. QED BY <1>1, <1>3, <1>4, <1>5, <2>1, StricterCap
<1>11. ~(x.premium # None /\ ~Within(x.premium, PremiumCaps(s, d, i, rep)))
  <2>1. ~(x.premium # None /\ ~Within(x.premium, PremiumCaps(s, c, i, rep)))
    BY EligibleRules
  <2>2. QED BY <1>2, <2>1, StricterPremium
<1>12. ~(x.slippage # None /\
           ~Within(x.slippage, {s.maxSlippage, i.maxSlippage, d.maxSlippage}))
  <2>1. ~(x.slippage # None /\
            ~Within(x.slippage, {s.maxSlippage, i.maxSlippage, c.maxSlippage}))
    BY EligibleRules
  <2>2. QED BY <1>2, <1>4, <1>5, <2>1, StricterSlippage
<1>13. ~(x.age # None /\ x.age > MaxAge(s, d))
  <2>1. ~(x.age # None /\ x.age > MaxAge(s, c))
    BY EligibleRules
  <2>2. MaxAge(s, c) <= MaxAge(s, d)
    BY DEF Tightens
  <2>3. MaxAge(s, c) \in Int /\ MaxAge(s, d) \in Int
    BY <1>4 DEF MaxAge, Cap
  <2>4. QED BY <1>2, <2>1, <2>2, <2>3 DEF Cap
<1>14. /\ ~(n <= 0) /\ ~(n > s.maxNotional)
       /\ rep.chain \in s.chains /\ rep.platform \in s.platforms /\ i.asset \in s.assets
  BY EligibleRules
<1>15. /\ rep.platform \in d.platforms
       /\ ~(d.contracts # {} /\ rep.token \notin d.contracts)
  <2>1. rep.platform \in c.platforms /\ ~(c.contracts # {} /\ rep.token \notin c.contracts)
    BY EligibleRules
  <2>2. QED BY <2>1 DEF Tightens
<1>16. ~(d.attestation /\ ~rep.attested) /\ ~(d.audit /\ ~rep.audited)
  <2>1. ~(c.attestation /\ ~rep.attested) /\ ~(c.audit /\ ~rep.audited)
    BY EligibleRules
  <2>2. (d.attestation => c.attestation) /\ (d.audit => c.audit)
    BY DEF Tightens
  <2>3. QED BY <2>1, <2>2
<1>17. /\ ~(d.blockHalted /\ rep.market = "HALTED")
       /\ ~(~d.whenClosed /\ rep.market = "CLOSED")
       /\ ~(~d.extended /\ rep.market = "EXTENDED")
  <2>1. /\ ~(c.blockHalted /\ rep.market = "HALTED")
        /\ ~(~c.whenClosed /\ rep.market = "CLOSED")
        /\ ~(~c.extended /\ rep.market = "EXTENDED")
    BY EligibleRules
  <2>2. /\ d.blockHalted => c.blockHalted
        /\ c.whenClosed => d.whenClosed
        /\ c.extended => d.extended
    BY DEF Tightens
  <2>3. QED BY <2>1, <2>2
<1>18. /\ ~(d.requireRef /\ rep.reference = "none")
       /\ ~(d.requireRef /\ rep.reference = "candle")
       /\ ~(d.requireRef /\ x.age = None)
       /\ ~((d.requireSim \/ s.requireSim) /\ x.sim \in {"FAIL", "SKIP"})
  <2>1. /\ ~(c.requireRef /\ rep.reference = "none")
        /\ ~(c.requireRef /\ rep.reference = "candle")
        /\ ~(c.requireRef /\ x.age = None)
        /\ ~((c.requireSim \/ s.requireSim) /\ x.sim \in {"FAIL", "SKIP"})
    BY EligibleRules
  <2>2. (d.requireRef => c.requireRef) /\ (d.requireSim => c.requireSim)
    BY DEF Tightens
  <2>3. QED BY <2>1, <2>2
<1> HIDE DEF n, rep
<1>19. QED
  BY <1>6, <1>7, <1>8, <1>9, <1>10, <1>11, <1>12, <1>13, <1>14, <1>15, <1>16, <1>17,
     <1>18, EligibleRules DEF n, rep

(***************************************************************************)
(* And it asks for no less: where the laxer constitution wants a person to *)
(* confirm a route that both admit, the stricter one wants it too.         *)
(***************************************************************************)
THEOREM StricterAsksMore ==
  ASSUME NEW s \in SystemSettings, NEW c \in Constitution, NEW d \in Constitution,
         NEW p, NEW i \in Intent, NEW x \in Route,
         Tightens(s, c, d), Eligible(s, c, p, i, x), Asks(s, d, i, x)
  PROVE  Asks(s, c, i, x)
<1>1. CASE x.rep.market = "CLOSED" /\ d.whenClosed /\ d.confirmClosed
  <2>1. ~(~c.whenClosed /\ x.rep.market = "CLOSED")
    BY EligibleRules
  <2>2. d.confirmClosed => c.confirmClosed
    BY DEF Tightens
  <2>3. QED BY <1>1, <2>1, <2>2 DEF Asks
<1>2. CASE (d.requireSim \/ s.requireSim) /\ x.sim = "none"
  <2>1. d.requireSim => c.requireSim
    BY DEF Tightens
  <2>2. QED BY <1>2, <2>1 DEF Asks
<1>3. CASE d.always
  <2>1. d.always => c.always
    BY DEF Tightens
  <2>2. QED BY <1>3, <2>1 DEF Asks
<1>4. CASE ~Within(Spend(i), {d.confirmAbove})
  <2>1. Stricter(c.confirmAbove, d.confirmAbove)
    BY DEF Tightens
  <2>2. c.confirmAbove \in Cap /\ d.confirmAbove \in Cap /\ Spend(i) \in Int
    BY DEF Constitution, Intent, Spend
  <2>3. ~Within(Spend(i), {c.confirmAbove})
    BY <1>4, <2>1, <2>2, StricterCap
  <2>4. QED BY <2>3 DEF Asks
<1>5. CASE s.confirms
  BY <1>5 DEF Asks
<1>6. QED BY <1>1, <1>2, <1>3, <1>4, <1>5 DEF Asks

-----------------------------------------------------------------------------
(* The tournament. *)

LEMMA Universe ==
  ASSUME RoutesOK
  PROVE  /\ settings \in SystemSettings /\ constitution \in Constitution
         /\ portfolio \in Portfolio /\ intent \in Intent
         /\ \A k \in DOMAIN routes : routes[k] \in Route
<1>1. EmptyPortfolio \in Portfolio
  BY DEF EmptyPortfolio, Portfolio
<1>2. /\ settings \in SystemSettings /\ constitution \in Constitution
      /\ portfolio \in Portfolio /\ intent \in Intent
  BY <1>1, UniverseAssumption DEF RoutesOK
<1>3. \A k \in DOMAIN routes : routes[k] \in Route
  BY DEF RoutesOK
<1>4. QED BY <1>2, <1>3

(***************************************************************************)
(* The status a candidate has is nothing the engine looks at.              *)
(***************************************************************************)
LEMMA StatusIsNotJudged ==
  ASSUME NEW s, NEW c, NEW p, NEW i, NEW x \in Route, NEW v \in Status
  PROVE  LET y == [x EXCEPT !.status = v] IN
         /\ y \in Route /\ y.status = v
         /\ y.age = x.age /\ y.quoted = x.quoted
         /\ Eligible(s, c, p, i, y) <=> Eligible(s, c, p, i, x)
         /\ Asks(s, c, i, y) <=> Asks(s, c, i, x)
<1> DEFINE y == [x EXCEPT !.status = v]
<1>1. /\ y \in Route /\ y.status = v /\ y.rep = x.rep /\ y.premium = x.premium
      /\ y.age = x.age /\ y.slippage = x.slippage /\ y.quoted = x.quoted /\ y.sim = x.sim
  BY DEF Route
<1> HIDE DEF y
<1>2. Eligible(s, c, p, i, y) <=> Eligible(s, c, p, i, x)
  BY <1>1 DEF Eligible, Broken
<1>3. Asks(s, c, i, y) <=> Asks(s, c, i, x)
  BY <1>1 DEF Asks
<1>4. QED BY <1>1, <1>2, <1>3 DEF y

LEMMA MappedRoutes ==
  ASSUME NEW f, DOMAIN f = DOMAIN routes, RoutesOK,
         f = [k \in DOMAIN routes |-> f[k]],
         \A k \in DOMAIN routes : f[k] \in Route
  PROVE  f \in Seq(Route)
<1>1. DOMAIN routes = 1..Len(routes) /\ Len(routes) \in Nat
  BY DEF RoutesOK
<1>2. f \in [1..Len(routes) -> Route]
  BY <1>1
<1>3. QED BY <1>1, <1>2

LEMMA InitOK == Init => IInv
<1> SUFFICES ASSUME Init PROVE IInv
  OBVIOUS
<1>1. routes = <<>> /\ stage = "build" /\ DOMAIN routes = {}
  BY DEF Init
<1>2. RoutesOK
  BY <1>1 DEF Init, RoutesOK
<1>3. QED
  BY <1>1, <1>2 DEF IInv, Unjudged, VerdictsAgree, StatusIsVerdict, SurvivorsAreQuoted,
     Judged, Survivors

LEMMA BuildsOK ==
  ASSUME IInv, NEW reps \in Discoveries, NEW ages \in [DOMAIN reps -> Ages],
         Builds(reps, ages)
  PROVE  IInv'
<1>1. /\ \A k \in DOMAIN reps : Candidate(reps[k], ages[k]) \in Route
      /\ \A k \in DOMAIN reps : Candidate(reps[k], ages[k]).status = "ELIGIBLE"
  <2> SUFFICES ASSUME NEW k \in DOMAIN reps
               PROVE  /\ Candidate(reps[k], ages[k]) \in Route
                      /\ Candidate(reps[k], ages[k]).status = "ELIGIBLE"
    OBVIOUS
  <2>1. reps[k] \in Representation /\ ages[k] \in Cap
    BY UniverseAssumption DEF Discoveries
  <2>2. (IF Comparable(reps[k]) THEN reps[k].gap ELSE None)
          \in Int \cup {None}
    BY <2>1 DEF Representation
  <2>3. QED BY <2>1, <2>2 DEF Candidate, Route, Status, Cap
<1>2. routes' \in Seq(Route)
  <2>1. PICK m \in 0..MaxRoutes : DOMAIN reps = 1..m
    BY DEF Discoveries
  <2>2. m \in Nat
    BY <2>1, UniverseAssumption
  <2>3. routes' \in [1..m -> Route]
    BY <1>1, <2>1 DEF Builds
  <2>4. QED BY <2>2, <2>3
<1>3. stage' \in {"quote", "judge"} /\ (stage' = "judge" => caller # "pipeline")
  BY DEF Builds
<1>4. DOMAIN routes' = DOMAIN reps /\ \A k \in DOMAIN reps : routes'[k].status = "ELIGIBLE"
  BY <1>1 DEF Builds
<1>5. UNCHANGED given
  BY DEF Builds
<1>6. RoutesOK'
  BY <1>2, <1>3, <1>5 DEF IInv, RoutesOK, given
<1>7. Unjudged'
  BY <1>3, <1>4, <1>5 DEF Unjudged, given
<1>8. VerdictsAgree' /\ StatusIsVerdict' /\ SurvivorsAreQuoted'
  BY <1>3 DEF VerdictsAgree, StatusIsVerdict, SurvivorsAreQuoted, Judged
<1>9. QED BY <1>6, <1>7, <1>8 DEF IInv

LEMMA NoQuotesOK ==
  ASSUME IInv, stage = "quote", stage' = "judge", UNCHANGED given,
         routes' = [k \in DOMAIN routes |-> NoQuote(routes[k])]
  PROVE  IInv'
<1>1. \A k \in DOMAIN routes : routes'[k] \in Route /\ routes'[k].status = "NO_QUOTE"
  BY Universe DEF IInv, NoQuote, Route, Status
<1>2. routes' \in Seq(Route)
  BY <1>1, MappedRoutes DEF IInv
<1>3. RoutesOK'
  BY <1>2 DEF IInv, RoutesOK, given
<1>4. Unjudged'
  BY <1>1 DEF Unjudged
<1>5. VerdictsAgree' /\ StatusIsVerdict' /\ SurvivorsAreQuoted'
  BY DEF VerdictsAgree, StatusIsVerdict, SurvivorsAreQuoted, Judged
<1>6. QED BY <1>3, <1>4, <1>5 DEF IInv

LEMMA QuotesOK ==
  ASSUME IInv, NEW answered \in SUBSET (DOMAIN routes),
         NEW slip \in [answered -> Slips \cup {None}], Quotes(slip)
  PROVE  IInv'
<1>1. ~settings.demo /\ intent.side = "BUY" /\ UNCHANGED given /\ stage' = "judge"
  BY DEF Quotes, Unquotable
<1>2. ASSUME NEW k \in DOMAIN routes
      PROVE  /\ routes'[k] \in Route
             /\ routes'[k].status \in {"ELIGIBLE", "NO_QUOTE"}
             /\ routes'[k].status = "ELIGIBLE" => routes'[k].quoted
  <2>1. routes[k] \in Route /\ routes[k].status \in {"ELIGIBLE", "NO_QUOTE"}
    BY Universe DEF IInv, Unjudged, Quotes
  <2>2. CASE k \in DOMAIN slip
    <3>1. slip[k] \in Cap
      BY <2>2, UniverseAssumption DEF Cap
    <3>2. routes'[k] = [routes[k] EXCEPT !.quoted = TRUE, !.slippage = slip[k]]
      BY <2>2 DEF Quotes
    <3>3. QED BY <2>1, <3>1, <3>2 DEF Route
  <2>3. CASE k \notin DOMAIN slip
    <3>1. routes'[k] = [routes[k] EXCEPT !.status = "NO_QUOTE"]
      BY <2>3 DEF Quotes, NoQuote
    <3>2. QED BY <2>1, <3>1 DEF Route, Status
  <2>4. QED BY <2>2, <2>3
<1>3. DOMAIN routes' = DOMAIN routes /\ routes' = [k \in DOMAIN routes |-> routes'[k]]
  BY DEF Quotes
<1>4. routes' \in Seq(Route)
  BY <1>2, <1>3, MappedRoutes DEF IInv
<1>5. RoutesOK'
  BY <1>1, <1>4 DEF IInv, RoutesOK, given
<1>6. Unjudged'
  BY <1>1, <1>2, <1>3 DEF Unjudged, given
<1>7. VerdictsAgree' /\ StatusIsVerdict' /\ SurvivorsAreQuoted'
  BY <1>1 DEF VerdictsAgree, StatusIsVerdict, SurvivorsAreQuoted, Judged
<1>8. QED BY <1>5, <1>6, <1>7 DEF IInv

LEMMA EvaluatesOK ==
  ASSUME IInv, Evaluates
  PROVE  IInv'
<1> DEFINE S == settings  C == constitution  P == portfolio  I == intent
<1>1. /\ UNCHANGED given /\ stage = "judge" /\ stage' = "done"
      /\ routes' = [k \in DOMAIN routes |-> [routes[k] EXCEPT !.status = Verdict(routes[k])]]
  BY DEF Evaluates
<1>2. settings' = S /\ constitution' = C /\ portfolio' = P /\ intent' = I /\ caller' = caller
  BY <1>1 DEF given
<1>3. ASSUME NEW x \in Route, x.status \in {"ELIGIBLE", "NO_QUOTE"}
      PROVE  /\ Verdict(x) \in Status
             /\ x.status = "NO_QUOTE" => Verdict(x) = "NO_QUOTE"
             /\ x.status = "ELIGIBLE" =>
                  /\ Verdict(x) # "NO_QUOTE"
                  /\ Verdict(x) \in {"ELIGIBLE", "REQUIRES_CONFIRMATION"} <=>
                       (~Stale(x) /\ Admitted(x))
                  /\ Verdict(x) = "ELIGIBLE" => ~Asks(S, C, I, x)
  <2>1. CASE x.status = "NO_QUOTE"
    <3>1. Verdict(x) = "NO_QUOTE"
      BY <2>1 DEF Verdict
    <3>2. QED BY <2>1, <3>1 DEF Status
  <2>2. CASE x.status = "ELIGIBLE" /\ Stale(x)
    <3>1. Verdict(x) = "STALE_REFERENCE"
      BY <2>2 DEF Verdict
    <3>2. QED BY <2>2, <3>1 DEF Status
  <2>3. CASE x.status = "ELIGIBLE" /\ ~Stale(x) /\ ~Admitted(x)
    <3>1. Verdict(x) = "REJECTED"
      BY <2>3 DEF Verdict
    <3>2. QED BY <2>3, <3>1 DEF Status
  <2>4. CASE x.status = "ELIGIBLE" /\ ~Stale(x) /\ Admitted(x)
    <3>1. Verdict(x) = IF Asks(S, C, I, x) THEN "REQUIRES_CONFIRMATION" ELSE "ELIGIBLE"
      BY <2>4 DEF Verdict
    <3>2. CASE Asks(S, C, I, x)
      BY <2>4, <3>1, <3>2 DEF Status
    <3>3. CASE ~Asks(S, C, I, x)
      BY <2>4, <3>1, <3>3 DEF Status
    <3>4. QED BY <3>2, <3>3
  <2>5. QED BY <1>3, <2>1, <2>2, <2>3, <2>4
<1>4. ASSUME NEW x \in Route
      PROVE  Admitted(x) => ~Stale(x)
  <2>1. Eligible(S, C, P, I, x) => ~(x.age # None /\ x.age > MaxAge(S, C))
    BY EligibleRules
  <2>2. QED BY <2>1 DEF Admitted, Stale
<1>5. ASSUME NEW k \in DOMAIN routes
      PROVE  /\ routes[k] \in Route
             /\ routes[k].status \in {"ELIGIBLE", "NO_QUOTE"}
             /\ caller = "pipeline" /\ routes[k].status = "ELIGIBLE" =>
                  routes[k].quoted /\ ~settings.demo /\ intent.side = "BUY"
  BY <1>1, Universe DEF IInv, Unjudged
<1>6. ASSUME NEW k \in DOMAIN routes
      PROVE  /\ routes'[k] \in Route
             /\ routes'[k].status = Verdict(routes[k])
             /\ routes'[k].quoted = routes[k].quoted
             /\ Eligible(S, C, P, I, routes'[k]) <=> Eligible(S, C, P, I, routes[k])
             /\ Asks(S, C, I, routes'[k]) <=> Asks(S, C, I, routes[k])
  <2>1. routes'[k] = [routes[k] EXCEPT !.status = Verdict(routes[k])]
    BY <1>1
  <2>2. routes[k] \in Route /\ Verdict(routes[k]) \in Status
    BY <1>3, <1>5
  <2>3. QED BY <2>1, <2>2, StatusIsNotJudged
<1>7. DOMAIN routes' = DOMAIN routes /\ routes' = [k \in DOMAIN routes |-> routes'[k]]
  BY <1>1
<1>8. RoutesOK'
  <2>1. routes' \in Seq(Route)
    BY <1>6, <1>7, MappedRoutes DEF IInv
  <2>2. QED BY <1>1, <1>2, <2>1 DEF IInv, RoutesOK
<1>9. Survivors(routes') = {k \in DOMAIN routes :
                              Verdict(routes[k]) \in {"ELIGIBLE", "REQUIRES_CONFIRMATION"}}
  BY <1>6, <1>7 DEF Survivors
<1>10. ASSUME NEW k \in DOMAIN routes
       PROVE  Admitted(routes[k])' <=> Admitted(routes[k])
  <2>1. Admitted(routes[k])' <=> Eligible(S, C, P, I, routes'[k])
    BY <1>2 DEF Admitted
  <2>2. QED BY <1>6, <2>1 DEF Admitted
<1>11. VerdictsAgree'
  <2> SUFFICES ASSUME NEW k \in DOMAIN routes, routes'[k].status # "NO_QUOTE"
               PROVE  k \in Survivors(routes') <=> Admitted(routes[k])'
    BY <1>7 DEF VerdictsAgree
  <2>1. routes[k].status = "ELIGIBLE"
    BY <1>3, <1>5, <1>6
  <2>2. k \in Survivors(routes') <=> (~Stale(routes[k]) /\ Admitted(routes[k]))
    BY <1>3, <1>5, <1>9, <2>1
  <2>3. QED BY <1>4, <1>5, <1>10, <2>2
<1>12. ASSUME NEW k \in Survivors(routes')
       PROVE  /\ k \in DOMAIN routes /\ routes[k].status = "ELIGIBLE"
              /\ routes'[k].status \in {"ELIGIBLE", "REQUIRES_CONFIRMATION"}
  <2>1. k \in DOMAIN routes /\ Verdict(routes[k]) \in {"ELIGIBLE", "REQUIRES_CONFIRMATION"}
    BY <1>9
  <2>2. QED BY <1>3, <1>5, <1>6, <2>1
<1>13. StatusIsVerdict'
  <2> SUFFICES ASSUME NEW k \in Survivors(routes'), Asks(S, C, I, routes'[k])
               PROVE  routes'[k].status = "REQUIRES_CONFIRMATION"
    BY <1>2 DEF StatusIsVerdict
  <2>1. Asks(S, C, I, routes[k])
    BY <1>6, <1>12
  <2>2. Verdict(routes[k]) # "ELIGIBLE"
    BY <1>3, <1>5, <1>12, <2>1
  <2>3. QED BY <1>6, <1>12, <2>2
<1>14. SurvivorsAreQuoted'
  <2> SUFFICES ASSUME NEW k \in Survivors(routes'), caller = "pipeline"
               PROVE  routes'[k].quoted /\ ~settings.demo /\ intent.side = "BUY"
    BY <1>2 DEF SurvivorsAreQuoted, Judged
  <2>1. QED BY <1>5, <1>6, <1>12
<1>15. Unjudged'
  BY <1>1 DEF Unjudged
<1>16. QED BY <1>8, <1>11, <1>13, <1>14, <1>15 DEF IInv

-----------------------------------------------------------------------------
(***************************************************************************)
(* tournament.py: in every state of a tournament a candidate that is not   *)
(* yet judged is eligible or without a quote, and a judged one carries the *)
(* engine's verdict.                                                       *)
(***************************************************************************)
THEOREM Invariance == Spec => []IInv
<1>1. Init => IInv
  BY InitOK
<1>2. IInv /\ [Next]_vars => IInv'
  <2> SUFFICES ASSUME IInv, [Next]_vars PROVE IInv'
    OBVIOUS
  <2>1. ASSUME NEW reps \in Discoveries, NEW ages \in [DOMAIN reps -> Ages],
               Builds(reps, ages)
        PROVE  IInv'
    BY <2>1, BuildsOK
  <2>2. CASE QuotesNothing
    BY <2>2, NoQuotesOK DEF QuotesNothing
  <2>3. CASE WalletAway
    BY <2>3, NoQuotesOK DEF WalletAway
  <2>4. ASSUME NEW answered \in SUBSET (DOMAIN routes),
               NEW slip \in [answered -> Slips \cup {None}], Quotes(slip)
        PROVE  IInv'
    BY <2>4, QuotesOK
  <2>5. CASE Evaluates
    BY <2>5, EvaluatesOK
  <2>6. CASE UNCHANGED vars
    BY <2>6 DEF vars, given, IInv, RoutesOK, Unjudged, VerdictsAgree, StatusIsVerdict,
       SurvivorsAreQuoted, Judged, Admitted
  <2>7. QED BY <2>1, <2>2, <2>3, <2>4, <2>5, <2>6 DEF Next
<1>3. QED BY <1>1, <1>2, PTL DEF Spec

(***************************************************************************)
(* project-overview-pdr.md:54: what the pipeline goes on with was quoted   *)
(* by the wallet.                                                          *)
(***************************************************************************)
THEOREM QuotedHolds == Spec => []SurvivorsAreQuoted
<1>1. IInv => SurvivorsAreQuoted
  BY DEF IInv
<1>2. QED BY <1>1, Invariance, PTL

(***************************************************************************)
(* tournament.py:144-148: the tournament's own test of staleness never     *)
(* contradicts the engine.                                                 *)
(***************************************************************************)
THEOREM VerdictsHold == Spec => []VerdictsAgree
<1>1. IInv => VerdictsAgree
  BY DEF IInv
<1>2. QED BY <1>1, Invariance, PTL

LEMMA SurvivorsAdmitted ==
  ASSUME IInv, NEW k \in DOMAIN routes, Judged(k)
  PROVE  /\ Eligible(settings, constitution, portfolio, intent, routes[k])
         /\ Asks(settings, constitution, intent, routes[k]) =>
              routes[k].status = "REQUIRES_CONFIRMATION"
<1>1. stage = "done" /\ k \in Survivors(routes) /\ routes[k].status # "NO_QUOTE"
  BY DEF Judged, Survivors
<1>2. Admitted(routes[k])
  BY <1>1 DEF IInv, VerdictsAgree
<1>3. QED BY <1>1, <1>2 DEF Admitted, IInv, StatusIsVerdict

(***************************************************************************)
(* config.py:3-4: whatever the owner's constitution says, what survives a  *)
(* tournament respects the system's ceilings.                              *)
(***************************************************************************)
THEOREM CeilingsHold == Spec => []SystemCeilings
<1>1. IInv => SystemCeilings
  <2> SUFFICES ASSUME IInv, NEW k \in DOMAIN routes, Judged(k)
               PROVE  LET x == routes[k] IN
                 /\ Spend(intent) > 0 /\ Spend(intent) <= settings.maxNotional
                 /\ x.rep.chain \in settings.chains
                 /\ x.rep.platform \in settings.platforms
                 /\ intent.asset \in settings.assets
                 /\ x.premium # None => x.premium <= settings.maxPremium
                 /\ x.slippage # None => x.slippage <= settings.maxSlippage
                 /\ settings.confirms => x.status = "REQUIRES_CONFIRMATION"
    BY DEF SystemCeilings
  <2>1. /\ settings \in SystemSettings /\ constitution \in Constitution
        /\ intent \in Intent /\ routes[k] \in Route
    BY Universe DEF IInv
  <2>2. /\ Eligible(settings, constitution, portfolio, intent, routes[k])
        /\ Asks(settings, constitution, intent, routes[k]) =>
             routes[k].status = "REQUIRES_CONFIRMATION"
    BY SurvivorsAdmitted
  <2>3. settings.confirms => routes[k].status = "REQUIRES_CONFIRMATION"
    BY <2>2 DEF Asks
  <2>4. QED BY <2>1, <2>2, <2>3, CeilingsBind
<1>2. QED BY <1>1, Invariance, PTL

(***************************************************************************)
(* engine.py: approving a stricter constitution never opens a route, and   *)
(* never drops a confirmation, that the laxer one would have refused or    *)
(* asked for.                                                              *)
(***************************************************************************)
THEOREM TighteningHolds == Spec => []TighteningIsSafe
<1>1. IInv => TighteningIsSafe
  <2> SUFFICES ASSUME IInv, NEW d \in Constitutions, Tightens(settings, constitution, d),
                      NEW k \in DOMAIN routes, Judged(k)
               PROVE  /\ Eligible(settings, d, portfolio, intent, routes[k])
                      /\ Asks(settings, d, intent, routes[k]) =>
                           routes[k].status = "REQUIRES_CONFIRMATION"
    BY DEF TighteningIsSafe
  <2>1. /\ settings \in SystemSettings /\ constitution \in Constitution
        /\ portfolio \in Portfolio /\ intent \in Intent /\ routes[k] \in Route
        /\ d \in Constitution
    BY Universe, UniverseAssumption DEF IInv
  <2>2. /\ Eligible(settings, constitution, portfolio, intent, routes[k])
        /\ Asks(settings, constitution, intent, routes[k]) =>
             routes[k].status = "REQUIRES_CONFIRMATION"
    BY SurvivorsAdmitted
  <2>3. Eligible(settings, d, portfolio, intent, routes[k])
    BY <2>1, <2>2, StricterAdmitsLess
  <2>4. Asks(settings, d, intent, routes[k]) =>
          Asks(settings, constitution, intent, routes[k])
    BY <2>1, <2>3, <2>2, StricterAsksMore
  <2>5. QED BY <2>2, <2>3, <2>4
<1>2. QED BY <1>1, Invariance, PTL


-----------------------------------------------------------------------------
(* The choice: a best survivor exists, since scores are bounded and the     *)
(* routes are in order.                                                    *)

\* A set of naturals that is not empty has a least element.
LEMMA LeastNatural ==
  ASSUME NEW T, T \subseteq Nat, T # {}
  PROVE  \E n \in T : \A m \in T : n <= m
<1> DEFINE R == {ss \in Nat \X Nat : ss[1] < ss[2]}
<1>1. IsWellFoundedOn(R, Nat)
  BY NatLessThanWellFounded DEF OpToRel
<1>2. \A m, n \in Nat : m < n => <<m, n>> \in R
  OBVIOUS
<1> HIDE DEF R
<1>3. PICK n \in T : \A m \in T : ~ (<<m, n>> \in R)
  BY <1>1, WFMin
<1>4. \A m \in T : ~ (m < n)
  BY <1>2, <1>3
<1>5. QED BY <1>3, <1>4

\* The part of a number above zero has the number's bound, and keeps the order; only
\* zero makes equal what was not.
LEMMA AboveBounded ==
  ASSUME NEW top \in Nat, NEW u \in Int, u <= top
  PROVE  Above(u) \in 0..top
<1>1. CASE u > 0
  BY <1>1 DEF Above
<1>2. CASE ~(u > 0)
  BY <1>2 DEF Above
<1>3. QED BY <1>1, <1>2

LEMMA AboveOrder ==
  ASSUME NEW u \in Int, NEW v \in Int, u >= v
  PROVE  Above(u) >= Above(v)
<1>1. CASE u > 0 /\ v > 0
  BY <1>1 DEF Above
<1>2. CASE u > 0 /\ ~(v > 0)
  BY <1>2 DEF Above
<1>3. CASE ~(u > 0)
  <2>1. ~(v > 0)
    BY <1>3
  <2>2. QED BY <1>3, <2>1 DEF Above
<1>4. QED BY <1>1, <1>2, <1>3

LEMMA AboveSame ==
  ASSUME NEW u \in Int, NEW v \in Int, Above(u) = Above(v), Above(v) # 0
  PROVE  u = v
<1>1. CASE u > 0 /\ v > 0
  BY <1>1 DEF Above
<1>2. CASE ~(v > 0)
  BY <1>2 DEF Above
<1>3. CASE ~(u > 0)
  BY <1>3 DEF Above
<1>4. QED BY <1>1, <1>2, <1>3

\* What every candidate starts with, and what is taken off it.
Full == 96000
Penalty(x) == [premium  |-> Above(Known(x.premium)),
               slippage |-> Above(Known(x.slippage)),
               age      |-> Known(x.age)]
Net(x) == Full - 120 * Penalty(x).premium - 120 * Penalty(x).slippage - Penalty(x).age

LEMMA PenaltyType ==
  ASSUME NEW x \in Route
  PROVE  /\ Penalty(x).premium \in Nat /\ Penalty(x).slippage \in Nat
         /\ Penalty(x).age \in Nat
<1>1. /\ \A v \in Int \cup {None} : Above(Known(v)) \in Nat
      /\ \A v \in Cap : Known(v) \in Nat /\ Above(Known(v)) \in Nat
  BY DEF Above, Known, Cap
<1>2. x.premium \in Int \cup {None} /\ x.slippage \in Cap /\ x.age \in Cap
  BY DEF Route
<1>3. QED BY <1>1, <1>2 DEF Penalty

LEMMA ScoreOfNet ==
  ASSUME NEW x \in Route
  PROVE  Score(x) = Above(Net(x))
BY DEF Score, Net, Penalty, Full

LEMMA NetBounded ==
  ASSUME NEW px \in Nat, NEW sx \in Nat, NEW ax \in Nat
  PROVE  Full - 120 * px - 120 * sx - ax \in Int /\ Full - 120 * px - 120 * sx - ax <= Full
BY DEF Full

LEMMA NetOrder ==
  ASSUME NEW full \in Int,
         NEW px \in Nat, NEW sx \in Nat, NEW ax \in Nat,
         NEW py \in Nat, NEW sy \in Nat, NEW ay \in Nat,
         px <= py, sx <= sy, ax <= ay
  PROVE  /\ full - 120 * px - 120 * sx - ax >= full - 120 * py - 120 * sy - ay
         /\ full - 120 * px - 120 * sx - ax = full - 120 * py - 120 * sy - ay =>
              py <= px /\ sy <= sx /\ ay <= ax
BY SMT

\* A score is a natural number of at most 96000.
LEMMA ScoreBounded ==
  ASSUME NEW x \in Route
  PROVE  Full \in Nat /\ Net(x) \in Int /\ Score(x) \in 0..Full
<1>1. Full \in Nat
  BY DEF Full
<1>2. Net(x) \in Int /\ Net(x) <= Full
  BY PenaltyType, NetBounded DEF Net
<1>3. Above(Net(x)) \in 0..Full
  BY <1>1, <1>2, AboveBounded
<1>4. QED BY <1>1, <1>2, <1>3, ScoreOfNet

\* What is at least as good scores as much.
LEMMA ScoreOrder ==
  ASSUME NEW x \in Route, NEW y \in Route, AtLeastAsGood(x, y)
  PROVE  /\ Score(x) >= Score(y)
         /\ Net(x) = Net(y) => AtLeastAsGood(y, x)
<1>1. /\ Penalty(x).premium \in Nat /\ Penalty(x).slippage \in Nat /\ Penalty(x).age \in Nat
      /\ Penalty(y).premium \in Nat /\ Penalty(y).slippage \in Nat /\ Penalty(y).age \in Nat
  BY PenaltyType
<1>2. /\ Penalty(x).premium <= Penalty(y).premium
      /\ Penalty(x).slippage <= Penalty(y).slippage
      /\ Penalty(x).age <= Penalty(y).age
  BY DEF AtLeastAsGood, Penalty
<1>3. /\ Net(x) >= Net(y)
      /\ Net(x) = Net(y) => /\ Penalty(y).premium <= Penalty(x).premium
                            /\ Penalty(y).slippage <= Penalty(x).slippage
                            /\ Penalty(y).age <= Penalty(x).age
  BY <1>1, <1>2, NetOrder, ScoreBounded DEF Net
<1>4. Above(Net(x)) >= Above(Net(y))
  BY <1>3, ScoreBounded, AboveOrder
<1>5. Net(x) = Net(y) => AtLeastAsGood(y, x)
  BY <1>3 DEF AtLeastAsGood, Penalty
<1>6. QED BY <1>4, <1>5, ScoreOfNet

\* It scores the same only if it is the same in every respect or worth nothing.
LEMMA ScoreSame ==
  ASSUME NEW x \in Route, NEW y \in Route, AtLeastAsGood(x, y),
         Score(x) = Score(y), Score(y) # 0
  PROVE  AtLeastAsGood(y, x)
<1>1. Above(Net(x)) = Above(Net(y)) /\ Above(Net(y)) # 0
  BY ScoreOfNet
<1>2. Net(x) = Net(y)
  BY <1>1, ScoreBounded, AboveSame
<1>3. QED BY <1>2, ScoreOrder

\* The route that is chosen is the first of the survivors with the highest score.
LEMMA BestIsBest ==
  ASSUME NEW rs \in Seq(Route), Survivors(rs) # {}
  PROVE  /\ Best(rs) \in Survivors(rs) /\ Best(rs) \in 1..Len(rs)
         /\ \A j \in Survivors(rs) :
              \/ Score(rs[Best(rs)]) > Score(rs[j])
              \/ Score(rs[Best(rs)]) = Score(rs[j]) /\ Best(rs) <= j
<1> DEFINE S == Survivors(rs)
           lost(k) == Full - Score(rs[k])
           P(k) == \A j \in S : \/ Score(rs[k]) > Score(rs[j])
                                \/ Score(rs[k]) = Score(rs[j]) /\ k <= j
<1>1. S \subseteq 1..Len(rs) /\ Len(rs) \in Nat /\ \A k \in S : k \in Nat /\ rs[k] \in Route
  BY DEF Survivors
<1>2. Full \in Nat /\ \A k \in S : Score(rs[k]) \in 0..Full /\ lost(k) \in Nat
  BY <1>1, ScoreBounded
<1>3. PICK n \in {lost(k) : k \in S} : \A m \in {lost(k) : k \in S} : n <= m
  <2>1. {lost(k) : k \in S} \subseteq Nat /\ {lost(k) : k \in S} # {}
    BY <1>2
  <2>2. QED BY <2>1, LeastNatural
<1>4. PICK best \in {k \in S : lost(k) = n} : \A m \in {k \in S : lost(k) = n} : best <= m
  <2>1. {k \in S : lost(k) = n} \subseteq Nat /\ {k \in S : lost(k) = n} # {}
    BY <1>1, <1>3
  <2>2. QED BY <2>1, LeastNatural
<1>5. best \in S /\ P(best)
  <2> SUFFICES ASSUME NEW j \in S
               PROVE  \/ Score(rs[best]) > Score(rs[j])
                      \/ Score(rs[best]) = Score(rs[j]) /\ best <= j
    BY <1>4
  <2>1. Full \in Nat /\ lost(best) <= lost(j) /\ Score(rs[best]) \in 0..Full /\ Score(rs[j]) \in 0..Full
    BY <1>2, <1>3, <1>4
  <2>2. lost(j) = lost(best) => best <= j
    BY <1>4
  <2>3. QED BY <2>1, <2>2, SMT
<1>6. Best(rs) = CHOOSE k \in S : P(k)
  BY DEF Best
<1> HIDE DEF P, S
<1>7. Best(rs) \in S /\ P(Best(rs))
  BY <1>5, <1>6
<1>8. QED BY <1>1, <1>7 DEF P, S

\* Nothing is chosen before the evaluation, and then the best.
Chosen == chosen = IF stage = "done" THEN Best(routes) ELSE 0

LEMMA ChosenBest == Spec => []Chosen
<1>1. Init => Chosen
  BY DEF Init, Chosen
<1>2. Chosen /\ [Next]_vars => Chosen'
  <2> SUFFICES ASSUME Chosen, [Next]_vars PROVE Chosen'
    OBVIOUS
  <2>1. CASE \E reps \in Discoveries : \E ages \in [DOMAIN reps -> Ages] : Builds(reps, ages)
    BY <2>1 DEF Builds, Chosen
  <2>2. CASE QuotesNothing \/ WalletAway
    BY <2>2 DEF QuotesNothing, WalletAway, Chosen
  <2>3. CASE \E answered \in SUBSET (DOMAIN routes) :
               \E slip \in [answered -> Slips \cup {None}] : Quotes(slip)
    BY <2>3 DEF Quotes, Chosen
  <2>4. CASE Evaluates
    BY <2>4 DEF Evaluates, Chosen
  <2>5. CASE UNCHANGED vars
    BY <2>5 DEF vars, Chosen
  <2>6. QED BY <2>1, <2>2, <2>3, <2>4, <2>5 DEF Next
<1>3. QED BY <1>1, <1>2, PTL DEF Spec

(***************************************************************************)
(* tournament.py: the candidates, what is given and the choice keep their  *)
(* types; the choice is one of the candidates or none.                     *)
(***************************************************************************)
THEOREM TypeCorrect == Spec => []TypeOK
<1>1. IInv /\ Chosen => TypeOK
  <2> SUFFICES ASSUME IInv, Chosen PROVE TypeOK
    OBVIOUS
  <2>1. RoutesOK /\ routes \in Seq(Route) /\ Len(routes) \in Nat
    BY DEF IInv, RoutesOK
  <2>2. CASE Survivors(routes) = {}
    <3>1. chosen = 0
      BY <2>2 DEF Chosen, Best
    <3>2. QED BY <2>1, <3>1 DEF TypeOK
  <2>3. CASE Survivors(routes) # {}
    <3>1. chosen = 0 \/ chosen \in 1..Len(routes)
      BY <2>1, <2>3, BestIsBest DEF Chosen
    <3>2. QED BY <2>1, <3>1 DEF TypeOK
  <2>4. QED BY <2>2, <2>3
<1>2. QED BY <1>1, Invariance, ChosenBest, PTL

(***************************************************************************)
(* tournament.py: a route is chosen if one survives, and no survivor is    *)
(* better than it in one respect and no worse in the others, unless the    *)
(* score has reached its floor; for any number of candidates.              *)
(***************************************************************************)
THEOREM ChoiceHolds == Spec => []ChoiceIsSound
<1>1. IInv /\ Chosen => ChoiceIsSound
  <2> SUFFICES ASSUME IInv, Chosen, stage = "done"
               PROVE  /\ chosen = 0 <=> Survivors(routes) = {}
                      /\ chosen # 0 =>
                           /\ chosen \in Survivors(routes)
                           /\ \A k \in Survivors(routes) :
                                AtLeastAsGood(routes[k], routes[chosen]) =>
                                  \/ k >= chosen /\ AtLeastAsGood(routes[chosen], routes[k])
                                  \/ Score(routes[chosen]) = 0
    BY DEF ChoiceIsSound
  <2>1. routes \in Seq(Route) /\ Len(routes) \in Nat /\ chosen = Best(routes)
    BY DEF IInv, RoutesOK, Chosen
  <2>2. CASE Survivors(routes) = {}
    BY <2>1, <2>2 DEF Best
  <2>3. CASE Survivors(routes) # {}
    <3>1. /\ chosen \in Survivors(routes) /\ chosen \in 1..Len(routes)
          /\ \A j \in Survivors(routes) :
               \/ Score(routes[chosen]) > Score(routes[j])
               \/ Score(routes[chosen]) = Score(routes[j]) /\ chosen <= j
      BY <2>1, <2>3, BestIsBest
    <3>2. ASSUME NEW k \in Survivors(routes), AtLeastAsGood(routes[k], routes[chosen])
          PROVE  \/ k >= chosen /\ AtLeastAsGood(routes[chosen], routes[k])
                 \/ Score(routes[chosen]) = 0
      <4>1. k \in 1..Len(routes) /\ routes[k] \in Route /\ routes[chosen] \in Route
        BY <2>1, <3>1 DEF Survivors
      <4>2. /\ Full \in Nat /\ Score(routes[k]) \in 0..Full /\ Score(routes[chosen]) \in 0..Full
            /\ Score(routes[k]) >= Score(routes[chosen])
        BY <3>2, <4>1, ScoreBounded, ScoreOrder
      <4>3. Score(routes[k]) = Score(routes[chosen]) /\ chosen <= k
        BY <3>1, <4>2
      <4>4. Score(routes[chosen]) # 0 => AtLeastAsGood(routes[chosen], routes[k])
        BY <3>2, <4>1, <4>3, ScoreSame
      <4>5. QED BY <2>1, <3>1, <4>1, <4>3, <4>4
    <3>3. chosen # 0
      BY <2>1, <3>1
    <3>4. QED BY <2>3, <3>1, <3>2, <3>3
  <2>4. QED BY <2>2, <2>3
<1>2. QED BY <1>1, Invariance, ChosenBest, PTL

-----------------------------------------------------------------------------
(* What a limit on premiums is worth *)

\* A step that keeps what a candidate is made of keeps its premium.
LEMMA PremiumKept ==
  ASSUME PremiumIsGap, DOMAIN routes' = DOMAIN routes,
         \A k \in DOMAIN routes : routes'[k].rep = routes[k].rep /\ routes'[k].premium = routes[k].premium
  PROVE  PremiumIsGap'
BY DEF PremiumIsGap

LEMMA PremiumSteps ==
  ASSUME IInv, PremiumIsGap, [Next]_vars
  PROVE  PremiumIsGap'
<1>1. ASSUME NEW reps \in Discoveries, NEW ages \in [DOMAIN reps -> Ages], Builds(reps, ages)
      PROVE  PremiumIsGap'
  <2> SUFFICES ASSUME NEW k \in DOMAIN reps, Comparable(reps[k])
               PROVE  Candidate(reps[k], ages[k]).premium = reps[k].gap
    BY <1>1 DEF PremiumIsGap, Builds, Candidate
  <2> QED
    BY DEF Candidate
<1>2. ASSUME NEW k \in DOMAIN routes, NEW to,
             \/ to = NoQuote(routes[k])
             \/ to = [routes[k] EXCEPT !.status = Verdict(routes[k])]
             \/ \E q, sl : to = [routes[k] EXCEPT !.quoted = q, !.slippage = sl]
      PROVE  to.rep = routes[k].rep /\ to.premium = routes[k].premium
  BY <1>2, Universe DEF IInv, Route, NoQuote
<1>3. CASE QuotesNothing \/ WalletAway
  BY <1>2, <1>3, PremiumKept DEF QuotesNothing, WalletAway
<1>4. ASSUME NEW answered \in SUBSET (DOMAIN routes),
             NEW slip \in [answered -> Slips \cup {None}], Quotes(slip)
      PROVE  PremiumIsGap'
  <2>1. DOMAIN routes' = DOMAIN routes
    BY <1>4 DEF Quotes
  <2>2. ASSUME NEW k \in DOMAIN routes
        PROVE  routes'[k].rep = routes[k].rep /\ routes'[k].premium = routes[k].premium
    <3>1. CASE k \in DOMAIN slip
      <4>1. routes'[k] = [routes[k] EXCEPT !.quoted = TRUE, !.slippage = slip[k]]
        BY <1>4, <3>1 DEF Quotes
      <4> QED
        BY <1>2, <4>1
    <3>2. CASE k \notin DOMAIN slip
      <4>1. routes'[k] = NoQuote(routes[k])
        BY <1>4, <3>2 DEF Quotes
      <4> QED
        BY <1>2, <4>1
    <3> QED
      BY <3>1, <3>2
  <2> QED
    BY <2>1, <2>2, PremiumKept
<1>5. CASE Evaluates
  BY <1>2, <1>5, PremiumKept DEF Evaluates
<1>6. CASE UNCHANGED vars
  BY <1>6 DEF vars, PremiumIsGap
<1> QED
  BY <1>1, <1>3, <1>4, <1>5, <1>6 DEF Next

(***************************************************************************)
(* engine.py:169-186: a survivor that is priced against a reference above  *)
(* zero respects every cap on premiums that is set, and a constitution     *)
(* that requires a reference lets through no token without one and none    *)
(* measured by its own candle. What escapes the caps under it is a token   *)
(* without a price, or with a reference stated as zero or below.           *)
(***************************************************************************)
THEOREM PremiumHolds == Spec => []PremiumBoundWhereKnown
<1>1. Init => PremiumIsGap
  BY DEF Init, PremiumIsGap
<1>2. IInv /\ PremiumIsGap /\ [Next]_vars => PremiumIsGap'
  BY PremiumSteps
<1>3. IInv /\ PremiumIsGap => PremiumBoundWhereKnown
  <2> SUFFICES ASSUME IInv, PremiumIsGap, NEW k \in DOMAIN routes, Judged(k)
               PROVE  LET rep == routes[k].rep IN
                      /\ rep.priced /\ rep.reference # "none" /\ rep.positive =>
                           Within(rep.gap, PremiumCaps(settings, constitution, intent, rep))
                      /\ constitution.requireRef => rep.reference \in {"stock", "peer"}
    BY DEF PremiumBoundWhereKnown
  <2>1. routes[k] \in Route /\ routes[k].rep \in Representation
    BY Universe DEF IInv, Route
  <2>2. Eligible(settings, constitution, portfolio, intent, routes[k])
    BY SurvivorsAdmitted
  <2>3. /\ routes[k].premium # None =>
             Within(routes[k].premium, PremiumCaps(settings, constitution, intent, routes[k].rep))
        /\ ~(constitution.requireRef /\ routes[k].rep.reference = "none")
        /\ ~(constitution.requireRef /\ routes[k].rep.reference = "candle")
    BY <2>2, EligibleRules
  <2>4. routes[k].rep.gap # None /\ routes[k].rep.reference \in Reference
    BY <2>1, NoneAssumption DEF Representation
  <2>5. routes[k].rep.priced /\ routes[k].rep.reference # "none" /\ routes[k].rep.positive =>
          routes[k].premium = routes[k].rep.gap
    BY DEF PremiumIsGap, Comparable
  <2> QED
    BY <2>3, <2>4, <2>5 DEF Reference
<1> QED
  BY <1>1, <1>2, <1>3, Invariance, PTL DEF Spec

-----------------------------------------------------------------------------
(* Smaller orders *)

\* q leaves at least as much room as p: nothing of it is nearer to a limit.
Roomier(q, p) ==
  /\ q.balance >= p.balance /\ q.total >= p.total
  /\ q.underlying <= p.underlying /\ q.spent <= p.spent
  /\ \A f \in Platforms : q.platform[f] <= p.platform[f]

\* A smaller exposure of a larger portfolio exceeds no more.
LEMMA SmallerShare ==
  ASSUME NEW pct \in Cap, NEW e \in Int, NEW f \in Int, NEW t \in Int, NEW u \in Int,
         e <= f, t <= u, pct # None => t > 0, Exceeds(e, pct, u)
  PROVE  Exceeds(f, pct, t)
<1>1. pct # None /\ u > 0 /\ e * 100 > pct * u /\ pct \in Nat /\ t > 0
  BY DEF Exceeds, Cap
<1>2. pct * t <= pct * u
  BY <1>1, SMT
<1>3. e * 100 <= f * 100 /\ pct * t \in Int /\ pct * u \in Int
  BY <1>1, SMT
<1>4. f * 100 > pct * t
  BY <1>1, <1>2, <1>3, SMT
<1> QED
  BY <1>1, <1>4 DEF Exceeds

(***************************************************************************)
(* engine.py: no limit turns round. A route admitted for an amount is      *)
(* admitted for every smaller amount above zero, in every portfolio that   *)
(* leaves as much room, and needs no confirmation it did not need then.    *)
(***************************************************************************)
THEOREM SmallerIsAdmitted ==
  ASSUME NEW s \in SystemSettings, NEW c \in Constitution,
         NEW p \in Portfolio, NEW q \in Portfolio, Roomier(q, p),
         NEW i \in Intent, NEW j \in Intent, NEW n \in Int, n > 0, n <= Spend(i),
         j = [i EXCEPT !.notional = n], NEW x \in Route, Eligible(s, c, p, i, x)
  PROVE  Eligible(s, c, q, j, x) /\ (Asks(s, c, j, x) => Asks(s, c, i, x))
<1>1. /\ j.notional = n /\ j.asset = i.asset
      /\ j.maxPremium = i.maxPremium /\ j.maxSlippage = i.maxSlippage
  BY DEF Intent
<1>2. n # None
  BY NoneAssumption
<1> PICK m \in Int : m = Spend(i)
  BY DEF Intent, Spend
<1>3. Spend(j) = n /\ n <= m
  BY <1>1, <1>2 DEF Spend
<1>4. /\ p.balance \in Int /\ p.total \in Int /\ p.underlying \in Int /\ p.spent \in Int
      /\ q.balance \in Int /\ q.total \in Int /\ q.underlying \in Int /\ q.spent \in Int
      /\ \A f \in Platforms : p.platform[f] \in Int /\ q.platform[f] \in Int
  BY DEF Portfolio
<1>5. /\ c.reserve \in Cap /\ c.underlyingPct \in Cap /\ c.platformPct \in Cap /\ c.daily \in Cap
      /\ c.maxNotional \in Cap /\ c.confirmAbove \in Cap /\ s.maxNotional \in Nat
      /\ x.rep.platform \in Platforms
  BY DEF Constitution, SystemSettings, Route, Representation
<1>6. /\ ~(m > s.maxNotional)
      /\ ~(c.reserve # None /\ p.balance - m < c.reserve)
      /\ ~((c.underlyingPct # None \/ c.platformPct # None) /\ p.total <= 0)
      /\ ~Exceeds(p.underlying + m, c.underlyingPct, p.total)
      /\ ~Exceeds(p.platform[x.rep.platform] + m, c.platformPct, p.total)
      /\ Within(p.spent + m, {c.daily}) /\ Within(m, {c.maxNotional})
  BY EligibleRules
<1>7. ~(n <= 0) /\ ~(n > s.maxNotional)
  BY <1>3, <1>5, <1>6
<1>8. ~(c.reserve # None /\ q.balance - n < c.reserve)
  BY <1>3, <1>4, <1>5, <1>6 DEF Roomier, Cap
<1>9. ~((c.underlyingPct # None \/ c.platformPct # None) /\ q.total <= 0)
  BY <1>4, <1>6 DEF Roomier
<1>10. ~Exceeds(q.underlying + n, c.underlyingPct, q.total)
  <2>1. /\ q.underlying + n \in Int /\ p.underlying + m \in Int
        /\ q.underlying + n <= p.underlying + m /\ p.total <= q.total
    BY <1>3, <1>4 DEF Roomier
  <2>2. c.underlyingPct # None => p.total > 0
    BY <1>4, <1>6
  <2> QED
    BY <1>4, <1>5, <1>6, <2>1, <2>2, SmallerShare
<1>11. ~Exceeds(q.platform[x.rep.platform] + n, c.platformPct, q.total)
  <2> PICK e \in Int : e = q.platform[x.rep.platform]
    BY <1>4, <1>5
  <2> PICK f \in Int : f = p.platform[x.rep.platform]
    BY <1>4, <1>5
  <2>1. e <= f /\ p.total <= q.total
    BY <1>5 DEF Roomier
  <2>2. e + n \in Int /\ f + m \in Int /\ e + n <= f + m
    BY <1>3, <2>1
  <2>3. c.platformPct # None => p.total > 0
    BY <1>4, <1>6
  <2>4. ~Exceeds(f + m, c.platformPct, p.total)
    BY <1>6
  <2>5. ~Exceeds(e + n, c.platformPct, q.total)
    BY <1>4, <1>5, <2>1, <2>2, <2>3, <2>4, SmallerShare
  <2> QED
    BY <2>5
<1>12. \A cap \in Cap : Within(m, {cap}) => Within(n, {cap})
  BY <1>3 DEF Within, Cap
<1>13. Within(q.spent + n, {c.daily})
  BY <1>3, <1>4, <1>5, <1>6 DEF Within, Cap, Roomier
<1>14. Eligible(s, c, q, j, x)
  <2>1. PremiumCaps(s, c, j, x.rep) = PremiumCaps(s, c, i, x.rep)
    BY <1>1 DEF PremiumCaps
  <2>2. Within(n, {c.maxNotional})
    BY <1>5, <1>6, <1>12
  <2>3. /\ x.rep.chain \in s.chains /\ x.rep.platform \in s.platforms /\ i.asset \in s.assets
        /\ ~(x.premium # None /\ ~Within(x.premium, PremiumCaps(s, c, i, x.rep)))
        /\ ~(x.slippage # None /\
               ~Within(x.slippage, {s.maxSlippage, i.maxSlippage, c.maxSlippage}))
        /\ x.rep.platform \in c.platforms
        /\ ~(c.contracts # {} /\ x.rep.token \notin c.contracts)
        /\ ~(c.attestation /\ ~x.rep.attested) /\ ~(c.audit /\ ~x.rep.audited)
        /\ ~(c.blockHalted /\ x.rep.market = "HALTED")
        /\ ~(~c.whenClosed /\ x.rep.market = "CLOSED")
        /\ ~(~c.extended /\ x.rep.market = "EXTENDED")
        /\ ~(c.requireRef /\ x.rep.reference = "none")
        /\ ~(c.requireRef /\ x.rep.reference = "candle")
        /\ ~(c.requireRef /\ x.age = None) /\ ~(x.age # None /\ x.age > MaxAge(s, c))
        /\ ~((c.requireSim \/ s.requireSim) /\ x.sim \in {"FAIL", "SKIP"})
    BY EligibleRules
  <2> QED
    BY <1>1, <1>3, <1>7, <1>8, <1>9, <1>10, <1>11, <1>13, <2>1, <2>2, <2>3, EligibleRules, ZenonT(60)
<1>15. Asks(s, c, j, x) => Asks(s, c, i, x)
  BY <1>3, <1>5, <1>12 DEF Asks
<1> QED
  BY <1>14, <1>15
=============================================================================
