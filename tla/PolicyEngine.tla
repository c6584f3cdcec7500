---------------------------- MODULE PolicyEngine ----------------------------
(***************************************************************************)
(* DeterministicPolicyEngine.evaluate (policy/engine.py) over the          *)
(* constitution of policy/schema.py: which rules a candidate route breaks, *)
(* and which of them want a confirmation. A pure function of               *)
(*   s  the Settings (config.py), the system's own ceilings,               *)
(*   c  a constitution, p  the portfolio the caller reports,               *)
(*   i  an intent, x  a candidate route.                                   *)
(* Amounts, basis points and seconds are integers; a rule or an            *)
(* observation that is absent is None.                                     *)
(***************************************************************************)
EXTENDS Integers

CONSTANT None

ASSUME NoneAssumption == None \notin Int

CONSTANTS
  Platforms,  \* issuers
  Tokens,     \* token addresses
  Chains,     \* chain ids
  Assets      \* quote assets

Cap == Nat \cup {None}

Market    == {"REGULAR", "EXTENDED", "CLOSED", "HALTED", "UNKNOWN"}
Reference == {"none", "stock", "peer", "candle"}

Constitution ==
  [reserve : Cap, underlyingPct : Cap, platformPct : Cap, daily : Cap,
   maxNotional : Cap, maxPremium : Cap, maxSlippage : Cap, requireSim : BOOLEAN,
   platforms : SUBSET Platforms, contracts : SUBSET Tokens,
   attestation : BOOLEAN, audit : BOOLEAN,
   closedPremium : Cap, extended : BOOLEAN, whenClosed : BOOLEAN,
   confirmClosed : BOOLEAN, blockHalted : BOOLEAN,
   maxAge : Cap, requireRef : BOOLEAN, confirmAbove : Cap, always : BOOLEAN]

SystemSettings ==
  [demo : BOOLEAN, maxNotional : Nat, chains : SUBSET Chains, platforms : SUBSET Platforms,
   assets : SUBSET Assets, maxPremium : Nat, maxSlippage : Nat, maxAge : Nat,
   requireSim : BOOLEAN, confirms : BOOLEAN]

Portfolio ==
  [balance : Int, total : Int, underlying : Int, platform : [Platforms -> Int], spent : Int]

Intent ==
  [side : {"BUY", "SELL"}, notional : Int \cup {None}, asset : Assets,
   maxPremium : Cap, maxSlippage : Cap]

Representation ==
  [token : Tokens, platform : Platforms, chain : Chains, market : Market,
   reference : Reference, attested : BOOLEAN, audited : BOOLEAN,
   priced : BOOLEAN,    \* the provider states the token's price
   positive : BOOLEAN,  \* the reference, where one is stated, is above zero
   gap : Int]           \* what the token costs over the share, in bps of the reference

-----------------------------------------------------------------------------
\* x is within the smallest of the caps that are set.
Within(x, caps) == \A cap \in caps \ {None} : x <= cap

Spend(i) == IF i.notional = None THEN 0 ELSE i.notional

\* A maximum age of zero is falsy: it counts as none.
MaxAge(s, c) == IF c.maxAge \in {None, 0} THEN s.maxAge ELSE c.maxAge

\* Slip: the cap for a closed market replaces the constitution's own.
SlipClosedReplaces(s, c, i, rep) ==
  {s.maxPremium, i.maxPremium} \cup
  (IF rep.market \in {"CLOSED", "EXTENDED"} /\ c.closedPremium # None
   THEN {c.closedPremium} ELSE {c.maxPremium})

\* Slip: the system's ceiling holds only where the constitution sets none.
SlipCeilingIsDefault(s, c, i, rep) ==
  {i.maxPremium} \cup
  (IF c.maxPremium = None THEN {s.maxPremium} ELSE {c.maxPremium})

PremiumCaps(s, c, i, rep) ==
  {s.maxPremium, i.maxPremium, c.maxPremium} \cup
  (IF rep.market \in {"CLOSED", "EXTENDED"} THEN {c.closedPremium} ELSE {})

\* The exposure is more than pct percent of the portfolio; without a value it is unknown.
Exceeds(exposure, pct, total) ==
  pct # None /\ total > 0 /\ exposure * 100 > pct * total

(***************************************************************************)
(* The rules, in the order of the engine. A premium, a slippage or an age  *)
(* that is not known is not judged against its cap.                        *)
(***************************************************************************)
Broken(s, c, p, i, x) ==
  LET n == Spend(i)  rep == x.rep IN
  [positive_notional   |-> n <= 0,
   system_max_notional |-> n > s.maxNotional,
   system_chain_id     |-> rep.chain \notin s.chains,
   system_platform     |-> rep.platform \notin s.platforms,
   system_quote_asset  |-> i.asset \notin s.assets,
   min_quote_reserve   |-> c.reserve # None /\ p.balance - n < c.reserve,
   portfolio_required  |-> (c.underlyingPct # None \/ c.platformPct # None) /\ p.total <= 0,
   single_underlying   |-> Exceeds(p.underlying + n, c.underlyingPct, p.total),
   single_platform     |-> Exceeds(p.platform[rep.platform] + n, c.platformPct, p.total),
   max_daily           |-> ~Within(p.spent + n, {c.daily}),
   max_notional        |-> ~Within(n, {c.maxNotional}),
   max_premium         |-> x.premium # None /\ ~Within(x.premium, PremiumCaps(s, c, i, rep)),
   max_slippage        |-> x.slippage # None /\
                             ~Within(x.slippage, {s.maxSlippage, i.maxSlippage, c.maxSlippage}),
   allowed_platforms   |-> rep.platform \notin c.platforms,
   allowed_contracts   |-> c.contracts # {} /\ rep.token \notin c.contracts,
   require_attestation |-> c.attestation /\ ~rep.attested,
   require_audit       |-> c.audit /\ ~rep.audited,
   block_when_halted   |-> c.blockHalted /\ rep.market = "HALTED",
   allow_when_closed   |-> ~c.whenClosed /\ rep.market = "CLOSED",
   allow_extended      |-> ~c.extended /\ rep.market = "EXTENDED",
   reference_price     |-> c.requireRef /\ rep.reference = "none",
   independent_source  |-> c.requireRef /\ rep.reference = "candle",
   timestamp_required  |-> c.requireRef /\ x.age = None,
   max_age             |-> x.age # None /\ x.age > MaxAge(s, c),
   simulation_failed   |-> (c.requireSim \/ s.requireSim) /\ x.sim \in {"FAIL", "SKIP"}]

Eligible(s, c, p, i, x) ==
  LET broken == Broken(s, c, p, i, x) IN \A rule \in DOMAIN broken : ~broken[rule]

\* requires_confirmation: some rule wants a person to say yes.
Asks(s, c, i, x) ==
  \/ x.rep.market = "CLOSED" /\ c.whenClosed /\ c.confirmClosed
  \/ (c.requireSim \/ s.requireSim) /\ x.sim = "none"
  \/ c.always
  \/ ~Within(Spend(i), {c.confirmAbove})
  \/ s.confirms

-----------------------------------------------------------------------------
\* u is a cap at least as strict as v.
Stricter(u, v) == v = None \/ (u # None /\ u <= v)

(***************************************************************************)
(* c is at least as strict as d: every limit is as tight, everything d     *)
(* demands or forbids c demands or forbids. (Of the maximum age it is the  *)
(* one that applies that counts, see MaxAge.)                              *)
(***************************************************************************)
Tightens(s, c, d) ==
  /\ d.reserve = None \/ (c.reserve # None /\ c.reserve >= d.reserve)
  /\ Stricter(c.underlyingPct, d.underlyingPct)
  /\ Stricter(c.platformPct, d.platformPct)
  /\ Stricter(c.daily, d.daily)
  /\ Stricter(c.maxNotional, d.maxNotional)
  /\ Stricter(c.maxPremium, d.maxPremium)
  /\ Stricter(c.closedPremium, d.closedPremium)
  /\ Stricter(c.maxSlippage, d.maxSlippage)
  /\ Stricter(c.confirmAbove, d.confirmAbove)
  /\ MaxAge(s, c) <= MaxAge(s, d)
  /\ c.platforms \subseteq d.platforms
  /\ d.contracts = {} \/ (c.contracts # {} /\ c.contracts \subseteq d.contracts)
  /\ d.requireSim => c.requireSim
  /\ d.attestation => c.attestation
  /\ d.audit => c.audit
  /\ d.blockHalted => c.blockHalted
  /\ d.confirmClosed => c.confirmClosed
  /\ d.requireRef => c.requireRef
  /\ d.always => c.always
  /\ c.whenClosed => d.whenClosed
  /\ c.extended => d.extended
=============================================================================
