------------------------- MODULE ExposureDecision -------------------------
(***************************************************************************)
(* The exposure decision (services/decisions.py): a captured snapshot of   *)
(* the market, an intent and a policy give a ranked shortlist, and the     *)
(* three travel with the decision in a receipt that can be replayed and    *)
(* compared under another policy.                                          *)
(*                                                                         *)
(* Prices, caps and amounts are the integers of one unit, a parity limit   *)
(* is compared without dividing, and a token's address is a number because *)
(* addresses are ordered. The hash covers the whole body: SHA-256 over the *)
(* canonical JSON is taken to be injective, so that it is the body.        *)
(***************************************************************************)
EXTENDS Integers, Sequences

None    == -1
BPS     == 10000
Issuers == {"ondo", "xstocks", "bstock"}
Assets  == {"USDC", "USDT", "USD1", "U"}

Policy ==
  [premium : Nat, parity : Nat, slippage : Nat, liquidity : Nat,
   platforms : SUBSET Issuers, attest : BOOLEAN, closed : BOOLEAN]

\* What the schema admits; anything else is refused before the handler runs.
Admissible(p) ==
  p.premium <= 10000 /\ p.parity <= 10000 /\ p.slippage <= 100 /\ p.liquidity <= 1000000000

\* DecisionPolicy() and the DEFAULT_POLICY of the page.
DefaultPolicy ==
  [premium |-> 100, parity |-> 500, slippage |-> 50, liquidity |-> 0,
   platforms |-> Issuers, attest |-> FALSE, closed |-> TRUE]

\* An intent is what parse_intent makes of a text; None is a limit or amount it does not state.
Intent ==
  [ticker : STRING, side : {"BUY", "SELL"}, notional : Nat \cup {None}, asset : STRING,
   maxPremium : Nat \cup {None}, maxSlippage : Nat \cup {None}]

Representation ==
  [token : Nat, platform : Issuers, ticker : STRING, chain : Nat,
   price : Int, reference : Int, source : {"none", "stockInfo", "peer", "kline:close"},
   market : {"REGULAR", "EXTENDED", "CLOSED", "HALTED", "UNKNOWN"}, attested : BOOLEAN]

Snapshot == [ticker : STRING, label : {"LIVE", "RECORDED"}, reps : Seq(Representation)]

-----------------------------------------------------------------------------
\* compile_request

Analysable(intent) ==
  /\ intent.ticker # "" /\ intent.notional > 0
  /\ intent.side = "BUY" /\ intent.asset \in Assets

Capped(limit, stated) == IF stated # None /\ stated < limit THEN stated ELSE limit

\* The limits of the text bind whatever the policy allows.
Effective(intent, policy) ==
  [policy EXCEPT !.premium = Capped(policy.premium, intent.maxPremium),
                 !.slippage = Capped(policy.slippage, intent.maxSlippage)]

-----------------------------------------------------------------------------
\* analyze

WellFormed(snapshot, intent) ==
  /\ snapshot.ticker = intent.ticker /\ intent.notional > 0 /\ intent.side = "BUY"
  /\ \A i \in DOMAIN snapshot.reps :
       /\ snapshot.reps[i].ticker = snapshot.ticker /\ snapshot.reps[i].chain = 56
       /\ \A j \in DOMAIN snapshot.reps : snapshot.reps[j].token = snapshot.reps[i].token => i = j

Priced(rep) == rep.price > 0

\* The candle of the token itself is no reference for its parity.
Independent(rep) == rep.reference > 0 /\ rep.source # "kline:close"

Comparable(rep) == Priced(rep) /\ Independent(rep)

\* premium_bps(price, reference), still multiplied by the reference
Deviation(rep) == (rep.price - rep.reference) * BPS

Passes(rule, rep, policy) ==
  CASE rule = "issuer"      -> rep.platform \in policy.platforms
    [] rule = "price"       -> Priced(rep)
    [] rule = "reference"   -> Independent(rep)
    [] rule = "premium"     -> Comparable(rep) /\ Deviation(rep) <= policy.premium * rep.reference
    [] rule = "parity"      -> /\ Comparable(rep)
                               /\ Deviation(rep) \in
                                    -policy.parity * rep.reference .. policy.parity * rep.reference
    [] rule = "market"      -> /\ rep.market \notin {"HALTED", "UNKNOWN"}
                               /\ policy.closed \/ rep.market # "CLOSED"
    [] rule = "attestation" -> policy.attest => rep.attested
    [] rule = "liquidity"   -> policy.liquidity = 0

Rules == {"issuer", "price", "reference", "premium", "parity", "market", "attestation", "liquidity"}

Blockers(rep, policy) == {rule \in Rules : ~Passes(rule, rep, policy)}

Row(rep, policy) ==
  [token |-> rep.token, price |-> rep.price, blockers |-> Blockers(rep, policy)]

Viable(routes) == {r \in routes : r.blockers = {}}

\* Cheapest underlying share first, then the address.
Before(a, b) == a.price < b.price \/ (a.price = b.price /\ a.token < b.token)

\* Slip: the order of the blocked routes counts too.
SlipCheapestOfAll(routes) ==
  IF routes = {} THEN None ELSE (CHOOSE r \in routes : \A o \in routes : ~Before(o, r)).token

\* The token of the first route without a blocker.
Selected(routes) ==
  IF Viable(routes) = {} THEN None
  ELSE (CHOOSE r \in Viable(routes) : \A o \in Viable(routes) : ~Before(o, r)).token

Analysis(snapshot, policy) ==
  LET routes == {Row(snapshot.reps[k], policy) : k \in DOMAIN snapshot.reps}
  IN  [selected |-> Selected(routes), routes |-> routes]

-----------------------------------------------------------------------------
\* build_decision, decide, replay, compare

Body(snapshot, intent, policy, decision) ==
  [label |-> snapshot.label, snapshot |-> snapshot, intent |-> intent,
   policy |-> policy, decision |-> decision]

Receipt(snapshot, intent, policy) ==
  Body(snapshot, intent, policy, Analysis(snapshot, policy))

\* What decide answers; it refuses what compile_request or analyze refuses.
Decides(intent, policy, snapshot) ==
  Admissible(policy) /\ Analysable(intent) /\ WellFormed(snapshot, intent)

Decide(intent, policy, snapshot) == Receipt(snapshot, intent, Effective(intent, policy))

\* A receipt that cannot be analysed again is refused.
Replayable(r) == Admissible(r.policy) /\ WellFormed(r.snapshot, r.intent)

DecisionMatches(r)   == r.decision = Analysis(r.snapshot, r.policy)
ProvenanceMatches(r) == r.label = r.snapshot.label

\* The hash matches every receipt nobody has altered.
Replays(r) == Replayable(r) /\ DecisionMatches(r) /\ ProvenanceMatches(r)

Compares(r, policy) == Replays(r) /\ Admissible(policy) /\ Analysable(r.intent)

\* Slip: the what-if policy replaces the limits of the text as well.
SlipWhatIfReplaces(r, policy) == Receipt(r.snapshot, r.intent, policy)

\* Slip: the policy of the receipt is the one before the limits of the text.
SlipReceiptKeepsAsked(r, policy) ==
  Body(r.snapshot, r.intent, policy, Analysis(r.snapshot, Effective(r.intent, policy)))

\* The market policy is replaced, the limits of the text persist.
WhatIf(r, policy) == Receipt(r.snapshot, r.intent, Effective(r.intent, policy))

\* The tokens whose status a comparison changes.
Changes(before, after) ==
  {t \in {r.token : r \in after.decision.routes} :
     (\E r \in Viable(after.decision.routes) : r.token = t)
       # (\E r \in Viable(before.decision.routes) : r.token = t)}

\* Policy p admits nothing that policy q does not.
Stricter(p, q) ==
  /\ p.premium <= q.premium /\ p.parity <= q.parity /\ p.platforms \subseteq q.platforms
  /\ q.attest => p.attest
  /\ p.closed => q.closed
  /\ q.liquidity > 0 => p.liquidity > 0
=============================================================================
