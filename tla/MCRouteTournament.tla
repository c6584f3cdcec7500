------------------------- MODULE MCRouteTournament -------------------------
(***************************************************************************)
(* RouteTournament for TLC: constitutions that differ in one rule each or  *)
(* in the rules that meet in one cap, and representations, intents and     *)
(* portfolios on both sides of every limit. Basis points, dollars and      *)
(* seconds are scaled down to single digits.                               *)
(***************************************************************************)
EXTENDS RouteTournament

MCPlatforms == {"ondo", "xstocks"}
MCTokens    == {"t1", "t2"}

System ==
  [demo |-> FALSE, maxNotional |-> 5, chains |-> {56}, platforms |-> MCPlatforms,
   assets |-> {"USDC"}, maxPremium |-> 6, maxSlippage |-> 4, maxAge |-> 3,
   requireSim |-> TRUE, confirms |-> FALSE]

MCSettings ==
  {System, [System EXCEPT !.demo = TRUE], [System EXCEPT !.platforms = {"ondo"}, !.confirms = TRUE]}

\* PortfolioConstitution() with every optional rule left out.
Default ==
  [reserve |-> None, underlyingPct |-> None, platformPct |-> None, daily |-> None,
   maxNotional |-> None, maxPremium |-> None, maxSlippage |-> None, requireSim |-> TRUE,
   platforms |-> MCPlatforms, contracts |-> {}, attestation |-> FALSE, audit |-> FALSE,
   closedPremium |-> None, extended |-> TRUE, whenClosed |-> TRUE,
   confirmClosed |-> TRUE, blockHalted |-> TRUE,
   maxAge |-> None, requireRef |-> TRUE, confirmAbove |-> None, always |-> FALSE]

\* The most permissive constitution the schema allows.
Lax == [Default EXCEPT !.requireSim = FALSE, !.requireRef = FALSE, !.blockHalted = FALSE,
          !.confirmClosed = FALSE, !.maxAge = 4, !.maxPremium = 9, !.maxSlippage = 9]

MCConstitutions ==
  {Default, Lax,
   [Lax EXCEPT !.reserve = 3], [Lax EXCEPT !.underlyingPct = 40], [Lax EXCEPT !.platformPct = 40],
   [Lax EXCEPT !.daily = 4], [Lax EXCEPT !.maxNotional = 3],
   [Lax EXCEPT !.maxPremium = 2], [Lax EXCEPT !.maxPremium = 2, !.closedPremium = 4],
   [Lax EXCEPT !.closedPremium = 4], [Lax EXCEPT !.closedPremium = 1],
   [Lax EXCEPT !.maxSlippage = 2], [Lax EXCEPT !.maxAge = 1], [Lax EXCEPT !.maxAge = 0],
   [Lax EXCEPT !.maxAge = None],
   [Lax EXCEPT !.platforms = {"xstocks"}], [Lax EXCEPT !.contracts = {"t1"}],
   [Lax EXCEPT !.attestation = TRUE], [Lax EXCEPT !.audit = TRUE],
   [Lax EXCEPT !.whenClosed = FALSE], [Lax EXCEPT !.confirmClosed = TRUE],
   [Lax EXCEPT !.extended = FALSE], [Lax EXCEPT !.blockHalted = TRUE],
   [Lax EXCEPT !.requireRef = TRUE], [Lax EXCEPT !.confirmAbove = 2], [Lax EXCEPT !.always = TRUE]}

Balanced ==
  [balance |-> 8, total |-> 10, underlying |-> 1, spent |-> 0,
   platform |-> [f \in MCPlatforms |-> IF f = "ondo" THEN 2 ELSE 0]]

MCPortfolios == {Balanced}

Buy(n) == [side |-> "BUY", notional |-> n, asset |-> "USDC",
           maxPremium |-> None, maxSlippage |-> None]

MCIntents ==
  {Buy(4), Buy(6), Buy(None),
   [Buy(4) EXCEPT !.maxPremium = 1, !.maxSlippage = 1],
   [Buy(4) EXCEPT !.asset = "BNB"], [Buy(4) EXCEPT !.side = "SELL"]}

Token ==
  [token |-> "t1", platform |-> "ondo", chain |-> 56, market |-> "REGULAR",
   reference |-> "stock", attested |-> TRUE, audited |-> FALSE, priced |-> TRUE,
   positive |-> TRUE, gap |-> 3]

Other == [Token EXCEPT !.token = "t2", !.platform = "xstocks", !.attested = FALSE]

MCReps ==
  {Token, [Token EXCEPT !.market = "CLOSED"], [Token EXCEPT !.market = "EXTENDED", !.gap = 0],
   [Token EXCEPT !.chain = 1, !.reference = "none"],
   [Token EXCEPT !.positive = FALSE, !.gap = 7],
   [Other EXCEPT !.gap = -4], [Other EXCEPT !.market = "HALTED", !.reference = "peer", !.gap = 7],
   [Other EXCEPT !.reference = "candle", !.gap = 0], [Other EXCEPT !.priced = FALSE, !.gap = 7]}

MCAges  == {None, 4}
MCSlips == {3, 5}
=============================================================================
