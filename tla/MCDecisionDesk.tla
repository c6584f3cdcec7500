--------------------------- MODULE MCDecisionDesk ---------------------------
(***************************************************************************)
(* The decision desk for TLC: two tickers with recorded captures, one of   *)
(* them live too, representations on both sides of the limits a policy can *)
(* set, and texts with and without limits of their own.                    *)
(***************************************************************************)
EXTENDS DecisionDesk

Buy(ticker) ==
  [ticker |-> ticker, side |-> "BUY", notional |-> 10, asset |-> "USDC",
   maxPremium |-> None, maxSlippage |-> None]

Nvda    == Buy("NVDA")
Tsla    == Buy("TSLA")
Limited == [Nvda EXCEPT !.maxPremium = 30, !.maxSlippage = 20]

MCTexts    == {Nvda, Limited}
MCSamples  == {Tsla}

MCPolicies ==
  {[DefaultPolicy EXCEPT !.platforms = {"ondo"}, !.closed = FALSE],
   [DefaultPolicy EXCEPT !.slippage = 101]}

Ondo ==
  [token |-> 1, platform |-> "ondo", ticker |-> "NVDA", chain |-> 56, price |-> 1004,
   reference |-> 1000, source |-> "stockInfo", market |-> "REGULAR", attested |-> TRUE]

XStocks == [Ondo EXCEPT !.token = 2, !.platform = "xstocks", !.price = 1002, !.source = "peer"]

Capture(ticker, label, reps) == [ticker |-> ticker, label |-> label, reps |-> reps]

MCCaptures ==
  {Capture("NVDA", "RECORDED", <<Ondo, XStocks>>),
   Capture("TSLA", "RECORDED", <<[Ondo EXCEPT !.ticker = "TSLA", !.token = 3]>>),
   Capture("NVDA", "LIVE", <<[XStocks EXCEPT !.market = "CLOSED"],
                             [Ondo EXCEPT !.price = None]>>),
   Capture("NVDA", "LIVE", <<Ondo, Ondo>>)}
=============================================================================
