-------------------------- MODULE MCPrices --------------------------
(***************************************************************************)
(* Four publishers; one of them measures up to four markets by the mid     *)
(* rule, by the plain VWAP and by the VWAP checked against the book;       *)
(* prices below and above zero, updates one or two ticks apart.            *)
(*                                                                         *)
(* Or two key sets that share members at other indexes, one of whom signs  *)
(* anything, approve a config: behaviours of the two kinds are apart.      *)
(***************************************************************************)
EXTENDS AggregateFeed, MCApproval

CONSTANTS p1, p2, p3, p4

Plain(name, deviation) ==
  [method |-> name, window |-> 2, maxQuoteAge |-> 1, maxBookAge |-> 1, maxSpreadBps |-> 7000,
   tolerance |-> None, slackPct |-> 0, minNotional |-> None, clamp |-> FALSE,
   minTopNotional |-> None, rest |-> FALSE,
   minVenues |-> 1, maxDeviationBps |-> deviation]

ByMid == [Plain("mid", 5000) EXCEPT !.minTopNotional = 4]
InBook == [Plain("vwap", 5000) EXCEPT !.tolerance = 1, !.slackPct = 100, !.minNotional = 4,
                                      !.clamp = TRUE, !.minVenues = 2]
MCMethod == {ByMid, Plain("vwap", None), InBook, [InBook EXCEPT !.rest = TRUE]}

MCQuote == {[bid |-> 2, ask |-> 4, depth |-> 5], [bid |-> 5, ask |-> 6, depth |-> None],
            [bid |-> 2, ask |-> 6, depth |-> 3]}
MCTrade == {[price |-> 3, qty |-> 1], [price |-> 8, qty |-> 2]}
MCMarket == {[price |-> x, halfSpread |-> 1, gap |-> 0] : x \in {1, 4, 6}}
MCValue == {-3, 2, 7}

PricesInit == Init /\ ApprovalInit

\* Nothing has been measured or observed of the feed.
Unmeasured ==
  /\ method = ByMid /\ clock = 1 /\ quotes = <<>> /\ trades = <<>> /\ alive = None
  /\ venues = <<>> /\ sample = <<>> /\ update = None /\ history = <<>>

\* Nobody has signed the config, and of all drafts it is this one.
Undrafted == made = {} /\ file = None /\ config = CHOOSE c \in Draft : TRUE

PricesNext ==
  \/ Undrafted /\ Next /\ UNCHANGED approvalVars
  \/ Unmeasured /\ ApprovalNext /\ UNCHANGED vars

PricesSpec == PricesInit /\ [][PricesNext]_<<vars, approvalVars>>
=============================================================================
