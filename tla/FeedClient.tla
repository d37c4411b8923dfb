----------------------------- MODULE FeedClient -----------------------------
(***************************************************************************)
(* What the SDK builds and trusts of feed cells and committee cells        *)
(* (packages/sdk/src/tx/feed.ts, protocol/verify.ts,                       *)
(* protocol/publisherSet.ts, protocol/priceFeed.ts), next to the contracts *)
(* that decide (FeedCell).                                                 *)
(*                                                                         *)
(* A builder reads its feed cells first and the committee cell later.  Its *)
(* transaction names the very cells it read, so it is only ever judged with*)
(* these: those that are spent meanwhile make it void, and as long as none *)
(* is, what was read is what there is.                                     *)
(***************************************************************************)
EXTENDS FeedCell

CONSTANTS
  MaxFeedsPerTx,    \* MAX_FEEDS_PER_TX
  KnownCommittees,  \* committees of the deployment record the SDK was given
  KnownCodes        \* versions of the feed script in it that are not retired

-----------------------------------------------------------------------------
(* Verification *)

\* setFor
SetForTick(d, u) == u.set = d.index \/ (d.until > u.time /\ u.set + 1 = d.index)

\* trustsSet
TrustsSet(d, set) == set = d.index \/ (d.until > 0 /\ set + 1 = d.index)

\* Mutant: a paused committee's updates are built on.
VerifyPriceUpdateUnpaused(u, committee, d) ==
  u.committee = committee /\ SetForTick(d, u) /\ u.signed

\* verifyPriceUpdate
VerifyPriceUpdate(u, committee, d) ==
  u.committee = committee /\ ~d.paused /\ SetForTick(d, u) /\ u.signed

-----------------------------------------------------------------------------
(* Transactions *)

\* No feed of a transaction is named by two of its cells.
EachFeedOnce(s) == \A i, j \in DOMAIN s : typed[s[i]].id = typed[s[j]].id => i = j

\* updateFeedCells: feed cells that exist, of one committee and one version of the code,
\* each to be moved forward by the update; the update itself goes to the first of them.
\* findCommitteeCellByHash and codeRefFor look them up in the deployment record.
Built(s, u) ==
  /\ Len(s) <= MaxFeedsPerTx
  /\ \A i \in DOMAIN s : s[i] \in Live
  /\ \A i \in DOMAIN s : feed[s[i]].committee = feed[s[1]].committee
  /\ \A i \in DOMAIN s : typed[s[i]].code = typed[s[1]].code
  /\ EachFeedOnce(s)
  /\ feed[s[1]].committee \in KnownCommittees
  /\ typed[s[1]].code \in KnownCodes
  /\ \A i \in DOMAIN s :
       /\ VerifyPriceUpdate(u, feed[s[i]].committee, cell[feed[s[1]].committee])
       /\ u.time > feed[s[i]].time

\* isFeedPriceTrusted
PriceTrusted(x) ==
  /\ x \in Live
  /\ feed[x].time > 0
  /\ ~cell[feed[x].committee].paused
  /\ TrustsSet(cell[feed[x].committee], feed[x].set)

-----------------------------------------------------------------------------
(* Properties *)

\* The contract's judgement of a transaction that moves the inputs, in order, with an
\* update in the witness of the first.
Taken(s, u) ==
  LET spent == {s[i] : i \in DOMAIN s}
  IN /\ spent \subseteq Live
     /\ \A x \in spent :
          LET leader == LeaderOf(s, spent, Group(x))
          IN leader = 1 /\ Accepts(x, u, s[leader] = x)

\* What the builder asks beyond the contract: few enough cells, each feed once, and a
\* committee and a version of the code that its deployment record has.
Served(s) ==
  /\ Len(s) <= MaxFeedsPerTx
  /\ EachFeedOnce(s)
  /\ feed[s[1]].committee \in KnownCommittees
  /\ typed[s[1]].code \in KnownCodes

\* A transaction the contract would reject is never built, and one it takes is refused
\* only for what the builder asks beyond it, though the builder verifies every feed and
\* the contract one of each group; and the SDK trusts the prices that the contract's
\* consumers do (updateFeedCells, isFeedPriceTrusted).
SdkAgrees ==
  /\ \A s \in Inputs, u \in Update : Built(s, u) <=> Taken(s, u) /\ Served(s)
  /\ \A x \in Feed : PriceTrusted(x) <=> Usable(x)
=============================================================================
