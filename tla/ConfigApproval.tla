--------------------------- MODULE ConfigApproval ---------------------------
(***************************************************************************)
(* What a committee config must be, and how key sets approve it: the       *)
(* checks of validateCommitteeConfig, the file its signatures are          *)
(* collected in, and what a publisher started under a key set accepts      *)
(* (packages/sdk/src/protocol/committeeConfig.ts and signatures.ts, the    *)
(* sign-config, merge-signatures and add-approval commands of              *)
(* apps/publisher/src/main.ts, apps/publisher/src/config.ts).              *)
(*                                                                         *)
(* One draft is followed.  A signature of it is its publisher index and    *)
(* the key that made it; publisher indexes change from one key set to the  *)
(* next.  A sorted bundle without duplicates is a function of the indexes. *)
(* A symbol is <<pair, quote, window>>, the window being 0 of a feed       *)
(* priced from exchanges.                                                  *)
(***************************************************************************)
EXTENDS Methodology

CONSTANTS
  Key,        \* public keys
  Liar,       \* those whose operators sign whatever they like
  KeySets,    \* the key sets, in order: sequences of keys
  Draft,      \* configs somebody may write
  FeedId,     \* feedId: [symbol -> number]
  Venue,
  Hour,       \* the longest window of a TWAP feed
  Retention   \* how long publishers keep finalized updates

\* The keys of a set are in strictly ascending order (isValidPublisherSet).
ASSUME ConfigApprovalAssumption ==
  /\ IsFiniteSet(Key)
  /\ Liar \subseteq Key
  /\ KeySets \in Seq(Seq(Key))
  /\ \A s \in DOMAIN KeySets : \A i, j \in DOMAIN KeySets[s] : KeySets[s][i] = KeySets[s][j] => i = j
  /\ Hour \in Nat
  /\ Retention \in Nat

VARIABLES
  config,     \* the draft
  made,       \* its signatures [index, key], in the hands of whoever merges them
  file        \* the config file [signatures, approvals], or None

approvalVars == <<config, made, file>>

SetIndex == DOMAIN KeySets
Member(s) == {KeySets[s][i] : i \in DOMAIN KeySets[s]}
SetQuorum(s) == (2 * Len(KeySets[s])) \div 3 + 1

Index == UNION {DOMAIN KeySets[s] : s \in SetIndex}
BundleType == UNION {[is -> Key] : is \in SUBSET Index}
FileType == [signatures : BundleType, approvals : UNION {[ss -> BundleType] : ss \in SUBSET SetIndex}]

ASSUME NoFileAssumption == None \notin FileType

-----------------------------------------------------------------------------
(* validateCommitteeConfig *)

Positive(n) == n > 0
PositiveIfSet(n) == n # None => n > 0

IsTwap(feed) == feed.twap # None

\* MARKET_FIELDS: what only a feed priced from exchanges has.
MarketFields == {"method", "window", "maxQuoteAge", "maxBookAge", "maxSpreadBps", "minTopNotional",
                 "maxDeviationBps", "tolerance", "slackPct", "minNotional", "clamp", "minVenues", "markets"}

\* Mutant: a venue may be listed for two markets of a feed.
ValidMethodAnyVenues(feed) ==
  /\ \A n \in {feed.window, feed.maxQuoteAge, feed.maxSpreadBps, feed.minVenues} : Positive(n)
  /\ \A n \in {feed.maxBookAge, feed.minTopNotional, feed.maxDeviationBps, feed.tolerance, feed.slackPct,
               feed.minNotional} : PositiveIfSet(n)
  /\ (feed.tolerance = None) = (feed.slackPct = None)
  /\ feed.clamp \in BOOLEAN \cup {None}
  /\ feed.minVenues >= 2
  /\ Len(feed.markets) >= feed.minVenues + 1

\* checkMethod. markets is the venue of each market.
ValidMethod(feed) ==
  /\ \A n \in {feed.window, feed.maxQuoteAge, feed.maxSpreadBps, feed.minVenues} : Positive(n)
  /\ \A n \in {feed.maxBookAge, feed.minTopNotional, feed.maxDeviationBps, feed.tolerance, feed.slackPct,
               feed.minNotional} : PositiveIfSet(n)
  /\ (feed.tolerance = None) = (feed.slackPct = None)
  /\ feed.clamp \in BOOLEAN \cup {None}
  /\ feed.minVenues >= 2
  /\ Len(feed.markets) >= feed.minVenues + 1
  /\ \A i, j \in DOMAIN feed.markets : feed.markets[i] = feed.markets[j] => i = j

\* checkTwap.
ValidTwap(c, feed) ==
  LET t == feed.twap
  IN /\ Positive(t.window) /\ Positive(t.every) /\ Positive(t.minTicks)
     /\ DOMAIN feed \cap MarketFields = {}
     /\ t.window <= Hour
     /\ \E i \in DOMAIN c.feeds :
          LET source == c.feeds[i]
          IN /\ source.symbol = t.source
             /\ ~IsTwap(source)
             /\ feed.quote = source.quote
             /\ feed.expo = source.expo
     /\ feed.symbol = <<t.source[1], t.source[2], t.window>>
     /\ t.window % c.tickPeriod = 0
     /\ t.every % c.tickPeriod = 0
     /\ t.minTicks * c.tickPeriod <= t.window

ValidFeed(c, i) ==
  LET feed == c.feeds[i]
  IN /\ IF IsTwap(feed) THEN ValidTwap(c, feed)
        ELSE ValidMethod(feed) /\ feed.symbol[2] = feed.quote
     /\ FeedId[feed.symbol] = feed.id
     /\ feed.expo \in -18..18
     /\ Positive(feed.toleranceBps) /\ Positive(feed.emaHalfLife)
     /\ i > 1 => c.feeds[i - 1].id < feed.id

\* validateCommitteeConfig finds no problem.
Valid(c) ==
  /\ \A n \in {c.version, c.tickPeriod, c.observationDeadline, c.maxSigningLag} : Positive(n)
  /\ c.observationDeadline < c.tickPeriod
  /\ c.activation % c.tickPeriod = 0
  /\ Len(c.feeds) \in 1..255
  /\ \A i \in DOMAIN c.feeds : ValidFeed(c, i)

-----------------------------------------------------------------------------
(* Bundles *)

\* Mutant: the signer is any publisher of the set.
VerifyThresholdAnyMember(bundle, s) ==
  /\ Cardinality(DOMAIN bundle) \in SetQuorum(s)..Len(KeySets[s])
  /\ \A i \in DOMAIN bundle : bundle[i] \in Member(s)

\* verifyThreshold, of a bundle that is in ascending order.
VerifyThreshold(bundle, s) ==
  /\ Cardinality(DOMAIN bundle) \in SetQuorum(s)..Len(KeySets[s])
  /\ \A i \in DOMAIN bundle : i \in DOMAIN KeySets[s] /\ KeySets[s][i] = bundle[i]

\* mergeSignatures refuses two signatures of one index.
Mergeable(part) == \A a, b \in part : a.index = b.index => a = b

\* toSignatureBundle of what was merged.
Bundle(part) == [i \in {a.index : a \in part} |-> (CHOOSE a \in part : a.index = i).key]

\* approvalFor: the approval recorded for the set, else the first signatures.
ApprovalFor(f, s) == IF s \in DOMAIN f.approvals THEN f.approvals[s] ELSE f.signatures

\* verifyCommitteeConfig, as a publisher under set s applies it to the file.
Accepted(f, s) == f # None /\ Valid(config) /\ VerifyThreshold(ApprovalFor(f, s), s)

-----------------------------------------------------------------------------
(* Steps *)

\* sign-config, with the state file of some committee that has the key.
SignConfig ==
  \E s \in SetIndex : \E i \in DOMAIN KeySets[s] :
    /\ Valid(config)
    /\ made' = made \cup {[index |-> i, key |-> KeySets[s][i]]}
    /\ UNCHANGED <<config, file>>

\* An operator who signs without the tool.
SignAnyway ==
  \E k \in Liar, s \in SetIndex : \E i \in DOMAIN KeySets[s] :
    /\ made' = made \cup {[index |-> i, key |-> k]}
    /\ UNCHANGED <<config, file>>

\* The file is put together from what merge-signatures prints.
WriteFile ==
  \E part \in SUBSET made :
    /\ file = None
    /\ Mergeable(part)
    /\ file' = [signatures |-> Bundle(part), approvals |-> <<>>]
    /\ UNCHANGED <<config, made>>

\* Mutant: the file keeps one approval.
ApprovedInstead(f, s, bundle) == [f EXCEPT !.approvals = [t \in {s} |-> bundle]]

\* The file with the approval of a set replaced.
WithApproval(f, s, bundle) ==
  [f EXCEPT !.approvals = [t \in DOMAIN @ \cup {s} |-> IF t = s THEN bundle ELSE @[t]]]

\* add-approval.
AddApproval ==
  \E s \in SetIndex, part \in SUBSET made :
    /\ file # None
    /\ Mergeable(part)
    /\ Valid(config)
    /\ VerifyThreshold(Bundle(part), s)
    /\ file' = WithApproval(file, s, Bundle(part))
    /\ UNCHANGED <<config, made>>

ApprovalInit ==
  /\ config \in Draft
  /\ made = {}
  /\ file = None

ApprovalNext == SignConfig \/ SignAnyway \/ WriteFile \/ AddApproval

ApprovalSpec == ApprovalInit /\ [][ApprovalNext]_approvalVars

-----------------------------------------------------------------------------
(* Properties *)

InForce == \E s \in SetIndex : Accepted(file, s)

\* Whichever key set accepts the file, a quorum of that very set signed the config:
\* signatures made for the indexes of another set do not pass for it, however the
\* lists were merged (verifyThreshold, approvalFor).
QuorumOfSet ==
  \A s \in SetIndex :
    Accepted(file, s) => Cardinality({k \in Member(s) : \E a \in made : a.key = k}) >= SetQuorum(s)

\* A set that accepts the file goes on accepting it, whatever approvals of other sets
\* are added (add-approval): publishers can restart under either set of a rotation.
ApprovalKept == [][\A s \in SetIndex : Accepted(file, s) => Accepted(file', s)]_approvalVars

Priced(markets) == Each(markets, LAMBDA v : [price |-> 6, halfSpread |-> 1, gap |-> 0])

\* What a publisher that has finalized every tick of a source still holds of it when
\* the deadline for observing `tick` passes.
KeptPoints(tick, c) ==
  SelectSeq([n \in 1..tick |-> [at |-> n, price |-> 3 * n]],
            LAMBDA p : (tick - p.at) * c.tickPeriod + c.observationDeadline <= Retention)

\* Whenever a key set accepts a config, a TWAP feed of it is priced at its boundaries
\* from the whole of its window, out of the updates publishers keep: what the comment
\* on the longest window says it is for (checkTwap).
WindowKept ==
  InForce => \A i \in DOMAIN config.feeds :
    LET feed == config.feeds[i]
        ticks == feed.twap.window \div config.tickPeriod
        tick == 2 * Hour
        mean == Truncated(Total([n \in 1..ticks |-> 3 * (tick - 2 - ticks + n)], LAMBDA x : x), ticks)
    IN IsTwap(feed) =>
         ComputeTwap(KeptPoints(tick, config), tick, tick, ticks, feed.twap.minTicks) = mean

\* No config that any key set accepts lets one exchange set a price or, by failing,
\* stop a feed; and its TWAP feeds are priced as WindowKept says (validateCommitteeConfig).
Workable ==
  /\ InForce => \A i \in DOMAIN config.feeds :
       LET feed == config.feeds[i]
       IN IsTwap(feed) \/ \A v \in Venue :
            /\ Combine(feed, Priced(SelectSeq(feed.markets, LAMBDA w : w = v))) = None
            /\ Combine(feed, Priced(SelectSeq(feed.markets, LAMBDA w : w # v))) # None
  /\ WindowKept
=============================================================================
