------------------------------ MODULE FeedCell ------------------------------
(***************************************************************************)
(* Price feed cells and the transactions that move them, next to the       *)
(* committee cells they are anchored to (contracts/price_feed_type,        *)
(* contracts/common/src/price_update.rs, price_feed.rs, consumer.rs).      *)
(*                                                                         *)
(* A transaction spends a list of feed cells.  Those that continue, run one*)
(* version of the code and name one committee share the update in the      *)
(* witness of the first of them; only that cell's script checks the        *)
(* signatures.  An update is its header and whether a quorum of the set it *)
(* names signed it: retired sets may sign anything at any time.  The entry *)
(* of a feed is proved against the header, so the header stands for its    *)
(* prices, of every feed.                                                  *)
(***************************************************************************)
EXTENDS CommitteeCell

CONSTANTS
  Feed,        \* feed cells; Type ID makes each one unique for ever
  Types,       \* what the type scripts of the cells may name: functions from Feed to
               \* [code, id], the version of the code and the feed
  MaxInputs,   \* bound on the feed cells of a transaction
  None         \* no cell

VARIABLES
  typed,   \* [feed cell -> what its type script names]; a cell keeps it
  feed,    \* [feed cell -> its PriceFeedData, or None]
  burned,  \* feed cells that are gone
  basis    \* [feed cell -> [signed, nonce]: of the update it holds, and of the
           \*  committee cell it was verified against]

feeds == <<typed, feed, burned, basis>>
vars == <<now, governance, feeds>>

Update == [committee : Committee, set : Index, time : 1..MaxTime, signed : BOOLEAN]

PriceFeedData == [committee : Committee, set : Index, time : 0..MaxTime]

TypeOK ==
  /\ GovernanceTypeOK
  /\ typed \in Types
  /\ feed \in [Feed -> PriceFeedData \cup {None}]
  /\ burned \subseteq Feed
  /\ basis \in [Feed -> [signed : BOOLEAN, nonce : Index]]

Live == {x \in Feed : feed[x] # None}

\* Lists of distinct feed cells.
Inputs ==
  UNION {{s \in [1..n -> Feed] : \A i, j \in 1..n : s[i] = s[j] => i = j} : n \in 1..MaxInputs}

-----------------------------------------------------------------------------
(* Creation and verification *)

\* validate_create: configuration only.
Create(x) ==
  /\ x \notin Live \cup burned
  /\ \E c \in Committee : feed' = [feed EXCEPT ![x] = [committee |-> c, set |-> 0, time |-> 0]]
  /\ UNCHANGED <<now, governance, typed, burned, basis>>

\* The cells that may share an update.
Group(x) == <<typed[x].code, feed[x].committee>>

\* Mutant: a cell that is being burned may lead.
LeaderAmongAll(s, moved, g) ==
  CHOOSE i \in DOMAIN s :
    /\ Group(s[i]) = g
    /\ \A j \in DOMAIN s : j < i => Group(s[j]) # g

\* find_leader: the first input of the group that continues.
LeaderOf(s, moved, g) ==
  CHOOSE i \in DOMAIN s :
    /\ Group(s[i]) = g /\ s[i] \in moved
    /\ \A j \in DOMAIN s : j < i => Group(s[j]) # g \/ s[j] \notin moved

\* Mutant: the previous set keeps verifying after the switch.
VerifyHeaderUnbounded(u, c) ==
  /\ u.committee = c
  /\ ~cell[c].paused
  /\ u.set \in Trusted(cell[c])
  /\ u.signed

\* verify_header.
VerifyHeader(u, c) ==
  /\ u.committee = c
  /\ ~cell[c].paused
  /\ SetFor(cell[c], u.set, u.time)
  /\ u.signed

\* validate_update of feed cell x with the leader's update.
Accepts(x, u, leads) ==
  /\ u.time > feed[x].time
  /\ IF leads THEN VerifyHeader(u, feed[x].committee) ELSE u.committee = feed[x].committee

-----------------------------------------------------------------------------
(* Transactions *)

\* The inputs that are not moved are burned: their locks decide.
Move ==
  \E s \in Inputs :
    LET spent == {s[i] : i \in DOMAIN s}
    IN /\ spent \subseteq Live
       /\ \E moved \in SUBSET spent :
            LET leader == [x \in moved |-> LeaderOf(s, moved, Group(x))]
            IN \E witness \in [{leader[x] : x \in moved} -> Update] :
                 LET update == [x \in moved |-> witness[leader[x]]]
                 IN /\ \A x \in moved : Accepts(x, update[x], s[leader[x]] = x)
                    /\ feed' = [x \in Feed |->
                         IF x \notin spent THEN feed[x]
                         ELSE IF x \notin moved THEN None
                         ELSE [committee |-> feed[x].committee, set |-> update[x].set,
                               time |-> update[x].time]]
                    /\ basis' = [x \in Feed |->
                         IF x \notin moved THEN basis[x]
                         ELSE [signed |-> update[x].signed, nonce |-> cell[feed[x].committee].nonce]]
            /\ burned' = burned \cup (spent \ moved)
       /\ UNCHANGED <<now, governance, typed>>

Init ==
  /\ GovernanceInit
  /\ typed \in Types
  /\ feed = [x \in Feed |-> None]
  /\ burned = {}
  /\ basis = [x \in Feed |-> [signed |-> FALSE, nonce |-> 0]]

Next ==
  \/ Block /\ UNCHANGED feeds
  \/ \E c \in Governing : Govern(c) /\ UNCHANGED feeds
  \/ \E x \in Feed : Create(x)
  \/ Move

Spec == Init /\ [][Next]_vars

-----------------------------------------------------------------------------
(* What a consumer accepts *)

\* Mutant: every set up to the current one is trusted.
UsableOlder(x) ==
  /\ x \in Live
  /\ feed[x].time # 0
  /\ ~cell[feed[x].committee].paused
  /\ feed[x].set <= cell[feed[x].committee].index

\* check_feed_cell.
Usable(x) ==
  /\ x \in Live
  /\ feed[x].time # 0
  /\ ~cell[feed[x].committee].paused
  /\ feed[x].set \in Trusted(cell[feed[x].committee])

-----------------------------------------------------------------------------
(* Properties *)

\* Every price in a feed cell is of an update that a quorum signed, and the
\* committee cell of that moment allowed that set to sign that time and was not
\* paused, though only the leader of the transaction verifies (find_leader,
\* validate_update).
PricesAuthentic ==
  \A x \in Live :
    LET then == CellAt(feed[x].committee, basis[x].nonce)
    IN feed[x].time # 0 =>
         basis[x].signed /\ ~then.paused /\ SetFor(then, feed[x].set, feed[x].time)

\* A set retired by a routine rotation adds, from then on, only prices of times
\* before the switch, less than MaxUntilAhead past the rotation (set_for,
\* check_until).
RetiredBounded ==
  \A x \in Live : \A i \in DOMAIN log[feed[x].committee] :
    LET e == log[feed[x].committee][i]
    IN feed[x].time # 0 /\ e.op = "rotate" /\ feed[x].set = e.old.index /\ basis[x].nonce >= i
       => feed[x].time < e.next.until /\ feed[x].time < e.at + MaxUntilAhead

\* No consumer accepts a price of a set that the committee dropped at any time,
\* wherever the price was stored before (check_feed_cell, trusts).
DroppedUnusable ==
  \A x \in Feed : Usable(x) =>
    \A i \in DOMAIN log[feed[x].committee] :
      LET d == log[feed[x].committee][i].next
      IN feed[x].set <= d.index => feed[x].set \in Trusted(d)

\* A feed cell that continues keeps its committee, and its price moves forward in
\* time; one that is burned never returns (validate_update, Type ID).
FeedsForward ==
  [][\A x \in Feed :
       /\ x \in burned => feed'[x] = None
       /\ x \in Live /\ feed'[x] # None /\ feed'[x] # feed[x] =>
            feed'[x].committee = feed[x].committee /\ feed'[x].time > feed[x].time]_vars
=============================================================================
