----------------------------- MODULE MirrorQuery -----------------------------
(***************************************************************************)
(* What clients are told of the past: the queries of several mirrors, each *)
(* with its own gaps and its own horizon, a cache in front of them that    *)
(* keeps what is marked immutable, and the SDK's requests, which go from   *)
(* one mirror to the next (apps/mirror/src/api.ts and store.ts,            *)
(* packages/sdk/src/mirror/client.ts and format.ts, tx/pull.ts).           *)
(*                                                                         *)
(* An update is its committee and tick: one header of a tick is certified  *)
(* (PublisherNode, UniqueHeader).  Where the order of a query leaves       *)
(* several rows in the first place, any of them is the answer.             *)
(***************************************************************************)
EXTENDS Naturals, FiniteSets

CONSTANTS
  Mirror,      \* urls of the client
  Source,      \* committees
  FeedId,
  Carried,     \* [committee -> [tick -> feeds in its update]]
  MaxTick,     \* bound on ticks
  None

Tick == 1..MaxTick
Certified == [committee : Source, tick : Tick]

ASSUME MirrorQueryAssumption ==
  /\ MaxTick \in Nat
  /\ Carried \in [Source -> [Tick -> SUBSET FeedId]]

VARIABLES
  held,    \* [mirror -> rows of its table updates]
  cache    \* an answer kept in front of the mirrors: [ids, t, committee, body], or None

queryVars == <<held, cache>>

Prices(u) == Carried[u.committee][u.tick]

-----------------------------------------------------------------------------
(* MirrorStore *)

\* The join of feed_ticks and updates, of one committee or of any.
Rows(m, f, c) == {u \in held[m] : f \in Prices(u) /\ c \in {None, u.committee}}

First(rows) == {u \in rows : \A v \in rows : u.tick <= v.tick}

Latest(m, f, c) == {u \in Rows(m, f, c) : \A v \in Rows(m, f, c) : v.tick <= u.tick}

\* atOrAfter
AtOrAfter(m, f, t, c) == First({u \in Rows(m, f, c) : u.tick >= t})

\* range: the oldest `limit` rows.
InRange(m, f, from, to, limit, c) ==
  LET rows == {u \in Rows(m, f, c) : from <= u.tick /\ u.tick <= to}
  IN {u \in rows : Cardinality({v \in rows : v.tick < u.tick}) < limit}

Insert ==
  \E m \in Mirror, u \in Certified :
    /\ u \notin held[m]
    /\ Prices(u) # {}
    /\ held' = [held EXCEPT ![m] = @ \cup {u}]
    /\ UNCHANGED cache

Prune ==
  \E m \in Mirror, before \in Tick :
    /\ \E u \in held[m] : u.tick < before
    /\ held' = [held EXCEPT ![m] = {u \in @ : u.tick >= before}]
    /\ UNCHANGED cache

-----------------------------------------------------------------------------
(* The API *)

\* The row a query found of each feed, or None.
Found(ids, Query(_)) ==
  {r \in [ids -> Certified \cup {None}] : \A f \in ids : IF Query(f) = {} THEN r[f] = None ELSE r[f] \in Query(f)}

\* grouped, and mirrorUpdateJson of each group.
Grouped(r) ==
  [updates |-> {[update |-> r[f], prices |-> {g \in DOMAIN r : r[g] = r[f]} \cap Prices(r[f])] :
                  f \in {g \in DOMAIN r : r[g] # None}},
   missing |-> {f \in DOMAIN r : r[f] = None}]

\* /v1/updates/at
AnswersAt(m, ids, t, c) == {Grouped(r) : r \in Found(ids, LAMBDA f : AtOrAfter(m, f, t, c))}

\* Mutant: a feed that is missing does not matter.
ExactOfFound(body, t) == \A u \in body.updates : u.update.tick = t

Exact(body, t) == body.missing = {} /\ \A u \in body.updates : u.update.tick = t

\* The client's request, answered by the first mirror that does. What is not exact is
\* kept for a second.
At ==
  \E m \in Mirror, ids \in (SUBSET FeedId) \ {{}}, t \in Tick, c \in Source \cup {None} :
    \E body \in AnswersAt(m, ids, t, c) :
      /\ cache = None
      /\ Exact(body, t)
      /\ cache' = [ids |-> ids, t |-> t, committee |-> c, body |-> body]
      /\ UNCHANGED held

QueryInit ==
  /\ held = [m \in Mirror |-> {}]
  /\ cache = None

QueryNext == Insert \/ Prune \/ At

QuerySpec == QueryInit /\ [][QueryNext]_queryVars

-----------------------------------------------------------------------------
(* Properties *)

\* pullAndUpdate with `exact`, from an answer: the update a feed cell is moved to.
Settled(body, t) == {u.update : u \in {v \in body.updates : v.update.tick = t}}

\* What is kept for ever of a committee's tick answers every feed that was asked
\* for, and nothing else is told of that tick, by any mirror, at any time and by any
\* endpoint: another answer settles a feed cell at no other update, and a range of the
\* tick or a latest update of it is the same (`exact` in handle and in pullAndUpdate).
ExactStable ==
  cache # None /\ cache.committee # None =>
    /\ cache.ids = UNION {u.prices : u \in cache.body.updates}
    /\ \A m \in Mirror, f \in cache.ids :
         LET t == cache.t
             c == cache.committee
             settled == Settled(cache.body, t)
         IN /\ \A body \in AnswersAt(m, {f}, t, c) : Settled(body, t) \subseteq settled
            /\ InRange(m, f, t, t, 1, c) \subseteq settled
            /\ {u \in Latest(m, f, c) : u.tick = t} \subseteq settled
=============================================================================
