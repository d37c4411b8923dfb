------------------------------- MODULE Resolver -------------------------------
(***************************************************************************)
(* Name resolution over HTTPS for the connections to venues                *)
(* (apps/publisher/src/net/resolver.ts), for one host name.                *)
(*                                                                         *)
(* A lookup asks for both address families at once and waits for both.     *)
(* Lookups overlap: each that misses the cache asks again, and the last to *)
(* end writes the cache.  An answer may be any addresses, with any time to *)
(* live; it comes whole, within QueryTimeout of its question, or not at    *)
(* all.                                                                    *)
(***************************************************************************)
EXTENDS Integers, FiniteSets, Functions

CONSTANTS
  Address,       \* addresses by family: [4 |-> .., 6 |-> ..]
  Ttl,           \* times to live an answer may give
  Floor, Cap,    \* the least and the most the cache keeps an answer, 30 and 300 s
  QueryTimeout,
  Lookup,        \* lookups that may be under way at once
  MaxClock,
  Nothing        \* no answer, nothing cached, no lookup

Family == {4, 6}
Addresses == Address[4] \cup Address[6]

ASSUME ResolverAssumption ==
  /\ DOMAIN Address = Family /\ Address[4] \cap Address[6] = {}
  /\ Ttl \subseteq Nat /\ {Floor, Cap, QueryTimeout, MaxClock} \subseteq Nat
  /\ 0 < Floor /\ Floor <= Cap

VARIABLES
  clock,
  cache,     \* [addresses, expiresAt]
  lookups,   \* Lookup -> its two queries: [until, answers]
  given,     \* what the last lookup to end gave, and when
  good       \* Address -> until when answers allow it to be used

resolverVars == <<clock, cache, lookups, given, good>>

\* lookup: the caller gets the addresses of the family it wants (options.family), or of
\* both. ENOTFOUND is as none.
Give(addresses) ==
  \E wants \in {Address[4], Address[6], Addresses} :
    given' = [addresses |-> addresses \cap wants, at |-> clock]

-----------------------------------------------------------------------------
(* The cache *)

\* How long the cache keeps an answer: as long as each of its addresses may be kept,
\* within the two limits.
Kept(ttls) ==
  LET least == CHOOSE t \in ttls \cup {Cap} : \A u \in ttls \cup {Cap} : t <= u
  IN  IF least < Floor THEN Floor ELSE least

Fresh == cache # Nothing /\ cache.expiresAt > clock

\* resolve, of a name that is cached.
Hit ==
  /\ Fresh
  /\ Give(cache.addresses)
  /\ UNCHANGED <<clock, cache, lookups, good>>

\* resolve, of a name that is not: both queries are sent.
Miss(l) ==
  /\ lookups[l] = Nothing
  /\ ~Fresh
  /\ lookups' = [lookups EXCEPT ![l] =
       [until |-> clock + QueryTimeout, answers |-> [f \in Family |-> Nothing]]]
  /\ UNCHANGED <<clock, cache, given, good>>

-----------------------------------------------------------------------------
(* The queries *)

Asking(l, f) == lookups[l] # Nothing /\ lookups[l].answers[f] = Nothing

\* resolve goes on when the second answer is in: the addresses of both are cached and
\* given. With none at all it throws.
Found(answers) == UNION {DOMAIN answers[f] : f \in Family}
Ttls(answers) == UNION {Range(answers[f]) : f \in Family}
Settled(l, answers) ==
  IF Nothing \in {answers[4], answers[6]}
  THEN /\ lookups' = [lookups EXCEPT ![l].answers = answers]
       /\ UNCHANGED <<cache, given>>
  ELSE /\ lookups' = [lookups EXCEPT ![l] = Nothing]
       /\ Give(Found(answers))
       /\ cache' = IF Found(answers) = {} THEN cache
                   ELSE [addresses |-> Found(answers),
                         expiresAt |-> clock + Kept(Ttls(answers))]

\* Until when an answer that comes now allows an address to be used: its time to live,
\* within the limits, and the time the other query may take.
Allowed(ttl) == clock + Kept({ttl}) + QueryTimeout

\* An answer comes.
AnswerComes(l, f) ==
  /\ Asking(l, f)
  /\ \E found \in SUBSET Address[f] : \E answer \in [found -> Ttl] :
       /\ Settled(l, [lookups[l].answers EXCEPT ![f] = answer])
       /\ good' = [a \in Addresses |->
            IF a \in found /\ Allowed(answer[a]) > good[a] THEN Allowed(answer[a]) ELSE good[a]]
  /\ UNCHANGED clock

\* A query times out, or its answer cannot be read: for AAAA that is no addresses
\* (.catch), for A it is the end of the lookup.
QueryFails(l, f) ==
  /\ Asking(l, f)
  /\ \/ f = 6 /\ Settled(l, [lookups[l].answers EXCEPT ![6] = << >>])
     \/ /\ f = 4
        /\ lookups' = [lookups EXCEPT ![l] = Nothing]
        /\ Give({})
        /\ UNCHANGED cache
  /\ UNCHANGED <<clock, good>>

\* Time passes; what was asked has been answered or has failed by then.
Passes ==
  /\ clock < MaxClock
  /\ \A l \in Lookup : lookups[l] # Nothing => clock < lookups[l].until
  /\ clock' = clock + 1
  /\ UNCHANGED <<cache, lookups, given, good>>

-----------------------------------------------------------------------------

ResolverInit ==
  /\ clock = 0 /\ cache = Nothing
  /\ lookups = [l \in Lookup |-> Nothing]
  /\ given = [addresses |-> {}, at |-> 0]
  /\ good = [a \in Addresses |-> 0]

ResolverNext ==
  \/ Hit
  \/ \E l \in Lookup : Miss(l)
  \/ \E l \in Lookup, f \in Family : AnswerComes(l, f)
  \/ \E l \in Lookup, f \in Family : QueryFails(l, f)
  \/ Passes

ResolverSpec == ResolverInit /\ [][ResolverNext]_resolverVars

-----------------------------------------------------------------------------
(* Property *)

\* A venue is dialed at no address that the last answers naming it no longer allow,
\* though one family lives longer than the other and overlapping lookups end in any
\* order (resolve).
AddressesRecent == \A a \in given.addresses : given.at < good[a]
=============================================================================
