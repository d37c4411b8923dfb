----------------------------- MODULE OracleClient -----------------------------
(***************************************************************************)
(* The SDK's client that reads prices from a mirror and verifies them with *)
(* the committee cell it holds (packages/sdk/src/client/LeanOracleClient.ts*)
(* and packages/sdk/src/mirror/client.ts).                                 *)
(*                                                                         *)
(* Mirrors are untrusted: an answer is any update that a quorum of some set*)
(* signed.  Reads of the cell overlap, those of other calls among them, and*)
(* the one received last is kept.  The cell is its nonce in the log.       *)
(***************************************************************************)
EXTENDS CommitteeCell, FiniteSets

CONSTANTS
  Asked,       \* the committee prices are asked of
  CacheTime,   \* committeeCacheMs
  Delay,       \* longest a node's answer is under way
  Timeout,     \* of a mirror's answer, over all urls
  MaxReads,    \* bound on the reads in flight
  Nothing      \* nothing cached or asked

\* What an instance assumes of the constants.
OracleClientAssumption ==
  /\ Asked \in Governing
  /\ {CacheTime, Delay, Timeout, MaxReads} \subseteq Nat
  /\ Nothing \notin Nat

VARIABLES
  cached,     \* committeeData: [nonce, at]
  reads,      \* getCommittee calls in flight: [nonce, until, awaited by the request]
  request     \* latestPrices: [phase, until]

client == <<cached, reads, request>>

Newest == Len(log[Asked])

\* findCommitteeCell: the node answers with the cell that is live.
Reading(awaited) ==
  /\ Cardinality(reads) < MaxReads
  /\ reads' = reads \cup {[nonce |-> Newest, until |-> now + Delay, awaited |-> awaited]}

-----------------------------------------------------------------------------
(* The committee cell *)

\* getCommittee of another call.
GetCommittee ==
  /\ Reading(FALSE)
  /\ UNCHANGED <<now, governance, cached, request>>

\* The answer is cached as of its arrival. The call that waits for it goes on to ask
\* the mirror.
Received ==
  \E r \in reads :
    /\ now <= r.until
    /\ reads' = reads \ {r}
    /\ cached' = [nonce |-> r.nonce, at |-> now]
    /\ request' = IF r.awaited THEN [phase |-> "get", until |-> now + Timeout] ELSE request
    /\ UNCHANGED <<now, governance>>

\* findCommitteeCell throws, and the call that waits for it with it.
ReadFails ==
  \E r \in reads :
    /\ reads' = reads \ {r}
    /\ request' = IF r.awaited THEN Nothing ELSE request
    /\ UNCHANGED <<now, governance, cached>>

-----------------------------------------------------------------------------
(* Prices *)

Stale == cached = Nothing \/ now - cached.at > CacheTime

\* Mutant: what is cached is good for ever.
LatestPricesCached ==
  /\ request = Nothing
  /\ IF cached = Nothing
     THEN /\ Reading(TRUE)
          /\ request' = [phase |-> "verifiable", until |-> now + Delay]
     ELSE /\ request' = [phase |-> "get", until |-> now + Timeout]
          /\ UNCHANGED reads
  /\ UNCHANGED <<now, governance, cached>>

\* latestPrices, pricesAt: verifiable reads the cell if what is cached is old.
LatestPrices ==
  /\ request = Nothing
  /\ IF Stale
     THEN /\ Reading(TRUE)
          /\ request' = [phase |-> "verifiable", until |-> now + Delay]
     ELSE /\ request' = [phase |-> "get", until |-> now + Timeout]
          /\ UNCHANGED reads
  /\ UNCHANGED <<now, governance, cached>>

\* checked, verifyPriceUpdate: with what is cached when the answer arrives.
Checked(set, time) ==
  LET d == CellAt(Asked, cached.nonce) IN ~d.paused /\ SetFor(d, set, time)

\* get waits for a mirror's answer. What it returns is Checked.
Pending == request # Nothing /\ request.phase = "get" /\ now <= request.until

Answered ==
  /\ request # Nothing /\ request.phase = "get"
  /\ request' = Nothing
  /\ UNCHANGED <<now, governance, cached, reads>>

ClientInit ==
  /\ cached = Nothing
  /\ reads = {}
  /\ request = Nothing

ClientNext == GetCommittee \/ Received \/ ReadFails \/ LatestPrices \/ Answered

OracleInit == GovernanceInit /\ ClientInit

OracleNext ==
  \/ Block /\ UNCHANGED client
  \/ Govern(Asked) /\ UNCHANGED client
  \/ ClientNext

OracleSpec == OracleInit /\ [][OracleNext]_<<now, governance, client>>

-----------------------------------------------------------------------------
(* Properties *)

\* Any update that would be returned now was one the chain would take, its set allowed
\* and the committee not paused, at a moment that is not longer ago than the cache,
\* one read and the mirror's timeout, however reads overlap and overtake each other
\* (verifiable, checked).
VerifiedRecently ==
  Pending =>
    \A set \in Index, time \in 1..MaxTime : Checked(set, time) =>
      \E n \in 0..Newest :
        /\ n < Newest => log[Asked][n + 1].at + CacheTime + Delay + Timeout >= now
        /\ ~CellAt(Asked, n).paused
        /\ SetFor(CellAt(Asked, n), set, time)
=============================================================================
