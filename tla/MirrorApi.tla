------------------------------ MODULE MirrorApi ------------------------------
(***************************************************************************)
(* The read API of a mirror next to one of its clients: token buckets and  *)
(* stream slots of an address or key (apps/mirror/src/rateLimit.ts, api.ts)*)
(* and the streams of the SDK that connect and reconnect                   *)
(* (packages/sdk/src/mirror/client.ts).                                    *)
(*                                                                         *)
(* Time is in steps and tokens are counted in what one step refills, so    *)
(* nothing is rounded.  A connection that breaks is                        *)
(* noticed by each end on its own; the server's ping makes it notice.      *)
(***************************************************************************)
EXTENDS Integers, Sequences, FiniteSets

CONSTANTS
  Stream,      \* stream objects of the client, all of one identity
  Cost,        \* what a request takes of the bucket: steps per request
  Burst,       \* bucket size, in the same unit
  MaxStreams,  \* maxStreams
  SweepAfter,  \* age at which an idle bucket is forgotten
  LastStep,    \* bound on the clock
  MaxLosses,   \* bound on lost connections
  MaxAborts,   \* bound on upgrades that the client gives up before they are answered
  NoBucket     \* no bucket

ASSUME MirrorApiAssumption ==
  /\ IsFiniteSet(Stream)
  /\ {Cost, Burst, MaxStreams, SweepAfter} \subseteq Nat \ {0}
  /\ LastStep \in Nat /\ MaxLosses \in Nat /\ MaxAborts \in Nat
  /\ NoBucket \notin [tokens : Nat, updated : Nat, streams : Nat]

VARIABLES
  step,
  bucket,    \* [tokens, updated, streams], or NoBucket
  granted,   \* times of the requests let through
  streams,   \* [stream -> state of the SDK's end]
  gone,      \* sockets that the server holds though their client is gone
  losses, aborts

apiVars == <<step, bucket, granted, streams, gone, losses, aborts>>

Least(a, b) == IF a <= b THEN a ELSE b

\* Mutant: the time of the last refill is not moved.
BucketKeepsTime ==
  IF bucket = NoBucket THEN [tokens |-> Burst, updated |-> step, streams |-> 0]
  ELSE [bucket EXCEPT !.tokens = Least(Burst, @ + (step - bucket.updated))]

\* bucket: the client's bucket, refilled.
Bucket ==
  IF bucket = NoBucket THEN [tokens |-> Burst, updated |-> step, streams |-> 0]
  ELSE [bucket EXCEPT !.tokens = Least(Burst, @ + (step - bucket.updated)), !.updated = step]

-----------------------------------------------------------------------------
(* The server *)

\* handle, of a request for data.
Take ==
  /\ IF Bucket.tokens >= Cost
     THEN /\ bucket' = [Bucket EXCEPT !.tokens = @ - Cost]
          /\ granted' = Append(granted, step)
     ELSE bucket' = Bucket /\ UNCHANGED granted
  /\ UNCHANGED <<step, streams, gone, losses, aborts>>

\* closeStream.
Released == [bucket EXCEPT !.streams = IF @ = 0 THEN 0 ELSE @ - 1]

\* sweep.
Sweep ==
  /\ bucket # NoBucket
  /\ bucket.streams = 0
  /\ step - bucket.updated > SweepAfter
  /\ bucket' = NoBucket
  /\ UNCHANGED <<step, granted, streams, gone, losses, aborts>>

\* The close event of a socket whose client is gone.
Notice ==
  /\ gone > 0
  /\ gone' = gone - 1
  /\ bucket' = IF bucket = NoBucket THEN NoBucket ELSE Released
  /\ UNCHANGED <<step, granted, streams, losses, aborts>>

-----------------------------------------------------------------------------
(* The client's streams *)

OpenStreams == {s \in Stream : streams[s] = "open"}

\* The sockets of the client that the server holds.
Held == Cardinality(OpenStreams) + gone

\* open and the upgrade handler: a slot or 429, after which onclose tries again.
Connect(s) ==
  /\ streams[s] = "waiting"
  /\ IF Bucket.streams < MaxStreams
     THEN /\ bucket' = [Bucket EXCEPT !.streams = @ + 1]
          /\ streams' = [streams EXCEPT ![s] = "open"]
     ELSE bucket' = Bucket /\ UNCHANGED streams
  /\ UNCHANGED <<step, granted, gone, losses, aborts>>

\* handleUpgrade destroys a socket that is already half closed and never calls back.
Abort(s) ==
  /\ streams[s] = "waiting"
  /\ aborts < MaxAborts
  /\ aborts' = aborts + 1
  /\ bucket' = IF Bucket.streams < MaxStreams THEN [Bucket EXCEPT !.streams = @ + 1] ELSE Bucket
  /\ UNCHANGED <<step, granted, streams, gone, losses>>

\* onclose, of a connection that is lost.
Lose(s) ==
  /\ streams[s] = "open"
  /\ losses < MaxLosses
  /\ losses' = losses + 1
  /\ streams' = [streams EXCEPT ![s] = "waiting"]
  /\ gone' = gone + 1
  /\ UNCHANGED <<step, bucket, granted, aborts>>

\* close.
Close(s) ==
  /\ streams[s] # "closed"
  /\ streams' = [streams EXCEPT ![s] = "closed"]
  /\ gone' = IF streams[s] = "open" THEN gone + 1 ELSE gone
  /\ UNCHANGED <<step, bucket, granted, losses, aborts>>

Step ==
  /\ step < LastStep
  /\ step' = step + 1
  /\ UNCHANGED <<bucket, granted, streams, gone, losses, aborts>>

ApiInit ==
  /\ step = 0
  /\ bucket = NoBucket
  /\ granted = <<>>
  /\ streams = [s \in Stream |-> "waiting"]
  /\ gone = 0
  /\ losses = 0
  /\ aborts = 0

ApiNext ==
  \/ Take \/ Sweep \/ Step \/ Notice
  \/ \E s \in Stream : Connect(s) \/ Abort(s) \/ Lose(s) \/ Close(s)

ApiSpec == ApiInit /\ [][ApiNext]_apiVars

-----------------------------------------------------------------------------
(* Properties *)

\* What SweepAfter steps bring at most: a bucket that is forgotten comes back full, so a
\* burst of more than SweepAfter refills is there again after that time.
Sustained == IF Burst <= SweepAfter THEN SweepAfter ELSE Burst

\* In no stretch of time are more requests let through than the burst and what the
\* stretch brings, whatever streams open and close and however often the bucket is
\* forgotten (RateLimiter.take, sweep).
RequestsBounded ==
  \A i, j \in DOMAIN granted :
    i <= j => (j - i + 1) * Cost * SweepAfter <= Burst * SweepAfter + (granted[j] - granted[i]) * Sustained

\* The server never holds more sockets of a client than its slots, though it notices late
\* that one is gone, and the slot of an aborted upgrade is never given back
\* (RateLimiter.openStream, closeStream).
StreamsBounded == Held <= MaxStreams

\* The limits of a client hold (RateLimiter).
LimitsKept == RequestsBounded /\ StreamsBounded
=============================================================================
