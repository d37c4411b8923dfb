------------------------------ MODULE MCStreams ------------------------------
(***************************************************************************)
(* What follows a stream: a publisher one of a venue, with the resolver it *)
(* dials by, or a mirror those of publishers.                              *)
(*                                                                         *)
(* A venue: two prices on each side; the configs change three times, so    *)
(* that a connection is replaced and one is dropped; two changes of the    *)
(* book and two failures.  The resolver: two lookups at once, an address   *)
(* of each family, times to live below the least and above the most.  The  *)
(* mirror: two publishers, the second of which sends anything; two updates *)
(* of one tick.  Behaviours of the three kinds are apart.                  *)
(***************************************************************************)
EXTENDS StreamVenue, MCMirrorIngest

HostAddresses == [f \in {4, 6} |-> IF f = 4 THEN {"v4"} ELSE {"v6"}]

Markets == {{}, {"BTC-USD"}, {"BTC-USD", "ETH-USD"}}

StreamsInit == StreamInit /\ ResolverInit /\ IngestInit

\* Nothing happened to a part. What the committee view takes at first does not matter.
NotStreamed == \A what \in DOMAIN bounds : bounds[what] = 0
NotResolved ==
  /\ clock = 0 /\ cache = Nothing /\ \A l \in Lookup : lookups[l] = Nothing
  /\ \A a \in DOMAIN good : good[a] = 0
NotMirrored ==
  /\ verifiable = {} /\ breaks = 0 /\ horizon = 0 /\ verified = {}
  /\ \A s \in Correct : history[s] = {} /\ fetch[s] = Asked(0) /\ ~connected[s]

Streamed == NotResolved /\ NotMirrored /\ UNCHANGED <<resolverVars, ingestVars>>
Resolved == NotStreamed /\ NotMirrored /\ UNCHANGED <<streamVars, ingestVars>>
Mirrored == NotStreamed /\ NotResolved /\ UNCHANGED <<streamVars, resolverVars>>

StreamsNext ==
  \/ Streamed /\ StreamNext
  \/ Resolved /\ ResolverNext
  \/ Mirrored /\ IngestNext

\* The fairness of the mirror is asked for while the behaviour is of the mirror; at the
\* start no fair action of a venue's stream is enabled.
StreamsFairness ==
  /\ StreamFairness
  /\ \A s \in Correct :
       /\ WF_ingestVars(Mirrored /\ Answer(s))
       /\ WF_ingestVars(Mirrored /\ Resync(s))
       /\ WF_ingestVars(Mirrored /\ StreamOpens(s))
       /\ WF_ingestVars(Mirrored /\ Frame(s))
       /\ WF_ingestVars(Mirrored /\ TakePage(s))

StreamsSpec ==
  StreamsInit /\ [][StreamsNext]_<<streamVars, resolverVars, ingestVars>> /\ StreamsFairness
=============================================================================
