----------------------------- MODULE TickRound -----------------------------
(***************************************************************************)
(* One tick of publishers that may crash, with the scheduler's timers at   *)
(* their times (apps/publisher/src/scheduler.ts, node.ts): when the leader *)
(* goes silent, a backup finalizes the tick.                               *)
(*                                                                         *)
(* PublisherNode, whose timers run at will, is about what may never happen.*)
(* Here the publishers follow the protocol, share one history, so that they*)
(* agree on the leaders, and measure prices that are within tolerance.     *)
(* What they know of a tick is then who observed it: a body is the set of  *)
(* the publishers it chose, and stands for the header derived from it.     *)
(*                                                                         *)
(* A link delivers in order, each message between one unit and Delay units *)
(* after it was sent, the key signer's time included, or never when its    *)
(* sender crashed.  So publishers do not hear one another within a unit of *)
(* time, and take their turns in it in a fixed order.  Observations that   *)
(* are sent together arrive together.                                      *)
(***************************************************************************)
EXTENDS Integers, Sequences, FiniteSets, SequencesExt

CONSTANTS
  Publisher,
  Leading,      \* the publishers of the ranks, the primary first, then the others
  Deadline,     \* observationDeadlineMs
  Grace,        \* GRACE_MS
  Prepare,      \* BACKUP_PREPARE_MS
  Skew,         \* skewMs
  Clocks,       \* how far each publisher's clock may be behind, no more than Skew apart
  Delay,        \* a message arrives in that time
  MaxTime,      \* bound on the clock, by when the tick must be final
  None

N == Cardinality(Publisher)
Quorum == (2 * N) \div 3 + 1
MaxRank == N - Quorum
Rank == 0..MaxRank

\* What an instance assumes of the constants.
TickRoundAssumption ==
  /\ IsFiniteSet(Publisher)
  /\ Leading \in [1..N -> Publisher] /\ IsInjective(Leading)
  /\ {Deadline, Grace, Prepare, Skew, MaxTime} \subseteq Nat /\ Delay \in Nat \ {0}
  /\ Clocks \subseteq [Publisher -> 0..Skew]

VARIABLES
  clock,    \* time since the tick
  turn,     \* whose turn it is, in the order of Leading
  late,     \* [publisher -> how far its clock is behind]
  up,       \* the publishers that run
  timers,   \* [publisher -> timers of the tick that have run]
  round,    \* [publisher -> its TickState]
  link      \* [sender -> [receiver -> messages under way, oldest first]]

roundVars == <<clock, turn, late, up, timers, round, link>>

Body == {b \in SUBSET Publisher : Cardinality(b) >= Quorum}

EmptyRound ==
  [obs |-> {}, best |-> None, asked |-> FALSE, proposed |-> FALSE, pending |-> <<>>,
   derived |-> {}, signatures |-> {}, row |-> None, finalized |-> FALSE, sharedWith |-> {}]

\* The reading of p's clock.
Reading(p) == clock - late[p]

SlotOpens(rank) == rank * Deadline

-----------------------------------------------------------------------------
(* Handlers. A handler takes what p has so far, its state s and the messages *)
(* out it sends each peer, and returns what p has after it.                  *)

Silent == [q \in Publisher |-> <<>>]

Does(s, out) == [s |-> s, out |-> out]

Send(h, q, m) == [h EXCEPT !.out[q] = Append(@, m)]

Broadcast(p, h, m) ==
  [h EXCEPT !.out = [q \in Publisher |-> IF q = p THEN @[q] ELSE Append(@[q], m)]]

\* A peer still works on the finalized tick: it is sent the update, once.
Share(p, h, to) ==
  IF to = p \/ to \in h.s.sharedWith THEN h
  ELSE Send([h EXCEPT !.s.sharedWith = @ \cup {to}], to, [type |-> "update"])

TryFinalize(s, body) ==
  [s EXCEPT !.finalized =
     \/ @
     \/ body \in s.derived /\ Cardinality({q \in Publisher : <<q, body>> \in s.signatures}) >= Quorum]

OnSignature(p, h, from, body) ==
  IF h.s.finalized THEN Share(p, h, from)
  ELSE [h EXCEPT !.s = TryFinalize([@ EXCEPT !.signatures = @ \cup {<<from, body>>}], body)]

\* reserveSignature, then the signature goes to every publisher.
Sign(p, h, body) ==
  IF h.s.row \notin {None, body} THEN h
  ELSE OnSignature(p, Broadcast(p, [h EXCEPT !.s.row = body], [type |-> "signature", body |-> body]),
                   p, body)

\* The proposer, or who relayed the proposal, is asked for what is missing.
Request(p, h, to, missing) ==
  IF to = p THEN h ELSE Send(h, to, [type |-> "obs_request", of |-> missing])

OnProposal(p, h, from, proposal) ==
  LET best == IF h.s.best = None THEN TRUE ELSE proposal.rank < h.s.best.rank
      b == IF best THEN [h EXCEPT !.s.best = proposal] ELSE h
      missing == proposal.body \ h.s.obs
      waits == [b EXCEPT !.s.pending = Append(@, [from |-> from, proposal |-> proposal])]
      asked == Request(p, waits, from, missing)
      derived == [b EXCEPT !.s = TryFinalize([@ EXCEPT !.derived = @ \cup {proposal.body}], proposal.body)]
  IN IF h.s.finalized THEN Share(p, h, from)
     ELSE IF Reading(p) + Skew < SlotOpens(proposal.rank) THEN h
     ELSE IF missing = {} THEN Sign(p, derived, proposal.body)
     ELSE IF proposal.proposer = from THEN asked
     ELSE Request(p, asked, proposal.proposer, missing)

\* Leader of a rank whose slot is open by its own clock.
MayPropose(p, s, rank) ==
  ~s.finalized /\ Leading[rank + 1] = p /\ ~s.proposed /\ Reading(p) >= SlotOpens(rank)

\* Mutant: the first backup takes itself for the primary.
AsksFirstLater(s, rank) == rank > 1 /\ ~s.asked /\ s.best = None

\* A backup asks its peers first, unless it has seen a proposal.
AsksFirst(s, rank) == rank > 0 /\ ~s.asked /\ s.best = None

\* The best proposal seen, failing that the observations held, if they are a quorum.
MaybePropose(p, h) ==
  LET open == {r \in Rank : MayPropose(p, h.s, r)}
      rank == CHOOSE r \in open : TRUE
      body == IF h.s.best # None THEN h.s.best.body ELSE h.s.obs
      proposal == [rank |-> rank, proposer |-> p, body |-> body]
  IN IF open = {} THEN h
     ELSE IF AsksFirst(h.s, rank)
     THEN Broadcast(p, [h EXCEPT !.s.asked = TRUE], [type |-> "tick_request"])
     ELSE IF Cardinality(body) < Quorum THEN h
     ELSE OnProposal(p,
            Broadcast(p, [h EXCEPT !.s.proposed = TRUE], [type |-> "proposal", proposal |-> proposal]),
            p, proposal)

\* The primary proposes at once when it holds every observation.
ProposeEarly(p, h) == IF h.s.obs = Publisher /\ Leading[1] = p THEN MaybePropose(p, h) ELSE h

\* The proposals that waited are looked at again.
OnObservation(p, h, of) ==
  LET held == [h EXCEPT !.s.obs = @ \cup of, !.s.pending = <<>>]
      Again(g, waiting) == OnProposal(p, g, waiting.from, waiting.proposal)
  IN IF of \subseteq h.s.obs THEN h
     ELSE ProposeEarly(p, FoldLeft(Again, held, h.s.pending))

Observe(p, h) ==
  ProposeEarly(p, Broadcast(p, [h EXCEPT !.s.obs = @ \cup {p}], [type |-> "observation", of |-> {p}]))

\* What p holds of the tick, for a peer that asks.
Answer(h, from, of) == IF of = {} THEN h ELSE Send(h, from, [type |-> "observation", of |-> of])

OnTickRequest(h, from) ==
  LET answered == Answer(h, from, h.s.obs)
  IN IF h.s.best = None THEN answered
     ELSE Send(answered, from, [type |-> "proposal", proposal |-> h.s.best])

Receive(p, h, from, m) ==
  CASE m.type = "observation"  -> OnObservation(p, h, m.of)
    [] m.type = "proposal"     -> OnProposal(p, h, from, m.proposal)
    [] m.type = "signature"    -> OnSignature(p, h, from, m.body)
    [] m.type = "tick_request" -> OnTickRequest(h, from)
    [] m.type = "obs_request"  -> Answer(h, from, m.of \cap h.s.obs)
    [] m.type = "update"       -> [h EXCEPT !.s.finalized = TRUE]

-----------------------------------------------------------------------------
(* Steps *)

\* fire: when, after the tick, a timer of it runs. The first one observes, the
\* others call maybePropose.
Times ==
  {<<0, 0>>, <<IF Grace < Deadline THEN Grace ELSE Deadline, 1>>}
    \cup {<<r * Deadline, 2 * r>> : r \in 1..MaxRank}
    \cup {<<r * Deadline + Prepare, 2 * r + 1>> : r \in 1..MaxRank}

Due(p) == {t \in Times \ timers[p] : t[1] <= Reading(p)}

\* What a handler sends is under way to the peers that run.
Takes(p, h, before) ==
  /\ round' = [round EXCEPT ![p] = h.s]
  /\ link' = [before EXCEPT ![p] = [q \in Publisher |->
                IF q \in up
                THEN @[q] \o [k \in DOMAIN h.out[q] |-> [sent |-> clock, m |-> h.out[q][k]]]
                ELSE <<>>]]

Acts(p) == p \in up /\ Leading[turn] = p

Timer(p) ==
  /\ Acts(p)
  /\ \E t \in Due(p) :
       /\ \A u \in Due(p) : t[2] <= u[2]
       /\ timers' = [timers EXCEPT ![p] = @ \cup {t}]
       /\ LET h == Does(round[p], Silent)
          IN Takes(p, IF t[2] = 0 THEN Observe(p, h) ELSE MaybePropose(p, h), link)
  /\ UNCHANGED <<clock, turn, late, up>>

Deliver(p, q) ==
  /\ Acts(q)
  /\ link[p][q] # <<>> /\ Head(link[p][q]).sent < clock
  /\ Takes(q, Receive(q, Does(round[q], Silent), p, Head(link[p][q]).m),
           [link EXCEPT ![p][q] = Tail(@)])
  /\ UNCHANGED <<clock, turn, late, up, timers>>

\* A publisher ends; of what it sent each peer, the end is lost. A quorum remains.
Crash(p) ==
  /\ Acts(p)
  /\ Cardinality(up) > Quorum
  /\ up' = up \ {p}
  /\ \E kept \in [Publisher -> 0..Max({Len(link[p][q]) : q \in Publisher})] :
       /\ \A q \in Publisher : kept[q] <= Len(link[p][q])
       /\ link' = [x \in Publisher |-> [q \in Publisher |->
                     CASE q = p -> <<>>
                       [] x = p /\ q # p -> SubSeq(link[x][q], 1, kept[q])
                       [] OTHER -> link[x][q]]]
  /\ UNCHANGED <<clock, turn, late, timers, round>>

\* A turn ends when nothing is overdue; time passes after the last one.
EndTurn ==
  /\ clock < MaxTime
  /\ Leading[turn] \in up =>
       /\ Due(Leading[turn]) = {}
       /\ \A p \in Publisher : \A k \in DOMAIN link[p][Leading[turn]] :
            clock < link[p][Leading[turn]][k].sent + Delay
  /\ turn' = (turn % N) + 1
  /\ clock' = IF turn = N THEN clock + 1 ELSE clock
  /\ UNCHANGED <<late, up, timers, round, link>>

Init ==
  /\ clock = 0
  /\ turn = 1
  /\ late \in Clocks
  /\ up = Publisher
  /\ timers = [p \in Publisher |-> {}]
  /\ round = [p \in Publisher |-> EmptyRound]
  /\ link = [p \in Publisher |-> [q \in Publisher |-> <<>>]]

Next ==
  \/ EndTurn
  \/ \E p \in Publisher : Timer(p) \/ Crash(p) \/ \E q \in Publisher : Deliver(p, q)

Spec == Init /\ [][Next]_roundVars

-----------------------------------------------------------------------------
(* Properties *)

\* However late a leader crashes, and whatever of its messages arrived, the tick is
\* final by MaxTime: a backup finds what was proposed and signed, and gets the quorum
\* to sign the same (docs/oracle-design.md, section 5, Liveness; fire, maybePropose).
FinalInTime == clock = MaxTime => \E p \in up : round[p].finalized
=============================================================================
