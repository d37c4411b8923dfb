------------------------ MODULE PublisherNode_proofs ------------------------
(***************************************************************************)
(* What holds of PublisherNode for every key set, feed list and timing.    *)
(* Every variable keeps its type; no correct publisher signs two headers of*)
(* a tick, so no two headers of a tick are ever signed by a quorum, and the*)
(* publishers implement Finality; histories and feed states follow the     *)
(* chain of what was certified.                                            *)
(***************************************************************************)
EXTENDS PublisherNode, FiniteSetTheorems, WellFoundedInduction, TLAPS

-----------------------------------------------------------------------------
(* Types *)

LEMMA LastType ==
  ASSUME NEW S
  PROVE  Last(S) \in S \cup {0}
BY DEF Last

\* Everything TypeOK says of what handlers change.
DataOK ==
  /\ mem \in [Correct -> [Tick -> TickState]]
  /\ signing \in [Correct -> SUBSET SigningCall]
  /\ signed \in [Correct -> [Tick -> HeaderOrNone]]
  /\ final \in [Correct -> [Tick -> HeaderOrNone]]
  /\ feedTick \in [Correct -> [Feed -> Tick \cup {0}]]
  /\ msgs \subseteq Msg

LEMMA LatestType ==
  ASSUME NEW i
  PROVE  Latest(i) \in Tick \cup {0}
<1>1. Last(Finalized(i)) \in Finalized(i) \cup {0}
  BY LastType
<1> QED BY <1>1 DEF Latest, Finalized

LEMMA AnchorType ==
  ASSUME DataOK, NEW i \in Correct, NEW t \in Tick
  PROVE  Anchor(i, t) \in AnchorRecord
<1> DEFINE a == Last({u \in Finalized(i) : u <= t - 2 * Period})
<1>1. a \in Tick \cup {0}
  <2>1. a \in {u \in Finalized(i) : u <= t - 2 * Period} \cup {0}
    BY LastType
  <2> QED BY <2>1 DEF Finalized
<1>2. a # 0 => final[i][a] \in HeaderOrNone
  BY <1>1 DEF DataOK
<1>3. (IF a = 0 THEN None ELSE final[i][a]) \in HeaderOrNone
  BY <1>2 DEF HeaderOrNone
<1> QED BY <1>1, <1>3 DEF Anchor, AnchorRecord

LEMMA DeriveType ==
  ASSUME DataOK, NEW i \in Correct, NEW t \in Tick, NEW chosen \in ChosenViews
  PROVE  Derive(i, t, chosen) \in Header
<1> DEFINE fs == {g \in Feed : Cardinality(Pricing(g, chosen)) >= Quorum}
<1>1. PICK ps \in SUBSET Publisher : chosen \in [ps -> View]
  BY DEF ChosenViews
<1>2. ASSUME NEW f \in fs
      PROVE  [price |-> Aggregate([p \in Pricing(f, chosen) |-> chosen[p][f]]),
              num |-> Cardinality(Pricing(f, chosen)),
              prev |-> feedTick[i][f]] \in Message
  <2>1. Pricing(f, chosen) \subseteq Publisher
    BY <1>1 DEF Pricing
  <2>2. /\ IsFiniteSet(Pricing(f, chosen))
        /\ Cardinality(Pricing(f, chosen)) \in Nat
        /\ Cardinality(Pricing(f, chosen)) <= N
    BY <2>1, CommitteeAssumption, FS_Subset, FS_CardinalityType DEF N
  <2>3. Quorum \in Nat \ {0}
    BY CommitteeAssumption, FS_CardinalityType DEF Quorum, N
  <2>4. Cardinality(Pricing(f, chosen)) \in 1..N
    BY <2>2, <2>3, CommitteeAssumption, FS_CardinalityType DEF N
  <2>5. Pricing(f, chosen) # {}
    BY <2>4, FS_EmptySet
  <2>6. \A p \in Pricing(f, chosen) : chosen[p][f] \in Price
    BY <1>1, ViewAssumption DEF Pricing
  <2>7. Aggregate([p \in Pricing(f, chosen) |-> chosen[p][f]]) \in Price
    <3> DEFINE v == [p \in Pricing(f, chosen) |-> chosen[p][f]]
    <3>1. v \in [Pricing(f, chosen) -> Price]
      BY <2>6
    <3>2. Pricing(f, chosen) \in (SUBSET Publisher) \ {{}}
      BY <2>1, <2>5
    <3>3. v \in UNION {[qs -> Price] : qs \in (SUBSET Publisher) \ {{}}}
      BY <3>1, <3>2
    <3> QED BY <3>3, ViewAssumption
  <2>8. feedTick[i][f] \in Tick \cup {0}
    BY DEF DataOK
  <2> QED BY <2>4, <2>7, <2>8 DEF Message
<1>3. Derive(i, t, chosen).feeds \in [fs -> Message]
  BY <1>2 DEF Derive
<1> QED BY <1>3 DEF Derive, Header

-----------------------------------------------------------------------------
(* Types of the steps the handlers share *)

\* What a handler passes on: a tick's state, messages and calls.
Carried(s, out, calls) ==
  /\ s \in TickState
  /\ out \subseteq Msg
  /\ calls \subseteq SigningCall

LEMMA BecomeType ==
  ASSUME DataOK, NEW i \in Correct, NEW t \in Tick, NEW s, NEW out, NEW calls,
         Carried(s, out, calls), Become(i, t, s, out, calls)
  PROVE  /\ mem' \in [Correct -> [Tick -> TickState]]
         /\ signing' \in [Correct -> SUBSET SigningCall]
         /\ msgs' \subseteq Msg
BY DEF DataOK, Carried, Become

LEMMA SaveType ==
  ASSUME DataOK, NEW i \in Correct, NEW new \in SUBSET Header, Save(i, new)
  PROVE  /\ final' \in [Correct -> [Tick -> HeaderOrNone]]
         /\ feedTick' \in [Correct -> [Feed -> Tick \cup {0}]]
<1> DEFINE fresh == {h \in new : final[i][h.tick] = None}
           row(t) == IF \E h \in fresh : h.tick = t
                     THEN CHOOSE h \in fresh : h.tick = t ELSE final[i][t]
           of(f) == {feedTick[i][f]} \cup {h.tick : h \in {g \in fresh : f \in DOMAIN g.feeds}}
<1>1. final' = [final EXCEPT ![i] = [t \in Tick |-> row(t)]]
  BY DEF Save
<1>2. feedTick' = [feedTick EXCEPT ![i] = [f \in Feed |-> Last(of(f))]]
  BY DEF Save
<1>3. ASSUME NEW t \in Tick PROVE row(t) \in HeaderOrNone
  <2>1. CASE \E h \in fresh : h.tick = t
    <3>1. (CHOOSE h \in fresh : h.tick = t) \in fresh
      BY <2>1
    <3> QED BY <2>1, <3>1 DEF HeaderOrNone
  <2>2. CASE ~ \E h \in fresh : h.tick = t
    BY <2>2 DEF DataOK
  <2> QED BY <2>1, <2>2
<1>4. ASSUME NEW f \in Feed PROVE Last(of(f)) \in Tick \cup {0}
  <2>1. of(f) \subseteq Tick \cup {0}
    BY DEF DataOK, Header
  <2> QED BY <2>1, LastType
<1>5. final' \in [Correct -> [Tick -> HeaderOrNone]]
  <2> HIDE DEF row
  <2> QED BY <1>1, <1>3 DEF DataOK
<1>6. feedTick' \in [Correct -> [Feed -> Tick \cup {0}]]
  <2> HIDE DEF of
  <2> QED BY <1>2, <1>4 DEF DataOK
<1> QED BY <1>5, <1>6

LEMMA RequestType ==
  ASSUME NEW i
  PROVE  SyncRequest(i) \in Msg
BY LatestType DEF SyncRequest, Msg

LEMMA ShareType ==
  ASSUME DataOK, NEW i \in Correct, NEW t \in Tick
  PROVE  ShareFinalized(i, t) \subseteq Msg
<1>1. final[i][t] # None => {final[i][t]} \in SUBSET Header
  BY DEF DataOK, HeaderOrNone
<1> QED BY <1>1 DEF ShareFinalized, Msg

LEMMA DerivedType ==
  ASSUME DataOK, NEW i \in Correct, NEW h \in Header, NEW s, NEW out, NEW calls,
         Carried(s, out, calls), Derived(i, s, h, out, calls)
  PROVE  DataOK'
<1> DEFINE guard == IF Tolerable(s, h) /\ signed[i][h.tick] = None THEN h ELSE signed[i][h.tick]
           sign == IF Tolerable(s, h) /\ guard = h THEN {[op |-> "header", header |-> h]} ELSE {}
           r == [s EXCEPT !.derived = @ \cup {h}]
<1>1. h.tick \in Tick
  BY DEF Header
<1>2. r \in TickState
  BY DEF Carried, TickState
<1>3. sign \subseteq SigningCall
  BY DEF SigningCall
<1>4. guard \in HeaderOrNone
  BY <1>1 DEF DataOK, HeaderOrNone
<1> HIDE DEF guard, sign, r
<1>5. Carried(r, out, calls \cup sign)
  BY <1>2, <1>3 DEF Carried
<1>6. /\ Become(i, h.tick, r, out, calls \cup sign)
      /\ signed' = [signed EXCEPT ![i][h.tick] = guard]
      /\ UNCHANGED <<final, feedTick>>
  BY DEF Derived, r, guard, sign
<1>7. signed' \in [Correct -> [Tick -> HeaderOrNone]]
  BY <1>1, <1>4, <1>6 DEF DataOK
<1> QED BY <1>1, <1>5, <1>6, <1>7, BecomeType DEF DataOK

LEMMA OnProposalType ==
  ASSUME DataOK, NEW i \in Correct, NEW p \in Proposal, NEW s, NEW out, NEW calls,
         Carried(s, out, calls), OnProposal(i, s, p, out, calls)
  PROVE  DataOK'
<1> DEFINE t == p.tick
           b == [s EXCEPT !.best = Best(s, p)]
           h == Derive(i, t, p.chosen)
           asks == out \cup {SyncRequest(i)}
<1>1. t \in Tick /\ p.chosen \in ChosenViews
  BY DEF Proposal
<1>2. b \in TickState
  <2>1. Best(s, p) \in Proposal \cup {None}
    BY DEF Best, Carried, TickState
  <2> QED BY <2>1 DEF Carried, TickState
<1>3. [b EXCEPT !.pending = @ \cup {p}] \in TickState
  BY <1>2 DEF TickState
<1>4. Carried(s, asks, calls)
  BY RequestType DEF Carried
<1>5. h \in Header /\ h.tick = t
  BY <1>1, DeriveType DEF Derive
<1>6. CASE (Become(i, t, s, out, calls) \/ Become(i, t, s, asks, calls)) /\ UNCHANGED disk
  BY <1>1, <1>4, <1>6, BecomeType DEF DataOK, disk
<1>7. CASE Become(i, t, [b EXCEPT !.pending = @ \cup {p}], out, calls) /\ UNCHANGED disk
  <2>1. Carried([b EXCEPT !.pending = @ \cup {p}], out, calls)
    BY <1>3 DEF Carried
  <2> HIDE DEF b, t
  <2> QED BY <1>1, <1>7, <2>1, BecomeType DEF DataOK, disk
<1>8. CASE Become(i, t, b, out, calls) /\ UNCHANGED disk
  <2>1. Carried(b, out, calls)
    BY <1>2 DEF Carried
  <2> HIDE DEF b, t
  <2> QED BY <1>1, <1>8, <2>1, BecomeType DEF DataOK, disk
<1>9. CASE Derived(i, b, h, out, calls)
  <2>1. Carried(b, out, calls)
    BY <1>2 DEF Carried
  <2> HIDE DEF b, h
  <2> QED BY <1>5, <1>9, <2>1, DerivedType
<1>10. out \cup {} = out
  OBVIOUS
<1> QED BY <1>6, <1>7, <1>8, <1>9, <1>10 DEF OnProposal

LEMMA MaybeProposeType ==
  ASSUME DataOK, NEW i \in Correct, NEW t \in Tick, NEW s, NEW out, NEW calls,
         Carried(s, out, calls), MaybePropose(i, t, s, out, calls), UNCHANGED disk
  PROVE  DataOK'
<1>1. CASE Become(i, t, s, out, calls)
  BY <1>1, BecomeType DEF DataOK, disk
<1>2. ASSUME NEW r \in OpenRank(i, t, s),
             \/ Become(i, t, [s EXCEPT !.asked = TRUE], out, calls)
             \/ Become(i, t, s, out, calls)
             \/ /\ Become(i, t, [s EXCEPT !.proposed = @ \cup {r}], out,
                          calls \cup {[op |-> "proposal", proposal |-> Body(i, t, s, r)]})
                /\ s.best # None \/ Cardinality(Held(s)) >= Quorum
      PROVE  DataOK'
  <2>1. r \in Rank
    BY DEF OpenRank
  <2>2. Carried([s EXCEPT !.asked = TRUE], out, calls)
    BY DEF Carried, TickState
  <2>3. Body(i, t, s, r) \in Proposal
    <3>1. CASE s.best # None
      <4>1. s.best \in Proposal
        BY <3>1 DEF Carried, TickState
      <4> QED BY <2>1, <3>1, <4>1 DEF Body, Proposal, Correct
    <3>2. CASE s.best = None
      <4>1. [p \in Held(s) |-> s.obs[p]] \in [Held(s) -> View]
        BY DEF Carried, TickState, Held
      <4>2. [p \in Held(s) |-> s.obs[p]] \in ChosenViews
        BY <4>1 DEF ChosenViews, Held
      <4> QED BY <2>1, <3>2, <4>2, AnchorType, LatestType DEF Body, Proposal, Correct
    <3> QED BY <3>1, <3>2
  <2>4. Carried([s EXCEPT !.proposed = @ \cup {r}], out,
                calls \cup {[op |-> "proposal", proposal |-> Body(i, t, s, r)]})
    <3>1. [s EXCEPT !.proposed = @ \cup {r}] \in TickState
      BY <2>1 DEF Carried, TickState
    <3> QED BY <2>3, <3>1 DEF Carried, SigningCall
  <2> QED BY <1>2, <2>2, <2>4, BecomeType DEF DataOK, disk
<1> QED BY <1>1, <1>2 DEF MaybePropose

LEMMA ProposeEarlyType ==
  ASSUME DataOK, NEW i \in Correct, NEW t \in Tick, NEW s, NEW out, NEW calls,
         Carried(s, out, calls), ProposeEarly(i, t, s, out, calls), UNCHANGED disk
  PROVE  DataOK'
<1>1. CASE Become(i, t, s, out, calls)
  BY <1>1, BecomeType DEF DataOK, disk
<1>2. CASE MaybePropose(i, t, s, out, calls)
  BY <1>2, MaybeProposeType
<1> QED BY <1>1, <1>2 DEF ProposeEarly

-----------------------------------------------------------------------------
(* Types of each action *)

\* The fields of a suspended call and of a message, by kind.
LEMMA CallType ==
  ASSUME NEW c \in SigningCall
  PROVE  /\ c.op = "observation" => c.tick \in Tick /\ c.view \in View
         /\ c.op = "proposal" => c.proposal \in Proposal
         /\ c.op = "header" => c.header \in Header
<1>1. CASE c \in [op : {"observation"}, tick : Tick, view : View]
  BY <1>1
<1>2. CASE c \in [op : {"proposal"}, proposal : Proposal]
  BY <1>2
<1>3. CASE c \in [op : {"header"}, header : Header]
  BY <1>3
<1> QED BY <1>1, <1>2, <1>3 DEF SigningCall

LEMMA MsgType ==
  ASSUME NEW m \in Msg
  PROVE  /\ m.type = "proposal" => m.proposal \in Proposal
         /\ m.type = "signature" => m.from \in Publisher /\ m.header \in Header
         /\ m.type = "sync_response" => m.updates \in SUBSET Header
<1>1. CASE m \in [type : {"observation"}, from : Publisher, tick : Tick, view : View]
  BY <1>1
<1>2. CASE m \in [type : {"proposal"}, proposal : Proposal]
  BY <1>2
<1>3. CASE m \in [type : {"signature"}, from : Publisher, header : Header]
  BY <1>3
<1>4. CASE m \in [type : {"sync_request"}, after : Tick \cup {0}]
  BY <1>4
<1>5. CASE m \in [type : {"sync_response"}, updates : SUBSET Header]
  BY <1>5
<1> QED BY <1>1, <1>2, <1>3, <1>4, <1>5 DEF Msg

LEMMA InitType == Init => TypeOK
<1> SUFFICES ASSUME Init PROVE TypeOK
  OBVIOUS
<1>1. EmptyTick \in TickState
  BY DEF EmptyTick, TickState
<1>2. \A x : NextTick(x) \in Tick \cup {0}
  BY DEF NextTick
<1> QED BY <1>1, <1>2, Zenon DEF Init, TypeOK, HeaderOrNone

LEMMA FireType ==
  ASSUME TypeOK, NEW i \in Correct, Fire(i)
  PROVE  TypeOK'
<1> DEFINE t == armed[i]
<1>1. t \in Tick
  BY DEF TypeOK, Fire
<1>2. signing' \in [Correct -> SUBSET SigningCall]
  <2>1. PICK v \in Sees(i, t) :
          signing' = [signing EXCEPT ![i] = @ \cup
                        (IF v = None THEN {}
                         ELSE {[op |-> "observation", tick |-> t, view |-> v]})]
    BY DEF Fire
  <2>2. v \in View \cup {None}
    BY <1>1, ViewAssumption DEF Correct
  <2> QED BY <1>1, <2>1, <2>2 DEF TypeOK, SigningCall
<1>3. armed' \in [Correct -> Tick \cup {0}] /\ fired' \in [Correct -> SUBSET Tick]
  <2>1. NextTick(Now(i)) \in Tick \cup {0}
    BY DEF NextTick
  <2> QED BY <1>1, <2>1 DEF Fire, TypeOK
<1>4. msgs' \subseteq Msg
  BY RequestType DEF Fire, TypeOK
<1>5. mem' \in [Correct -> [Tick -> TickState]]
  <2>1. ASSUME NEW ticks PROVE Forget(i, ticks) \in [Tick -> TickState]
    <3>1. ASSUME NEW u \in Tick
          PROVE  [EmptyTick EXCEPT !.rerun = mem[i][u].rerun, !.early = mem[i][u].early] \in TickState
      <4>1. mem[i][u] \in TickState
        BY DEF TypeOK
      <4>2. EmptyTick \in TickState
        BY DEF EmptyTick, TickState
      <4> QED BY <4>1, <4>2 DEF TickState
    <3>2. \A u \in Tick : mem[i][u] \in TickState
      BY DEF TypeOK
    <3> HIDE DEF t
    <3> QED BY <3>1, <3>2 DEF Forget
  <2>2. \/ mem' = mem
        \/ \E ticks : mem' = [mem EXCEPT ![i] = Forget(i, ticks)]
    BY DEF Fire
  <2>3. mem \in [Correct -> [Tick -> TickState]]
    BY DEF TypeOK
  <2> QED BY <2>1, <2>2, <2>3
<1> QED BY <1>2, <1>3, <1>4, <1>5 DEF Fire, TypeOK, disk

\* The handlers that leave clock, timers and restarts alone.
LEMMA HandlerType ==
  ASSUME TypeOK, UNCHANGED <<now, restarts, armed, fired>>, DataOK'
  PROVE  TypeOK'
BY DEF TypeOK, DataOK

LEMMA TimerType ==
  ASSUME TypeOK, NEW i \in Correct, Timer(i)
  PROVE  TypeOK'
<1>1. PICK t \in fired[i] : MaybePropose(i, t, mem[i][t], {}, signing[i])
  BY DEF Timer
<1>2. DataOK /\ t \in Tick
  BY DEF TypeOK, DataOK
<1>3. Carried(mem[i][t], {}, signing[i])
  BY <1>2 DEF DataOK, Carried
<1>4. DataOK'
  BY <1>1, <1>2, <1>3, MaybeProposeType DEF Timer
<1> QED BY <1>4, HandlerType DEF Timer

LEMMA ObservationSignedType ==
  ASSUME TypeOK, NEW i \in Correct, ObservationSigned(i)
  PROVE  TypeOK'
<1>1. PICK c \in signing[i] :
        /\ c.op = "observation"
        /\ ProposeEarly(i, c.tick,
             [mem[i][c.tick] EXCEPT !.own = c.view, !.obs[i] = c.view],
             {[type |-> "observation", from |-> i, tick |-> c.tick, view |-> c.view]},
             signing[i] \ {c})
        /\ UNCHANGED <<now, restarts, armed, fired, disk>>
  BY DEF ObservationSigned
<1>2. DataOK
  BY DEF TypeOK, DataOK
<1>3. c.tick \in Tick /\ c.view \in View
  BY <1>1, <1>2, CallType DEF DataOK
<1>4. [mem[i][c.tick] EXCEPT !.own = c.view, !.obs[i] = c.view] \in TickState
  <2>1. mem[i][c.tick] \in TickState
    BY <1>2, <1>3 DEF DataOK
  <2> QED BY <1>3, <2>1 DEF TickState, Correct
<1>5. [type |-> "observation", from |-> i, tick |-> c.tick, view |-> c.view] \in Msg
  BY <1>3 DEF Msg, Correct
<1>6. Carried([mem[i][c.tick] EXCEPT !.own = c.view, !.obs[i] = c.view],
              {[type |-> "observation", from |-> i, tick |-> c.tick, view |-> c.view]},
              signing[i] \ {c})
  BY <1>2, <1>4, <1>5 DEF Carried, DataOK
<1>7. DataOK'
  BY <1>1, <1>2, <1>3, <1>6, ProposeEarlyType
<1> QED BY <1>1, <1>7, HandlerType

LEMMA ProposalSignedType ==
  ASSUME TypeOK, NEW i \in Correct, ProposalSigned(i)
  PROVE  TypeOK'
<1>1. PICK c \in signing[i] :
        /\ c.op = "proposal"
        /\ OnProposal(i, mem[i][c.proposal.tick], c.proposal,
             {[type |-> "proposal", proposal |-> c.proposal]}, signing[i] \ {c})
        /\ UNCHANGED <<now, restarts, armed, fired>>
  BY DEF ProposalSigned
<1>2. DataOK
  BY DEF TypeOK, DataOK
<1>3. c.proposal \in Proposal /\ c.proposal.tick \in Tick
  BY <1>1, <1>2, CallType DEF DataOK, Proposal
<1>4. Carried(mem[i][c.proposal.tick], {[type |-> "proposal", proposal |-> c.proposal]},
              signing[i] \ {c})
  BY <1>2, <1>3 DEF Carried, DataOK, Msg
<1>5. DataOK'
  BY <1>1, <1>2, <1>3, <1>4, OnProposalType
<1> QED BY <1>1, <1>5, HandlerType

LEMMA HeaderSignedType ==
  ASSUME TypeOK, NEW i \in Correct, HeaderSigned(i)
  PROVE  TypeOK'
<1>1. PICK c \in signing[i] :
        /\ c.op = "header"
        /\ signing' = [signing EXCEPT ![i] = @ \ {c}]
        /\ msgs' = msgs \cup {[type |-> "signature", from |-> i, header |-> c.header]}
        /\ UNCHANGED <<now, restarts, armed, fired, mem, disk>>
  BY DEF HeaderSigned
<1>2. c.header \in Header
  BY <1>1, CallType DEF TypeOK
<1>3. [type |-> "signature", from |-> i, header |-> c.header] \in Msg
  BY <1>2 DEF Msg, Correct
<1> QED BY <1>1, <1>3 DEF TypeOK, disk

LEMMA OnObservationType ==
  ASSUME TypeOK, NEW i \in Correct, OnObservation(i)
  PROVE  TypeOK'
<1> DEFINE held(t, q, v) == [mem[i][t] EXCEPT !.obs[q] = v]
           loop(t, q, v, p) == [held(t, q, v) EXCEPT !.pending = {}, !.early = TRUE,
                                  !.rerun = @ \cup (mem[i][t].pending \ {p})]
           Alone(t, q, v) == ProposeEarly(i, t, held(t, q, v), {}, signing[i]) /\ UNCHANGED disk
           Rerun(t, q, v, p) ==
             OnProposal(i, loop(t, q, v, p), p, ShareFinalized(i, t), signing[i])
<1>1. PICK t \in Tick, q \in Publisher, v \in View :
        Alone(t, q, v) \/ \E p \in mem[i][t].pending : Rerun(t, q, v, p)
  BY DEF OnObservation
<1>2. DataOK /\ mem[i][t] \in TickState
  BY DEF TypeOK, DataOK
<1>3. held(t, q, v) \in TickState
  BY <1>2 DEF TickState
<1>4. ASSUME Alone(t, q, v) PROVE DataOK'
  <2>1. Carried(held(t, q, v), {}, signing[i])
    BY <1>2, <1>3 DEF Carried, DataOK
  <2> HIDE DEF held
  <2> QED BY <1>2, <1>4, <2>1, ProposeEarlyType
<1>5. ASSUME NEW p \in mem[i][t].pending, Rerun(t, q, v, p)
      PROVE  DataOK'
  <2>1. p \in Proposal
    BY <1>2 DEF TickState
  <2>2. loop(t, q, v, p) \in TickState
    BY <1>2, <1>3 DEF TickState
  <2>3. Carried(loop(t, q, v, p), ShareFinalized(i, t), signing[i])
    BY <1>2, <2>2, ShareType DEF Carried, DataOK
  <2> HIDE DEF loop
  <2> QED BY <1>2, <1>5, <2>1, <2>3, OnProposalType
<1>6. DataOK'
  <2> HIDE DEF Alone, Rerun
  <2> QED BY <1>1, <1>4, <1>5
<1> QED BY <1>6, HandlerType DEF OnObservation

LEMMA ResumeType ==
  ASSUME TypeOK, NEW i \in Correct, Resume(i)
  PROVE  TypeOK'
<1> DEFINE left(t, p) == [mem[i][t] EXCEPT !.rerun = @ \ {p}]
           done(t) == [mem[i][t] EXCEPT !.early = FALSE]
           Rerun(t, p) == OnProposal(i, left(t, p), p, ShareFinalized(i, t), signing[i])
           Early(t) == ProposeEarly(i, t, done(t), {}, signing[i]) /\ UNCHANGED disk
<1>1. PICK t \in Tick : Early(t) \/ \E p \in mem[i][t].rerun : Rerun(t, p)
  BY DEF Resume
<1>2. DataOK /\ mem[i][t] \in TickState
  BY DEF TypeOK, DataOK
<1>3. ASSUME NEW p \in mem[i][t].rerun, Rerun(t, p)
      PROVE  DataOK'
  <2>1. p \in Proposal
    BY <1>2 DEF TickState
  <2>2. left(t, p) \in TickState
    BY <1>2 DEF TickState
  <2>3. Carried(left(t, p), ShareFinalized(i, t), signing[i])
    BY <1>2, <2>2, ShareType DEF Carried, DataOK
  <2> HIDE DEF left
  <2> QED BY <1>2, <1>3, <2>1, <2>3, OnProposalType
<1>4. ASSUME Early(t) PROVE DataOK'
  <2>1. done(t) \in TickState
    BY <1>2 DEF TickState
  <2>2. Carried(done(t), {}, signing[i])
    BY <1>2, <2>1 DEF Carried, DataOK
  <2> HIDE DEF done
  <2> QED BY <1>2, <1>4, <2>2, ProposeEarlyType
<1>5. DataOK'
  <2> HIDE DEF Early, Rerun
  <2> QED BY <1>1, <1>3, <1>4
<1> QED BY <1>5, HandlerType DEF Resume

LEMMA FaultyProposalType ==
  ASSUME DataOK
  PROVE  FaultyProposal \subseteq Proposal
<1> SUFFICES ASSUME NEW p \in FaultyProposal PROVE p \in Proposal
  OBVIOUS
<1>1. PICK t \in Tick :
        p \in [rank : Rank, proposer : Faulty, tick : {t},
              anchor : {Anchor(j, t) : j \in Correct},
              prev : {Latest(j) : j \in Correct},
              chosen : UNION {{c \in [ps -> View] : \A q \in ps : Sent(q, t, c[q])} :
                              ps \in FaultyPicks}]
  BY DEF FaultyProposal
<1>2. p.chosen \in ChosenViews
  <2>1. PICK ps \in FaultyPicks : p.chosen \in [ps -> View]
    BY <1>1
  <2>2. ps \in SUBSET Publisher
    BY CommitteeAssumption
  <2> QED BY <2>1, <2>2 DEF ChosenViews
<1>3. p.anchor \in AnchorRecord /\ p.prev \in Tick \cup {0}
  BY <1>1, AnchorType, LatestType
<1>4. p.proposer \in Publisher
  BY <1>1, CommitteeAssumption
<1> QED BY <1>1, <1>2, <1>3, <1>4 DEF Proposal

LEMMA ReceiveProposalType ==
  ASSUME TypeOK, NEW i \in Correct, ReceiveProposal(i)
  PROVE  TypeOK'
<1>1. DataOK
  BY DEF TypeOK, DataOK
<1>2. PICK p \in {m.proposal : m \in {k \in msgs : k.type = "proposal"}} \cup FaultyProposal :
        OnProposal(i, mem[i][p.tick], p, ShareFinalized(i, p.tick), signing[i])
  BY DEF ReceiveProposal
<1>3. p \in Proposal /\ p.tick \in Tick
  <2>1. {m.proposal : m \in {k \in msgs : k.type = "proposal"}} \subseteq Proposal
    BY <1>1, MsgType DEF DataOK
  <2> QED BY <1>1, <1>2, <2>1, FaultyProposalType DEF Proposal
<1>4. Carried(mem[i][p.tick], ShareFinalized(i, p.tick), signing[i])
  BY <1>1, <1>3, ShareType DEF Carried, DataOK
<1>5. DataOK'
  BY <1>1, <1>2, <1>3, <1>4, OnProposalType
<1> QED BY <1>5, HandlerType DEF ReceiveProposal

LEMMA OnSignatureType ==
  ASSUME TypeOK, NEW i \in Correct, OnSignature(i)
  PROVE  TypeOK'
<1>0. PICK t \in Tick : \E h \in mem[i][t].derived :
        mem' = [mem EXCEPT ![i][t].finalized = TRUE] /\ Save(i, {h})
  BY DEF OnSignature
<1>1. PICK h \in mem[i][t].derived :
        mem' = [mem EXCEPT ![i][t].finalized = TRUE] /\ Save(i, {h})
  BY <1>0
<1>2. DataOK /\ mem[i][t] \in TickState
  BY DEF TypeOK, DataOK
<1>3. {h} \in SUBSET Header
  BY <1>2 DEF TickState
<1>4. [mem[i][t] EXCEPT !.finalized = TRUE] \in TickState
  BY <1>2 DEF TickState
<1>5. mem' \in [Correct -> [Tick -> TickState]]
  BY <1>1, <1>2, <1>4 DEF DataOK
<1> QED BY <1>1, <1>2, <1>3, <1>5, SaveType DEF OnSignature, TypeOK

LEMMA OnSyncRequestType ==
  ASSUME TypeOK, NEW i \in Correct, OnSyncRequest(i)
  PROVE  TypeOK'
<1>1. PICK batch \in SUBSET Finalized(i) :
        msgs' = msgs \cup {[type |-> "sync_response", updates |-> {final[i][t] : t \in batch}]}
  BY DEF OnSyncRequest
<1>2. {final[i][t] : t \in batch} \in SUBSET Header
  BY DEF Finalized, TypeOK, HeaderOrNone
<1>3. [type |-> "sync_response", updates |-> {final[i][t] : t \in batch}] \in Msg
  BY <1>2 DEF Msg
<1> QED BY <1>1, <1>3 DEF OnSyncRequest, TypeOK, disk

LEMMA SignedHeadersType ==
  ASSUME DataOK
  PROVE  SignedHeaders \subseteq Header
BY MsgType DEF DataOK, SignedHeaders

LEMMA OnSyncResponseType ==
  ASSUME TypeOK, NEW i \in Correct, OnSyncResponse(i)
  PROVE  TypeOK'
<1>1. DataOK
  BY DEF TypeOK, DataOK
<1> DEFINE new(us) == {h \in us : Certified(h) /\ final[i][h.tick] = None}
           after(us) == [t \in Tick |-> IF t \in {h.tick : h \in new(us)}
                                       THEN [mem[i][t] EXCEPT !.finalized = TRUE] ELSE mem[i][t]]
<1>2. PICK us \in {m.updates : m \in {k \in msgs : k.type = "sync_response"}} \cup FaultyUpdate :
        mem' = [mem EXCEPT ![i] = after(us)] /\ Save(i, new(us))
  BY DEF OnSyncResponse
<1>3. us \in SUBSET Header
  <2>1. {m.updates : m \in {k \in msgs : k.type = "sync_response"}} \subseteq SUBSET Header
    BY <1>1, MsgType DEF DataOK
  <2>2. FaultyUpdate \subseteq SUBSET Header
    BY <1>1, SignedHeadersType DEF FaultyUpdate, SignedHeaders
  <2> QED BY <1>2, <2>1, <2>2
<1>4. new(us) \in SUBSET Header
  BY <1>3
<1>5. after(us) \in [Tick -> TickState]
  <2>1. ASSUME NEW t \in Tick PROVE [mem[i][t] EXCEPT !.finalized = TRUE] \in TickState
    <3>1. mem[i][t] \in TickState
      BY <1>1 DEF DataOK
    <3> QED BY <3>1 DEF TickState
  <2> QED BY <1>1, <2>1 DEF DataOK
<1>6. mem' \in [Correct -> [Tick -> TickState]]
  <2> HIDE DEF after
  <2> QED BY <1>1, <1>2, <1>5 DEF DataOK
<1>7. /\ final' \in [Correct -> [Tick -> HeaderOrNone]]
      /\ feedTick' \in [Correct -> [Feed -> Tick \cup {0}]]
  <2> HIDE DEF new, after
  <2> QED BY <1>1, <1>2, <1>4, SaveType
<1> QED BY <1>6, <1>7 DEF OnSyncResponse, TypeOK

LEMMA PrunedType ==
  ASSUME NEW i, NEW table \in [Tick -> HeaderOrNone]
  PROVE  Pruned(i, table) \in [Tick -> HeaderOrNone]
BY DEF Pruned, HeaderOrNone

LEMMA RestartType ==
  ASSUME TypeOK, NEW i \in Correct, Restart(i)
  PROVE  TypeOK'
<1>1. EmptyTick \in TickState
  BY DEF EmptyTick, TickState
<1>2. NextTick(Now(i)) \in Tick \cup {0}
  BY DEF NextTick
<1>3. /\ Pruned(i, final[i]) \in [Tick -> HeaderOrNone]
      /\ Pruned(i, signed[i]) \in [Tick -> HeaderOrNone]
  BY PrunedType DEF TypeOK
<1>4. SyncRequest(i) \in Msg
  BY RequestType
<1>5. mem' \in [Correct -> [Tick -> TickState]] /\ restarts' \in Nat
  BY <1>1 DEF Restart, TypeOK
<1>6. armed' \in [Correct -> Tick \cup {0}] /\ fired' \in [Correct -> SUBSET Tick]
  BY <1>2 DEF Restart, TypeOK
<1>7. /\ final' \in [Correct -> [Tick -> HeaderOrNone]]
      /\ signed' \in [Correct -> [Tick -> HeaderOrNone]]
      /\ signing' \in [Correct -> SUBSET SigningCall]
  BY <1>3 DEF Restart, TypeOK
<1> QED BY <1>4, <1>5, <1>6, <1>7 DEF Restart, TypeOK

LEMMA NextType == TypeOK /\ [Next]_vars => TypeOK'
<1> SUFFICES ASSUME TypeOK, [Next]_vars PROVE TypeOK'
  OBVIOUS
<1>1. CASE Advance
  BY <1>1 DEF Advance, TypeOK, disk
<1>2. ASSUME NEW i \in Correct, Step(i) PROVE TypeOK'
  <2>1. CASE Fire(i) BY <2>1, FireType
  <2>2. CASE Timer(i) BY <2>2, TimerType
  <2>3. CASE ObservationSigned(i) BY <2>3, ObservationSignedType
  <2>4. CASE ProposalSigned(i) BY <2>4, ProposalSignedType
  <2>5. CASE HeaderSigned(i) BY <2>5, HeaderSignedType
  <2>6. CASE OnObservation(i) BY <2>6, OnObservationType
  <2>7. CASE Resume(i) BY <2>7, ResumeType
  <2>8. CASE ReceiveProposal(i) BY <2>8, ReceiveProposalType
  <2>9. CASE OnSignature(i) BY <2>9, OnSignatureType
  <2>10. CASE OnLateSignature(i)
    <3>1. PICK t \in Tick : msgs' = msgs \cup ShareFinalized(i, t)
      BY <2>10 DEF OnLateSignature
    <3>2. ShareFinalized(i, t) \subseteq Msg
      BY ShareType DEF TypeOK, DataOK
    <3> QED BY <2>10, <3>1, <3>2 DEF OnLateSignature, TypeOK, disk
  <2>11. CASE OnSyncRequest(i) BY <2>11, OnSyncRequestType
  <2>12. CASE OnSyncResponse(i) BY <2>12, OnSyncResponseType
  <2>13. CASE Prune(i)
    <3>1. /\ Pruned(i, final[i]) \in [Tick -> HeaderOrNone]
          /\ Pruned(i, signed[i]) \in [Tick -> HeaderOrNone]
      BY PrunedType DEF TypeOK
    <3> QED BY <2>13, <3>1 DEF Prune, TypeOK
  <2>14. CASE Restart(i) BY <2>14, RestartType
  <2> QED BY <1>2, <2>1, <2>2, <2>3, <2>4, <2>5, <2>6, <2>7, <2>8, <2>9, <2>10,
             <2>11, <2>12, <2>13, <2>14 DEF Step
<1>3. CASE UNCHANGED vars
  BY <1>3 DEF vars, TypeOK
<1> QED BY <1>1, <1>2, <1>3 DEF Next

\* Every variable keeps its type: what handlers send, store and hand to the
\* signer is well formed whatever they receive.
THEOREM TypeCorrect == Spec => []TypeOK
<1>1. Init => TypeOK
  BY InitType
<1>2. TypeOK /\ [Next]_vars => TypeOK'
  BY NextType
<1> QED BY <1>1, <1>2, PTL DEF Spec

-----------------------------------------------------------------------------
(* Quorums *)

LEMMA QuorumType == N \in Nat \ {0} /\ Quorum \in Nat \ {0} /\ Cardinality(Faulty) \in Nat
<1>1. IsFiniteSet(Faulty)
  BY CommitteeAssumption, FS_Subset
<1> QED BY <1>1, CommitteeAssumption, FS_CardinalityType DEF Quorum, N

\* Two quorums share a correct publisher.
LEMMA QuorumIntersection ==
  ASSUME NEW A \in SUBSET Publisher, NEW B \in SUBSET Publisher,
         Cardinality(A) >= Quorum, Cardinality(B) >= Quorum
  PROVE  \E p \in Correct : p \in A /\ p \in B
<1>1. /\ IsFiniteSet(A) /\ Cardinality(A) \in Nat
      /\ IsFiniteSet(B) /\ Cardinality(B) \in Nat
  BY CommitteeAssumption, FS_Subset, FS_CardinalityType
<1>2. /\ IsFiniteSet(A \cap B) /\ Cardinality(A \cap B) \in Nat
      /\ IsFiniteSet(A \cup B) /\ Cardinality(A \cup B) \in Nat
      /\ Cardinality(A \cup B) = Cardinality(A) + Cardinality(B) - Cardinality(A \cap B)
  BY <1>1, FS_Union, FS_Intersection, FS_CardinalityType
<1>3. Cardinality(A \cup B) <= N
  <2>1. A \cup B \subseteq Publisher
    OBVIOUS
  <2> QED BY <2>1, CommitteeAssumption, FS_Subset DEF N
<1>4. Cardinality(A \cap B) > Cardinality(Faulty)
  BY <1>1, <1>2, <1>3, QuorumType, CommitteeAssumption DEF Quorum, N
<1>5. ~(A \cap B \subseteq Faulty)
  <2> SUFFICES ASSUME A \cap B \subseteq Faulty PROVE FALSE
    OBVIOUS
  <2>1. IsFiniteSet(Faulty)
    BY CommitteeAssumption, FS_Subset
  <2>2. Cardinality(A \cap B) <= Cardinality(Faulty)
    BY <2>1, FS_Subset
  <2> QED BY <1>2, <1>4, <2>2, QuorumType
<1> QED BY <1>5 DEF Correct

Signers(h) == {p \in Publisher : HasSigned(p, h)}

LEMMA CertifiedSame ==
  ASSUME NEW g, NEW h, Certified(g), Certified(h)
  PROVE  \E p \in Correct : g \in Promised(p) /\ h \in Promised(p)
<1>1. PICK p \in Correct : HasSigned(p, g) /\ HasSigned(p, h)
  BY QuorumIntersection DEF Certified
<1>2. /\ [type |-> "signature", from |-> p, header |-> g] \in msgs
      /\ [type |-> "signature", from |-> p, header |-> h] \in msgs
  BY <1>1 DEF HasSigned, Correct
<1> QED BY <1>2 DEF Promised

\* At most one header of a tick is certified, because no correct publisher signs two.
LEMMA UniqueFromGuard == NoDoubleSign => UniqueHeader
BY CertifiedSame DEF NoDoubleSign, UniqueHeader, CertifiedHeaders

\* Signatures are never taken back.
LEMMA CertifiedStays ==
  ASSUME msgs \subseteq msgs', NEW h, Certified(h)
  PROVE  Certified(h)'
<1>1. Signers(h) \subseteq Signers(h)'
  BY DEF Signers, HasSigned
<1>2. IsFiniteSet(Signers(h)') /\ IsFiniteSet(Signers(h))
  BY CommitteeAssumption, FS_Subset DEF Signers
<1>3. Cardinality(Signers(h)) <= Cardinality(Signers(h)')
  BY <1>1, <1>2, FS_Subset
<1>4. Cardinality(Signers(h)) \in Nat /\ Cardinality(Signers(h)') \in Nat
  BY <1>2, FS_CardinalityType
<1> QED BY <1>3, <1>4, QuorumType DEF Certified, Signers

-----------------------------------------------------------------------------
(* What a handler does to a publisher's promises *)

SentHeaders(i) == {m.header : m \in {k \in msgs : k.type = "signature" /\ k.from = i}}

HeaderCalls(calls) == {c.header : c \in {k \in calls : k.op = "header"}}

NoSignature(out) == \A m \in out : m.type # "signature"

\* A handler of publisher i that runs with at most its suspended header calls.
Quiet(i, out, calls) == NoSignature(out) /\ HeaderCalls(calls) \subseteq HeaderCalls(signing[i])

\* Nothing more is promised and the guard is as it was.
Silent(i) ==
  /\ Promised(i)' \subseteq Promised(i)
  /\ signed'[i] = signed[i]

\* Publisher i derives h from its own history, for a tick it has not passed.
DerivedHere(i, h) == ~Passed(i, h.tick) /\ \E chosen : h = Derive(i, h.tick, chosen)

\* One header of a tick that can be signed is promised and guarded.
Promises(i) ==
  \E h \in Header :
    /\ DerivedHere(i, h)
    /\ h.tick >= Now(i) - MaxSigningLag
    /\ signed[i][h.tick] \in {None, h}
    /\ signed'[i] = [signed[i] EXCEPT ![h.tick] = h]
    /\ Promised(i)' \subseteq Promised(i) \cup {h}

Others(i) ==
  \A j \in Correct \ {i} : Promised(j)' = Promised(j) /\ signed'[j] = signed[j]

\* Every step but pruning and the clock.
Effect(i) == Others(i) /\ (Silent(i) \/ Promises(i)) /\ UNCHANGED now

\* Rows of the guard may go, and promises with them.
Prunes(i) ==
  /\ signed' = [signed EXCEPT ![i] = Pruned(i, @)]
  /\ Promised(i)' \subseteq Promised(i)
  /\ \A j \in Correct \ {i} : Promised(j)' = Promised(j)
  /\ UNCHANGED now

LEMMA PromisedIs ==
  ASSUME NEW i
  PROVE  Promised(i) = SentHeaders(i) \cup HeaderCalls(signing[i])
BY DEF Promised, SentHeaders, HeaderCalls

LEMMA SendPromises ==
  ASSUME TypeOK, NEW i \in Correct, NEW out, NEW calls, NoSignature(out),
         msgs' = msgs \cup out, signing' = [signing EXCEPT ![i] = calls]
  PROVE  /\ Promised(i)' = SentHeaders(i) \cup HeaderCalls(calls)
         /\ \A j \in Correct \ {i} : Promised(j)' = Promised(j)
<1>1. ASSUME NEW j PROVE SentHeaders(j)' = SentHeaders(j)
  <2>1. {k \in msgs' : k.type = "signature" /\ k.from = j}
          = {k \in msgs : k.type = "signature" /\ k.from = j}
    BY DEF NoSignature
  <2> QED BY <2>1 DEF SentHeaders
<1>2. signing'[i] = calls /\ \A j \in Correct \ {i} : signing'[j] = signing[j]
  BY DEF TypeOK
<1>3. ASSUME NEW j PROVE Promised(j)' = SentHeaders(j)' \cup HeaderCalls(signing'[j])
  BY DEF Promised, SentHeaders, HeaderCalls
<1> QED BY <1>1, <1>2, <1>3, PromisedIs

LEMMA BecomePromises ==
  ASSUME TypeOK, NEW i \in Correct, NEW t, NEW s, NEW out, NEW calls,
         NoSignature(out), Become(i, t, s, out, calls)
  PROVE  /\ Promised(i)' = SentHeaders(i) \cup HeaderCalls(calls)
         /\ \A j \in Correct \ {i} : Promised(j)' = Promised(j)
BY SendPromises DEF Become

LEMMA SilentEffect ==
  ASSUME NEW i \in Correct, Promised(i)' \subseteq Promised(i),
         \A j \in Correct \ {i} : Promised(j)' = Promised(j), UNCHANGED <<signed, now>>
  PROVE  Effect(i)
<1>1. Silent(i)
  BY DEF Silent
<1>2. Others(i)
  BY DEF Others
<1> QED BY <1>1, <1>2 DEF Effect

LEMMA SendEffect ==
  ASSUME TypeOK, NEW i \in Correct, NEW out, NEW calls, Quiet(i, out, calls),
         msgs' = msgs \cup out, signing' = [signing EXCEPT ![i] = calls],
         UNCHANGED <<signed, now>>
  PROVE  Effect(i)
<1>1. NoSignature(out) /\ HeaderCalls(calls) \subseteq HeaderCalls(signing[i])
  BY DEF Quiet
<1>2. /\ Promised(i)' = SentHeaders(i) \cup HeaderCalls(calls)
      /\ \A j \in Correct \ {i} : Promised(j)' = Promised(j)
  BY <1>1, SendPromises
<1>3. Promised(i)' \subseteq Promised(i)
  BY <1>1, <1>2, PromisedIs
<1> QED BY <1>2, <1>3, SilentEffect

LEMMA HeaderCallAdded ==
  ASSUME NEW calls, NEW h
  PROVE  HeaderCalls(calls \cup {[op |-> "header", header |-> h]}) = HeaderCalls(calls) \cup {h}
<1> DEFINE c == [op |-> "header", header |-> h]
<1>1. {k \in calls \cup {c} : k.op = "header"} = {k \in calls : k.op = "header"} \cup {c}
  OBVIOUS
<1>2. c.header = h
  OBVIOUS
<1> HIDE DEF c
<1> QED BY <1>1, <1>2 DEF HeaderCalls, c

LEMMA QuietEffect ==
  ASSUME TypeOK, NEW i \in Correct, NEW t, NEW s, NEW out, NEW calls,
         Quiet(i, out, calls), Become(i, t, s, out, calls), UNCHANGED <<signed, now>>
  PROVE  Effect(i)
<1>1. NoSignature(out) /\ HeaderCalls(calls) \subseteq HeaderCalls(signing[i])
  BY DEF Quiet
<1>2. /\ Promised(i)' = SentHeaders(i) \cup HeaderCalls(calls)
      /\ \A j \in Correct \ {i} : Promised(j)' = Promised(j)
  BY <1>1, BecomePromises
<1>3. Promised(i)' \subseteq Promised(i)
  BY <1>1, <1>2, PromisedIs
<1> QED BY <1>2, <1>3, SilentEffect

LEMMA DerivedEffect ==
  ASSUME TypeOK, NEW i \in Correct, NEW h \in Header, NEW s, NEW out, NEW calls,
         Quiet(i, out, calls), Derived(i, s, h, out, calls), UNCHANGED now,
         h.tick >= Now(i) - MaxSigningLag, DerivedHere(i, h)
  PROVE  Effect(i)
<1> DEFINE guard == IF Tolerable(s, h) /\ signed[i][h.tick] = None THEN h ELSE signed[i][h.tick]
           sign == IF Tolerable(s, h) /\ guard = h THEN {[op |-> "header", header |-> h]} ELSE {}
           r == [s EXCEPT !.derived = @ \cup {h}]
<1>1. h.tick \in Tick
  BY DEF Header
<1>2. /\ Become(i, h.tick, r, out, calls \cup sign)
      /\ signed' = [signed EXCEPT ![i][h.tick] = guard]
  BY DEF Derived
<1>3. /\ Promised(i)' = SentHeaders(i) \cup HeaderCalls(calls \cup sign)
      /\ \A j \in Correct \ {i} : Promised(j)' = Promised(j)
  <2> HIDE DEF r, sign
  <2> QED BY <1>2, BecomePromises DEF Quiet
<1>4. Others(i) /\ signed'[i] = [signed[i] EXCEPT ![h.tick] = guard]
  <2> HIDE DEF guard
  <2> QED BY <1>1, <1>2, <1>3 DEF Others, TypeOK
<1>5. CASE Tolerable(s, h) /\ guard = h
  <2>1. HeaderCalls(calls \cup sign) = HeaderCalls(calls) \cup {h}
    BY <1>5, HeaderCallAdded
  <2>2. Promised(i)' \subseteq Promised(i) \cup {h}
    BY <1>3, <2>1, PromisedIs DEF Quiet
  <2>3. signed[i][h.tick] \in {None, h}
    BY <1>5
  <2> HIDE DEF guard, sign
  <2> QED BY <1>4, <1>5, <2>2, <2>3 DEF Effect, Promises
<1>6. CASE ~(Tolerable(s, h) /\ guard = h)
  <2>1. sign = {} /\ guard = signed[i][h.tick]
    BY <1>6
  <2>2. Promised(i)' \subseteq Promised(i)
    BY <1>3, <2>1, PromisedIs DEF Quiet
  <2>3. signed'[i] = signed[i]
    <3> HIDE DEF guard
    <3> QED BY <1>1, <1>4, <2>1 DEF TypeOK
  <2> QED BY <1>4, <2>2, <2>3 DEF Effect, Silent
<1> QED BY <1>5, <1>6

LEMMA OnProposalEffect ==
  ASSUME TypeOK, NEW i \in Correct, NEW p \in Proposal, NEW s, NEW out, NEW calls,
         Quiet(i, out, calls), OnProposal(i, s, p, out, calls), UNCHANGED now
  PROVE  Effect(i)
<1> DEFINE t == p.tick
           b == [s EXCEPT !.best = Best(s, p)]
           h == Derive(i, t, p.chosen)
           asks == out \cup {SyncRequest(i)}
<1>1. Quiet(i, asks, calls)
  BY DEF Quiet, NoSignature, SyncRequest
<1>2. CASE (\/ Become(i, t, s, out, calls)
            \/ Become(i, t, s, asks, calls)
            \/ Become(i, t, [b EXCEPT !.pending = @ \cup {p}], out, calls)
            \/ Become(i, t, b, out, calls)) /\ UNCHANGED disk
  <2> HIDE DEF t, b, asks
  <2> QED BY <1>1, <1>2, QuietEffect DEF disk
<1>3. CASE Admissible(i, p) /\ ~Passed(i, t) /\ Derived(i, b, h, out, calls)
  <2>1. h \in Header /\ h.tick = t
    <3>1. DataOK /\ t \in Tick /\ p.chosen \in ChosenViews
      BY DEF TypeOK, DataOK, Proposal
    <3> QED BY <3>1, DeriveType DEF Derive
  <2>2. t >= Now(i) - MaxSigningLag
    BY <1>3 DEF Admissible, SlotOk
  <2>3. DerivedHere(i, h)
    <3>1. h = Derive(i, h.tick, p.chosen)
      BY <2>1
    <3> HIDE DEF h, t
    <3> QED BY <1>3, <2>1, <3>1 DEF DerivedHere
  <2> HIDE DEF b, h, t
  <2> QED BY <1>3, <2>1, <2>2, <2>3, DerivedEffect
<1>4. out \cup {} = out
  OBVIOUS
<1> QED BY <1>2, <1>3, <1>4 DEF OnProposal

LEMMA MaybeProposeEffect ==
  ASSUME TypeOK, NEW i \in Correct, NEW t, NEW s, NEW out, NEW calls,
         Quiet(i, out, calls), MaybePropose(i, t, s, out, calls), UNCHANGED <<signed, now>>
  PROVE  Effect(i)
<1>1. ASSUME NEW p PROVE Quiet(i, out, calls \cup {[op |-> "proposal", proposal |-> p]})
  BY DEF Quiet, HeaderCalls
<1> QED BY <1>1, QuietEffect DEF MaybePropose

LEMMA ProposeEarlyEffect ==
  ASSUME TypeOK, NEW i \in Correct, NEW t, NEW s, NEW out, NEW calls,
         Quiet(i, out, calls), ProposeEarly(i, t, s, out, calls), UNCHANGED <<signed, now>>
  PROVE  Effect(i)
BY MaybeProposeEffect, QuietEffect DEF ProposeEarly

-----------------------------------------------------------------------------
(* The effect of each action *)

LEMMA FireEffect ==
  ASSUME TypeOK, NEW i \in Correct, Fire(i)
  PROVE  Effect(i)
<1>1. PICK v \in Sees(i, armed[i]) :
        signing' = [signing EXCEPT ![i] = @ \cup
                      (IF v = None THEN {}
                       ELSE {[op |-> "observation", tick |-> armed[i], view |-> v]})]
  BY DEF Fire
<1> DEFINE asked == IF (Cardinality(fired[i] \cup {armed[i]})) % SyncEvery = 0
                    THEN {SyncRequest(i)} ELSE {}
           more == IF v = None THEN {}
                   ELSE {[op |-> "observation", tick |-> armed[i], view |-> v]}
<1>2. msgs' = msgs \cup asked
  BY DEF Fire
<1>3. signing' = [signing EXCEPT ![i] = signing[i] \cup more]
  BY <1>1 DEF TypeOK
<1>4. NoSignature(asked)
  BY DEF NoSignature, SyncRequest
<1>5. HeaderCalls(signing[i] \cup more) \subseteq HeaderCalls(signing[i])
  BY DEF HeaderCalls
<1>6. UNCHANGED <<signed, now>>
  BY DEF Fire, disk
<1> HIDE DEF asked, more
<1> QED BY <1>2, <1>3, <1>4, <1>5, <1>6, SendEffect DEF Quiet

LEMMA TimerEffect ==
  ASSUME TypeOK, NEW i \in Correct, Timer(i)
  PROVE  Effect(i)
<1>1. Quiet(i, {}, signing[i])
  BY DEF Quiet, NoSignature
<1> QED BY <1>1, MaybeProposeEffect DEF Timer, disk

LEMMA ObservationSignedEffect ==
  ASSUME TypeOK, NEW i \in Correct, ObservationSigned(i)
  PROVE  Effect(i)
<1> DEFINE out(c) == {[type |-> "observation", from |-> i, tick |-> c.tick, view |-> c.view]}
           s(c) == [mem[i][c.tick] EXCEPT !.own = c.view, !.obs[i] = c.view]
<1>1. PICK c \in signing[i] : ProposeEarly(i, c.tick, s(c), out(c), signing[i] \ {c})
  BY DEF ObservationSigned
<1>2. Quiet(i, out(c), signing[i] \ {c})
  BY DEF Quiet, NoSignature, HeaderCalls
<1>3. UNCHANGED <<signed, now>>
  BY DEF ObservationSigned, disk
<1> HIDE DEF out, s
<1> QED BY <1>1, <1>2, <1>3, ProposeEarlyEffect

LEMMA ProposalSignedEffect ==
  ASSUME TypeOK, NEW i \in Correct, ProposalSigned(i)
  PROVE  Effect(i)
<1> DEFINE out(c) == {[type |-> "proposal", proposal |-> c.proposal]}
<1>1. PICK c \in signing[i] :
        /\ c.op = "proposal"
        /\ OnProposal(i, mem[i][c.proposal.tick], c.proposal, out(c), signing[i] \ {c})
  BY DEF ProposalSigned
<1>2. Quiet(i, out(c), signing[i] \ {c})
  BY DEF Quiet, NoSignature, HeaderCalls
<1>3. c.proposal \in Proposal /\ UNCHANGED now
  BY <1>1, CallType DEF TypeOK, ProposalSigned
<1> HIDE DEF out
<1> QED BY <1>1, <1>2, <1>3, OnProposalEffect

LEMMA HeaderSignedEffect ==
  ASSUME TypeOK, NEW i \in Correct, HeaderSigned(i)
  PROVE  Effect(i)
<1>1. PICK c \in signing[i] :
        /\ c.op = "header"
        /\ signing' = [signing EXCEPT ![i] = @ \ {c}]
        /\ msgs' = msgs \cup {[type |-> "signature", from |-> i, header |-> c.header]}
  BY DEF HeaderSigned
<1>2. signing'[i] = signing[i] \ {c} /\ \A j \in Correct \ {i} : signing'[j] = signing[j]
  BY <1>1 DEF TypeOK
<1>3. SentHeaders(i)' \subseteq SentHeaders(i) \cup {c.header}
  BY <1>1 DEF SentHeaders
<1>4. \A j \in Correct \ {i} : SentHeaders(j)' = SentHeaders(j)
  <2> TAKE j \in Correct \ {i}
  <2>1. {k \in msgs' : k.type = "signature" /\ k.from = j}
          = {k \in msgs : k.type = "signature" /\ k.from = j}
    BY <1>1
  <2> QED BY <2>1 DEF SentHeaders
<1>5. c.header \in HeaderCalls(signing[i])
  BY <1>1 DEF HeaderCalls
<1>6. ASSUME NEW j PROVE Promised(j)' = SentHeaders(j)' \cup HeaderCalls(signing'[j])
  BY DEF Promised, SentHeaders, HeaderCalls
<1>7. Promised(i)' \subseteq Promised(i)
  <2>1. HeaderCalls(signing[i] \ {c}) \subseteq HeaderCalls(signing[i])
    BY DEF HeaderCalls
  <2> QED BY <1>2, <1>3, <1>5, <1>6, <2>1, PromisedIs
<1> QED BY <1>2, <1>4, <1>6, <1>7, PromisedIs DEF Effect, Others, Silent, HeaderSigned, disk

LEMMA OnObservationEffect ==
  ASSUME TypeOK, NEW i \in Correct, OnObservation(i)
  PROVE  Effect(i)
<1> DEFINE held(t, q, v) == [mem[i][t] EXCEPT !.obs[q] = v]
           loop(t, q, v, p) == [held(t, q, v) EXCEPT !.pending = {}, !.early = TRUE,
                                  !.rerun = @ \cup (mem[i][t].pending \ {p})]
           Alone(t, q, v) == ProposeEarly(i, t, held(t, q, v), {}, signing[i]) /\ UNCHANGED disk
           Rerun(t, q, v, p) ==
             OnProposal(i, loop(t, q, v, p), p, ShareFinalized(i, t), signing[i])
<1>1. PICK t \in Tick, q \in Publisher, v \in View :
        Alone(t, q, v) \/ \E p \in mem[i][t].pending : Rerun(t, q, v, p)
  BY DEF OnObservation
<1>2. Quiet(i, {}, signing[i]) /\ Quiet(i, ShareFinalized(i, t), signing[i])
  BY DEF Quiet, NoSignature, ShareFinalized
<1>3. UNCHANGED now
  BY DEF OnObservation
<1>4. ASSUME Alone(t, q, v) PROVE Effect(i)
  <2> HIDE DEF held
  <2> QED BY <1>2, <1>3, <1>4, ProposeEarlyEffect DEF disk
<1>5. ASSUME NEW p \in mem[i][t].pending, Rerun(t, q, v, p) PROVE Effect(i)
  <2>1. p \in Proposal
    <3>1. mem[i][t] \in TickState
      BY DEF TypeOK
    <3> QED BY <3>1 DEF TickState
  <2> HIDE DEF loop
  <2> QED BY <1>2, <1>3, <1>5, <2>1, OnProposalEffect
<1> HIDE DEF Alone, Rerun
<1> QED BY <1>1, <1>4, <1>5

LEMMA ResumeEffect ==
  ASSUME TypeOK, NEW i \in Correct, Resume(i)
  PROVE  Effect(i)
<1> DEFINE left(t, p) == [mem[i][t] EXCEPT !.rerun = @ \ {p}]
           done(t) == [mem[i][t] EXCEPT !.early = FALSE]
           Rerun(t, p) == OnProposal(i, left(t, p), p, ShareFinalized(i, t), signing[i])
           Early(t) == ProposeEarly(i, t, done(t), {}, signing[i]) /\ UNCHANGED disk
<1>1. PICK t \in Tick : Early(t) \/ \E p \in mem[i][t].rerun : Rerun(t, p)
  BY DEF Resume
<1>2. Quiet(i, {}, signing[i]) /\ Quiet(i, ShareFinalized(i, t), signing[i])
  BY DEF Quiet, NoSignature, ShareFinalized
<1>3. UNCHANGED now
  BY DEF Resume
<1>4. ASSUME Early(t) PROVE Effect(i)
  <2> HIDE DEF done
  <2> QED BY <1>2, <1>3, <1>4, ProposeEarlyEffect DEF disk
<1>5. ASSUME NEW p \in mem[i][t].rerun, Rerun(t, p) PROVE Effect(i)
  <2>1. p \in Proposal
    <3>1. mem[i][t] \in TickState
      BY DEF TypeOK
    <3> QED BY <3>1 DEF TickState
  <2> HIDE DEF left
  <2> QED BY <1>2, <1>3, <1>5, <2>1, OnProposalEffect
<1> HIDE DEF Early, Rerun
<1> QED BY <1>1, <1>4, <1>5

LEMMA ReceiveProposalEffect ==
  ASSUME TypeOK, NEW i \in Correct, ReceiveProposal(i)
  PROVE  Effect(i)
<1>1. PICK p \in {m.proposal : m \in {k \in msgs : k.type = "proposal"}} \cup FaultyProposal :
        OnProposal(i, mem[i][p.tick], p, ShareFinalized(i, p.tick), signing[i])
  BY DEF ReceiveProposal
<1>2. p \in Proposal
  <2>1. DataOK
    BY DEF TypeOK, DataOK
  <2>2. {m.proposal : m \in {k \in msgs : k.type = "proposal"}} \subseteq Proposal
    BY MsgType DEF TypeOK
  <2> QED BY <2>1, <2>2, FaultyProposalType
<1>3. Quiet(i, ShareFinalized(i, p.tick), signing[i])
  BY DEF Quiet, NoSignature, ShareFinalized
<1>4. UNCHANGED now
  BY DEF ReceiveProposal
<1> QED BY <1>1, <1>2, <1>3, <1>4, OnProposalEffect

LEMMA AnswerEffect ==
  ASSUME TypeOK, NEW i \in Correct,
         OnSignature(i) \/ OnLateSignature(i) \/ OnSyncRequest(i) \/ OnSyncResponse(i)
  PROVE  Effect(i)
<1>1. UNCHANGED <<now, signed, signing>>
  BY DEF OnSignature, OnLateSignature, OnSyncRequest, OnSyncResponse, disk
<1>2. \E out : NoSignature(out) /\ msgs' = msgs \cup out
  <2>1. CASE OnSignature(i) \/ OnSyncResponse(i)
    <3>1. NoSignature({}) /\ msgs' = msgs \cup {}
      BY <2>1 DEF OnSignature, OnSyncResponse, NoSignature
    <3> QED BY <3>1
  <2>2. CASE OnLateSignature(i)
    <3>1. PICK t \in Tick : msgs' = msgs \cup ShareFinalized(i, t)
      BY <2>2 DEF OnLateSignature
    <3>2. NoSignature(ShareFinalized(i, t))
      BY DEF NoSignature, ShareFinalized
    <3> QED BY <3>1, <3>2
  <2>3. CASE OnSyncRequest(i)
    <3>1. PICK us : msgs' = msgs \cup {[type |-> "sync_response", updates |-> us]}
      BY <2>3 DEF OnSyncRequest
    <3>2. NoSignature({[type |-> "sync_response", updates |-> us]})
      BY DEF NoSignature
    <3> QED BY <3>1, <3>2
  <2> QED BY <2>1, <2>2, <2>3
<1>3. signing' = [signing EXCEPT ![i] = signing[i]]
  BY <1>1 DEF TypeOK
<1> QED BY <1>1, <1>2, <1>3, SendEffect DEF Quiet

\* A step promises one derived header, or nothing, or it prunes.
LEMMA StepEffect ==
  ASSUME TypeOK, NEW i \in Correct, Step(i)
  PROVE  Effect(i) \/ Prunes(i)
<1>1. CASE Fire(i) BY <1>1, FireEffect
<1>2. CASE Timer(i) BY <1>2, TimerEffect
<1>3. CASE ObservationSigned(i) BY <1>3, ObservationSignedEffect
<1>4. CASE ProposalSigned(i) BY <1>4, ProposalSignedEffect
<1>5. CASE HeaderSigned(i) BY <1>5, HeaderSignedEffect
<1>6. CASE OnObservation(i) BY <1>6, OnObservationEffect
<1>7. CASE Resume(i) BY <1>7, ResumeEffect
<1>8. CASE ReceiveProposal(i) BY <1>8, ReceiveProposalEffect
<1>9. CASE OnSignature(i) \/ OnLateSignature(i) \/ OnSyncRequest(i) \/ OnSyncResponse(i)
  BY <1>9, AnswerEffect
<1>10. CASE Prune(i)
  <2>1. \A j : Promised(j)' = Promised(j)
    BY <1>10 DEF Prune, Promised
  <2> QED BY <1>10, <2>1 DEF Prune, Prunes
<1>11. CASE Restart(i)
  <2> DEFINE out == {SyncRequest(i)}
  <2>1. NoSignature(out)
    BY DEF NoSignature, SyncRequest
  <2>2. msgs' = msgs \cup out /\ signing' = [signing EXCEPT ![i] = {}]
    BY <1>11 DEF Restart
  <2>3. /\ Promised(i)' = SentHeaders(i) \cup HeaderCalls({})
        /\ \A j \in Correct \ {i} : Promised(j)' = Promised(j)
    <3> HIDE DEF out
    <3> QED BY <2>1, <2>2, SendPromises
  <2>4. Promised(i)' \subseteq Promised(i)
    BY <2>3, PromisedIs DEF HeaderCalls
  <2> QED BY <1>11, <2>3, <2>4 DEF Restart, Prunes
<1> QED BY <1>1, <1>2, <1>3, <1>4, <1>5, <1>6, <1>7, <1>8, <1>9, <1>10, <1>11 DEF Step

-----------------------------------------------------------------------------
(* Every step keeps the promises guarded *)

Guarded == GuardKept /\ NoDoubleSign

LEMMA PromisedType ==
  ASSUME TypeOK, NEW i \in Correct
  PROVE  Promised(i) \subseteq Header
<1>1. SentHeaders(i) \subseteq Header
  BY MsgType DEF TypeOK, SentHeaders
<1>2. HeaderCalls(signing[i]) \subseteq Header
  BY CallType DEF TypeOK, HeaderCalls
<1> QED BY <1>1, <1>2, PromisedIs

LEMMA NowType == TypeOK => \A i \in Correct : Now(i) \in Int
BY TimeAssumption DEF TypeOK, Now, Correct

LEMMA PromiseGuarded ==
  ASSUME TypeOK, Guarded, NEW i \in Correct, Promises(i), UNCHANGED now
  PROVE  /\ \A h \in Promised(i)' : signed'[i][h.tick] = h \/ h.tick < Now(i)' - MaxSigningLag
         /\ \A g, h \in Promised(i)' : g.tick = h.tick => g = h
<1>1. PICK n \in Header :
        /\ n.tick >= Now(i) - MaxSigningLag
        /\ signed[i][n.tick] \in {None, n}
        /\ signed'[i] = [signed[i] EXCEPT ![n.tick] = n]
        /\ Promised(i)' \subseteq Promised(i) \cup {n}
  BY DEF Promises
<1>2. n.tick \in Tick /\ n.tick \in Int /\ MaxSigningLag \in Int /\ Now(i) \in Int
  <2>1. n.tick \in Tick
    BY DEF Header
  <2>2. Tick \subseteq Int /\ MaxSigningLag \in Int
    BY TimeAssumption
  <2> QED BY <2>1, <2>2, NowType
<1>3. Now(i)' = Now(i)
  BY DEF Now
<1>4. signed[i] \in [Tick -> HeaderOrNone]
  BY DEF TypeOK
<1>5. ASSUME NEW g \in Promised(i), g.tick = n.tick PROVE g = n
  <2>1. g \in Header /\ g # None
    BY PromisedType, NoneAssumption
  <2>2. signed[i][g.tick] = g
    BY <1>1, <1>2, <1>5 DEF Guarded, GuardKept
  <2> QED BY <1>1, <1>5, <2>1, <2>2
<1>6. ASSUME NEW h \in Promised(i)'
      PROVE  signed'[i][h.tick] = h \/ h.tick < Now(i) - MaxSigningLag
  <2>1. CASE h.tick = n.tick
    <3>1. h = n
      BY <1>1, <1>5, <2>1
    <3> QED BY <1>1, <1>2, <1>4, <3>1
  <2>2. CASE h.tick # n.tick
    <3>1. h \in Promised(i) /\ h.tick \in Tick
      BY <1>1, <2>2, PromisedType DEF Header
    <3> QED BY <1>1, <1>4, <2>2, <3>1 DEF Guarded, GuardKept
  <2> QED BY <2>1, <2>2
<1>7. ASSUME NEW g \in Promised(i)', NEW h \in Promised(i)', g.tick = h.tick PROVE g = h
  BY <1>1, <1>5, <1>7 DEF Guarded, NoDoubleSign
<1> QED BY <1>3, <1>6, <1>7

LEMMA EffectKeeps ==
  ASSUME TypeOK, Guarded, NEW i \in Correct, Effect(i)
  PROVE  Guarded'
<1>1. \A j : Now(j)' = Now(j)
  BY DEF Effect, Now
<1>2. ASSUME NEW j \in Correct
      PROVE  /\ \A h \in Promised(j)' : signed'[j][h.tick] = h \/ h.tick < Now(j)' - MaxSigningLag
             /\ \A g, h \in Promised(j)' : g.tick = h.tick => g = h
  <2>1. CASE Promised(j)' \subseteq Promised(j) /\ signed'[j] = signed[j]
    BY <1>1, <2>1 DEF Guarded, GuardKept, NoDoubleSign
  <2>2. CASE j = i /\ Promises(i)
    BY <2>2, PromiseGuarded DEF Effect
  <2> QED BY <2>1, <2>2 DEF Effect, Others, Silent
<1> QED BY <1>2 DEF Guarded, GuardKept, NoDoubleSign

\* What is deleted from signed_ticks can no longer be signed.
LEMMA PruneKeeps ==
  ASSUME RetentionSafe, TypeOK, Guarded, NEW i \in Correct, Prunes(i)
  PROVE  Guarded'
<1>1. \A j : Now(j)' = Now(j)
  BY DEF Prunes, Now
<1>2. /\ signed'[i] = Pruned(i, signed[i])
      /\ \A j \in Correct \ {i} : signed'[j] = signed[j]
  BY DEF Prunes, TypeOK
<1>3. \A j \in Correct : Promised(j)' \subseteq Promised(j)
  BY DEF Prunes
<1>4. ASSUME NEW h \in Promised(i)
      PROVE  signed'[i][h.tick] = h \/ h.tick < Now(i) - MaxSigningLag
  <2>1. h.tick \in Tick
    BY PromisedType DEF Header
  <2>2. signed[i][h.tick] = h \/ h.tick < Now(i) - MaxSigningLag
    BY DEF Guarded, GuardKept
  <2>3. h.tick \in Int /\ Now(i) \in Int /\ MaxSigningLag \in Int /\ Retention \in Int
    <3>1. Tick \subseteq Int /\ MaxSigningLag \in Int /\ Retention \in Int
      BY TimeAssumption
    <3> QED BY <2>1, <3>1, NowType
  <2>4. CASE Retention # 0 /\ h.tick < Now(i) - Retention
    BY <2>3, <2>4 DEF RetentionSafe
  <2>5. CASE ~(Retention # 0 /\ h.tick < Now(i) - Retention)
    BY <1>2, <2>1, <2>2, <2>5 DEF Pruned
  <2> QED BY <2>4, <2>5
<1> QED BY <1>1, <1>2, <1>3, <1>4 DEF Guarded, GuardKept, NoDoubleSign

LEMMA GuardInit == Init => Guarded
<1> SUFFICES ASSUME Init PROVE \A i \in Correct : Promised(i) = {}
  BY DEF Guarded, GuardKept, NoDoubleSign
<1> QED BY DEF Init, Promised

LEMMA GuardNext == RetentionSafe /\ TypeOK /\ Guarded /\ [Next]_vars => Guarded'
<1> SUFFICES ASSUME RetentionSafe, TypeOK, Guarded, [Next]_vars PROVE Guarded'
  OBVIOUS
<1>1. CASE Advance
  <2>1. \A i : Promised(i)' = Promised(i)
    BY <1>1 DEF Advance, Promised
  <2>2. \A i \in Correct : Now(i) \in Int /\ Now(i)' = Now(i) + 1
    BY <1>1, TimeAssumption, NowType DEF Now, Advance, TypeOK, Correct
  <2>3. MaxSigningLag \in Int /\ Tick \subseteq Int
    BY TimeAssumption
  <2>4. \A i \in Correct : \A h \in Promised(i) : h.tick \in Int
    BY <2>3, PromisedType DEF Header
  <2>5. signed' = signed
    BY <1>1 DEF Advance, disk
  <2> QED BY <2>1, <2>2, <2>3, <2>4, <2>5 DEF Guarded, GuardKept, NoDoubleSign
<1>2. ASSUME NEW i \in Correct, Step(i) PROVE Guarded'
  BY <1>2, StepEffect, EffectKeeps, PruneKeeps
<1>3. CASE UNCHANGED vars
  <2>1. \A i : Promised(i)' = Promised(i) /\ Now(i)' = Now(i)
    BY <1>3 DEF vars, Promised, Now
  <2> QED BY <1>3, <2>1 DEF vars, disk, Guarded, GuardKept, NoDoubleSign
<1> QED BY <1>1, <1>2, <1>3 DEF Next

\* A correct publisher signs one header per tick, and the row that keeps it from
\* signing another outlives the window in which it would, through every crash,
\* pruning and order of messages, when history is kept that long
\* (reserveSignature, prune).
THEOREM SignOnce == ASSUME RetentionSafe PROVE Spec => [](GuardKept /\ NoDoubleSign)
<1>1. Init => TypeOK /\ Guarded
  BY InitType, GuardInit
<1>2. TypeOK /\ Guarded /\ [Next]_vars => TypeOK' /\ Guarded'
  BY NextType, GuardNext
<1>3. Guarded => GuardKept /\ NoDoubleSign
  BY DEF Guarded
<1> QED BY <1>1, <1>2, <1>3, PTL DEF Spec

\* As long as a tick can be signed, the row of the header signed for it is in
\* signed_ticks: pruning deletes no guard that is still needed (prune).
THEOREM GuardHeld == ASSUME RetentionSafe PROVE Spec => []GuardKept
BY SignOnce, PTL

\* No two headers of a tick are ever provable as the committee's, with any number
\* of publishers of which fewer than a third are faulty.
THEOREM OneHeaderPerTick == ASSUME RetentionSafe PROVE Spec => []UniqueHeader
<1>1. NoDoubleSign => UniqueHeader
  BY UniqueFromGuard
<1> QED BY <1>1, SignOnce, PTL

-----------------------------------------------------------------------------
(* Finalized headers are certified *)

\* Nothing is stored but what a quorum signed, and nothing sent is taken back.
Stored(i) ==
  \/ UNCHANGED <<final, feedTick>>
  \/ final' = [final EXCEPT ![i] = Pruned(i, @)] /\ UNCHANGED feedTick
  \/ \E new \in SUBSET Header : Save(i, new) /\ \A h \in new : Certified(h)

LEMMA SaveIs ==
  ASSUME TypeOK, NEW i \in Correct, NEW new, Save(i, new), NEW j \in Correct, NEW t \in Tick
  PROVE  \/ final'[j][t] = final[j][t]
         \/ /\ j = i /\ final[i][t] = None
            /\ \E h \in new : h.tick = t /\ final'[i][t] = h
<1> DEFINE fresh == {h \in new : final[i][h.tick] = None}
           row == [u \in Tick |-> IF \E h \in fresh : h.tick = u
                                  THEN CHOOSE h \in fresh : h.tick = u ELSE final[i][u]]
<1>1. final' = [final EXCEPT ![i] = row]
  BY DEF Save, TypeOK
<1>2. CASE j # i
  <2> HIDE DEF row
  <2> QED BY <1>1, <1>2 DEF TypeOK
<1>3. CASE j = i
  <2>1. final'[j] = row
    <3> HIDE DEF row
    <3> QED BY <1>1, <1>3 DEF TypeOK
  <2>2. final'[j][t] = IF \E h \in fresh : h.tick = t
                       THEN CHOOSE h \in fresh : h.tick = t ELSE final[i][t]
    BY <2>1
  <2>3. CASE \E h \in fresh : h.tick = t
    <3>1. PICK h \in fresh : h.tick = t /\ final'[j][t] = h
      BY <2>2, <2>3
    <3> QED BY <1>3, <3>1
  <2>4. CASE ~\E h \in fresh : h.tick = t
    BY <1>3, <2>2, <2>4
  <2> QED BY <2>3, <2>4
<1> QED BY <1>2, <1>3

LEMMA PruneIs ==
  ASSUME TypeOK, NEW i \in Correct, final' = [final EXCEPT ![i] = Pruned(i, @)],
         NEW j \in Correct, NEW t \in Tick
  PROVE  final'[j][t] = final[j][t] \/ (j = i /\ final'[j][t] = None)
<1>1. final'[j] = IF j = i THEN Pruned(i, final[i]) ELSE final[j]
  BY DEF TypeOK
<1>2. Pruned(i, final[i])[t] \in {None, final[i][t]}
  BY DEF Pruned
<1> QED BY <1>1, <1>2

LEMMA StoredCertified ==
  ASSUME TypeOK, FinalCertified, NEW i \in Correct, Stored(i), msgs \subseteq msgs'
  PROVE  FinalCertified'
<1> SUFFICES ASSUME NEW j \in Correct, NEW t \in Tick, (final[j][t] # None)'
             PROVE  (final[j][t].tick = t /\ Certified(final[j][t]))'
  BY DEF FinalCertified
<1>1. \/ final'[j][t] = final[j][t]
      \/ final'[j][t] = None
      \/ \E h : h.tick = t /\ final'[j][t] = h /\ Certified(h)
  BY SaveIs, PruneIs DEF Stored
<1>2. PICK h : final'[j][t] = h /\ h.tick = t /\ Certified(h)
  BY <1>1 DEF FinalCertified
<1>3. Certified(h)'
  BY <1>2, CertifiedStays
<1> QED BY <1>2, <1>3 DEF Certified, HasSigned

LEMMA StepStores ==
  ASSUME TypeOK, NEW i \in Correct, Step(i)
  PROVE  Stored(i)
<1>1. CASE Fire(i) \/ Timer(i) \/ HeaderSigned(i) \/ OnLateSignature(i) \/ OnSyncRequest(i)
  <2>1. UNCHANGED disk
    BY <1>1 DEF Fire, Timer, HeaderSigned, OnLateSignature, OnSyncRequest
  <2>2. UNCHANGED <<final, feedTick>>
    BY <2>1 DEF disk
  <2> QED BY <2>2 DEF Stored
<1>2. CASE ObservationSigned(i)
  BY <1>2 DEF ObservationSigned, disk, Stored
<1>3. ASSUME NEW s, NEW p, NEW out, NEW calls, OnProposal(i, s, p, out, calls)
      PROVE  UNCHANGED <<final, feedTick>>
  BY <1>3 DEF OnProposal, Derived, disk
<1>4. CASE ProposalSigned(i) \/ OnObservation(i) \/ Resume(i) \/ ReceiveProposal(i)
  <2>1. CASE ProposalSigned(i)
    BY <1>3, <2>1 DEF ProposalSigned, Stored
  <2>2. CASE OnObservation(i)
    BY <1>3, <2>2 DEF OnObservation, disk, Stored
  <2>3. CASE Resume(i)
    BY <1>3, <2>3 DEF Resume, disk, Stored
  <2>4. CASE ReceiveProposal(i)
    BY <1>3, <2>4 DEF ReceiveProposal, Stored
  <2> QED BY <1>4, <2>1, <2>2, <2>3, <2>4
<1>5. CASE OnSignature(i)
  <2>0. PICK t \in Tick : \E h \in mem[i][t].derived : Certified(h) /\ Save(i, {h})
    BY <1>5 DEF OnSignature
  <2>1. PICK h \in mem[i][t].derived : Certified(h) /\ Save(i, {h})
    BY <2>0
  <2>2. h \in Header
    <3>1. mem[i][t] \in TickState
      BY DEF TypeOK
    <3> QED BY <2>1, <3>1 DEF TickState
  <2> QED BY <2>1, <2>2 DEF Stored
<1>6. CASE OnSyncResponse(i)
  <2> DEFINE new(us) == {h \in us : Certified(h) /\ final[i][h.tick] = None}
  <2>1. PICK us \in {m.updates : m \in {k \in msgs : k.type = "sync_response"}} \cup FaultyUpdate :
          Save(i, new(us))
    BY <1>6 DEF OnSyncResponse
  <2>2. us \subseteq Header
    <3>1. DataOK
      BY DEF TypeOK, DataOK
    <3>2. {m.updates : m \in {k \in msgs : k.type = "sync_response"}} \subseteq SUBSET Header
      BY <3>1, MsgType DEF DataOK
    <3>3. FaultyUpdate \subseteq SUBSET Header
      BY <3>1, SignedHeadersType DEF FaultyUpdate, SignedHeaders
    <3> QED BY <2>1, <3>2, <3>3
  <2>3. new(us) \in SUBSET Header /\ \A h \in new(us) : Certified(h)
    BY <2>2
  <2> HIDE DEF new
  <2> QED BY <2>1, <2>3 DEF Stored
<1>7. CASE Prune(i) \/ Restart(i)
  BY <1>7 DEF Prune, Restart, Stored
<1> QED BY <1>1, <1>2, <1>4, <1>5, <1>6, <1>7 DEF Step

LEMMA StepSends ==
  ASSUME NEW i \in Correct, Step(i)
  PROVE  msgs \subseteq msgs'
<1>1. ASSUME NEW t, NEW s, NEW out, NEW calls, Become(i, t, s, out, calls)
      PROVE  msgs \subseteq msgs'
  BY <1>1 DEF Become
<1>2. ASSUME NEW t, NEW s, NEW out, NEW calls, ProposeEarly(i, t, s, out, calls)
      PROVE  msgs \subseteq msgs'
  BY <1>1, <1>2 DEF ProposeEarly, MaybePropose
<1>3. ASSUME NEW s, NEW p, NEW out, NEW calls, OnProposal(i, s, p, out, calls)
      PROVE  msgs \subseteq msgs'
  BY <1>1, <1>3 DEF OnProposal, Derived
<1>4. CASE Fire(i) \/ HeaderSigned(i) \/ OnLateSignature(i) \/ OnSyncRequest(i)
             \/ OnSignature(i) \/ OnSyncResponse(i) \/ Prune(i) \/ Restart(i)
  BY <1>4 DEF Fire, HeaderSigned, OnLateSignature, OnSyncRequest, OnSignature, OnSyncResponse,
              Prune, Restart
<1>5. CASE Timer(i)
  BY <1>1, <1>5 DEF Timer, MaybePropose
<1>6. CASE ObservationSigned(i) \/ ProposalSigned(i) \/ ReceiveProposal(i)
  BY <1>2, <1>3, <1>6 DEF ObservationSigned, ProposalSigned, ReceiveProposal
<1>7. CASE OnObservation(i) \/ Resume(i)
  BY <1>2, <1>3, <1>7 DEF OnObservation, Resume
<1> QED BY <1>4, <1>5, <1>6, <1>7 DEF Step

LEMMA CertifiedNext == TypeOK /\ FinalCertified /\ [Next]_vars => FinalCertified'
<1> SUFFICES ASSUME TypeOK, FinalCertified, [Next]_vars PROVE FinalCertified'
  OBVIOUS
<1>1. ASSUME NEW i \in Correct, Step(i) PROVE FinalCertified'
  BY <1>1, StepStores, StepSends, StoredCertified
<1>2. ASSUME UNCHANGED <<final, msgs>> PROVE FinalCertified'
  BY <1>2, CertifiedStays DEF FinalCertified
<1> QED BY <1>1, <1>2 DEF Next, Advance, disk, vars

\* Whatever a publisher stores as finalized, a quorum signed (tryFinalize,
\* acceptFinalized).
THEOREM StoresCertified == Spec => []FinalCertified
<1>1. Init => TypeOK /\ FinalCertified
  BY InitType DEF Init, FinalCertified
<1>2. TypeOK /\ FinalCertified /\ [Next]_vars => TypeOK' /\ FinalCertified'
  BY NextType, CertifiedNext
<1> QED BY <1>1, <1>2, PTL DEF Spec

-----------------------------------------------------------------------------
(* Finality: a header a quorum signed is chosen once, and a publisher's      *)
(* history only takes in chosen headers and loses old ones                   *)

Inv == TypeOK /\ Guarded /\ FinalCertified

LEMMA InvNext == RetentionSafe /\ Inv /\ [Next]_vars => Inv'
BY NextType, GuardNext, CertifiedNext DEF Inv

LEMMA InvUnique == Inv => UniqueHeader
BY UniqueFromGuard DEF Inv, Guarded

-----------------------------------------------------------------------------
(* The chosen header *)

Signatures == {k \in msgs : k.type = "signature"}

LEMMA ChosenFunction ==
  /\ Chosen = [t \in Tick |-> Chosen[t]]
  /\ Chosen' = [t \in Tick |-> Chosen'[t]]
BY DEF Chosen

\* Only signatures choose.
LEMMA ChosenStays ==
  ASSUME UNCHANGED Signatures
  PROVE  Chosen' = Chosen
<1>1. SignedHeaders' = SignedHeaders
  BY DEF SignedHeaders, Signatures
<1>2. ASSUME NEW p, NEW h PROVE HasSigned(p, h)' <=> HasSigned(p, h)
  BY DEF HasSigned, Signatures
<1>3. ASSUME NEW h PROVE Certified(h)' <=> Certified(h)
  <2>1. {p \in Publisher : HasSigned(p, h)}' = {p \in Publisher : HasSigned(p, h)}
    BY <1>2
  <2> QED BY <2>1 DEF Certified
<1>4. CertifiedHeaders' = CertifiedHeaders
  BY <1>1, <1>3 DEF CertifiedHeaders
<1>5. ASSUME NEW t \in Tick PROVE Chosen'[t] = Chosen[t]
  <2>1. CertifiedAt(t)' = CertifiedAt(t)
    BY <1>4 DEF CertifiedAt
  <2> QED BY <2>1 DEF Chosen
<1> QED BY <1>5, ChosenFunction

\* A certified header is signed by a correct publisher, so it is in msgs.
LEMMA CertifiedSigned ==
  ASSUME NEW h, Certified(h)
  PROVE  h \in CertifiedHeaders
<1>1. PICK p \in Correct : HasSigned(p, h)
  BY QuorumIntersection DEF Certified
<1>2. h \in SignedHeaders
  BY <1>1 DEF HasSigned, Correct, SignedHeaders
<1> QED BY <1>2 DEF CertifiedHeaders

LEMMA ChosenIs ==
  ASSUME Inv, NEW t \in Tick, NEW h \in CertifiedAt(t)
  PROVE  Chosen[t] = h
<1>1. \A g \in CertifiedAt(t) : g = h
  BY InvUnique DEF UniqueHeader, CertifiedAt
<1> QED BY <1>1 DEF Chosen

-----------------------------------------------------------------------------
(* Steps that send no signature *)

LEMMA StepSignatures ==
  ASSUME NEW i \in Correct, Step(i), ~HeaderSigned(i)
  PROVE  UNCHANGED Signatures
<1>1. ASSUME NEW out, NoSignature(out), msgs' = msgs \cup out
      PROVE  UNCHANGED Signatures
  BY <1>1 DEF NoSignature, Signatures
<1>2. ASSUME NEW t, NEW s, NEW out, NEW calls, NoSignature(out), Become(i, t, s, out, calls)
      PROVE  UNCHANGED Signatures
  BY <1>1, <1>2 DEF Become
<1>3. ASSUME NEW t, NEW s, NEW out, NEW calls, NoSignature(out), MaybePropose(i, t, s, out, calls)
      PROVE  UNCHANGED Signatures
  BY <1>2, <1>3 DEF MaybePropose
<1>4. ASSUME NEW t, NEW s, NEW out, NEW calls, NoSignature(out), ProposeEarly(i, t, s, out, calls)
      PROVE  UNCHANGED Signatures
  BY <1>2, <1>3, <1>4 DEF ProposeEarly
<1>5. ASSUME NEW s, NEW p, NEW out, NEW calls, NoSignature(out), OnProposal(i, s, p, out, calls)
      PROVE  UNCHANGED Signatures
  <2>1. NoSignature(out \cup {SyncRequest(i)}) /\ NoSignature(out \cup {})
    BY <1>5 DEF NoSignature, SyncRequest
  <2> QED BY <1>2, <1>5, <2>1 DEF OnProposal, Derived
<1>6. \A t : NoSignature(ShareFinalized(i, t)) /\ NoSignature({}) /\ NoSignature({SyncRequest(i)})
  BY DEF NoSignature, ShareFinalized, SyncRequest
<1>7. CASE Fire(i)
  BY <1>1, <1>6, <1>7 DEF Fire
<1>8. CASE Timer(i)
  BY <1>3, <1>6, <1>8 DEF Timer
<1>9. CASE ObservationSigned(i)
  <2>1. \A c : NoSignature({[type |-> "observation", from |-> i, tick |-> c.tick, view |-> c.view]})
    BY DEF NoSignature
  <2> QED BY <1>4, <1>9, <2>1 DEF ObservationSigned
<1>10. CASE ProposalSigned(i)
  <2>1. \A c : NoSignature({[type |-> "proposal", proposal |-> c.proposal]})
    BY DEF NoSignature
  <2> QED BY <1>5, <1>10, <2>1 DEF ProposalSigned
<1>11. CASE OnObservation(i)
  BY <1>4, <1>5, <1>6, <1>11 DEF OnObservation
<1>12. CASE Resume(i)
  BY <1>4, <1>5, <1>6, <1>12 DEF Resume
<1>13. CASE ReceiveProposal(i)
  BY <1>5, <1>6, <1>13 DEF ReceiveProposal
<1>14. CASE OnSignature(i) \/ OnSyncResponse(i) \/ Prune(i)
  BY <1>14 DEF OnSignature, OnSyncResponse, Prune, Signatures
<1>15. CASE OnLateSignature(i) \/ Restart(i)
  BY <1>1, <1>6, <1>15 DEF OnLateSignature, Restart
<1>16. CASE OnSyncRequest(i)
  BY <1>16 DEF OnSyncRequest, Signatures
<1> QED BY <1>7, <1>8, <1>9, <1>10, <1>11, <1>12, <1>13, <1>14, <1>15, <1>16 DEF Step

-----------------------------------------------------------------------------
(* Every step is one of Finality, or none *)

\* Storing certified headers, pruning, or neither.
LEMMA StoredIsFinality ==
  ASSUME Inv, NEW i \in Correct, Stored(i), UNCHANGED Chosen
  PROVE  [F!Next]_<<Chosen, final>>
<1> DEFINE row == [t \in Tick |-> final'[i][t]]
<1>1. TypeOK
  BY DEF Inv
<1>2. CASE UNCHANGED final
  BY <1>2
<1>3. CASE final' = [final EXCEPT ![i] = Pruned(i, @)] /\ final' # final
  <2>1. \A t \in Tick : final'[i][t] \in {final[i][t], None}
    BY <1>1, <1>3, PruneIs
  <2>2. final' = [final EXCEPT ![i] = row] /\ final'[i] # final[i]
    BY <1>1, <1>3 DEF TypeOK, Pruned
  <2>3. F!Drop(i)
    BY <2>1, <2>2 DEF F!Drop, F!Rewrite
  <2> QED BY <2>3 DEF F!Next
<1>4. ASSUME NEW new \in SUBSET Header, Save(i, new), \A h \in new : Certified(h),
             final' # final
      PROVE  F!Next
  <2>1. ASSUME NEW t \in Tick
        PROVE  final'[i][t] = final[i][t] \/ (final[i][t] = None /\ final'[i][t] = Chosen[t])
    <3>1. CASE \E h \in new : h.tick = t /\ final'[i][t] = h /\ final[i][t] = None
      <4>1. PICK h \in new : h.tick = t /\ final'[i][t] = h /\ final[i][t] = None
        BY <3>1
      <4>2. h \in CertifiedAt(t)
        BY <1>4, <4>1, CertifiedSigned DEF CertifiedAt
      <4> QED BY <4>1, <4>2, ChosenIs
    <3> QED BY <1>1, <1>4, <3>1, SaveIs
  <2>2. PICK saved \in [Tick -> HeaderOrNone] : final' = [final EXCEPT ![i] = saved]
    <3>1. final' \in [Correct -> [Tick -> HeaderOrNone]]
      BY <1>1, <1>4, SaveType DEF TypeOK, DataOK
    <3>2. \A j \in Correct \ {i} : final'[j] = final[j]
      BY <1>1, <1>4 DEF Save, TypeOK
    <3> QED BY <1>1, <3>1, <3>2 DEF TypeOK
  <2>3. final' = [final EXCEPT ![i] = row] /\ final'[i] # final[i]
    BY <1>1, <1>4, <2>2 DEF TypeOK
  <2>4. F!Learn(i)
    BY <2>1, <2>3 DEF F!Learn, F!Rewrite
  <2> QED BY <2>4 DEF F!Next
<1> QED BY <1>2, <1>3, <1>4 DEF Stored

\* A signature completes the quorum of a header of its tick, or of none.
LEMMA HeaderSignedIsFinality ==
  ASSUME Inv, Inv', NEW i \in Correct, HeaderSigned(i)
  PROVE  [F!Next]_<<Chosen, final>>
<1>1. PICK c \in signing[i] :
        /\ c.op = "header"
        /\ msgs' = msgs \cup {[type |-> "signature", from |-> i, header |-> c.header]}
  BY DEF HeaderSigned
<1>2. c.header \in Header /\ c.header.tick \in Tick
  BY <1>1, CallType DEF Inv, TypeOK, Header
<1> DEFINE n == c.header.tick
<1>3. UNCHANGED final
  BY DEF HeaderSigned, disk
<1>4. ASSUME NEW t \in Tick, t # n PROVE Chosen'[t] = Chosen[t]
  <2>1. ASSUME NEW h, h.tick = t PROVE Certified(h)' <=> Certified(h)
    <3>1. {p \in Publisher : HasSigned(p, h)}' = {p \in Publisher : HasSigned(p, h)}
      BY <1>1, <1>4, <2>1 DEF HasSigned
    <3> QED BY <3>1 DEF Certified
  <2>2. ASSUME NEW h, h.tick = t PROVE h \in SignedHeaders' <=> h \in SignedHeaders
    BY <1>1, <1>4, <2>2 DEF SignedHeaders
  <2>3. CertifiedAt(t)' = CertifiedAt(t)
    BY <2>1, <2>2 DEF CertifiedAt, CertifiedHeaders
  <2> QED BY <2>3 DEF Chosen
<1>5. CASE CertifiedAt(n) # {}
  <2>1. PICK h \in CertifiedAt(n) : TRUE
    BY <1>5
  <2>2. Chosen[n] = h
    BY <1>2, <2>1, ChosenIs
  <2>3. h \in CertifiedAt(n)'
    <3>1. Certified(h)'
      BY <1>1, <2>1, CertifiedStays DEF CertifiedAt, CertifiedHeaders
    <3>2. h \in SignedHeaders'
      BY <1>1, <2>1 DEF CertifiedAt, CertifiedHeaders, SignedHeaders
    <3> QED BY <2>1, <3>1, <3>2 DEF CertifiedAt, CertifiedHeaders
  <2>4. Chosen'[n] = h
    <3>1. UniqueHeader'
      BY InvUnique, PTL
    <3>2. \A g \in CertifiedAt(n)' : g = h
      BY <2>3, <3>1 DEF UniqueHeader, CertifiedAt
    <3> QED BY <1>2, <2>3, <3>2 DEF Chosen
  <2>5. Chosen' = Chosen
    BY <1>4, <2>2, <2>4 DEF Chosen
  <2> QED BY <1>3, <2>5
<1>6. CASE CertifiedAt(n) = {} /\ CertifiedAt(n)' = {}
  <2>1. Chosen'[n] = Chosen[n]
    BY <1>2, <1>6 DEF Chosen
  <2>2. Chosen' = Chosen
    BY <1>4, <2>1 DEF Chosen
  <2> QED BY <1>3, <2>2
<1>7. CASE CertifiedAt(n) = {} /\ CertifiedAt(n)' # {}
  <2>1. Chosen[n] = None
    BY <1>2, <1>7 DEF Chosen
  <2>2. Chosen'[n] \in Header
    <3>1. Chosen'[n] \in CertifiedAt(n)'
      BY <1>2, <1>7 DEF Chosen
    <3>2. SignedHeaders' \subseteq Header
      <4>1. DataOK
        BY DEF Inv, TypeOK, DataOK
      <4>2. SignedHeaders' \subseteq SignedHeaders \cup {c.header}
        BY <1>1 DEF SignedHeaders
      <4> QED BY <1>2, <4>1, <4>2, SignedHeadersType
    <3> QED BY <3>1, <3>2 DEF CertifiedAt, CertifiedHeaders
  <2>3. Chosen' = [Chosen EXCEPT ![n] = Chosen'[n]]
    <3> HIDE DEF n
    <3> QED BY <1>4, ChosenFunction
  <2>4. F!Choose(n)
    BY <1>3, <2>1, <2>2, <2>3 DEF F!Choose
  <2> QED BY <1>2, <2>4 DEF F!Next
<1> QED BY <1>5, <1>6, <1>7

\* The publishers' protocol implements Finality: every execution, with any
\* number of publishers and ticks, is one of the abstract specification.
THEOREM Refines == ASSUME RetentionSafe PROVE Spec => Implements
<1>1. Init => Inv /\ F!Init
  <2> SUFFICES ASSUME Init PROVE Inv /\ F!Init
    OBVIOUS
  <2>1. Inv
    BY InitType, GuardInit DEF Inv, Init, FinalCertified
  <2>2. \A t : CertifiedAt(t) = {}
    BY DEF Init, CertifiedAt, CertifiedHeaders, SignedHeaders
  <2>3. Chosen = [t \in Tick |-> None]
    BY <2>2 DEF Chosen
  <2> QED BY <2>1, <2>3 DEF Init, F!Init
<1>2. Inv /\ [Next]_vars => Inv'
  BY InvNext
<1>3. Inv /\ Inv' /\ [Next]_vars => [F!Next]_<<Chosen, final>>
  <2> SUFFICES ASSUME Inv, Inv', [Next]_vars PROVE [F!Next]_<<Chosen, final>>
    OBVIOUS
  <2>1. CASE Advance \/ UNCHANGED vars
    <3>1. UNCHANGED Signatures /\ UNCHANGED final
      BY <2>1 DEF Advance, vars, disk, Signatures
    <3> QED BY <3>1, ChosenStays
  <2>2. ASSUME NEW i \in Correct, Step(i) PROVE [F!Next]_<<Chosen, final>>
    <3>1. CASE HeaderSigned(i)
      BY <3>1, HeaderSignedIsFinality
    <3>2. CASE ~HeaderSigned(i)
      <4>1. UNCHANGED Chosen
        BY <2>2, <3>2, StepSignatures, ChosenStays
      <4>2. Stored(i)
        BY <2>2, StepStores DEF Inv
      <4> QED BY <4>1, <4>2, StoredIsFinality
    <3> QED BY <3>1, <3>2
  <2> QED BY <2>1, <2>2 DEF Next
<1> QED BY <1>1, <1>2, <1>3, PTL DEF Spec, Implements, F!Spec

-----------------------------------------------------------------------------
(***************************************************************************)
(* What moving averages are carried on from: a feed's state is the latest  *)
(* update of the feed in the publisher's history, and the chain of updates *)
(* a certified header continues is certified and goes back in time.        *)
(***************************************************************************)

(* The last of a bounded set of ticks *)

LEMMA LastIsMax ==
  ASSUME NEW S \in SUBSET Nat, S # {}, NEW b \in Nat, \A x \in S : x <= b
  PROVE  Last(S) \in S /\ \A x \in S : x <= Last(S)
<1> DEFINE B == {c \in Nat : \A x \in S : x <= c}
           R == {ss \in Nat \X Nat : ss[1] < ss[2]}
<1>1. PICK c \in B : \A d \in B : c <= d
  <2>1. B # {} /\ B \subseteq Nat
    OBVIOUS
  <2>2. IsWellFoundedOn(R, Nat)
    BY NatLessThanWellFounded DEF OpToRel
  <2>3. PICK c \in B : \A d \in B : ~(<<d, c>> \in R)
    <3> HIDE DEF B, R
    <3> QED BY <2>1, <2>2, WFMin
  <2>4. \A d \in B : ~(d < c)
    BY <2>1, <2>3
  <2> QED BY <2>1, <2>4
<1>2. c \in S
  <2> SUFFICES ASSUME c \notin S PROVE FALSE
    OBVIOUS
  <2>1. PICK x \in S : TRUE
    OBVIOUS
  <2>2. \A y \in S : y < c
    BY <1>1
  <2>3. c - 1 \in Nat /\ \A y \in S : y <= c - 1
    BY <1>1, <2>1, <2>2
  <2>4. c <= c - 1
    BY <1>1, <2>3
  <2> QED BY <1>1, <2>4
<1>3. c \in {t \in S : \A u \in S : u <= t}
  BY <1>1, <1>2
<1>4. \A t \in S : (\A u \in S : u <= t) => t = c
  BY <1>1, <1>2
<1>5. Last(S) = c
  BY <1>3, <1>4 DEF Last
<1> QED BY <1>1, <1>2, <1>5

LEMMA FeedTickType ==
  ASSUME TypeOK, NEW i \in Correct, NEW f \in Feed
  PROVE  feedTick[i][f] \in Tick \cup {0} /\ feedTick[i][f] \in Nat
<1>1. feedTick[i][f] \in Tick \cup {0}
  BY DEF TypeOK
<1>2. Tick \cup {0} \subseteq Nat
  BY TimeAssumption
<1> QED BY <1>1, <1>2

-----------------------------------------------------------------------------
(* The inductive invariant *)

\* What header h says of earlier updates is true.
Grounded(h) ==
  \A f \in DOMAIN h.feeds :
    LET prev == h.feeds[f].prev
    IN prev # 0 => /\ prev < h.tick
                   /\ \E g \in CertifiedHeaders : g.tick = prev /\ f \in DOMAIN g.feeds

\* The tick of h has another header, so h will never be certified.
Superseded(h) == \E g \in CertifiedHeaders : g.tick = h.tick /\ g # h

\* A publisher that holds the update of a tick may be asked to sign the tick
\* again after a restart, and derives it from a later state.
PromisesSound ==
  \A i \in Correct : \A h \in Promised(i) : Grounded(h) \/ Superseded(h)

PromisesBounded == \E b \in Nat : \A i \in Correct : \A h \in Promised(i) : h.tick <= b

\* The update a feed's state is of is held, or pruned.
FeedTickHeld ==
  \A i \in Correct, f \in Feed :
    feedTick[i][f] # 0 =>
      \/ final[i][feedTick[i][f]] # None
      \/ Retention # 0 /\ feedTick[i][f] < Now(i) - Retention

HistoryInv == Inv /\ PromisesSound /\ PromisesBounded /\ FeedTickHeld /\ FeedStateCurrent

\* Nothing that was certified is lost.
LEMMA CertifiedKept ==
  ASSUME msgs \subseteq msgs'
  PROVE  CertifiedHeaders \subseteq CertifiedHeaders'
<1> SUFFICES ASSUME NEW h \in CertifiedHeaders PROVE h \in CertifiedHeaders'
  OBVIOUS
<1>1. Certified(h)'
  BY CertifiedStays DEF CertifiedHeaders
<1>2. h \in SignedHeaders'
  BY DEF CertifiedHeaders, SignedHeaders
<1> QED BY <1>1, <1>2 DEF CertifiedHeaders

LEMMA SoundKept ==
  ASSUME msgs \subseteq msgs', NEW h, Grounded(h) \/ Superseded(h)
  PROVE  (Grounded(h) \/ Superseded(h))'
<1>1. CertifiedHeaders \subseteq CertifiedHeaders'
  BY CertifiedKept
<1>2. CASE Grounded(h)
  BY <1>1, <1>2 DEF Grounded
<1>3. CASE Superseded(h)
  BY <1>1, <1>3 DEF Superseded
<1> QED BY <1>2, <1>3

\* Certified headers are promised by somebody correct.
LEMMA CertifiedPromised ==
  ASSUME NEW h \in CertifiedHeaders
  PROVE  \E i \in Correct : h \in Promised(i)
BY CertifiedSame DEF CertifiedHeaders

LEMMA ChainSound ==
  ASSUME HistoryInv
  PROVE  \A h \in CertifiedHeaders : Grounded(h)
<1>1. UniqueHeader
  BY InvUnique DEF HistoryInv
<1> TAKE h \in CertifiedHeaders
<1>2. Grounded(h) \/ Superseded(h)
  BY CertifiedPromised DEF HistoryInv, PromisesSound
<1>3. ~Superseded(h)
  BY <1>1 DEF Superseded, UniqueHeader
<1> QED BY <1>2, <1>3

\* Ticks finalized by a publisher are positive and bounded.
LEMMA FinalizedBounded ==
  ASSUME HistoryInv, NEW i \in Correct
  PROVE  /\ Finalized(i) \subseteq Nat
         /\ \E b \in Nat : \A t \in Finalized(i) : t <= b
         /\ \A t \in Finalized(i) : final[i][t] \in CertifiedHeaders /\ final[i][t].tick = t
<1>1. \A t \in Finalized(i) : final[i][t] \in CertifiedHeaders /\ final[i][t].tick = t
  BY CertifiedSigned DEF HistoryInv, Inv, FinalCertified, Finalized
<1>2. PICK b \in Nat : \A j \in Correct : \A h \in Promised(j) : h.tick <= b
  BY DEF HistoryInv, PromisesBounded
<1>3. \A t \in Finalized(i) : t <= b
  BY <1>1, <1>2, CertifiedPromised
<1> QED BY <1>1, <1>3, TimeAssumption DEF Finalized

-----------------------------------------------------------------------------
(* A header is derived *)

LEMMA DerivedSound ==
  ASSUME RetentionSafe, HistoryInv, NEW i \in Correct, NEW h \in Header, DerivedHere(i, h),
         h.tick >= Now(i) - MaxSigningLag
  PROVE  Grounded(h) \/ Superseded(h)
<1> DEFINE t == h.tick
<1>1. PICK chosen : h = Derive(i, t, chosen)
  BY DEF DerivedHere
<1>2. \A f \in DOMAIN h.feeds : f \in Feed /\ h.feeds[f].prev = feedTick[i][f]
  <2>1. h.feeds = [f \in {g \in Feed : Cardinality(Pricing(g, chosen)) >= Quorum} |->
                     [price |-> Aggregate([p \in Pricing(f, chosen) |-> chosen[p][f]]),
                      num |-> Cardinality(Pricing(f, chosen)),
                      prev |-> feedTick[i][f]]]
    <3> HIDE DEF t
    <3> QED BY <1>1 DEF Derive
  <2> QED BY <2>1
<1>3. t \in Tick /\ t \in Nat
  BY TimeAssumption DEF Header
<1>4. CASE t \in Finalized(i)
  <2>1. final[i][t] \in CertifiedHeaders /\ final[i][t].tick = t
    BY <1>4, FinalizedBounded
  <2>2. CASE final[i][t] = h
    BY <2>1, <2>2, ChainSound
  <2>3. CASE final[i][t] # h
    BY <2>1, <2>3 DEF Superseded
  <2> QED BY <2>2, <2>3
<1>5. CASE t \notin Finalized(i)
  <2>1. \A u \in Finalized(i) : u < t
    <3>1. ~(Latest(i) >= t)
      BY <1>5 DEF DerivedHere, Passed
    <3>2. PICK b \in Nat : \A u \in Finalized(i) : u <= b
      BY FinalizedBounded
    <3>3. Finalized(i) # {} => Latest(i) \in Finalized(i) /\ \A u \in Finalized(i) : u <= Latest(i)
      BY <3>2, FinalizedBounded, LastIsMax DEF Latest
    <3> QED BY <1>3, <3>1, <3>3, FinalizedBounded
  <2>2. ASSUME NEW f \in DOMAIN h.feeds, h.feeds[f].prev # 0
        PROVE  /\ h.feeds[f].prev < t
               /\ \E g \in CertifiedHeaders : g.tick = h.feeds[f].prev /\ f \in DOMAIN g.feeds
    <3> DEFINE u == feedTick[i][f]
    <3>1. f \in Feed /\ h.feeds[f].prev = u /\ u # 0
      BY <1>2, <2>2
    <3>2. u \in Tick /\ u \in Nat
      BY <3>1, FeedTickType DEF HistoryInv, Inv
    <3>3. \E g \in CertifiedHeaders : g.tick = u /\ f \in DOMAIN g.feeds
      BY <3>1 DEF HistoryInv, FeedStateCurrent
    <3>4. u < t
      <4>1. CASE final[i][u] # None
        BY <2>1, <3>2, <4>1 DEF Finalized
      <4>2. CASE Retention # 0 /\ u < Now(i) - Retention
        <5>1. MaxSigningLag \in Nat /\ Retention \in Nat /\ Now(i) \in Int
          BY TimeAssumption, NowType DEF HistoryInv, Inv
        <5>2. MaxSigningLag <= Retention
          BY <4>2 DEF RetentionSafe
        <5> HIDE DEF u, t
        <5>3. t >= Now(i) - MaxSigningLag
          BY DEF t
        <5> QED BY <1>3, <3>2, <4>2, <5>1, <5>2, <5>3
      <4> QED BY <3>1, <4>1, <4>2 DEF HistoryInv, FeedTickHeld
    <3> QED BY <3>1, <3>3, <3>4
  <2> QED BY <2>2 DEF Grounded
<1> QED BY <1>4, <1>5

-----------------------------------------------------------------------------
(* A step promises nothing unsound *)

LEMMA PromisesKept ==
  ASSUME RetentionSafe, HistoryInv, NEW i \in Correct, Step(i)
  PROVE  PromisesSound' /\ PromisesBounded'
<1>1. msgs \subseteq msgs'
  BY StepSends
<1>2. PICK b \in Nat : \A j \in Correct : \A h \in Promised(j) : h.tick <= b
  BY DEF HistoryInv, PromisesBounded
<1>3. CASE \A j \in Correct : Promised(j)' \subseteq Promised(j)
  <2>1. \A j \in Correct : \A h \in Promised(j)' : h.tick <= b
    BY <1>2, <1>3
  <2>2. \A j \in Correct : \A h \in Promised(j)' : (Grounded(h) \/ Superseded(h))'
    BY <1>1, <1>3, SoundKept DEF HistoryInv, PromisesSound
  <2> QED BY <2>1, <2>2 DEF PromisesSound, PromisesBounded
<1>4. ASSUME NEW n \in Header, DerivedHere(i, n), n.tick >= Now(i) - MaxSigningLag,
             \A j \in Correct : Promised(j)' \subseteq Promised(j) \cup {n}
      PROVE  PromisesSound' /\ PromisesBounded'
  <2>1. Grounded(n) \/ Superseded(n)
    BY <1>4, DerivedSound
  <2>2. \A j \in Correct : \A h \in Promised(j)' : (Grounded(h) \/ Superseded(h))'
    BY <1>1, <1>4, <2>1, SoundKept DEF HistoryInv, PromisesSound
  <2>3. n.tick \in Nat
    BY TimeAssumption DEF Header
  <2>4. PICK c \in Nat : b <= c /\ n.tick <= c
    BY <1>2, <2>3
  <2>5. ASSUME NEW j \in Correct, NEW h \in Promised(j)' PROVE h.tick <= c
    <3>1. CASE h = n
      BY <2>4, <3>1
    <3>2. CASE h \in Promised(j)
      <4>1. h.tick \in Nat
        BY <3>2, PromisedType, TimeAssumption DEF Header, HistoryInv, Inv
      <4> QED BY <1>2, <2>4, <3>2, <4>1
    <3> QED BY <1>4, <2>5, <3>1, <3>2
  <2> QED BY <2>2, <2>5 DEF PromisesSound, PromisesBounded
<1>5. Effect(i) \/ Prunes(i)
  BY StepEffect DEF HistoryInv, Inv
<1>6. CASE Prunes(i) \/ (Others(i) /\ Silent(i))
  <2>1. \A j \in Correct : Promised(j)' \subseteq Promised(j)
    BY <1>6 DEF Prunes, Others, Silent
  <2> QED BY <1>3, <2>1
<1>7. CASE Others(i) /\ Promises(i)
  <2>1. PICK n \in Header :
          /\ DerivedHere(i, n)
          /\ n.tick >= Now(i) - MaxSigningLag
          /\ Promised(i)' \subseteq Promised(i) \cup {n}
    BY <1>7 DEF Promises
  <2>2. \A j \in Correct : Promised(j)' \subseteq Promised(j) \cup {n}
    BY <1>7, <2>1 DEF Others
  <2> QED BY <1>4, <2>1, <2>2
<1> QED BY <1>5, <1>6, <1>7 DEF Effect

-----------------------------------------------------------------------------
(* A step keeps the feed states current *)

\* What is saved is held.
LEMMA SaveHolds ==
  ASSUME TypeOK, NEW i \in Correct, NEW new \in SUBSET Header, Save(i, new), NEW h \in new
  PROVE  final'[i][h.tick] # None
<1> DEFINE fresh == {g \in new : final[i][g.tick] = None}
           row == [u \in Tick |-> IF \E g \in fresh : g.tick = u
                                  THEN CHOOSE g \in fresh : g.tick = u ELSE final[i][u]]
<1>1. final'[i] = row
  <2>1. final' = [final EXCEPT ![i] = row]
    BY DEF Save, TypeOK
  <2> HIDE DEF row
  <2> QED BY <2>1 DEF TypeOK
<1>2. h.tick \in Tick
  BY DEF Header
<1>3. CASE h \in fresh
  <2>1. final'[i][h.tick] = CHOOSE g \in fresh : g.tick = h.tick
    BY <1>1, <1>2, <1>3
  <2>2. final'[i][h.tick] \in fresh
    <3> HIDE DEF fresh
    <3> QED BY <1>3, <2>1
  <2>3. fresh \subseteq Header
    OBVIOUS
  <2> HIDE DEF fresh
  <2> QED BY <2>2, <2>3, NoneAssumption
<1>4. CASE h \notin fresh
  <2>1. final[i][h.tick] # None
    BY <1>4
  <2> QED BY <1>2, <2>1, SaveIs
<1> QED BY <1>3, <1>4

\* The feed state after a save is the latest of what it was and what is new.
LEMMA SaveState ==
  ASSUME HistoryInv, NEW i \in Correct, NEW new \in SUBSET Header, Save(i, new),
         \A h \in new : Certified(h), NEW f \in Feed
  PROVE  LET m == feedTick'[i][f]
         IN /\ m \in Nat /\ feedTick[i][f] \in Nat /\ feedTick[i][f] <= m
            /\ \A h \in new : final[i][h.tick] = None /\ f \in DOMAIN h.feeds => h.tick <= m
            /\ \/ m = feedTick[i][f]
               \/ \E h \in new : f \in DOMAIN h.feeds /\ h.tick = m
<1> DEFINE fresh == {h \in new : final[i][h.tick] = None}
           T == {h.tick : h \in {g \in fresh : f \in DOMAIN g.feeds}}
           S == {feedTick[i][f]} \cup T
<1>1. feedTick \in [Correct -> [Feed -> Tick \cup {0}]]
  BY DEF HistoryInv, Inv, TypeOK
<1>2. feedTick'[i][f] = Last(S)
  <2>1. feedTick' = [feedTick EXCEPT ![i] = [g \in Feed |->
                       Last({feedTick[i][g]} \cup {h.tick : h \in {k \in fresh : g \in DOMAIN k.feeds}})]]
    BY <1>1 DEF Save
  <2> QED BY <1>1, <2>1
<1>3. feedTick[i][f] \in Nat
  BY FeedTickType DEF HistoryInv, Inv
<1>4. PICK b \in Nat : \A j \in Correct : \A h \in Promised(j) : h.tick <= b
  BY DEF HistoryInv, PromisesBounded
<1>5. \A h \in new : h.tick \in Nat /\ h.tick <= b
  <2>1. \A h \in new : h.tick \in Nat
    BY TimeAssumption DEF Header
  <2>2. \A h \in new : h \in CertifiedHeaders
    BY CertifiedSigned
  <2> QED BY <1>4, <2>1, <2>2, CertifiedPromised
<1>6. PICK c \in Nat : b <= c /\ feedTick[i][f] <= c
  BY <1>3, <1>4
<1>7. S \in SUBSET Nat /\ S # {} /\ \A x \in S : x <= c
  <2>1. T \in SUBSET Nat /\ \A x \in T : x <= b
    BY <1>5
  <2> DEFINE u == feedTick[i][f]
  <2>2. u \in Nat /\ u <= c /\ b \in Nat /\ b <= c
    BY <1>3, <1>6
  <2> HIDE DEF T, u
  <2>3. \A x \in T : x <= c
    BY <2>1, <2>2
  <2>4. {u} \cup T \in SUBSET Nat /\ {u} \cup T # {} /\ \A x \in {u} \cup T : x <= c
    BY <2>1, <2>2, <2>3
  <2> QED BY <2>4 DEF u
<1>8. Last(S) \in S /\ \A x \in S : x <= Last(S)
  <2> HIDE DEF S
  <2> QED BY <1>7, LastIsMax
<1>9. \A h \in new : final[i][h.tick] = None /\ f \in DOMAIN h.feeds => h.tick \in S
  OBVIOUS
<1>10. feedTick[i][f] \in S
       /\ \A x \in S : x = feedTick[i][f] \/ \E h \in new : f \in DOMAIN h.feeds /\ h.tick = x
  OBVIOUS
<1> HIDE DEF S
<1> QED BY <1>2, <1>3, <1>7, <1>8, <1>9, <1>10

FeedOK(j, f) ==
  /\ \A t \in Finalized(j) : f \in DOMAIN final[j][t].feeds => t <= feedTick[j][f]
  /\ feedTick[j][f] # 0 =>
       /\ \E g \in CertifiedHeaders : g.tick = feedTick[j][f] /\ f \in DOMAIN g.feeds
       /\ \/ final[j][feedTick[j][f]] # None
          \/ Retention # 0 /\ feedTick[j][f] < Now(j) - Retention

LEMMA FeedIs == FeedStateCurrent /\ FeedTickHeld <=> \A j \in Correct, f \in Feed : FeedOK(j, f)
BY DEF FeedStateCurrent, FeedTickHeld, FeedOK

LEMMA SavedFeed ==
  ASSUME HistoryInv, NEW i \in Correct, NEW new \in SUBSET Header, Save(i, new),
         \A h \in new : Certified(h), msgs \subseteq msgs', UNCHANGED now, NEW f \in Feed
  PROVE  FeedOK(i, f)'
<1> DEFINE u == feedTick[i][f]
           m == feedTick'[i][f]
<1>1. /\ m \in Nat /\ u \in Nat /\ u <= m
      /\ \A h \in new : final[i][h.tick] = None /\ f \in DOMAIN h.feeds => h.tick <= m
      /\ m = u \/ \E h \in new : f \in DOMAIN h.feeds /\ h.tick = m
  BY SaveState
<1>2. FeedOK(i, f) /\ TypeOK
  BY FeedIs DEF HistoryInv, Inv
<1>3. CertifiedHeaders \subseteq CertifiedHeaders' /\ Now(i)' = Now(i)
  BY CertifiedKept DEF Now
<1>4. ASSUME NEW t \in Finalized(i)', f \in DOMAIN final'[i][t].feeds PROVE t <= m
  <2>1. t \in Tick /\ t \in Nat /\ final'[i][t] # None
    BY TimeAssumption DEF Finalized
  <2>2. CASE final'[i][t] = final[i][t]
    <3>1. t <= u
      BY <1>2, <1>4, <2>1, <2>2 DEF FeedOK, Finalized
    <3> QED BY <1>1, <2>1, <3>1
  <2>3. CASE final[i][t] = None /\ \E h \in new : h.tick = t /\ final'[i][t] = h
    BY <1>1, <1>4, <2>3
  <2> QED BY <1>2, <2>1, <2>2, <2>3, SaveIs
<1>5. ASSUME m # 0
      PROVE  /\ \E g \in CertifiedHeaders' : g.tick = m /\ f \in DOMAIN g.feeds
             /\ final'[i][m] # None \/ (Retention # 0 /\ m < Now(i)' - Retention)
  <2>1. CASE m = u
    <3>1. /\ \E g \in CertifiedHeaders : g.tick = u /\ f \in DOMAIN g.feeds
          /\ final[i][u] # None \/ (Retention # 0 /\ u < Now(i) - Retention)
      BY <1>2, <1>5, <2>1 DEF FeedOK
    <3>2. u \in Tick
      BY <1>2, <1>5, <2>1 DEF TypeOK
    <3>3. final[i][u] # None => final'[i][u] # None
      <4> HIDE DEF u
      <4> QED BY <1>2, <3>2, SaveIs
    <3> QED BY <1>3, <2>1, <3>1, <3>3
  <2>2. CASE \E h \in new : f \in DOMAIN h.feeds /\ h.tick = m
    <3>1. PICK h \in new : f \in DOMAIN h.feeds /\ h.tick = m
      BY <2>2
    <3>2. h \in CertifiedHeaders'
      BY <1>3, CertifiedSigned
    <3>3. final'[i][h.tick] # None
      BY <1>2, SaveHolds
    <3> QED BY <3>1, <3>2, <3>3
  <2> QED BY <1>1, <2>1, <2>2
<1> HIDE DEF m, u
<1> QED BY <1>4, <1>5 DEF FeedOK, m

LEMMA PrunedFeed ==
  ASSUME HistoryInv, NEW i \in Correct, final' = [final EXCEPT ![i] = Pruned(i, @)],
         UNCHANGED <<feedTick, now>>, msgs \subseteq msgs', NEW f \in Feed
  PROVE  FeedOK(i, f)'
<1>1. FeedOK(i, f) /\ TypeOK
  BY FeedIs DEF HistoryInv, Inv
<1>2. CertifiedHeaders \subseteq CertifiedHeaders' /\ Now(i)' = Now(i)
  BY CertifiedKept DEF Now
<1>3. \A t \in Tick : final'[i][t] = IF Retention # 0 /\ t < Now(i) - Retention
                                     THEN None ELSE final[i][t]
  <2>1. final'[i] = Pruned(i, final[i])
    BY <1>1 DEF TypeOK
  <2> QED BY <2>1 DEF Pruned
<1>4. feedTick[i][f] # 0 => feedTick[i][f] \in Tick
  BY <1>1 DEF TypeOK
<1>5. \A t \in Finalized(i)' : t \in Finalized(i) /\ final'[i][t] = final[i][t]
  BY <1>3 DEF Finalized
<1> QED BY <1>1, <1>2, <1>3, <1>4, <1>5 DEF FeedOK

LEMMA OtherFeed ==
  ASSUME NEW j \in Correct, NEW f \in Feed, FeedOK(j, f), final'[j] = final[j],
         feedTick'[j] = feedTick[j], msgs \subseteq msgs', Now(j) \in Int, Now(j)' \in Int,
         Now(j) <= Now(j)', TypeOK
  PROVE  FeedOK(j, f)'
<1>1. CertifiedHeaders \subseteq CertifiedHeaders' /\ Finalized(j)' = Finalized(j)
  BY CertifiedKept DEF Finalized
<1>2. feedTick[j][f] \in Int /\ Retention \in Int
  BY FeedTickType, TimeAssumption
<1>3. feedTick[j][f] < Now(j) - Retention => feedTick[j][f] < Now(j)' - Retention
  BY <1>2
<1> QED BY <1>1, <1>3 DEF FeedOK

LEMMA FeedsKept ==
  ASSUME HistoryInv, NEW i \in Correct, Step(i)
  PROVE  FeedStateCurrent' /\ FeedTickHeld'
<1>1. TypeOK /\ \A j \in Correct, f \in Feed : FeedOK(j, f)
  BY FeedIs DEF HistoryInv, Inv
<1>2. msgs \subseteq msgs' /\ UNCHANGED now
  BY <1>1, StepSends, StepEffect DEF Effect, Prunes
<1>3. \A j \in Correct : Now(j)' = Now(j) /\ Now(j) \in Int /\ Now(j) <= Now(j)'
  BY <1>1, <1>2, NowType DEF Now
<1>4. Stored(i)
  BY <1>1, StepStores
<1>5. ASSUME NEW j \in Correct \ {i} PROVE final'[j] = final[j] /\ feedTick'[j] = feedTick[j]
  BY <1>1, <1>4 DEF Stored, Save, TypeOK
<1>6. ASSUME NEW f \in Feed PROVE FeedOK(i, f)'
  <2>1. CASE UNCHANGED <<final, feedTick>>
    BY <1>1, <1>2, <1>3, <2>1, OtherFeed
  <2>2. CASE final' = [final EXCEPT ![i] = Pruned(i, @)] /\ UNCHANGED feedTick
    BY <1>2, <2>2, PrunedFeed
  <2>3. CASE \E new \in SUBSET Header : Save(i, new) /\ \A h \in new : Certified(h)
    BY <1>2, <2>3, SavedFeed
  <2> QED BY <1>4, <2>1, <2>2, <2>3 DEF Stored
<1>7. ASSUME NEW j \in Correct, NEW f \in Feed PROVE FeedOK(j, f)'
  BY <1>1, <1>2, <1>3, <1>5, <1>6, OtherFeed
<1>8. (FeedStateCurrent /\ FeedTickHeld)' <=> \A j \in Correct, f \in Feed : FeedOK(j, f)'
  BY DEF FeedStateCurrent, FeedTickHeld, FeedOK
<1> QED BY <1>7, <1>8

-----------------------------------------------------------------------------
(* The invariant of the history *)

LEMMA HistoryInit == Init => HistoryInv
<1> SUFFICES ASSUME Init PROVE HistoryInv
  OBVIOUS
<1>1. Inv
  BY InitType, GuardInit DEF Inv, Init, FinalCertified
<1>2. \A i \in Correct : Promised(i) = {}
  BY DEF Init, Promised
<1>3. \A i \in Correct, f \in Feed : Finalized(i) = {} /\ feedTick[i][f] = 0
  BY DEF Init, Finalized
<1>4. PromisesBounded
  <2>1. \A i \in Correct : \A h \in Promised(i) : h.tick <= 0
    BY <1>2
  <2> QED BY <2>1 DEF PromisesBounded
<1> QED BY <1>1, <1>2, <1>3, <1>4 DEF HistoryInv, PromisesSound, FeedTickHeld, FeedStateCurrent

LEMMA ClockKeeps ==
  ASSUME HistoryInv, Advance \/ UNCHANGED vars
  PROVE  PromisesSound' /\ PromisesBounded' /\ FeedTickHeld' /\ FeedStateCurrent'
<1>1. UNCHANGED <<msgs, signing, final, feedTick>> /\ (now' = now + 1 \/ now' = now)
  BY DEF Advance, vars, disk
<1>2. \A j \in Correct : Promised(j)' = Promised(j)
  BY <1>1 DEF Promised
<1>3. PromisesSound'
  BY <1>1, <1>2, SoundKept DEF HistoryInv, PromisesSound
<1>4. PromisesBounded'
  BY <1>2 DEF HistoryInv, PromisesBounded
<1>5. TypeOK /\ \A j \in Correct, f \in Feed : FeedOK(j, f)
  BY FeedIs DEF HistoryInv, Inv
<1>6. \A j \in Correct : Now(j) \in Int /\ Now(j)' \in Int /\ Now(j) <= Now(j)'
  <2>1. now \in Int /\ \A j \in Correct : Offset[j] \in Int
    BY <1>5, TimeAssumption DEF TypeOK, Correct
  <2> QED BY <1>1, <2>1 DEF Now
<1>7. ASSUME NEW j \in Correct, NEW f \in Feed PROVE FeedOK(j, f)'
  BY <1>1, <1>5, <1>6, OtherFeed
<1>8. (FeedStateCurrent /\ FeedTickHeld)' <=> \A j \in Correct, f \in Feed : FeedOK(j, f)'
  BY DEF FeedStateCurrent, FeedTickHeld, FeedOK
<1> QED BY <1>3, <1>4, <1>7, <1>8

LEMMA HistoryNext == RetentionSafe /\ HistoryInv /\ [Next]_vars => HistoryInv'
<1> SUFFICES ASSUME RetentionSafe, HistoryInv, [Next]_vars PROVE HistoryInv'
  OBVIOUS
<1>1. Inv'
  BY InvNext DEF HistoryInv
<1>2. ASSUME NEW i \in Correct, Step(i)
      PROVE  PromisesSound' /\ PromisesBounded' /\ FeedTickHeld' /\ FeedStateCurrent'
  BY <1>2, PromisesKept, FeedsKept
<1> QED BY <1>1, <1>2, ClockKeeps DEF Next, HistoryInv

\* Moving averages are carried on from sound history: a feed's state is the
\* latest update of the feed a publisher holds, in whatever order updates came,
\* and the chain a certified header continues is of certified updates of the
\* feed that go back in time (derive, saveFinalized, prune).
THEOREM HistoryKept == ASSUME RetentionSafe PROVE Spec => []HistorySound
<1>1. Init => HistoryInv
  BY HistoryInit
<1>2. HistoryInv /\ [Next]_vars => HistoryInv'
  BY HistoryNext
<1>3. HistoryInv => HistorySound
  BY ChainSound DEF HistorySound, ChainGrounded, Grounded, HistoryInv
<1> QED BY <1>1, <1>2, <1>3, PTL DEF Spec
=============================================================================
