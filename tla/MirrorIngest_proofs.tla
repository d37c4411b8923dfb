------------------------ MODULE MirrorIngest_proofs ------------------------
(***************************************************************************)
(* A mirror's cursors, evidence and canonical updates, for any publishers, *)
(* ticks, page size and number of failures.                                *)
(***************************************************************************)
EXTENDS MirrorIngest, SequenceTheorems, WellFoundedInduction, TLAPS

\* The copy of u's tick that is served.
Served(u) == [tick |-> u.tick, header |-> updates[u.tick]]

\* A verified update of a tick not pruned yet is served, or is evidence with the
\* update that is.
Held(u) ==
  /\ updates[u.tick] # NoUpdate
  /\ updates[u.tick] # u.header => {u, Served(u)} \subseteq equivocations

VerifiedHeld == \A u \in verified : u.tick >= horizon => Held(u)

IngestInv ==
  /\ IngestTypeOK
  /\ CursorGrounded
  /\ VerifiedHeld

-----------------------------------------------------------------------------
(* Taking blobs *)

\* A nonempty set of naturals has a least element.
LEMMA Least ==
  ASSUME NEW S \in SUBSET Nat, S # {}
  PROVE  \E x \in S : \A y \in S : x <= y
<1> DEFINE Less == {ss \in Nat \X Nat : ss[1] < ss[2]}
<1>1. IsWellFoundedOn(Less, Nat)
  BY NatLessThanWellFounded DEF OpToRel
<1>2. PICK x \in S : \A y \in S : <<y, x>> \notin Less
  <2> HIDE DEF Less
  <2> QED BY <1>1, WFMin
<1>3. \A y \in S : ~(y < x)
  BY <1>2
<1> QED
  BY <1>3

\* The parts of an update.
LEMMA Parts ==
  ASSUME NEW u \in SignedUpdate
  PROVE  u.tick \in Tick /\ u.tick \in Nat \ {0} /\ u.header \in Headers /\ u.header # NoUpdate
BY MirrorIngestAssumption DEF SignedUpdate, Tick

\* What a faulty publisher sends at once.
LEMMA Blobs ==
  ASSUME NEW u \in SignedUpdate, NEW v \in SignedUpdate, NEW blobs \in {<<u>>, <<u, v>>}
  PROVE  blobs \in Seq(SignedUpdate)
<1>1. <<u>> \in Seq(SignedUpdate)
  OBVIOUS
<1>2. <<u, v>> \in Seq(SignedUpdate)
  OBVIOUS
<1> QED
  BY <1>1, <1>2

\* The table updates after some blobs: rows stay, and a verified blob's tick has one.
LEMMA KeptRows ==
  ASSUME IngestTypeOK, NEW blobs \in Seq(SignedUpdate)
  PROVE  /\ Stored(blobs) \in [Tick -> Headers \cup {NoUpdate}]
         /\ \A t \in Tick : updates[t] # NoUpdate => Stored(blobs)[t] = updates[t]
         /\ \A t \in Tick : Stored(blobs)[t] # NoUpdate =>
              \/ updates[t] = Stored(blobs)[t]
              \/ \E i \in GoodAt(blobs, t) : blobs[i].header = Stored(blobs)[t]
         /\ \A i \in Good(blobs) : Stored(blobs)[blobs[i].tick] # NoUpdate
<1>1. \A i \in DOMAIN blobs : blobs[i] \in SignedUpdate
  OBVIOUS
<1>2. ASSUME NEW t \in Tick, updates[t] = NoUpdate, GoodAt(blobs, t) # {}
      PROVE  \E i \in GoodAt(blobs, t) : blobs[i].header = Stored(blobs)[t]
  <2>1. GoodAt(blobs, t) \in SUBSET Nat
    BY DEF GoodAt, Good
  <2>2. \E i \in GoodAt(blobs, t) : \A j \in GoodAt(blobs, t) : i <= j
    BY <1>2, <2>1, Least
  <2> DEFINE first == CHOOSE i \in GoodAt(blobs, t) : \A j \in GoodAt(blobs, t) : i <= j
  <2>3. first \in GoodAt(blobs, t)
    BY <2>2
  <2>4. Stored(blobs)[t] = blobs[first].header
    BY <1>2 DEF Stored
  <2> QED
    BY <2>3, <2>4
<1>3. ASSUME NEW t \in Tick, updates[t] # NoUpdate \/ GoodAt(blobs, t) = {}
      PROVE  Stored(blobs)[t] = updates[t]
  BY <1>3 DEF Stored
<1>4. \A t \in Tick : \A i \in GoodAt(blobs, t) : blobs[i].header \in Headers \ {NoUpdate}
  BY <1>1, Parts DEF GoodAt, Good
<1>5. \A t \in Tick : updates[t] \in Headers \cup {NoUpdate}
  BY DEF IngestTypeOK
<1>6. ASSUME NEW t \in Tick PROVE Stored(blobs)[t] \in Headers \cup {NoUpdate}
  BY <1>2, <1>3, <1>4, <1>5
<1>7. Stored(blobs) = [t \in Tick |-> Stored(blobs)[t]]
  BY DEF Stored
<1>8. Stored(blobs) \in [Tick -> Headers \cup {NoUpdate}]
  BY <1>6, <1>7
<1>9. ASSUME NEW i \in Good(blobs) PROVE Stored(blobs)[blobs[i].tick] # NoUpdate
  <2>1. i \in GoodAt(blobs, blobs[i].tick) /\ blobs[i].tick \in Tick
    BY <1>1, Parts DEF GoodAt, Good
  <2> QED
    BY <2>1, <1>2, <1>3, <1>4
<1> QED
  BY <1>2, <1>3, <1>8, <1>9

\* What taking blobs from s does.
LEMMA Ingested ==
  ASSUME IngestInv, NEW s \in Source, NEW blobs \in Seq(SignedUpdate), Accept(s, blobs)
  PROVE  /\ updates' \in [Tick -> Headers \cup {NoUpdate}]
         /\ equivocations' \subseteq SignedUpdate /\ verified' \subseteq SignedUpdate
         /\ cursor' \in [Source -> 0..MaxTick]
         /\ \A t \in Tick : updates[t] # NoUpdate => updates'[t] = updates[t]
         /\ \A x \in Source : cursor'[x] # cursor[x] => updates'[cursor'[x]] # NoUpdate
         /\ \A u \in verified' : u.tick >= horizon => Held(u)'
<1>1. /\ updates' = Stored(blobs)
      /\ equivocations' = equivocations \cup Conflicting(blobs)
      /\ verified' = verified \cup {blobs[i] : i \in Good(blobs)}
  BY DEF Accept
<1>2. \A i \in Good(blobs) : blobs[i] \in SignedUpdate
  BY DEF Good
<1>3. IngestTypeOK
  BY DEF IngestInv
<1>4. PICK newest \in Reached(s, blobs) : cursor' = [cursor EXCEPT ![s] = newest]
  BY DEF Accept
<1>5. newest = cursor[s] \/ (newest \in Tick /\ updates'[newest] # NoUpdate)
  <2>1. newest = cursor[s] \/ \E i \in Good(blobs) : newest = blobs[i].tick
    BY DEF Reached
  <2>2. \A i \in Good(blobs) : blobs[i].tick \in Tick
    BY <1>2, Parts
  <2> QED
    BY <1>1, <1>3, <2>1, <2>2, KeptRows
<1>6. cursor' \in [Source -> 0..MaxTick]
  BY <1>3, <1>4, <1>5, MirrorIngestAssumption DEF IngestTypeOK, Tick
<1>7. \A x \in Source : cursor'[x] # cursor[x] => updates'[cursor'[x]] # NoUpdate
  BY <1>3, <1>4, <1>5 DEF IngestTypeOK
<1>8. equivocations' \subseteq SignedUpdate /\ verified' \subseteq SignedUpdate
  BY <1>1, <1>2, <1>3 DEF IngestTypeOK, Conflicting
<1>9. ASSUME NEW u \in verified', u.tick >= horizon PROVE Held(u)'
  <2>1. u \in SignedUpdate /\ u.tick \in Tick /\ u.header \in Headers /\ u.header # NoUpdate
    BY <1>8, Parts
  <2>2. CASE u \in verified /\ updates'[u.tick] = updates[u.tick]
    BY <1>1, <1>9, <2>2 DEF IngestInv, VerifiedHeld, Held, Served
  <2>3. CASE u \in verified /\ updates'[u.tick] # updates[u.tick]
    BY <1>1, <1>3, <1>9, <2>1, <2>3, KeptRows DEF IngestInv, VerifiedHeld, Held
  <2>4. CASE u \notin verified
    <3>1. PICK i \in GoodAt(blobs, u.tick) : blobs[i] = u
      BY <1>1, <2>4 DEF GoodAt
    <3>2. updates'[u.tick] # NoUpdate
      BY <1>1, <1>3, <3>1, KeptRows DEF GoodAt
    <3> DEFINE copies == {blobs[j].header : j \in GoodAt(blobs, u.tick)} \cup ({updates[u.tick]} \ {NoUpdate})
    <3>3. u.header \in copies
      BY <3>1
    <3>4. updates'[u.tick] \in copies
      BY <1>1, <1>3, <2>1, <3>2, KeptRows
    <3>5. ASSUME NEW v \in SignedUpdate, v.tick = u.tick, v.header \in copies,
                 \E h \in copies : h # v.header
          PROVE  v \in Conflicting(blobs)
      BY <2>1, <3>5 DEF Conflicting
    <3>6. updates'[u.tick] \in Headers
      BY <1>1, <1>3, <2>1, <3>2, KeptRows
    <3>7. /\ Served(u)' \in SignedUpdate
          /\ Served(u)'.tick = u.tick /\ Served(u)'.header = updates'[u.tick]
      BY <2>1, <3>6 DEF Served, SignedUpdate
    <3>8. updates'[u.tick] # u.header => {u, Served(u)'} \subseteq Conflicting(blobs)
      BY <2>1, <3>3, <3>4, <3>5, <3>7
    <3> QED
      BY <1>1, <3>2, <3>8 DEF Held
  <2> QED
    BY <2>2, <2>3, <2>4
<1> QED
  BY <1>1, <1>3, <1>6, <1>7, <1>8, <1>9, KeptRows

-----------------------------------------------------------------------------
(* The invariant *)

LEMMA IngestInitial == IngestInit => IngestInv
<1> SUFFICES ASSUME IngestInit PROVE IngestInv
  OBVIOUS
<1>1. IngestTypeOK
  BY MirrorIngestAssumption DEF IngestInit, IngestTypeOK, Asked, Request, Tick
<1>2. CursorGrounded
  BY DEF IngestInit, CursorGrounded
<1>3. VerifiedHeld
  BY DEF IngestInit, VerifiedHeld
<1> QED
  BY <1>1, <1>2, <1>3 DEF IngestInv

\* Taking blobs from s keeps what concerns the store.
LEMMA AcceptKeeps ==
  ASSUME IngestInv, NEW s \in Source, NEW blobs \in Seq(SignedUpdate), Accept(s, blobs),
         horizon' = horizon
  PROVE  CursorGrounded' /\ VerifiedHeld'
<1>1. CursorGrounded'
  <2> SUFFICES ASSUME NEW x \in Source, cursor'[x] # 0
               PROVE  updates'[cursor'[x]] # NoUpdate \/ cursor'[x] < horizon
    BY DEF CursorGrounded
  <2>1. CASE cursor'[x] = cursor[x]
    <3>1. cursor[x] \in Tick
      BY <2>1 DEF IngestInv, IngestTypeOK, Tick
    <3> QED
      BY <2>1, <3>1, Ingested DEF IngestInv, CursorGrounded
  <2>2. CASE cursor'[x] # cursor[x]
    BY <2>2, Ingested
  <2> QED
    BY <2>1, <2>2
<1>2. VerifiedHeld'
  BY Ingested DEF VerifiedHeld
<1> QED
  BY <1>1, <1>2

LEMMA IngestStep == IngestInv /\ [IngestNext]_ingestVars => IngestInv'
<1> SUFFICES ASSUME IngestInv, [IngestNext]_ingestVars PROVE IngestInv'
  OBVIOUS
<1> USE MirrorIngestAssumption
<1>t. IngestTypeOK /\ Correct \subseteq Source
  BY DEF IngestInv, Correct
<1>c. Certified \subseteq SignedUpdate
  OBVIOUS
\* Steps that leave the store alone.
<1>k. ASSUME UNCHANGED <<cursor, stored, horizon>>
      PROVE  CursorGrounded' /\ VerifiedHeld'
  BY <1>k DEF IngestInv, CursorGrounded, VerifiedHeld, Held, Served, stored
<1>1. CASE UNCHANGED ingestVars
  <2>1. IngestTypeOK'
    BY <1>1, <1>t DEF IngestTypeOK, ingestVars, sources, stored
  <2> QED
    BY <1>1, <1>k, <2>1 DEF IngestInv, ingestVars, stored
<1>2. ASSUME NEW s \in Correct, Finalize(s) PROVE IngestInv'
  <2>1. PICK u \in Certified :
          /\ history' = [history EXCEPT ![s] = @ \cup {u}]
          /\ wire' = [wire EXCEPT ![s] = IF connected[s] THEN Append(@, u) ELSE @]
    BY <1>2 DEF Finalize
  <2>2. wire' \in [Correct -> Seq(Certified)]
    BY <1>t, <2>1 DEF IngestTypeOK
  <2>3. history' \in [Correct -> SUBSET Certified]
    BY <1>t, <2>1 DEF IngestTypeOK
  <2>4. IngestTypeOK'
    BY <1>2, <1>t, <2>2, <2>3 DEF Finalize, IngestTypeOK, stored
  <2> QED
    BY <1>2, <1>k, <2>4 DEF Finalize, IngestInv
<1>3. ASSUME NEW s \in Correct, Answer(s) PROVE IngestInv'
  <2>1. PICK page \in Pages(s, fetch[s].after) : fetch' = [fetch EXCEPT ![s] = Answered(page)]
    BY <1>3 DEF Answer
  <2>2. page \in Seq(Certified)
    <3>1. PICK n \in 0..Page : page \in [1..n -> history[s]]
      BY <2>1 DEF Pages
    <3>2. history[s] \subseteq Certified
      BY <1>t DEF IngestTypeOK
    <3> QED
      BY <3>1, <3>2, SeqDef
  <2>3. IngestTypeOK'
    BY <1>3, <1>t, <2>1, <2>2 DEF Answer, IngestTypeOK, stored, Answered, Request
  <2> QED
    BY <1>3, <1>k, <2>3 DEF Answer, IngestInv
<1>4. ASSUME NEW s \in Correct, Resync(s) \/ StreamOpens(s) \/ Fail(s) \/ Close(s) PROVE IngestInv'
  <2>1. Idle \in Request /\ Asked(cursor[s]) \in Request
    BY <1>t DEF IngestTypeOK, Request, Asked, Correct
  <2>2. Backfill(s, cursor[s]) \in Request
    BY <1>t, <2>1 DEF Backfill, IngestTypeOK
  <2>3. ASSUME Resync(s) PROVE IngestTypeOK'
    BY <1>t, <2>2, <2>3 DEF Resync, IngestTypeOK, stored
  <2>4. ASSUME StreamOpens(s) PROVE IngestTypeOK'
    BY <1>t, <2>2, <2>4 DEF StreamOpens, IngestTypeOK, stored
  <2>5. ASSUME Fail(s) PROVE IngestTypeOK'
    BY <1>t, <2>1, <2>5 DEF Fail, Break, IngestTypeOK, stored
  <2>6. ASSUME Close(s) PROVE IngestTypeOK'
    BY <1>t, <2>6 DEF Close, Break, IngestTypeOK, stored
  <2>7. IngestTypeOK'
    BY <1>4, <2>3, <2>4, <2>5, <2>6
  <2> QED
    BY <1>4, <1>k, <2>7 DEF Resync, StreamOpens, Fail, Close, IngestInv
<1>5. ASSUME NEW s \in Correct, Frame(s) PROVE IngestInv'
  <2>1. wire[s] \in Seq(Certified) /\ wire[s] # <<>>
    BY <1>5, <1>t DEF Frame, IngestTypeOK
  <2>2. Head(wire[s]) \in Certified /\ Tail(wire[s]) \in Seq(Certified)
    BY <2>1
  <2>3. <<Head(wire[s])>> \in Seq(SignedUpdate)
    BY <1>c, <2>2
  <2>4. Accept(s, <<Head(wire[s])>>)
    BY <1>5 DEF Frame
  <2>5. wire' \in [Correct -> Seq(Certified)]
    BY <1>5, <1>t, <2>2 DEF Frame, IngestTypeOK
  <2>6. IngestTypeOK'
    BY <1>5, <1>t, <2>3, <2>4, <2>5, Ingested DEF Frame, IngestTypeOK
  <2> QED
    BY <1>5, <1>t, <2>3, <2>4, <2>6, AcceptKeeps DEF Frame, IngestInv
<1>6. ASSUME NEW s \in Correct, TakePage(s) PROVE IngestInv'
  <2>1. fetch[s].page \in Seq(Certified)
    <3>1. fetch[s] \in Request /\ fetch[s].step = "answered"
      BY <1>6, <1>t DEF TakePage, IngestTypeOK
    <3>2. fetch[s] \in [step : {"answered"}, page : Seq(Certified)]
      BY <3>1 DEF Request, Idle
    <3> QED
      BY <3>2
  <2>2. fetch[s].page \in Seq(SignedUpdate)
    BY <1>c, <2>1
  <2>3. Accept(s, fetch[s].page)
    BY <1>6 DEF TakePage
  <2>4. cursor' \in [Source -> 0..MaxTick]
    BY <1>t, <2>2, <2>3, Ingested
  <2>5. fetch' \in [Correct -> Request]
    <3>1. Idle \in Request /\ Asked(cursor'[s]) \in Request
      BY <2>4 DEF Request, Asked, Correct
    <3> QED
      BY <1>6, <1>t, <3>1 DEF TakePage, IngestTypeOK
  <2>6. IngestTypeOK'
    BY <1>6, <1>t, <2>2, <2>3, <2>4, <2>5, Ingested DEF TakePage, IngestTypeOK
  <2> QED
    BY <1>6, <1>t, <2>2, <2>3, <2>6, AcceptKeeps DEF TakePage, IngestInv
<1>7. ASSUME NEW s \in Faulty, Lie(s) PROVE IngestInv'
  <2>1. PICK u \in SignedUpdate, v \in SignedUpdate : \E blobs \in {<<u>>, <<u, v>>} : Accept(s, blobs)
    BY <1>7, Zenon DEF Lie
  <2>2. PICK blobs \in {<<u>>, <<u, v>>} : Accept(s, blobs)
    BY <2>1
  <2>3. blobs \in Seq(SignedUpdate) /\ s \in Source
    BY <2>2, Blobs
  <2>4. UNCHANGED <<sources, verifiable, horizon, breaks>>
    BY <1>7 DEF Lie
  <2>5. IngestTypeOK'
    BY <1>t, <2>2, <2>3, <2>4, Ingested DEF IngestTypeOK, sources
  <2> QED
    BY <2>2, <2>3, <2>4, <2>5, AcceptKeeps DEF IngestInv
<1>8. CASE Refresh
  <2>1. IngestTypeOK'
    BY <1>8, <1>t DEF Refresh, Break, IngestTypeOK, sources, stored
  <2> QED
    BY <1>8, <1>k, <2>1 DEF Refresh, IngestInv
<1>9. CASE Prune
  <2>1. /\ horizon' \in horizon+1..MaxTick
        /\ updates' = [t \in Tick |-> IF t < horizon' THEN NoUpdate ELSE updates[t]]
        /\ UNCHANGED <<sources, cursor, equivocations, verified, verifiable, breaks>>
    BY <1>9 DEF Prune
  <2>2. IngestTypeOK'
    BY <1>t, <2>1 DEF IngestTypeOK, sources
  <2>3. \A t \in Tick : t >= horizon' => updates'[t] = updates[t] /\ t >= horizon
    BY <1>t, <2>1 DEF IngestTypeOK, Tick
  <2>4. CursorGrounded'
    <3> SUFFICES ASSUME NEW x \in Source, cursor[x] # 0, ~(cursor[x] < horizon')
                 PROVE  updates'[cursor[x]] # NoUpdate
      BY <2>1 DEF CursorGrounded
    <3>1. cursor[x] \in Tick /\ cursor[x] >= horizon' /\ ~(cursor[x] < horizon)
      BY <1>t, <2>1 DEF IngestTypeOK, Tick
    <3> QED
      BY <2>3, <3>1 DEF IngestInv, CursorGrounded
  <2>5. VerifiedHeld'
    <3> SUFFICES ASSUME NEW u \in verified, u.tick >= horizon' PROVE Held(u)'
      BY <2>1 DEF VerifiedHeld
    <3>1. u.tick \in Tick
      BY <1>t, Parts DEF IngestTypeOK
    <3> QED
      BY <2>1, <2>3, <3>1 DEF IngestInv, VerifiedHeld, Held, Served
  <2> QED
    BY <2>2, <2>4, <2>5 DEF IngestInv
<1>10. CASE Restart
  <2>1. PICK newest \in Ticks :
          cursor' = [s \in Source |-> newest] /\ fetch' = [s \in Correct |-> Asked(newest)]
    BY <1>10 DEF Restart
  <2>2. newest \in 0..MaxTick /\ (newest # 0 => updates[newest] # NoUpdate)
    BY DEF Ticks, Tick
  <2>3. IngestTypeOK'
    BY <1>10, <1>t, <2>1, <2>2 DEF Restart, Break, IngestTypeOK, Asked, Request, stored
  <2>4. CursorGrounded'
    BY <1>10, <2>1, <2>2 DEF Restart, CursorGrounded, stored
  <2>5. VerifiedHeld'
    BY <1>10 DEF Restart, IngestInv, VerifiedHeld, Held, Served, stored
  <2> QED
    BY <2>3, <2>4, <2>5 DEF IngestInv
<1> QED
  BY <1>1, <1>2, <1>3, <1>4, <1>5, <1>6, <1>7, <1>8, <1>9, <1>10 DEF IngestNext

-----------------------------------------------------------------------------
(* Theorems *)

LEMMA Inductive == IngestSpec => []IngestInv
BY IngestInitial, IngestStep, PTL DEF IngestSpec

\* The mirror's variables keep their types.
THEOREM TypeCorrect == IngestSpec => []IngestTypeOK
<1>1. IngestInv => IngestTypeOK
  BY DEF IngestInv
<1> QED
  BY <1>1, Inductive, PTL

\* No publisher, and no restart, moves a cursor to a tick of which the mirror has
\* verified no update.
THEOREM Grounded == IngestSpec => []CursorGrounded
<1>1. IngestInv => CursorGrounded
  BY DEF IngestInv
<1> QED
  BY <1>1, Inductive, PTL

\* Two verified headers of a tick are both evidence, if the second came before the
\* first was pruned.
THEOREM Evidence == IngestSpec => []ConflictsKept
<1>1. IngestInv => ConflictsKept
  <2> SUFFICES ASSUME IngestInv, NEW u \in verified, NEW v \in verified,
                      u.tick = v.tick, u # v, u.tick >= horizon
               PROVE  {u, v} \subseteq equivocations
    BY DEF ConflictsKept
  <2>1. u \in SignedUpdate /\ v \in SignedUpdate
    BY DEF IngestInv, IngestTypeOK
  <2>2. u.header # v.header
    BY <2>1 DEF SignedUpdate
  <2>3. \A x \in SignedUpdate : Served(x) = x <=> updates[x.tick] = x.header
    BY DEF Served, SignedUpdate
  <2>4. Held(u) /\ Held(v)
    BY DEF IngestInv, VerifiedHeld
  <2>5. Served(u) = Served(v)
    BY DEF Served
  <2> QED
    BY <2>1, <2>2, <2>3, <2>4, <2>5 DEF Held
<1> QED
  BY <1>1, Inductive, PTL

\* What is served for a tick changes only by pruning.
THEOREM Canonical == IngestSpec => CanonicalKept
<1>1. IngestInv /\ [IngestNext]_ingestVars => [OnlyPruned]_ingestVars
  <2> SUFFICES ASSUME IngestInv, IngestNext PROVE OnlyPruned
    OBVIOUS
  <2>1. CASE updates' = updates
    BY <2>1 DEF OnlyPruned
  <2>2. ASSUME NEW s \in Source, NEW blobs \in Seq(SignedUpdate), Accept(s, blobs) PROVE OnlyPruned
    BY <2>2, Ingested DEF OnlyPruned
  <2>3. CASE Prune
    BY <2>3 DEF Prune, OnlyPruned
  <2>4. ASSUME NEW s \in Correct, Frame(s) PROVE OnlyPruned
    <3>1. wire[s] \in Seq(SignedUpdate) /\ wire[s] # <<>> /\ Accept(s, <<Head(wire[s])>>)
      BY <2>4, MirrorIngestAssumption DEF Frame, IngestInv, IngestTypeOK
    <3>2. <<Head(wire[s])>> \in Seq(SignedUpdate)
      BY <3>1
    <3> QED
      BY <2>2, <3>1, <3>2 DEF Correct
  <2>5. ASSUME NEW s \in Correct, TakePage(s) PROVE OnlyPruned
    <3>1. fetch[s] \in Request /\ fetch[s].step = "answered" /\ Accept(s, fetch[s].page)
      BY <2>5 DEF TakePage, IngestInv, IngestTypeOK
    <3>2. fetch[s].page \in Seq(Certified)
      BY <3>1 DEF Request, Idle
    <3>3. fetch[s].page \in Seq(SignedUpdate)
      BY <3>2, MirrorIngestAssumption
    <3> QED
      BY <2>2, <3>1, <3>3 DEF Correct
  <2>6. ASSUME NEW s \in Faulty, Lie(s) PROVE OnlyPruned
    <3>1. PICK u \in SignedUpdate, v \in SignedUpdate : \E blobs \in {<<u>>, <<u, v>>} : Accept(s, blobs)
      BY <2>6, Zenon DEF Lie
    <3>2. PICK blobs \in {<<u>>, <<u, v>>} : Accept(s, blobs)
      BY <3>1
    <3>3. blobs \in Seq(SignedUpdate) /\ s \in Source
      BY <3>2, Blobs, MirrorIngestAssumption
    <3> QED
      BY <2>2, <3>2, <3>3
  <2>7. CASE \E s \in Correct : Finalize(s) \/ Answer(s) \/ Resync(s) \/ StreamOpens(s) \/ Fail(s) \/ Close(s)
    BY <2>1, <2>7 DEF Finalize, Answer, Resync, StreamOpens, Fail, Close, stored
  <2>8. CASE Refresh \/ Restart
    BY <2>1, <2>8 DEF Refresh, Restart, stored
  <2> QED
    BY <2>3, <2>4, <2>5, <2>6, <2>7, <2>8 DEF IngestNext
<1> QED
  BY <1>1, Inductive, PTL DEF IngestSpec, CanonicalKept
=============================================================================
