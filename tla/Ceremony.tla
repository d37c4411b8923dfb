------------------------------ MODULE Ceremony ------------------------------
(***************************************************************************)
(* How operators change a committee: a coordinator fetches the set and     *)
(* derives the next one, every operator signs on its own machine, and      *)
(* anyone sends the operation (apps/publisher/src/governance.ts and the    *)
(* commands of main.ts, packages/sdk/src/tx/committee.ts,                  *)
(* apps/deploy/src/actions.ts govern), against the type script.            *)
(*                                                                         *)
(* A document is the pair of state files with the operation. A digest is   *)
(* what it hashes. Several ceremonies run side by side, over files of any  *)
(* age; a sender can merge whatever was signed, so a bundle verifies when  *)
(* enough signatures of its digest exist.                                  *)
(***************************************************************************)
EXTENDS CommitteeCell, FiniteSets

CONSTANTS
  Subject,     \* the committee
  Key,         \* public keys, as operators write them in --add
  Held,        \* those somebody has the private key of
  Founders,    \* keys of set 0
  MaxAhead,    \* how far a coordinator's clock may be ahead of the chain
  MaxDocuments \* bound on the documents drafted

ASSUME CeremonyAssumption ==
  /\ Governing = {Subject}
  /\ Held \subseteq Key
  /\ Founders \subseteq Held
  /\ Founders # {}
  /\ IsFiniteSet(Key)
  /\ MaxAhead \in Nat
  /\ MaxDocuments \in Nat

VARIABLES
  member,      \* [set index -> its keys], of the sets on chain
  document,    \* documents drafted
  signed       \* signatures made, each with its key

vars == <<now, governance, member, document, signed>>

live == cell[Subject]

Rotation == {"rotate", "rotate_revoke"}

Quorum(keys) == (2 * Cardinality(keys)) \div 3 + 1

UpdateHash(d) == <<"update", d.op, d.old, d.next, d.keys>>
PopHash(d) == <<"pop", d.next, d.keys>>

Signers(hash) == {k \in Key : <<k, hash>> \in signed}

-----------------------------------------------------------------------------
(* Local checks *)

\* transitionError is not undefined.
TransitionError(old, next, op) ==
  \/ next.nonce # old.nonce + 1
  \/ op \in Rotation /\ (next.paused # old.paused \/ next.index # old.index + 1)
  \/ op = "rotate" /\ (next.until = 0 \/ (old.until # 0 /\ next.until <= old.until))
  \/ op = "rotate_revoke" /\ next.until # 0
  \/ op = "pause" /\ (old.paused \/ ~next.paused \/ ~SameSets(old, next))
  \/ op = "unpause" /\ (~old.paused \/ next.paused \/ ~SameSets(old, next))
  \/ /\ op = "revoke_previous"
     /\ \/ next.paused # old.paused
        \/ old.until = 0
        \/ next.until # 0
        \/ next.index # old.index

\* nextState before its check.
NextState(old, op, until) ==
  [nonce |-> old.nonce + 1,
   paused |-> op = "pause" \/ (op # "unpause" /\ old.paused),
   index |-> IF op \in Rotation THEN old.index + 1 ELSE old.index,
   until |-> CASE op = "rotate" -> until
               [] op \in {"pause", "unpause"} -> old.until
               [] OTHER -> 0]

\* A switch tick the script will take once the chain is at the clock.
InReach(until, clock) == until <= clock + MaxUntilAhead

\* rotatedKeys, of one key removed and one added at most.
RotatedKeys(keys) ==
  {(keys \ remove) \cup add :
     remove \in {{}} \cup {{k} : k \in keys}, add \in {{}} \cup {{k} : k \in Key \ keys}} \ {{}}

\* verifyThreshold of the tools, of a merged list: one signature of each key.
ThresholdMet(bundle, hash, keys) ==
  /\ \A s \in bundle : s[1] \in keys /\ s[2] = hash
  /\ Cardinality(bundle) >= Quorum(keys)

\* Lists that merge-signatures makes of the files operators send.
Merged(kind) == SUBSET {s \in signed : s[2][1] = kind}

\* Mutant: signatures are counted.
ReadyByCount(d, authorization, pop) ==
  /\ ~TransitionError(d.old, d.next, d.op)
  /\ Cardinality(authorization) >= Quorum(member[d.old.index])
  /\ d.op \in Rotation => Cardinality(pop) = Cardinality(d.keys)

\* governanceStatus says `ready`.
Ready(d, authorization, pop) ==
  /\ ~TransitionError(d.old, d.next, d.op)
  /\ ThresholdMet(authorization, UpdateHash(d), member[d.old.index])
  /\ d.op \in Rotation =>
       ThresholdMet(pop, PopHash(d), d.keys) /\ Cardinality(pop) = Cardinality(d.keys)

-----------------------------------------------------------------------------
(* Steps *)

\* fetch-set some time ago, then next-set. The clock is the coordinator's.
Draft ==
  \E n \in Index, op \in Operation, until \in 1..MaxTime + MaxUntilAhead :
    /\ n <= Len(log[Subject])
    /\ Cardinality(document) < MaxDocuments
    /\ op = "rotate" => \E clock \in now..now + MaxAhead : InReach(until, clock)
    /\ LET old == CellAt(Subject, n)
           next == NextState(old, op, until)
       IN /\ ~TransitionError(old, next, op)
          /\ next \in PublisherSetData
          /\ \E keys \in IF op \in Rotation THEN RotatedKeys(member[old.index]) ELSE {member[old.index]} :
               document' = document \cup
                 {[op |-> op, old |-> old, next |-> next, keys |-> keys]}
    /\ UNCHANGED <<now, governance, member, signed>>

\* sign-governance: only a member of the current set.
Authorize ==
  \E d \in document, k \in Held :
    /\ ~TransitionError(d.old, d.next, d.op)
    /\ k \in member[d.old.index]
    /\ <<k, UpdateHash(d)>> \notin signed
    /\ signed' = signed \cup {<<k, UpdateHash(d)>>}
    /\ UNCHANGED <<now, governance, member, document>>

\* sign-pop: only a member of the next set.
Possess ==
  \E d \in document, k \in Held :
    /\ k \in d.keys
    /\ <<k, PopHash(d)>> \notin signed
    /\ signed' = signed \cup {<<k, PopHash(d)>>}
    /\ UNCHANGED <<now, governance, member, document>>

\* Mutant: the next set authorizes its own arrival.
AuthorizedByNext(d) == Cardinality(Signers(UpdateHash(d)) \cap d.keys) >= Quorum(d.keys)

\* verify_threshold over the hash of the cell's state, not of the document's.
Authorized(d) ==
  LET set == member[live.index]
  IN Cardinality(Signers(UpdateHash([d EXCEPT !.old = live])) \cap set) >= Quorum(set)

\* Mutant: a quorum of the next set is enough.
ProvenByQuorum(d) ==
  d.op \in Rotation => Cardinality(Signers(PopHash(d)) \cap d.keys) >= Quorum(d.keys)

\* verify_all.
Proven(d) == d.op \in Rotation => d.keys \subseteq Signers(PopHash(d))

\* govern:committee. What the builder makes of the live cell, and what the script
\* checks of it; a transaction the script refuses changes nothing.
Send ==
  \E d \in document :
    /\ ~TransitionError(live, d.next, d.op)
    /\ Authorized(d)
    /\ Proven(d)
    /\ Govern(Subject)
    /\ live' = d.next
    /\ log'[Subject][Len(log[Subject]) + 1].op = d.op
    /\ member' = [member EXCEPT ![d.next.index] = d.keys]
    /\ UNCHANGED <<document, signed>>

Init ==
  /\ GovernanceInit
  /\ member = [i \in Index |-> IF i = 0 THEN Founders ELSE {}]
  /\ document = {}
  /\ signed = {}

Next ==
  \/ Block /\ UNCHANGED <<member, document, signed>>
  \/ Draft
  \/ Authorize
  \/ Possess
  \/ Send

Spec == Init /\ [][Next]_vars

-----------------------------------------------------------------------------
(* Properties *)

\* Every key of every set that governs or governed is one somebody holds, whatever
\* key a coordinator mistyped: no rotation leaves a committee that cannot reach its
\* quorum (proof of possession).
Governable == \A i \in 0..live.index : member[i] \subseteq Held

\* Every operation on chain is one that a quorum of the set it replaced signed as it
\* stands, old state, new state, keys and all, however ceremonies overlap and
\* whatever is merged (publisherSetUpdateHash).
Reviewed ==
  \A i \in DOMAIN log[Subject] :
    LET e == log[Subject][i]
        set == member[e.old.index]
    IN Cardinality(Signers(<<"update", e.op, e.old, e.next, member[e.next.index]>>) \cap set)
         >= Quorum(set)

\* Of a document of the live state, the status is ready with some of the signatures
\* made just when the script takes the operation, leaving the clock aside: no
\* ceremony ends at a transaction that is refused, and none goes on gathering when it
\* could end (governanceStatus, transitionError and the contract's rules).
StatusTrue ==
  \A d \in document : d.old = live =>
    ((\E authorization \in Merged("update"), pop \in Merged("pop") : Ready(d, authorization, pop))
      <=> Authorized(d) /\ Proven(d) /\ CheckTransition(live, d.next, d.op))
=============================================================================
