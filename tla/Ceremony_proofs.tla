-------------------------- MODULE Ceremony_proofs --------------------------
(***************************************************************************)
(* What ceremonies put on chain, for any keys, operators, number of        *)
(* documents and order of their steps; what an operator in shadow mode is  *)
(* told of the committee it is to join; and what the record of deployments *)
(* says of the chain.                                                      *)
(***************************************************************************)
EXTENDS Ceremony, Deployment, Shadow, Governance_proofs, FiniteSetTheorems, FunctionTheorems, WellFoundedInduction

-----------------------------------------------------------------------------
(* The committee cell below *)

LEMMA SubjectGoverns == Subject \in Committee /\ Subject \in Governing
BY CeremonyAssumption, CommitteeCellAssumption

\* Ceremonies reach the cell by its operations alone.
LEMMA CeremonyApart == Next => [GovernanceNext]_govern
BY SubjectGoverns
DEF Next, Block, Draft, Authorize, Possess, Send, GovernanceNext, govern, governance

LEMMA CellInvariant == Spec => []GovernanceInv
<1>1. Init => GovernanceInit
  BY DEF Init
<1>2. [Next]_vars => [GovernanceNext]_govern
  BY CeremonyApart DEF vars, govern
<1> QED
  BY <1>1, <1>2, GovernanceInvariant, PTL DEF Spec, GovernanceSpec, govern

-----------------------------------------------------------------------------
(* Quorums *)

LEMMA QuorumMet ==
  ASSUME NEW set \in SUBSET Key, NEW hash, Cardinality(Signers(hash) \cap set) >= Quorum(set)
  PROVE  \E k \in set : <<k, hash>> \in signed
<1>1. IsFiniteSet(set)
  BY CeremonyAssumption, FS_Subset
<1>2. Cardinality(set) \in Nat
  BY <1>1, FS_CardinalityType
<1>3. Quorum(set) \in Nat \ {0}
  BY <1>2 DEF Quorum
<1>4. Cardinality({}) = 0
  BY FS_EmptySet
<1>5. Signers(hash) \cap set # {}
  <2> SUFFICES ASSUME Signers(hash) \cap set = {} PROVE FALSE
    OBVIOUS
  <2>1. 0 >= Quorum(set)
    BY <1>4
  <2> QED
    BY <1>3, <2>1
<1> QED
  BY <1>5 DEF Signers

\* More signatures take no quorum away.
LEMMA QuorumStays ==
  ASSUME signed \subseteq signed'
  PROVE  \A set \in SUBSET Key : \A hash :
           Cardinality(Signers(hash) \cap set) >= Quorum(set)
           => Cardinality({k \in Key : <<k, hash>> \in signed'} \cap set) >= Quorum(set)
<1> TAKE set \in SUBSET Key
<1> TAKE hash
<1> DEFINE before == Signers(hash) \cap set
           after == {k \in Key : <<k, hash>> \in signed'} \cap set
<1>1. IsFiniteSet(set) /\ IsFiniteSet(after) /\ IsFiniteSet(before)
  BY CeremonyAssumption, FS_Subset DEF Signers
<1>2. before \subseteq after
  BY DEF Signers
<1>3. Cardinality(before) <= Cardinality(after)
  BY <1>1, <1>2, FS_Subset
<1>4. Cardinality(before) \in Nat /\ Cardinality(after) \in Nat /\ Cardinality(set) \in Nat
  BY <1>1, FS_CardinalityType
<1>5. Quorum(set) \in Nat
  BY <1>4 DEF Quorum
<1> QED
  BY <1>3, <1>4, <1>5

-----------------------------------------------------------------------------
(* The invariant *)

Document == [op : Operation, old : PublisherSetData, next : PublisherSetData, keys : SUBSET Key]

\* A document is of a state the chain had, and only a rotation changes the keys,
\* to some.
DocumentSound(d) ==
  /\ d \in Document
  /\ d.old.index <= live.index
  /\ IF d.op \in Rotation THEN d.keys # {} ELSE d.keys = member[d.old.index]

\* A signature is made with a key somebody has, for a document.
SignatureSound(s) ==
  \E k \in Held, d \in document : s = <<k, UpdateHash(d)>> \/ s = <<k, PopHash(d)>>

\* The sets an operation on chain is about are sets the chain has had.
EntrySound(e) == e.old.index <= live.index /\ e.next.index <= live.index

CeremonyInv ==
  /\ member \in [Index -> SUBSET Key]
  /\ \A d \in document : DocumentSound(d)
  /\ \A s \in signed : SignatureSound(s)
  /\ \A i \in DOMAIN log[Subject] : EntrySound(log[Subject][i])
  /\ Governable
  /\ Reviewed

LEMMA CeremonyInitial == Init => CeremonyInv
<1> SUFFICES ASSUME Init PROVE CeremonyInv
  OBVIOUS
<1>1. log[Subject] = <<>> /\ live.index = 0
  BY SubjectGoverns DEF Init, GovernanceInit, live
<1>2. DOMAIN log[Subject] = {}
  BY <1>1
<1>3. 0 \in Index
  BY CommitteeCellAssumption DEF Index
<1>4. member \in [Index -> SUBSET Key] /\ member[0] = Founders
  BY <1>3, CeremonyAssumption DEF Init
<1>5. Governable
  BY <1>1, <1>4, CeremonyAssumption DEF Governable
<1> QED
  BY <1>2, <1>4, <1>5 DEF CeremonyInv, Init, Reviewed

\* A step that leaves the chain alone.
LEMMA OffChain ==
  ASSUME CeremonyInv, UNCHANGED <<now, governance, member>>,
         document \subseteq document', signed \subseteq signed',
         \A d \in document' \ document : DocumentSound(d),
         \A s \in signed' \ signed : \E k \in Held, d \in document :
           s = <<k, UpdateHash(d)>> \/ s = <<k, PopHash(d)>>,
         GovernanceInv
  PROVE  CeremonyInv'
<1>1. live' = live /\ log' = log /\ member' = member
  BY DEF live, governance
<1>2. \A d \in document' : DocumentSound(d)'
  BY <1>1 DEF CeremonyInv, DocumentSound
<1>3. \A s \in signed' : SignatureSound(s)'
  BY DEF CeremonyInv, SignatureSound, UpdateHash, PopHash
<1>4. \A i \in DOMAIN log'[Subject] : EntrySound(log[Subject][i])'
  BY <1>1 DEF CeremonyInv, EntrySound
<1>5. Governable'
  BY <1>1 DEF CeremonyInv, Governable
<1>6. Reviewed'
  <2> SUFFICES ASSUME NEW i \in DOMAIN log[Subject]
               PROVE  LET e == log[Subject][i]
                          set == member[e.old.index]
                          hash == <<"update", e.op, e.old, e.next, member[e.next.index]>>
                      IN Cardinality({k \in Key : <<k, hash>> \in signed'} \cap set) >= Quorum(set)
    BY <1>1 DEF Reviewed, Signers
  <2> DEFINE e == log[Subject][i]
             set == member[e.old.index]
             hash == <<"update", e.op, e.old, e.next, member[e.next.index]>>
  <2>1. log[Subject] \in Seq(LogEntry)
    BY SubjectGoverns DEF GovernanceInv, GovernanceTypeOK
  <2>2. e \in LogEntry
    BY <2>1
  <2>3. e.old.index \in Index
    BY <2>2 DEF LogEntry, PublisherSetData
  <2>4. set \in SUBSET Key
    BY <2>3 DEF CeremonyInv
  <2>5. Cardinality(Signers(hash) \cap set) >= Quorum(set)
    BY DEF CeremonyInv, Reviewed
  <2> HIDE DEF e, set, hash
  <2>6. Cardinality({k \in Key : <<k, hash>> \in signed'} \cap set) >= Quorum(set)
    BY <2>4, <2>5, QuorumStays
  <2> QED
    BY <2>6 DEF e, set, hash
<1> QED
  BY <1>1, <1>2, <1>3, <1>4, <1>5, <1>6 DEF CeremonyInv

LEMMA DraftKeeps ==
  ASSUME CeremonyInv, GovernanceInv, Draft
  PROVE  CeremonyInv'
<1>1. PICK n \in Index, op \in Operation, until \in 1..MaxTime + MaxUntilAhead :
        /\ n <= Len(log[Subject])
        /\ LET old == CellAt(Subject, n)
               next == NextState(old, op, until)
           IN /\ next \in PublisherSetData
              /\ \E keys \in IF op \in Rotation THEN RotatedKeys(member[old.index]) ELSE {member[old.index]} :
                   document' = document \cup
                     {[op |-> op, old |-> old, next |-> next, keys |-> keys]}
        /\ UNCHANGED <<now, governance, member, signed>>
  BY DEF Draft
<1> DEFINE old == CellAt(Subject, n)
           next == NextState(old, op, until)
<1>2. log[Subject] \in Seq(LogEntry) /\ live \in PublisherSetData
  BY SubjectGoverns DEF GovernanceInv, GovernanceTypeOK, live
<1>3. old \in PublisherSetData /\ old.index <= live.index
  <2>1. CASE n = Len(log[Subject])
    BY <1>2, <2>1, DataType DEF CellAt, live
  <2>2. CASE n # Len(log[Subject])
    <3>1. n + 1 \in DOMAIN log[Subject]
      BY <1>1, <1>2, <2>2 DEF Index
    <3>2. log[Subject][n + 1] \in LogEntry
      BY <1>2, <3>1
    <3> QED
      BY <2>2, <3>1, <3>2 DEF CellAt, CeremonyInv, EntrySound, LogEntry
  <2> QED
    BY <2>1, <2>2
<1>4. member[old.index] \in SUBSET Key
  BY <1>3 DEF CeremonyInv, PublisherSetData
<1> HIDE DEF old
<1>5. PICK keys \in IF op \in Rotation THEN RotatedKeys(member[old.index]) ELSE {member[old.index]} :
        document' = document \cup {[op |-> op, old |-> old, next |-> next, keys |-> keys]}
  BY <1>1 DEF old
<1>6. keys \in SUBSET Key
  BY <1>4 DEF RotatedKeys
<1>7. next \in PublisherSetData
  BY <1>1 DEF old
<1> HIDE DEF next
<1>8. IF op \in Rotation THEN keys # {} ELSE keys = member[old.index]
  BY DEF RotatedKeys
<1>9. DocumentSound([op |-> op, old |-> old, next |-> next, keys |-> keys])
  BY <1>3, <1>6, <1>7, <1>8 DEF DocumentSound, Document
<1> QED
  BY <1>1, <1>5, <1>9, OffChain

LEMMA SendKeeps ==
  ASSUME CeremonyInv, GovernanceInv, Send
  PROVE  CeremonyInv'
<1> DEFINE n == Len(log[Subject])
<1>1. PICK d \in document :
        /\ Authorized(d)
        /\ Proven(d)
        /\ Govern(Subject)
        /\ live' = d.next
        /\ log'[Subject][n + 1].op = d.op
        /\ member' = [member EXCEPT ![d.next.index] = d.keys]
        /\ UNCHANGED <<document, signed>>
  BY DEF Send
<1>2. /\ GovernanceTypeOK /\ live \in PublisherSetData /\ n \in Nat /\ DOMAIN log[Subject] = 1..n
      /\ log[Subject] \in Seq(LogEntry)
  BY SubjectGoverns DEF GovernanceInv, GovernanceTypeOK, live
<1>3. PICK op \in Operation, next \in PublisherSetData :
        /\ CheckTransition(live, next, op)
        /\ cell' = [cell EXCEPT ![Subject] = next]
        /\ Len(log'[Subject]) = n + 1
        /\ \A i \in 1..n : log'[Subject][i] = log[Subject][i]
        /\ log'[Subject][n + 1] = [op |-> op, old |-> live, next |-> next, at |-> now]
        /\ log'[Subject] \in Seq(LogEntry)
  <2> Subject \in Committee /\ Govern(Subject) /\ GovernanceTypeOK
    BY <1>1, <1>2, SubjectGoverns
  <2> QED
    BY GovernLog DEF live
<1>4. next = d.next /\ op = d.op
  BY <1>1, <1>2, <1>3, SubjectGoverns DEF live, GovernanceTypeOK
<1>5. d \in Document
  BY DEF CeremonyInv, DocumentSound
<1>6. /\ live.index \in Nat /\ next.index \in Nat /\ next.index \in Index /\ live.index \in Index
      /\ next.index = live.index \/ next.index = live.index + 1
      /\ op \notin Rotation => next.index = live.index
  BY <1>2, <1>3, DataType
  DEF CheckTransition, NextSet, SameSets, Rotation, PublisherSetData, Operation
<1> DEFINE hash == <<"update", op, live, next, d.keys>>
<1>7. /\ Cardinality(Signers(hash) \cap member[live.index]) >= Quorum(member[live.index])
      /\ member[live.index] \in SUBSET Key
  BY <1>1, <1>4, <1>5, <1>6 DEF Authorized, UpdateHash, Document, CeremonyInv
<1>8. op \notin Rotation => d.keys = member[live.index]
  <2>1. PICK k \in member[live.index] : <<k, hash>> \in signed
    <3> HIDE DEF hash
    <3> QED
      BY <1>7, QuorumMet
  <2>2. PICK h \in Held, e \in document : <<k, hash>> = <<h, UpdateHash(e)>> \/ <<k, hash>> = <<h, PopHash(e)>>
    BY <2>1 DEF CeremonyInv, SignatureSound
  <2>3. hash = UpdateHash(e) \/ hash = PopHash(e)
    BY <2>2
  <2>4. hash[1] = "update" /\ PopHash(e)[1] = "pop"
    BY DEF PopHash
  <2>5. hash = UpdateHash(e)
    BY <2>3, <2>4
  <2>6. op = e.op /\ live = e.old /\ d.keys = e.keys
    BY <2>5 DEF UpdateHash
  <2> QED
    BY <2>6 DEF CeremonyInv, DocumentSound
<1>9. /\ member' \in [Index -> SUBSET Key]
      /\ member'[next.index] = d.keys
      /\ \A i \in 0..live.index : member'[i] = member[i]
  <2>1. d.keys \in SUBSET Key
    BY <1>5 DEF Document
  <2>2. 0..live.index \subseteq Index
    BY <1>6, CommitteeCellAssumption DEF Index
  <2>3. op \in Rotation => next.index = live.index + 1
    BY <1>2, <1>3 DEF CheckTransition, NextSet, Rotation
  <2> QED
    BY <1>1, <1>4, <1>6, <1>8, <2>1, <2>2, <2>3 DEF CeremonyInv
<1>10. live' = next /\ live.index <= live'.index
  BY <1>1, <1>4, <1>6
<1>11. ASSUME NEW x \in document' PROVE DocumentSound(x)'
  <2>1. /\ x \in Document /\ x.old.index <= live.index
        /\ IF x.op \in Rotation THEN x.keys # {} ELSE x.keys = member[x.old.index]
    BY <1>1 DEF CeremonyInv, DocumentSound
  <2>2. x.old.index \in Nat
    BY <2>1, DataType DEF Document
  <2> QED
    BY <1>6, <1>9, <1>10, <2>1, <2>2 DEF DocumentSound
<1>12. \A s \in signed' : SignatureSound(s)'
  BY <1>1 DEF CeremonyInv, SignatureSound, UpdateHash, PopHash
<1>13. DOMAIN log'[Subject] = 1..(n + 1)
  BY <1>3
<1>14. ASSUME NEW i \in 1..(n + 1) PROVE EntrySound(log[Subject][i])'
  <2>1. CASE i \in 1..n
    <3>1. EntrySound(log[Subject][i]) /\ log[Subject][i] \in LogEntry
      BY <1>2, <2>1 DEF CeremonyInv
    <3>2. log[Subject][i].old.index \in Nat /\ log[Subject][i].next.index \in Nat
      BY <3>1, DataType DEF LogEntry
    <3>3. log'[Subject][i] = log[Subject][i]
      BY <1>2, <1>3, <2>1
    <3>4. live.index \in Nat /\ live'.index \in Nat /\ live.index <= live'.index
      BY <1>2, <1>6, <1>10
    <3> HIDE DEF live
    <3> QED
      BY <3>1, <3>2, <3>3, <3>4 DEF EntrySound
  <2>2. CASE i = n + 1
    BY <1>3, <1>6, <1>10, <2>2 DEF EntrySound
  <2> QED
    BY <1>2, <2>1, <2>2
<1>15. Governable'
  <2> SUFFICES ASSUME NEW i \in 0..live'.index PROVE member'[i] \subseteq Held
    BY DEF Governable
  <2>1. CASE i \in 0..live.index
    BY <1>9, <2>1 DEF CeremonyInv, Governable
  <2>2. CASE i \notin 0..live.index
    <3>1. i = next.index /\ op \in Rotation
      BY <1>6, <1>10, <2>2
    <3>2. d.keys \subseteq Signers(PopHash(d))
      BY <1>1, <1>4, <3>1 DEF Proven
    <3>3. \A k : <<k, PopHash(d)>> \in signed => k \in Held
      BY DEF CeremonyInv, SignatureSound
    <3> QED
      BY <1>9, <3>1, <3>2, <3>3 DEF Signers
  <2> QED
    BY <2>1, <2>2
<1>16. Reviewed'
  <2> SUFFICES ASSUME NEW i \in 1..(n + 1)
               PROVE  LET e == log'[Subject][i]
                          set == member'[e.old.index]
                      IN Cardinality(Signers(<<"update", e.op, e.old, e.next, member'[e.next.index]>>) \cap set)
                           >= Quorum(set)
    BY <1>1, <1>13 DEF Reviewed, Signers
  <2>1. CASE i \in 1..n
    <3>1. EntrySound(log[Subject][i]) /\ log[Subject][i] \in LogEntry
      BY <1>2, <2>1 DEF CeremonyInv
    <3>2. log[Subject][i].old.index \in Nat /\ log[Subject][i].next.index \in Nat
      BY <3>1, DataType DEF LogEntry
    <3>3. /\ member'[log[Subject][i].old.index] = member[log[Subject][i].old.index]
          /\ member'[log[Subject][i].next.index] = member[log[Subject][i].next.index]
      BY <1>6, <1>9, <3>1, <3>2 DEF EntrySound
    <3> QED
      BY <1>2, <1>3, <2>1, <3>3 DEF CeremonyInv, Reviewed
  <2>2. CASE i = n + 1
    <3>1. member'[live.index] = member[live.index]
      BY <1>6, <1>9
    <3>2. LET e == log'[Subject][i]
          IN e.op = op /\ e.old = live /\ e.next = next
      BY <1>3, <2>2
    <3> QED
      BY <1>7, <1>9, <3>1, <3>2
  <2> QED
    BY <1>2, <2>1, <2>2
<1>17. \A doc \in document' : DocumentSound(doc)'
  BY <1>11
<1>18. \A i \in DOMAIN log'[Subject] : EntrySound(log[Subject][i])'
  BY <1>13, <1>14
<1>19. (member \in [Index -> SUBSET Key])'
  BY <1>9
<1> QED
  BY <1>12, <1>15, <1>16, <1>17, <1>18, <1>19 DEF CeremonyInv

LEMMA CeremonyStep == CeremonyInv /\ GovernanceInv /\ [Next]_vars => CeremonyInv'
<1> SUFFICES ASSUME CeremonyInv, GovernanceInv, [Next]_vars PROVE CeremonyInv'
  OBVIOUS
<1>1. CASE Block /\ UNCHANGED <<member, document, signed>>
  BY <1>1
  DEF Block, governance, CeremonyInv, DocumentSound, SignatureSound, EntrySound, Governable, Reviewed,
      UpdateHash, PopHash, Signers, live
<1>2. CASE Draft
  BY <1>2, DraftKeeps
<1>3. CASE Authorize
  <2>1. PICK d \in document, k \in Held :
          signed' = signed \cup {<<k, UpdateHash(d)>>} /\ UNCHANGED <<now, governance, member, document>>
    BY <1>3 DEF Authorize
  <2> QED
    BY <2>1, OffChain
<1>4. CASE Possess
  <2>1. PICK d \in document, k \in Held :
          signed' = signed \cup {<<k, PopHash(d)>>} /\ UNCHANGED <<now, governance, member, document>>
    BY <1>4 DEF Possess
  <2> QED
    BY <2>1, OffChain
<1>5. CASE Send
  BY <1>5, SendKeeps
<1>6. CASE UNCHANGED vars
  BY <1>6, OffChain DEF vars
<1> QED
  BY <1>1, <1>2, <1>3, <1>4, <1>5, <1>6 DEF Next

LEMMA CeremonyInvariant == Spec => []CeremonyInv
<1>1. Init => CeremonyInv
  BY CeremonyInitial
<1>2. CeremonyInv /\ GovernanceInv /\ [Next]_vars => CeremonyInv'
  BY CeremonyStep
<1> QED
  BY <1>1, <1>2, CellInvariant, PTL DEF Spec

-----------------------------------------------------------------------------
(* Theorems *)

\* Whatever keys are written into next states, and however ceremonies overlap, the
\* keys of every set on chain are keys somebody has (verify_all, validate_update).
THEOREM KeysHeld == Spec => []Governable
BY CeremonyInvariant, PTL DEF CeremonyInv

\* Every operation on chain was signed by a quorum of the set it replaced, for the
\* very states and keys it put there (verify_threshold, publisherSetUpdateHash).
THEOREM ChangesReviewed == Spec => []Reviewed
BY CeremonyInvariant, PTL DEF CeremonyInv

-----------------------------------------------------------------------------
(* The status of a ceremony *)

\* The local check is the script's.
LEMMA ErrorsAgree ==
  ASSUME NEW old \in PublisherSetData, NEW next \in PublisherSetData, NEW op \in Operation
  PROVE  ~TransitionError(old, next, op) <=> CheckTransition(old, next, op)
<1>1. /\ old.until \in Nat /\ next.until \in Nat
      /\ old.paused \in BOOLEAN /\ next.paused \in BOOLEAN
  BY DataType
<1> QED
  BY <1>1 DEF TransitionError, CheckTransition, NextSet, SameSets, Rotation, Operation

\* As many signatures of a hash as keys.
LEMMA PairsCount ==
  ASSUME NEW K, IsFiniteSet(K), NEW hash
  PROVE  Cardinality({<<k, hash>> : k \in K}) = Cardinality(K)
<1> DEFINE P == {<<k, hash>> : k \in K}
           f == [k \in K |-> <<k, hash>>]
<1>1. f \in [K -> P] /\ (\A a, b \in K : f[a] = f[b] => a = b) /\ (\A p \in P : \E k \in K : f[k] = p)
  OBVIOUS
<1>2. f \in Bijection(K, P)
  <2> HIDE DEF f, P
  <2> QED BY <1>1, Fun_IsBij
<1>3. ExistsBijection(K, P)
  <2> HIDE DEF f, P
  <2> QED BY <1>2 DEF ExistsBijection
<1> HIDE DEF P
<1>4. Cardinality(P) = Cardinality(K)
  BY <1>3, FS_Bijection
<1> QED BY <1>4 DEF P

OfKeys(bundle, keys, hash) == \A s \in bundle : s[1] \in keys /\ s[2] = hash

\* A list that passes verifyThreshold is of so many signers among the keys.
LEMMA BundleIs ==
  ASSUME CeremonyInv, NEW keys \in SUBSET Key, NEW hash, NEW bundle \in SUBSET signed,
         OfKeys(bundle, keys, hash)
  PROVE  \E K \in SUBSET (Signers(hash) \cap keys) : Cardinality(bundle) = Cardinality(K)
<1> DEFINE K == {k \in keys : <<k, hash>> \in bundle}
<1>1. \A s \in bundle : s = <<s[1], s[2]>>
  BY DEF CeremonyInv, SignatureSound
<1>2. bundle = {<<k, hash>> : k \in K}
  <2>1. ASSUME NEW s \in bundle PROVE s \in {<<k, hash>> : k \in K}
    <3>1. s = <<s[1], hash>> /\ s[1] \in keys
      BY <1>1 DEF OfKeys
    <3>2. s[1] \in K
      BY <3>1
    <3> HIDE DEF K
    <3> QED BY <3>1, <3>2
  <2>2. ASSUME NEW k \in K PROVE <<k, hash>> \in bundle
    OBVIOUS
  <2> HIDE DEF K
  <2> QED BY <2>1, <2>2
<1>3. K \in SUBSET (Signers(hash) \cap keys)
  BY DEF Signers
<1>4. IsFiniteSet(K)
  BY CeremonyAssumption, FS_Subset
<1>5. Cardinality(bundle) = Cardinality(K)
  <2> HIDE DEF K
  <2> QED BY <1>2, <1>4, PairsCount
<1> QED BY <1>3, <1>5

\* Some of the signatures made meet a threshold when there are signers enough.
LEMMA ThresholdIs ==
  ASSUME CeremonyInv, NEW keys \in SUBSET Key, NEW hash
  PROVE  (\E bundle \in Merged(hash[1]) : ThresholdMet(bundle, hash, keys))
           <=> Cardinality(Signers(hash) \cap keys) >= Quorum(keys)
<1> DEFINE S == Signers(hash) \cap keys
           all == {<<k, hash>> : k \in S}
<1>1. IsFiniteSet(S) /\ Cardinality(S) \in Nat /\ IsFiniteSet(keys) /\ Cardinality(keys) \in Nat
  <2>1. IsFiniteSet(keys) /\ IsFiniteSet(S)
    BY CeremonyAssumption, FS_Subset
  <2> HIDE DEF S
  <2> QED BY <2>1, FS_CardinalityType
<1>2. Quorum(keys) \in Nat
  BY <1>1 DEF Quorum
<1>3. ASSUME NEW bundle \in Merged(hash[1]), ThresholdMet(bundle, hash, keys)
      PROVE  Cardinality(S) >= Quorum(keys)
  <2>1. bundle \in SUBSET signed /\ OfKeys(bundle, keys, hash)
    BY <1>3 DEF Merged, ThresholdMet, OfKeys
  <2>2. PICK K \in SUBSET S : Cardinality(bundle) = Cardinality(K)
    BY <2>1, BundleIs
  <2>3. Cardinality(K) <= Cardinality(S) /\ Cardinality(K) \in Nat
    <3> HIDE DEF S
    <3> QED BY <1>1, FS_Subset, FS_CardinalityType
  <2>4. Cardinality(bundle) >= Quorum(keys)
    BY <1>3 DEF ThresholdMet
  <2> HIDE DEF S
  <2> QED BY <1>1, <1>2, <2>2, <2>3, <2>4
<1>4. ASSUME Cardinality(S) >= Quorum(keys)
      PROVE  all \in Merged(hash[1]) /\ ThresholdMet(all, hash, keys)
  <2>1. Cardinality(all) = Cardinality(S)
    <3> HIDE DEF S
    <3> QED BY <1>1, PairsCount
  <2>2. \A s \in all : s \in signed /\ s[1] \in keys /\ s[2] = hash
    <3>1. \A k \in S : k \in keys /\ <<k, hash>> \in signed
      BY DEF Signers
    <3> HIDE DEF S
    <3> QED BY <3>1
  <2> HIDE DEF all, S
  <2> QED BY <1>4, <2>1, <2>2 DEF Merged, ThresholdMet
<1> HIDE DEF S, all
<1> QED BY <1>3, <1>4 DEF S

\* A rotation is proven when each of its keys signed.
LEMMA ProofIs ==
  ASSUME CeremonyInv, NEW keys \in SUBSET Key, keys # {}, NEW hash
  PROVE  (\E bundle \in Merged(hash[1]) :
            ThresholdMet(bundle, hash, keys) /\ Cardinality(bundle) = Cardinality(keys))
           <=> keys \subseteq Signers(hash)
<1>1. IsFiniteSet(keys) /\ Cardinality(keys) \in Nat /\ Cardinality(keys) # 0
  <2>1. IsFiniteSet(keys)
    BY CeremonyAssumption, FS_Subset
  <2> QED BY <2>1, FS_CardinalityType, FS_EmptySet
<1>2. Quorum(keys) <= Cardinality(keys)
  BY <1>1 DEF Quorum
<1>3. ASSUME NEW bundle \in Merged(hash[1]), ThresholdMet(bundle, hash, keys),
             Cardinality(bundle) = Cardinality(keys)
      PROVE  keys \subseteq Signers(hash)
  <2>1. bundle \in SUBSET signed /\ OfKeys(bundle, keys, hash)
    BY <1>3 DEF Merged, ThresholdMet, OfKeys
  <2>2. PICK K \in SUBSET (Signers(hash) \cap keys) : Cardinality(bundle) = Cardinality(K)
    BY <2>1, BundleIs
  <2>3. K \in SUBSET keys /\ Cardinality(keys) = Cardinality(K)
    BY <1>3, <2>2
  <2>4. keys = K
    BY <1>1, <2>3, FS_Subset
  <2> QED BY <2>4
<1>4. ASSUME keys \subseteq Signers(hash)
      PROVE  \E bundle \in Merged(hash[1]) :
               ThresholdMet(bundle, hash, keys) /\ Cardinality(bundle) = Cardinality(keys)
  <2> DEFINE all == {<<k, hash>> : k \in keys}
  <2>1. Cardinality(all) = Cardinality(keys)
    BY <1>1, PairsCount
  <2>2. \A s \in all : s \in signed /\ s[1] \in keys /\ s[2] = hash
    BY <1>4 DEF Signers
  <2> HIDE DEF all
  <2>3. all \in Merged(hash[1]) /\ ThresholdMet(all, hash, keys)
    BY <1>2, <2>1, <2>2 DEF Merged, ThresholdMet
  <2> QED BY <2>1, <2>3
<1> QED BY <1>3, <1>4

LEMMA StatusIs == CeremonyInv /\ GovernanceInv => StatusTrue
<1> SUFFICES ASSUME CeremonyInv, GovernanceInv, NEW d \in document, d.old = live
             PROVE  (\E authorization \in Merged("update"), pop \in Merged("pop") : Ready(d, authorization, pop))
                      <=> Authorized(d) /\ Proven(d) /\ CheckTransition(live, d.next, d.op)
  BY DEF StatusTrue
<1> DEFINE set == member[live.index]
           Known == \E bundle \in Merged("update") : ThresholdMet(bundle, UpdateHash(d), set)
           Shown == \E bundle \in Merged("pop") :
                      d.op \in Rotation =>
                        ThresholdMet(bundle, PopHash(d), d.keys) /\ Cardinality(bundle) = Cardinality(d.keys)
<1>1. /\ d \in Document /\ live \in PublisherSetData
      /\ IF d.op \in Rotation THEN d.keys # {} ELSE d.keys = member[d.old.index]
  BY SubjectGoverns DEF CeremonyInv, DocumentSound, GovernanceInv, GovernanceTypeOK, live
<1>2. d.next \in PublisherSetData /\ d.op \in Operation /\ d.keys \in SUBSET Key
  BY <1>1 DEF Document
<1>3. set \in SUBSET Key
  BY <1>1 DEF CeremonyInv, PublisherSetData
<1>4. [d EXCEPT !.old = live] = d
  BY <1>1 DEF Document
<1>5. UpdateHash(d)[1] = "update" /\ PopHash(d)[1] = "pop"
  BY DEF UpdateHash, PopHash
<1>6. Known <=> Authorized(d)
  <2>1. Known <=> Cardinality(Signers(UpdateHash(d)) \cap set) >= Quorum(set)
    <3> HIDE DEF set
    <3> QED BY <1>3, <1>5, ThresholdIs
  <2> QED BY <1>4, <2>1 DEF Authorized
<1>7. Shown <=> Proven(d)
  <2>1. CASE d.op \in Rotation
    <3>1. d.keys # {}
      BY <1>1, <2>1
    <3>2. (\E bundle \in Merged("pop") :
             ThresholdMet(bundle, PopHash(d), d.keys) /\ Cardinality(bundle) = Cardinality(d.keys))
            <=> d.keys \subseteq Signers(PopHash(d))
      BY <1>2, <1>5, <3>1, ProofIs
    <3> QED BY <2>1, <3>2 DEF Proven
  <2>2. CASE d.op \notin Rotation
    <3>1. {} \in Merged("pop")
      BY DEF Merged
    <3> QED BY <2>2, <3>1 DEF Proven
  <2> QED BY <2>1, <2>2
<1>8. ~TransitionError(d.old, d.next, d.op) <=> CheckTransition(live, d.next, d.op)
  BY <1>1, <1>2, ErrorsAgree
<1>9. (\E authorization \in Merged("update"), pop \in Merged("pop") : Ready(d, authorization, pop))
        <=> ~TransitionError(d.old, d.next, d.op) /\ Known /\ Shown
  BY DEF Ready
<1> HIDE DEF Known, Shown
<1> QED BY <1>6, <1>7, <1>8, <1>9

\* Of a document of the live state, the status is ready with some of the signatures
\* made just when the script takes the operation, leaving the clock aside
\* (governanceStatus, transitionError, verify_threshold, verify_all).
THEOREM StatusTold == Spec => []StatusTrue
BY CeremonyInvariant, CellInvariant, StatusIs, PTL

-----------------------------------------------------------------------------
(* Shadow mode *)

ShadowTypeOK ==
  /\ tick \in Nat /\ tick <= MaxTick
  /\ DOMAIN certified = 1..MaxTick /\ DOMAIN asked = 1..MaxTick
  /\ \A t \in 1..MaxTick : certified[t] # None => t <= tick
  /\ state \in [Feed -> Nat]

\* An answer, whenever it was given, names updates of ticks that have passed and, of
\* each, feeds that it prices.
AnswersTrue ==
  /\ held \subseteq {t \in 1..MaxTick : certified[t] # None}
  /\ \A t \in 1..MaxTick : asked[t] # None =>
       \A a \in asked[t] : a.tick \in 1..MaxTick /\ certified[a.tick] # None

\* Comparisons and kept updates are of ticks there were.
OfTicks ==
  /\ \A c \in compared : c.tick \in 1..MaxTick
  /\ kept \subseteq 1..MaxTick

ShadowInv == ShadowTypeOK /\ AnswersTrue /\ OfTicks /\ ShadowTrue

LEMMA Ticks == MaxTick \in Nat
BY ShadowAssumption

\* What is certified stays.
CertifiedKept ==
  /\ DOMAIN certified' = 1..MaxTick
  /\ \A t \in 1..MaxTick : certified[t] # None => certified'[t] = certified[t]

LEMMA TickCertifies ==
  ASSUME ShadowInv, Tick
  PROVE  /\ CertifiedKept
         /\ \A t \in 1..MaxTick : certified'[t] # None => t <= tick + 1
         /\ tick' = tick + 1 /\ tick + 1 \in Nat /\ tick + 1 <= MaxTick
<1>1. /\ tick \in Nat /\ DOMAIN certified = 1..MaxTick
      /\ \A t \in 1..MaxTick : certified[t] # None => t <= tick
  BY DEF ShadowInv, ShadowTypeOK
<1>2. /\ tick' = tick + 1 /\ tick < MaxTick
      /\ \E update : certified' = [certified EXCEPT ![tick + 1] = update]
  BY DEF Tick
<1>3. PICK update : certified' = [certified EXCEPT ![tick + 1] = update]
  BY <1>2
<1>4. DOMAIN certified' = 1..MaxTick /\ \A t \in 1..MaxTick : t # tick + 1 => certified'[t] = certified[t]
  BY <1>1, <1>3
<1>5. ASSUME NEW t \in 1..MaxTick, certified[t] # None PROVE certified'[t] = certified[t]
  BY <1>1, <1>4, <1>5
<1>6. ASSUME NEW t \in 1..MaxTick, certified'[t] # None PROVE t <= tick + 1
  <2>1. CASE t = tick + 1
    BY <1>1, <2>1
  <2>2. CASE t # tick + 1
    BY <1>1, <1>4, <1>6, <2>2
  <2> QED
    BY <2>1, <2>2
<1>7. tick + 1 \in Nat /\ tick + 1 <= MaxTick
  BY <1>1, <1>2, Ticks
<1> QED
  BY <1>2, <1>4, <1>5, <1>6, <1>7 DEF CertifiedKept

\* What was compared and kept stays true of what is certified since.
LEMMA TruthStays ==
  ASSUME ShadowInv, CertifiedKept, UNCHANGED <<compared, kept, state>>
  PROVE  ShadowTrue' /\ OfTicks'
<1>1. ComparedTrue /\ HistoryJoins /\ OfTicks
  BY DEF ShadowInv, ShadowTrue
<1>2. ComparedTrue'
  BY <1>1 DEF CertifiedKept, ComparedTrue, OfTicks
<1>3. \A t \in kept : certified'[t] = certified[t]
  BY <1>1 DEF HistoryJoins, OfTicks, CertifiedKept
<1>4. \A c \in compared : c.theirs # None => certified'[c.tick] = certified[c.tick]
  BY <1>1 DEF ComparedTrue, OfTicks, CertifiedKept
<1>5. HistoryJoins'
  BY <1>1, <1>3, <1>4 DEF HistoryJoins, Has
<1>6. OfTicks'
  BY <1>1 DEF OfTicks
<1> QED
  BY <1>2, <1>5, <1>6 DEF ShadowTrue

LEMMA TickKeeps == ASSUME ShadowInv, Tick PROVE ShadowInv'
<1>1. /\ CertifiedKept
      /\ \A t \in 1..MaxTick : certified'[t] # None => t <= tick + 1
      /\ tick' = tick + 1 /\ tick + 1 \in Nat /\ tick + 1 <= MaxTick
  BY TickCertifies
<1>2. UNCHANGED <<held, asked, compared, kept, state>>
  BY DEF Tick
<1>3. ShadowTypeOK'
  BY <1>1, <1>2 DEF ShadowInv, ShadowTypeOK, CertifiedKept
<1>4. AnswersTrue'
  BY <1>1, <1>2 DEF ShadowInv, AnswersTrue, CertifiedKept
<1> QED
  BY <1>1, <1>2, <1>3, <1>4, TruthStays DEF ShadowInv

LEMMA LearnKeeps == ASSUME ShadowInv, MirrorLearns PROVE ShadowInv'
<1>1. PICK t \in 1..tick : certified[t] # None /\ held' = held \cup {t}
      /\ UNCHANGED <<tick, certified, asked, compared, kept, state>>
  BY DEF MirrorLearns
<1>2. CertifiedKept /\ ShadowTypeOK'
  BY <1>1 DEF CertifiedKept, ShadowInv, ShadowTypeOK
<1>3. t \in 1..MaxTick
  <2>1. tick \in Nat /\ tick <= MaxTick
    BY DEF ShadowInv, ShadowTypeOK
  <2> QED
    BY <2>1, Ticks
<1>4. AnswersTrue'
  BY <1>1, <1>3 DEF ShadowInv, AnswersTrue
<1> QED
  BY <1>1, <1>2, <1>4, TruthStays DEF ShadowInv

LEMMA CompareKeeps == ASSUME ShadowInv, NEW t \in 1..MaxTick, Compare(t) PROVE ShadowInv'
<1>1. /\ asked' = [asked EXCEPT ![t] = Answer(t)]
      /\ UNCHANGED <<tick, certified, held, compared, kept, state>>
  BY DEF Compare
<1>2. CertifiedKept /\ ShadowTypeOK'
  BY <1>1 DEF CertifiedKept, ShadowInv, ShadowTypeOK
<1>3. ASSUME NEW a \in Answer(t) PROVE a.tick \in held
  <2>1. PICK u \in UNION {AtOrAfter(f, t) : f \in Feed} :
          a = [tick |-> u, feeds |-> {f \in Feed : u \in AtOrAfter(f, t)}]
    BY <1>3 DEF Answer
  <2>2. u \in held
    BY <2>1 DEF AtOrAfter
  <2> QED
    BY <2>1, <2>2
<1>4. AnswersTrue'
  <2>1. DOMAIN asked = 1..MaxTick /\ AnswersTrue
    BY DEF ShadowInv, ShadowTypeOK
  <2>2. \A s \in 1..MaxTick : asked'[s] = IF s = t THEN Answer(t) ELSE asked[s]
    BY <1>1, <2>1
  <2>3. \A s \in 1..MaxTick : asked'[s] # None =>
          \A a \in asked'[s] : a.tick \in 1..MaxTick /\ certified[a.tick] # None
    BY <1>3, <2>1, <2>2 DEF AnswersTrue
  <2> QED
    BY <1>1, <2>1, <2>3 DEF AnswersTrue
<1> QED
  BY <1>1, <1>2, <1>4, TruthStays DEF ShadowInv

LEMMA FailedKeeps == ASSUME ShadowInv, NEW t \in 1..MaxTick, Failed(t) PROVE ShadowInv'
<1>1. /\ asked' = [asked EXCEPT ![t] = None]
      /\ UNCHANGED <<tick, certified, held, compared, kept, state>>
  BY DEF Failed
<1>2. CertifiedKept /\ ShadowTypeOK'
  BY <1>1 DEF CertifiedKept, ShadowInv, ShadowTypeOK
<1>3. AnswersTrue'
  BY <1>1 DEF ShadowInv, ShadowTypeOK, AnswersTrue
<1> QED
  BY <1>1, <1>2, <1>3, TruthStays DEF ShadowInv

\* The only update that counts is the one of the tick itself.
LEMMA ComparedKeeps == ASSUME ShadowInv, NEW t \in 1..MaxTick, Compared(t) PROVE ShadowInv'
<1> DEFINE matches == {u \in asked[t] : Counts(u, t)}
           new == {u.tick : u \in {v \in matches : Keeps(v)}}
           Theirs(f) == {certified[u.tick].prices[f] : u \in {v \in matches : f \in v.feeds}}
           row(f) == [feed |-> f, tick |-> t, ours |-> f \in own[t],
                      theirs |-> IF Theirs(f) = {} THEN None ELSE CHOOSE p \in Theirs(f) : TRUE]
<1>1. /\ asked[t] # None
      /\ compared' = compared \cup {row(f) : f \in Feed}
      /\ kept' = kept \cup new
      /\ state' = [f \in Feed |-> IF \E u \in new : Has(u, f) THEN Newer(f, CHOOSE u \in new : Has(u, f)) ELSE state[f]]
      /\ asked' = [asked EXCEPT ![t] = None]
      /\ UNCHANGED <<tick, certified, held>>
  BY Zenon DEF Compared
<1>2. ShadowTypeOK /\ AnswersTrue /\ OfTicks /\ ComparedTrue /\ HistoryJoins
  BY DEF ShadowInv, ShadowTrue
<1>3. \A u \in matches : u.tick = t /\ certified[t] # None
  BY <1>1, <1>2 DEF Counts, AnswersTrue
<1>4. /\ new \subseteq {t}
      /\ \A u \in new : certified[u] # None /\ certified[u].set = 1
      /\ matches # {} /\ certified[t].set = 1 => t \in kept \cup new
  BY <1>3 DEF Keeps
<1>5. ASSUME NEW f
      PROVE  /\ row(f).feed = f /\ row(f).tick = t
             /\ row(f).theirs # None =>
                  matches # {} /\ certified[t] # None /\ certified[t].prices[f] = row(f).theirs
  <2>1. \A p \in Theirs(f) : p = certified[t].prices[f] /\ matches # {} /\ certified[t] # None
    BY <1>3
  <2>2. row(f).feed = f /\ row(f).tick = t
        /\ row(f).theirs = IF Theirs(f) = {} THEN None ELSE CHOOSE p \in Theirs(f) : TRUE
    OBVIOUS
  <2> HIDE DEF Theirs, row
  <2>3. row(f).theirs # None => row(f).theirs \in Theirs(f)
    BY <2>2
  <2> QED
    BY <2>1, <2>2, <2>3
<1> HIDE DEF matches, new, row
<1>6. ComparedTrue'
  BY <1>1, <1>2, <1>5 DEF ComparedTrue
<1>7. \A f \in Feed : state[f] \in Nat /\ state'[f] \in Nat /\ state[f] <= state'[f]
                     /\ \A u \in new : Has(u, f) => u <= state'[f]
  <2> SUFFICES ASSUME NEW f \in Feed
               PROVE  /\ state[f] \in Nat /\ state'[f] \in Nat /\ state[f] <= state'[f]
                      /\ \A u \in new : Has(u, f) => u <= state'[f]
    OBVIOUS
  <2>1. state[f] \in Nat
    BY <1>2 DEF ShadowTypeOK
  <2>2. CASE \E u \in new : Has(u, f)
    <3>1. new = {t} /\ (CHOOSE u \in new : Has(u, f)) = t
      BY <1>4, <2>2
    <3>2. state'[f] = Newer(f, t)
      BY <1>1, <2>2, <3>1
    <3>3. Newer(f, t) \in Nat /\ state[f] <= Newer(f, t) /\ t <= Newer(f, t)
      BY <2>1, Ticks DEF Newer
    <3> QED
      BY <2>1, <3>1, <3>2, <3>3
  <2>3. CASE ~ \E u \in new : Has(u, f)
    BY <1>1, <2>1, <2>3
  <2> QED
    BY <2>2, <2>3
<1>8. HistoryJoins'
  <2>1. \A s \in kept' : certified[s] # None /\ certified[s].set = 1
    BY <1>1, <1>2, <1>4 DEF HistoryJoins
  <2>2. \A c \in compared' : c.theirs # None /\ certified[c.tick].set = 1 => c.tick \in kept'
    BY <1>1, <1>2, <1>4, <1>5 DEF HistoryJoins
  <2>3. ASSUME NEW f \in Feed, NEW s \in kept', Has(s, f) PROVE s <= state'[f]
    <3>1. CASE s \in kept
      <4>1. s \in Nat
        BY <1>2, <3>1, Ticks DEF OfTicks
      <4>2. s <= state[f]
        BY <1>2, <2>3, <3>1 DEF HistoryJoins
      <4>3. state[f] \in Nat /\ state'[f] \in Nat /\ state[f] <= state'[f]
        BY <1>7
      <4> QED
        BY <4>1, <4>2, <4>3
    <3>2. CASE s \in new
      BY <1>7, <2>3, <3>2
    <3> QED
      BY <1>1, <3>1, <3>2
  <2> QED
    BY <1>1, <2>1, <2>2, <2>3 DEF HistoryJoins, Has
<1>9. OfTicks'
  BY <1>1, <1>2, <1>4, <1>5 DEF OfTicks
<1>10. ShadowTypeOK'
  <2>1. state' \in [Feed -> Nat]
    BY <1>1, <1>7
  <2> QED
    BY <1>1, <1>2, <2>1 DEF ShadowTypeOK
<1>11. AnswersTrue'
  BY <1>1, <1>2 DEF AnswersTrue, ShadowTypeOK
<1> QED
  BY <1>6, <1>8, <1>9, <1>10, <1>11 DEF ShadowInv, ShadowTrue

\* For any feeds and ticks, and whatever order ticks, answers, rotations and the mirror's
\* updates come in: a shadow compares with the committee's price of the very tick, and
\* keeps every update of its set that it compared with (fetchReference, keep).
THEOREM ShadowTells == ShadowSpec => []ShadowTrue
<1>1. ShadowInit => ShadowInv
  BY Ticks DEF ShadowInit, ShadowInv, ShadowTypeOK, AnswersTrue, OfTicks, ShadowTrue, ComparedTrue, HistoryJoins
<1>2. ShadowInv /\ [ShadowNext]_shadowVars => ShadowInv'
  <2> SUFFICES ASSUME ShadowInv, [ShadowNext]_shadowVars PROVE ShadowInv'
    OBVIOUS
  <2>1. CASE Tick
    BY <2>1, TickKeeps
  <2>2. CASE MirrorLearns
    BY <2>2, LearnKeeps
  <2>3. ASSUME NEW t \in 1..MaxTick, Compare(t) PROVE ShadowInv'
    BY <2>3, CompareKeeps
  <2>4. ASSUME NEW t \in 1..MaxTick, Compared(t) PROVE ShadowInv'
    BY <2>4, ComparedKeeps
  <2>5. ASSUME NEW t \in 1..MaxTick, Failed(t) PROVE ShadowInv'
    BY <2>5, FailedKeeps
  <2>6. CASE UNCHANGED shadowVars
    <3>1. CertifiedKept /\ UNCHANGED <<tick, certified, held, asked, compared, kept, state>>
      BY <2>6 DEF shadowVars, CertifiedKept, ShadowInv, ShadowTypeOK
    <3>2. ShadowTypeOK' /\ AnswersTrue'
      BY <3>1 DEF ShadowInv, ShadowTypeOK, AnswersTrue
    <3> QED
      BY <3>1, <3>2, TruthStays DEF ShadowInv
  <2> QED
    BY <2>1, <2>2, <2>3, <2>4, <2>5, <2>6 DEF ShadowNext
<1>3. ShadowInv => ShadowTrue
  BY DEF ShadowInv
<1> QED
  BY <1>1, <1>2, <1>3, PTL DEF ShadowSpec

-----------------------------------------------------------------------------
(* The deployment record *)

CodeVersion == [code : Build, cell : Nat, retired : BOOLEAN]
CommitteeEntry == [code : Build, version : Nat, tx : Nat, rotations : Nat]
RecordType ==
  [contracts : [Contract -> [current : Nat, versions : Seq(CodeVersion)]],
   committees : [Name -> CommitteeEntry \cup {Absent}]]
Command == {"deploy:code", "deploy:committee", "retire:code", "govern:committee"}
Jobs ==
  [op : Command, contract : Contract \cup {Absent}, code : Build \cup Nat, name : Name \cup {Absent},
   cell : Nat \cup {Absent}, lock : Nat \cup Build \cup {Absent}, forced : BOOLEAN, committed : BOOLEAN]

\* A record by itself: its current versions exist, and a committee's version is kept.
Coherent(r) ==
  /\ r \in RecordType
  /\ \A c \in Contract : Current(r, c) \in 0..Len(Versions(r, c))
  /\ \A n \in Committees(r) :
       /\ r.committees[n].version \in Kept(r, "publisherSetType")
       /\ Versions(r, "publisherSetType")[r.committees[n].version].code = r.committees[n].code

Done(t) == {i \in DOMAIN t : t[i].committed}
Gone(t) == {t[i].cell : i \in {j \in Done(t) : t[j].op = "retire:code"}}

\* What a record says of the chain, given the transactions.
VersionTrue(c, e, t) ==
  /\ e.cell \in Done(t) /\ t[e.cell].op = "deploy:code" /\ t[e.cell].contract = c
  /\ e.retired => e.cell \in Gone(t)
EntryTrue(r, n, k, t) ==
  /\ k.tx \in Done(t) /\ t[k.tx].cell = Versions(r, "publisherSetType")[k.version].cell
  /\ k.rotations > 0 => \E i \in Done(t) : t[i].op = "govern:committee" /\ t[i].name = n
OnChain(r, t) ==
  /\ \A c \in Contract : \A v \in DOMAIN Versions(r, c) : VersionTrue(c, Versions(r, c)[v], t)
  /\ \A n \in Committees(r) : EntryTrue(r, n, r.committees[n], t)

\* No two versions have one cell, and none has x.
CellsApart(r) ==
  \A c \in Contract : \A v, w \in DOMAIN Versions(r, c) :
    Versions(r, c)[v].cell = Versions(r, c)[w].cell => v = w
NotYet(r, x) == \A c \in Contract : \A v \in DOMAIN Versions(r, c) : Versions(r, c)[v].cell # x

\* A transaction that takes a version away, whenever it commits: unless it is forced,
\* the version is not the current one, and no committee is on it, ever since.
Unused(r, j) ==
  /\ j.contract \in Contract /\ j.code \in DOMAIN Versions(r, j.contract)
  /\ Versions(r, j.contract)[j.code].cell = j.cell
  /\ ~j.forced =>
       /\ Current(r, j.contract) # j.code
       /\ j.contract = "publisherSetType" => Users(r, j.code) = {}
Retirements(r, t) == \A i \in DOMAIN t : t[i].op = "retire:code" => Unused(r, t[i])

\* The transaction x that the tool waits for was asked for of the record as it still is.
Asked(r, j) ==
  /\ j.op \in Command
  /\ j.op = "deploy:code" => j.contract \in Contract /\ j.code \in Build
  /\ j.op = "deploy:committee" =>
       LET v == Current(r, "publisherSetType") IN
       /\ j.name \in Name /\ v \in Kept(r, "publisherSetType")
       /\ j.code = Versions(r, "publisherSetType")[v].code
       /\ j.cell = Versions(r, "publisherSetType")[v].cell
  /\ j.op = "retire:code" =>
       /\ j.contract \in Contract /\ j.code \in Kept(r, j.contract)
       /\ j.contract = "publisherSetType" => Users(r, j.code) = {}
  /\ j.op = "govern:committee" => j.name \in Committees(r)
Awaited(r, t, x) == x # 0 => x = Len(t) /\ x \in DOMAIN t /\ NotYet(r, x) /\ Asked(r, t[x])

DeployInv ==
  /\ txs \in Seq(Jobs) /\ tool \in Nat
  /\ Coherent(record)
  /\ OnChain(record, txs)
  /\ Coherent(presets) /\ OnChain(presets, txs)
  /\ CellsApart(record)
  /\ Retirements(record, txs)
  /\ Awaited(record, txs, tool)

\* A nonempty set of naturals has a least element.
LEMMA SmallestOf ==
  ASSUME NEW S \in SUBSET Nat, S # {}
  PROVE  \E l \in S : \A w \in S : l <= w
<1> DEFINE Less == {ss \in Nat \X Nat : ss[1] < ss[2]}
<1>1. IsWellFoundedOn(Less, Nat)
  BY NatLessThanWellFounded DEF OpToRel
<1>2. PICK x \in S : \A y \in S : <<y, x>> \notin Less
  <2> HIDE DEF Less
  <2> QED BY <1>1, WFMin
<1>3. \A y \in S : ~(y < x)
  BY <1>2
<1> QED
  BY <1>3

\* A record whose current versions exist, and whose committees are on kept versions, is
\* one that update writes.
LEMMA CoherentWritable == ASSUME NEW r, Coherent(r) PROVE Writable(r)
<1> SUFFICES ASSUME Complete(r), ~MidMigration(r) PROVE Readable(r)
  BY DEF Writable
<1>1. ASSUME NEW c \in Contract, Current(r, c) # 0 PROVE Current(r, c) \in Kept(r, c)
  <2>1. Current(r, c) \in 0..Len(Versions(r, c)) /\ Current(r, c) # 0
    BY <1>1 DEF Coherent
  <2>2. Versions(r, c) \in Seq(CodeVersion)
    BY DEF Coherent, RecordType, Versions
  <2>3. Current(r, c) \in DOMAIN Versions(r, c)
    BY <2>1, <2>2
  <2>4. ~Versions(r, c)[Current(r, c)].retired
    BY <2>1 DEF MidMigration
  <2> QED
    BY <2>3, <2>4 DEF Kept
<1>2. \A n \in Committees(r) : \E v \in Kept(r, "publisherSetType") :
        Versions(r, "publisherSetType")[v].code = r.committees[n].code
  BY DEF Coherent
<1>3. \A c \in Contract : Current(r, c) \in Kept(r, c) \/ (c \notin Core /\ Current(r, c) = 0)
  BY <1>1 DEF Complete
<1> QED
  BY <1>2, <1>3 DEF Readable

\* What the four commands make of a record.
Appended(r, s, c, e) ==
  /\ s \in RecordType /\ s.committees = r.committees
  /\ Versions(s, c) = Append(Versions(r, c), e) /\ Current(s, c) = Len(Versions(r, c)) + 1
  /\ \A d \in Contract : d # c => Versions(s, d) = Versions(r, d) /\ Current(s, d) = Current(r, d)

LEMMA AppendedIs ==
  ASSUME NEW r \in RecordType, NEW c \in Contract, NEW e \in CodeVersion
  PROVE  Appended(r, [r EXCEPT !.contracts[c] =
                        [current |-> Len(@.versions) + 1, versions |-> Append(@.versions, e)]], c, e)
<1> DEFINE old == r.contracts[c]
           then == [current |-> Len(old.versions) + 1, versions |-> Append(old.versions, e)]
           s == [r EXCEPT !.contracts[c] =
                  [current |-> Len(@.versions) + 1, versions |-> Append(@.versions, e)]]
<1>2. r.contracts \in [Contract -> [current : Nat, versions : Seq(CodeVersion)]]
  BY DEF RecordType
<1>3. then \in [current : Nat, versions : Seq(CodeVersion)]
  BY <1>2
<1>4. [r.contracts EXCEPT ![c] = then] \in [Contract -> [current : Nat, versions : Seq(CodeVersion)]]
  <2> HIDE DEF then
  <2> QED
    BY <1>2, <1>3
<1>5. s \in RecordType
  <2>1. [r EXCEPT !.contracts = [r.contracts EXCEPT ![c] = then]] \in RecordType
    <3> HIDE DEF then
    <3> QED
      BY <1>4 DEF RecordType
  <2> QED
    BY <2>1
<1>6. s.contracts = [r.contracts EXCEPT ![c] = then] /\ s.committees = r.committees
  BY DEF RecordType
<1> HIDE DEF s, then
<1>7. s.contracts[c] = then /\ \A d \in Contract : d # c => s.contracts[d] = r.contracts[d]
  BY <1>2, <1>6
<1>8. Versions(s, c) = Append(Versions(r, c), e) /\ Current(s, c) = Len(Versions(r, c)) + 1
  BY <1>7 DEF Versions, Current, then
<1> QED
  BY <1>5, <1>6, <1>7, <1>8 DEF Appended, Versions, Current, s

MarkedRetired(r, s, c, v) ==
  /\ s \in RecordType /\ s.committees = r.committees
  /\ \A d \in Contract :
       /\ DOMAIN Versions(s, d) = DOMAIN Versions(r, d) /\ Len(Versions(s, d)) = Len(Versions(r, d))
       /\ Current(s, d) = Current(r, d)
       /\ \A w \in DOMAIN Versions(r, d) :
            /\ Versions(s, d)[w].code = Versions(r, d)[w].code
            /\ Versions(s, d)[w].cell = Versions(r, d)[w].cell
            /\ Versions(s, d)[w].retired <=> Versions(r, d)[w].retired \/ (d = c /\ w = v)

LEMMA MarkedIs ==
  ASSUME NEW r \in RecordType, NEW c \in Contract, NEW v \in DOMAIN Versions(r, c)
  PROVE  MarkedRetired(r, [r EXCEPT !.contracts[c].versions[v].retired = TRUE], c, v)
<1> DEFINE old == r.contracts[c]
           gone == [old.versions[v] EXCEPT !.retired = TRUE]
           list == [old.versions EXCEPT ![v] = gone]
           then == [old EXCEPT !.versions = list]
           s == [r EXCEPT !.contracts[c].versions[v].retired = TRUE]
<1>1. r.contracts \in [Contract -> [current : Nat, versions : Seq(CodeVersion)]]
  BY DEF RecordType
<1>2. old \in [current : Nat, versions : Seq(CodeVersion)] /\ v \in DOMAIN old.versions
  BY <1>1 DEF Versions
<1>3. old.versions[v] \in CodeVersion
  BY <1>2
<1>4. /\ gone \in CodeVersion /\ gone.retired
      /\ gone.code = old.versions[v].code /\ gone.cell = old.versions[v].cell
  <2> HIDE DEF old
  <2> QED
    BY <1>3 DEF CodeVersion
<1>5. s = [r EXCEPT !.contracts = [r.contracts EXCEPT ![c] = then]]
  BY Zenon
<1> HIDE DEF gone
<1>9. /\ list \in Seq(CodeVersion) /\ DOMAIN list = DOMAIN old.versions /\ Len(list) = Len(old.versions)
      /\ list[v] = gone /\ \A w \in DOMAIN old.versions : w # v => list[w] = old.versions[w]
  <2> HIDE DEF old
  <2> QED
    BY <1>2, <1>4
<1> HIDE DEF list
<1>10. then \in [current : Nat, versions : Seq(CodeVersion)] /\ then.versions = list /\ then.current = old.current
  <2> HIDE DEF old
  <2> QED
    BY <1>2, <1>9
<1> HIDE DEF s, then
<1>11. [r.contracts EXCEPT ![c] = then] \in [Contract -> [current : Nat, versions : Seq(CodeVersion)]]
  BY <1>1, <1>10
<1>12. s \in RecordType /\ s.committees = r.committees /\ s.contracts = [r.contracts EXCEPT ![c] = then]
  BY <1>5, <1>11 DEF RecordType
<1>13. s.contracts[c] = then /\ \A d \in Contract : d # c => s.contracts[d] = r.contracts[d]
  BY <1>1, <1>12
<1>14. Versions(s, c) = list /\ Current(s, c) = Current(r, c) /\ Versions(r, c) = old.versions
  BY <1>10, <1>13 DEF Versions, Current
<1>15. ASSUME NEW w \in DOMAIN Versions(r, c)
       PROVE  /\ Versions(s, c)[w].code = Versions(r, c)[w].code
              /\ Versions(s, c)[w].cell = Versions(r, c)[w].cell
              /\ Versions(s, c)[w].retired <=> Versions(r, c)[w].retired \/ w = v
  <2>1. CASE w = v
    BY <1>4, <1>9, <1>14, <2>1
  <2>2. CASE w # v
    <3>1. Versions(s, c)[w] = Versions(r, c)[w]
      BY <1>9, <1>14, <2>2
    <3> QED
      BY <2>2, <3>1
  <2> QED
    BY <2>1, <2>2
<1>16. ASSUME NEW d \in Contract, d # c
       PROVE  Versions(s, d) = Versions(r, d) /\ Current(s, d) = Current(r, d)
  BY <1>13, <1>16 DEF Versions, Current
<1>17. ASSUME NEW d \in Contract
       PROVE  /\ DOMAIN Versions(s, d) = DOMAIN Versions(r, d) /\ Len(Versions(s, d)) = Len(Versions(r, d))
              /\ Current(s, d) = Current(r, d)
              /\ \A w \in DOMAIN Versions(r, d) :
                   /\ Versions(s, d)[w].code = Versions(r, d)[w].code
                   /\ Versions(s, d)[w].cell = Versions(r, d)[w].cell
                   /\ Versions(s, d)[w].retired <=> Versions(r, d)[w].retired \/ (d = c /\ w = v)
  <2>1. CASE d = c
    BY <1>9, <1>14, <1>15, <2>1
  <2>2. CASE d # c
    BY <1>16, <2>2
  <2> QED
    BY <2>1, <2>2
<1> QED
  BY <1>12, <1>17 DEF MarkedRetired, s

\* The committees change in one name; the versions stay.
Entered(r, s, n, k) ==
  /\ s \in RecordType /\ s.contracts = r.contracts
  /\ \A m \in Name : s.committees[m] = IF m = n THEN k ELSE r.committees[m]

LEMMA EnteredIs ==
  ASSUME NEW r \in RecordType, NEW n \in Name, NEW k \in CommitteeEntry \cup {Absent}
  PROVE  Entered(r, [r EXCEPT !.committees[n] = k], n, k)
<1> DEFINE ms == [r.committees EXCEPT ![n] = k]
           s == [r EXCEPT !.committees[n] = k]
<1>1. r.committees \in [Name -> CommitteeEntry \cup {Absent}]
  BY DEF RecordType
<1>2. ms \in [Name -> CommitteeEntry \cup {Absent}] /\ \A m \in Name : ms[m] = IF m = n THEN k ELSE r.committees[m]
  BY <1>1
<1>3. s = [r EXCEPT !.committees = ms]
  BY Zenon
<1> HIDE DEF ms, s
<1>4. s \in RecordType /\ s.contracts = r.contracts /\ s.committees = ms
  BY <1>2, <1>3 DEF RecordType
<1> QED
  BY <1>2, <1>4 DEF Entered, s

LEMMA RotationIs ==
  ASSUME NEW r \in RecordType, NEW n \in Committees(r)
  PROVE  LET k == r.committees[n]
             j == [code |-> k.code, version |-> k.version, tx |-> k.tx, rotations |-> k.rotations + 1]
         IN Entered(r, [r EXCEPT !.committees[n].rotations = @ + 1], n, j)
<1> DEFINE k == r.committees[n]
           j == [code |-> k.code, version |-> k.version, tx |-> k.tx, rotations |-> k.rotations + 1]
<1>1. k \in CommitteeEntry /\ n \in Name
  BY DEF Committees, RecordType
<1>2. j \in CommitteeEntry
  BY <1>1 DEF CommitteeEntry
<1>3. [r EXCEPT !.committees[n].rotations = @ + 1] = [r EXCEPT !.committees[n] = j]
  <2>1. ASSUME NEW x, x = [k EXCEPT !.rotations = k.rotations + 1] PROVE x = j
    <3> HIDE DEF k
    <3> QED
      BY <1>1, <2>1 DEF CommitteeEntry
  <2>2. [k EXCEPT !.rotations = k.rotations + 1] = j
    BY <2>1, Zenon
  <2>3. [r EXCEPT !.committees[n].rotations = @ + 1]
          = [r EXCEPT !.committees[n] = [k EXCEPT !.rotations = k.rotations + 1]]
    BY Zenon
  <2> QED
    BY <2>2, <2>3, Zenon
<1> HIDE DEF j
<1>4. Entered(r, [r EXCEPT !.committees[n] = j], n, j)
  BY <1>1, <1>2, EnteredIs
<1> QED
  BY <1>3, <1>4 DEF j

-----------------------------------------------------------------------------
(* Records keep what they say *)

\* Transactions are added and committed, and stay what they are.
Grows(t, u) ==
  \A i \in DOMAIN t :
    /\ i \in DOMAIN u /\ (t[i].committed => u[i].committed)
    /\ u[i].op = t[i].op /\ u[i].contract = t[i].contract /\ u[i].code = t[i].code
    /\ u[i].name = t[i].name /\ u[i].cell = t[i].cell /\ u[i].forced = t[i].forced

LEMMA GoneGrows == ASSUME NEW t, NEW u, Grows(t, u) PROVE Done(t) \subseteq Done(u) /\ Gone(t) \subseteq Gone(u)
<1>1. Done(t) \subseteq Done(u)
  BY DEF Done, Grows
<1>2. Gone(t) \subseteq Gone(u)
  BY <1>1 DEF Done, Gone, Grows
<1> QED
  BY <1>1, <1>2

LEMMA ChainKept == ASSUME NEW r, NEW t, NEW u, Grows(t, u), OnChain(r, t) PROVE OnChain(r, u)
<1>1. Done(t) \subseteq Done(u) /\ Gone(t) \subseteq Gone(u)
  BY GoneGrows
<1>2. \A i \in Done(t) : u[i].op = t[i].op /\ u[i].contract = t[i].contract /\ u[i].name = t[i].name /\ u[i].cell = t[i].cell
  BY DEF Done, Grows
<1>3. ASSUME NEW c, NEW e, VersionTrue(c, e, t) PROVE VersionTrue(c, e, u)
  BY <1>1, <1>2, <1>3 DEF VersionTrue
<1>4. ASSUME NEW n, NEW k, EntryTrue(r, n, k, t) PROVE EntryTrue(r, n, k, u)
  BY <1>1, <1>2, <1>4 DEF EntryTrue
<1> QED
  BY <1>3, <1>4 DEF OnChain

\* A version is added.
LEMMA AppendKeeps ==
  ASSUME NEW r, NEW s, NEW c \in Contract, NEW e \in CodeVersion, Appended(r, s, c, e), Coherent(r)
  PROVE  /\ Coherent(s)
         /\ \A t : OnChain(r, t) /\ VersionTrue(c, e, t) => OnChain(s, t)
         /\ \A t : Retirements(r, t) => Retirements(s, t)
         /\ CellsApart(r) /\ NotYet(r, e.cell) => CellsApart(s)
<1> DEFINE p == "publisherSetType"
           old == Versions(r, c)
<1>1. \A d \in Contract : Versions(r, d) \in Seq(CodeVersion) /\ Versions(s, d) \in Seq(CodeVersion)
  BY DEF Coherent, RecordType, Appended, Versions
<1>2. /\ DOMAIN Versions(s, c) = DOMAIN old \cup {Len(old) + 1}
      /\ Len(old) + 1 \notin DOMAIN old /\ Len(Versions(s, c)) = Len(old) + 1
      /\ \A v \in DOMAIN old : Versions(s, c)[v] = old[v]
      /\ Versions(s, c)[Len(old) + 1] = e /\ Len(old) \in Nat
  BY <1>1 DEF Appended
<1>3. \A d \in Contract : \A v \in DOMAIN Versions(r, d) :
        v \in DOMAIN Versions(s, d) /\ Versions(s, d)[v] = Versions(r, d)[v]
  BY <1>2 DEF Appended
<1>4. \A d \in Contract : \A v \in DOMAIN Versions(s, d) :
        v \in DOMAIN Versions(r, d) \/ (d = c /\ v = Len(old) + 1)
  BY <1>2 DEF Appended
<1>5. p \in Contract /\ Committees(s) = Committees(r) /\ s.committees = r.committees
  BY DEF Contract, Core, Committees, Appended
<1>6. Kept(r, p) \subseteq Kept(s, p)
  BY <1>3, <1>5 DEF Kept
<1>7. Coherent(s)
  <2>1. ASSUME NEW d \in Contract PROVE Current(s, d) \in 0..Len(Versions(s, d))
    <3>1. CASE d = c
      BY <1>2, <3>1 DEF Appended
    <3>2. CASE d # c
      BY <3>2 DEF Coherent, Appended
    <3> QED
      BY <3>1, <3>2
  <2>2. ASSUME NEW n \in Committees(s)
        PROVE  /\ s.committees[n].version \in Kept(s, p)
               /\ Versions(s, p)[s.committees[n].version].code = s.committees[n].code
    <3>1. /\ r.committees[n].version \in Kept(r, p)
          /\ Versions(r, p)[r.committees[n].version].code = r.committees[n].code
      BY <1>5, <2>2 DEF Coherent
    <3>2. r.committees[n].version \in DOMAIN Versions(r, p)
      BY <3>1 DEF Kept
    <3> QED
      BY <1>3, <1>5, <1>6, <3>1, <3>2
  <2> QED
    BY <2>1, <2>2 DEF Coherent, Appended
<1>8. ASSUME NEW t, OnChain(r, t), VersionTrue(c, e, t) PROVE OnChain(s, t)
  <2>1. ASSUME NEW d \in Contract, NEW v \in DOMAIN Versions(s, d) PROVE VersionTrue(d, Versions(s, d)[v], t)
    <3>1. CASE v \in DOMAIN Versions(r, d)
      BY <1>3, <1>8, <3>1 DEF OnChain
    <3>2. CASE d = c /\ v = Len(old) + 1
      BY <1>2, <1>8, <3>2
    <3> QED
      BY <1>4, <3>1, <3>2
  <2>2. ASSUME NEW n \in Committees(s) PROVE EntryTrue(s, n, s.committees[n], t)
    <3>1. EntryTrue(r, n, s.committees[n], t) /\ s.committees[n].version \in DOMAIN Versions(r, p)
      BY <1>5, <1>8, <2>2 DEF OnChain, Coherent, Kept
    <3> QED
      BY <1>3, <1>5, <3>1 DEF EntryTrue
  <2> QED
    BY <2>1, <2>2 DEF OnChain
<1>9. ASSUME NEW t, Retirements(r, t) PROVE Retirements(s, t)
  <2> SUFFICES ASSUME NEW i \in DOMAIN t, t[i].op = "retire:code" PROVE Unused(s, t[i])
    BY DEF Retirements
  <2> DEFINE j == t[i]
  <2>1. Unused(r, j)
    BY <1>9 DEF Retirements
  <2>2. j.contract \in Contract /\ j.code \in DOMAIN Versions(r, j.contract)
    BY <2>1 DEF Unused
  <2>3. /\ j.code \in DOMAIN Versions(s, j.contract)
        /\ Versions(s, j.contract)[j.code] = Versions(r, j.contract)[j.code]
    BY <1>3, <2>2
  <2>4. ASSUME Current(r, j.contract) # j.code PROVE Current(s, j.contract) # j.code
    <3>1. CASE j.contract = c
      BY <1>2, <2>2, <3>1 DEF Appended
    <3>2. CASE j.contract # c
      BY <2>2, <2>4, <3>2 DEF Appended
    <3> QED
      BY <3>1, <3>2
  <2>5. Users(s, j.code) = Users(r, j.code)
    BY <1>5 DEF Users
  <2> QED
    BY <2>1, <2>2, <2>3, <2>4, <2>5 DEF Unused
<1>10. ASSUME CellsApart(r), NotYet(r, e.cell) PROVE CellsApart(s)
  <2> SUFFICES ASSUME NEW d \in Contract, NEW v \in DOMAIN Versions(s, d), NEW w \in DOMAIN Versions(s, d),
                      Versions(s, d)[v].cell = Versions(s, d)[w].cell
               PROVE  v = w
    BY DEF CellsApart
  <2>1. CASE v \in DOMAIN Versions(r, d) /\ w \in DOMAIN Versions(r, d)
    BY <1>3, <1>10, <2>1 DEF CellsApart
  <2>2. CASE v \notin DOMAIN Versions(r, d) \/ w \notin DOMAIN Versions(r, d)
    <3>1. d = c
      BY <1>4, <2>2
    <3>2. \A x \in DOMAIN Versions(r, c) : Versions(s, c)[x].cell # e.cell
      BY <1>3, <1>10 DEF NotYet
    <3> QED
      BY <1>2, <1>4, <2>2, <3>1, <3>2
  <2> QED
    BY <2>1, <2>2
<1> QED
  BY <1>7, <1>8, <1>9, <1>10

\* A version is retired.
LEMMA MarkKeeps ==
  ASSUME NEW r, NEW s, NEW c \in Contract, NEW v \in DOMAIN Versions(r, c), MarkedRetired(r, s, c, v),
         Coherent(r), c = "publisherSetType" => Users(r, v) = {}
  PROVE  /\ Coherent(s)
         /\ \A t : OnChain(r, t) /\ Versions(r, c)[v].cell \in Gone(t) => OnChain(s, t)
         /\ \A t : Retirements(r, t) => Retirements(s, t)
         /\ CellsApart(r) => CellsApart(s)
<1> DEFINE p == "publisherSetType"
<1>1. p \in Contract /\ Committees(s) = Committees(r) /\ s.committees = r.committees
  BY DEF Contract, Core, Committees, MarkedRetired
<1>2. \A d \in Contract :
        /\ DOMAIN Versions(s, d) = DOMAIN Versions(r, d) /\ Len(Versions(s, d)) = Len(Versions(r, d))
        /\ Current(s, d) = Current(r, d)
        /\ \A w \in DOMAIN Versions(r, d) :
             /\ Versions(s, d)[w].code = Versions(r, d)[w].code
             /\ Versions(s, d)[w].cell = Versions(r, d)[w].cell
             /\ Versions(s, d)[w].retired <=> Versions(r, d)[w].retired \/ (d = c /\ w = v)
  BY DEF MarkedRetired
<1>3. ASSUME NEW n \in Committees(r)
      PROVE  /\ r.committees[n].version \in Kept(s, p) /\ r.committees[n].version \in DOMAIN Versions(r, p)
             /\ Versions(s, p)[r.committees[n].version].code = r.committees[n].code
  <2>1. /\ r.committees[n].version \in Kept(r, p)
        /\ Versions(r, p)[r.committees[n].version].code = r.committees[n].code
    BY <1>3 DEF Coherent
  <2>2. ~(p = c /\ r.committees[n].version = v)
    BY <1>3 DEF Users
  <2> QED
    BY <1>1, <1>2, <2>1, <2>2 DEF Kept
<1>4. Coherent(s)
  <2>1. \A d \in Contract : Current(s, d) \in 0..Len(Versions(s, d))
    BY <1>2 DEF Coherent
  <2> QED
    BY <1>1, <1>3, <2>1 DEF Coherent, MarkedRetired
<1>5. ASSUME NEW t, OnChain(r, t), Versions(r, c)[v].cell \in Gone(t) PROVE OnChain(s, t)
  <2>1. ASSUME NEW d \in Contract, NEW w \in DOMAIN Versions(s, d) PROVE VersionTrue(d, Versions(s, d)[w], t)
    <3>1. VersionTrue(d, Versions(r, d)[w], t) /\ w \in DOMAIN Versions(r, d)
      BY <1>2, <1>5 DEF OnChain
    <3> QED
      BY <1>2, <1>5, <3>1 DEF VersionTrue
  <2>2. ASSUME NEW n \in Committees(s) PROVE EntryTrue(s, n, s.committees[n], t)
    <3>1. EntryTrue(r, n, s.committees[n], t) /\ s.committees[n].version \in DOMAIN Versions(r, p)
      BY <1>1, <1>3, <1>5, <2>2 DEF OnChain
    <3> QED
      BY <1>1, <1>2, <3>1 DEF EntryTrue
  <2> QED
    BY <2>1, <2>2 DEF OnChain
<1>6. ASSUME NEW t, Retirements(r, t) PROVE Retirements(s, t)
  <2> SUFFICES ASSUME NEW i \in DOMAIN t, t[i].op = "retire:code" PROVE Unused(s, t[i])
    BY DEF Retirements
  <2>1. Unused(r, t[i])
    BY <1>6 DEF Retirements
  <2>2. Users(s, t[i].code) = Users(r, t[i].code)
    BY <1>1 DEF Users
  <2> QED
    BY <1>2, <2>1, <2>2 DEF Unused
<1>7. ASSUME CellsApart(r) PROVE CellsApart(s)
  BY <1>2, <1>7 DEF CellsApart
<1> QED
  BY <1>4, <1>5, <1>6, <1>7

\* A committee's entry is made, changed or taken out.
Untouched(v, t) ==
  \A i \in DOMAIN t :
    t[i].op = "retire:code" /\ ~t[i].forced /\ t[i].contract = "publisherSetType" => t[i].code # v

LEMMA EntryKeeps ==
  ASSUME NEW r, NEW s, NEW n \in Name, NEW k, Entered(r, s, n, k), Coherent(r),
         k # Absent => /\ k.version \in Kept(r, "publisherSetType")
                       /\ Versions(r, "publisherSetType")[k.version].code = k.code
  PROVE  /\ Coherent(s)
         /\ \A t : OnChain(r, t) /\ (k # Absent => EntryTrue(r, n, k, t)) => OnChain(s, t)
         /\ \A t : Retirements(r, t) /\ (k # Absent => Untouched(k.version, t)) => Retirements(s, t)
         /\ CellsApart(r) => CellsApart(s)
<1> DEFINE p == "publisherSetType"
<1>1. \A c : Versions(s, c) = Versions(r, c) /\ Current(s, c) = Current(r, c) /\ Kept(s, c) = Kept(r, c)
  BY DEF Entered, Versions, Current, Kept
<1>2. \A m \in Committees(s) :
        (s.committees[m] = k /\ m = n /\ k # Absent) \/ (m \in Committees(r) /\ s.committees[m] = r.committees[m])
  BY DEF Entered, Committees
<1>3. Coherent(s)
  BY <1>1, <1>2 DEF Coherent, Entered
<1>4. ASSUME NEW t, OnChain(r, t), k # Absent => EntryTrue(r, n, k, t) PROVE OnChain(s, t)
  <2>1. \A m \in Committees(s) : EntryTrue(s, m, s.committees[m], t)
    BY <1>1, <1>2, <1>4 DEF OnChain, EntryTrue
  <2> QED
    BY <1>1, <1>4, <2>1 DEF OnChain
<1>5. ASSUME NEW t, Retirements(r, t), k # Absent => Untouched(k.version, t) PROVE Retirements(s, t)
  <2> SUFFICES ASSUME NEW i \in DOMAIN t, t[i].op = "retire:code" PROVE Unused(s, t[i])
    BY DEF Retirements
  <2>1. Unused(r, t[i])
    BY <1>5 DEF Retirements
  <2>2. ASSUME ~t[i].forced, t[i].contract = p, Users(r, t[i].code) = {} PROVE Users(s, t[i].code) = {}
    BY <1>2, <1>5, <2>2 DEF Users, Untouched
  <2> QED
    BY <1>1, <2>1, <2>2 DEF Unused
<1>6. CellsApart(r) => CellsApart(s)
  BY <1>1 DEF CellsApart
<1> QED
  BY <1>3, <1>4, <1>5, <1>6

-----------------------------------------------------------------------------
(* Every step of the tool and the chain *)

RecordOK(r, t) == Coherent(r) /\ OnChain(r, t) /\ CellsApart(r) /\ Retirements(r, t)

LEMMA SentKeeps ==
  ASSUME DeployInv, NEW job \in Jobs, ~job.committed, SendTx(job), Asked(record, job),
         job.op = "retire:code" => Unused(record, job)
  PROVE  DeployInv'
<1>1. /\ txs \in Seq(Jobs) /\ txs' = Append(txs, job) /\ tool' = Len(txs) + 1 /\ record' = record
      /\ RecordOK(record, txs) /\ presets' = presets /\ Coherent(presets) /\ OnChain(presets, txs)
  BY DEF SendTx, DeployInv, RecordOK
<1>2. /\ txs' \in Seq(Jobs) /\ tool' = Len(txs') /\ tool' \in DOMAIN txs' /\ tool' \in Nat
      /\ txs'[tool'] = job /\ DOMAIN txs' = DOMAIN txs \cup {tool'} /\ tool' \notin DOMAIN txs
      /\ \A i \in DOMAIN txs : txs'[i] = txs[i]
  BY <1>1
<1> DEFINE u == txs'
           x == tool'
<1> HIDE DEF u, x
<1>3. Grows(txs, u)
  BY <1>2 DEF Grows, u
<1>4. OnChain(record, u) /\ OnChain(presets, u)
  BY <1>1, <1>3, ChainKept DEF RecordOK
<1>5. Retirements(record, u)
  BY <1>1, <1>2 DEF Retirements, RecordOK, u
<1>6. NotYet(record, x)
  <2>1. \A c \in Contract : \A v \in DOMAIN Versions(record, c) : Versions(record, c)[v].cell \in DOMAIN txs
    BY <1>1 DEF RecordOK, OnChain, VersionTrue, Done
  <2> QED
    BY <1>2, <2>1 DEF NotYet, x
<1>7. Awaited(record, u, x)
  BY <1>2, <1>6 DEF Awaited, u, x
<1> QED
  BY <1>1, <1>2, <1>4, <1>5, <1>7 DEF DeployInv, RecordOK, u, x

LEMMA VersionsIs ==
  ASSUME DeployInv, NEW c \in Contract, NEW v \in DOMAIN Versions(record, c)
  PROVE  Versions(record, c)[v] \in CodeVersion /\ v \in Nat
<1>1. Versions(record, c) \in Seq(CodeVersion)
  BY DEF DeployInv, Coherent, RecordType, Versions
<1> QED
  BY <1>1

LEMMA CodeSent == ASSUME DeployInv, DeployCode PROVE DeployInv'
<1>1. PICK c \in Contract, b \in Build : SendTx(Job("deploy:code", c, b, Absent, Absent, Absent))
  BY DEF DeployCode
<1> DEFINE j == Job("deploy:code", c, b, Absent, Absent, Absent)
<1>2. j \in Jobs
  BY DEF Job, Jobs, Command
<1> HIDE DEF j
<1>3. j.op = "deploy:code" /\ j.contract = c /\ j.code = b /\ ~j.committed
  BY DEF Job, j
<1>4. Asked(record, j)
  BY <1>3 DEF Asked, Command
<1>5. SendTx(j)
  BY <1>1 DEF j
<1> QED
  BY <1>2, <1>3, <1>4, <1>5, SentKeeps

LEMMA CommitteeSent == ASSUME DeployInv, DeployCommittee PROVE DeployInv'
<1> DEFINE p == "publisherSetType"
           v == Current(record, p)
           e == Versions(record, p)[v]
<1>1. PICK n \in Name : Deployable /\ SendTx(Job("deploy:committee", Absent, e.code, n, e.cell, NewLock))
  BY DEF DeployCommittee
<1>2. p \in Contract /\ v \in Kept(record, p)
  BY <1>1 DEF Deployable, Readable, Contract, Core
<1>3. e \in CodeVersion
  <2> HIDE DEF v
  <2> QED
    BY <1>2, VersionsIs DEF Kept
<1> DEFINE j == Job("deploy:committee", Absent, e.code, n, e.cell, NewLock)
<1> HIDE DEF e
<1>4. j \in Jobs
  <2>1. NewLock \in Build \cup {Absent}
    <3> DEFINE q == "alwaysSuccessLock"
    <3>1. q \in Contract
      BY DEF Contract
    <3>2. /\ Current(record, q) \in 0..Len(Versions(record, q)) /\ Versions(record, q) \in Seq(CodeVersion)
      BY <3>1 DEF DeployInv, Coherent, RecordType, Versions
    <3>3. Current(record, q) # 0 => Current(record, q) \in DOMAIN Versions(record, q)
      BY <3>2
    <3>4. Current(record, q) # 0 => Versions(record, q)[Current(record, q)] \in CodeVersion
      BY <3>2, <3>3
    <3> QED
      BY <3>4 DEF NewLock, CodeVersion
  <2> HIDE DEF v
  <2> QED
    BY <1>3, <2>1 DEF Job, Jobs, Command, CodeVersion
<1>5. SendTx(j)
  BY <1>1
<1> HIDE DEF j
<1>6. j.op = "deploy:committee" /\ j.code = e.code /\ j.name = n /\ j.cell = e.cell /\ ~j.committed
  BY DEF Job, j
<1>7. Asked(record, j)
  BY <1>2, <1>6 DEF Asked, Command, e
<1> QED
  BY <1>4, <1>5, <1>6, <1>7, SentKeeps

\* The cell of the first version with a code, if there is one.
LEMMA RefIs ==
  ASSUME DeployInv, NEW c \in Contract, NEW code, Found(record, c, code) # {}
  PROVE  CodeRef(record, c, code) \in Nat
<1> DEFINE found == Found(record, c, code)
           ref == CHOOSE v \in found : \A w \in found : v <= w
<1>1. found \subseteq Nat /\ found \subseteq Kept(record, c)
  BY VersionsIs DEF Found, Kept
<1>2. PICK l \in found : \A w \in found : l <= w
  BY <1>1, SmallestOf
<1>3. ref \in Kept(record, c)
  <2> HIDE DEF found
  <2> QED
    BY <1>1, <1>2
<1> HIDE DEF ref
<1>4. Versions(record, c)[ref] \in CodeVersion
  BY <1>3, VersionsIs DEF Kept
<1> QED
  BY <1>4 DEF CodeRef, CodeVersion, ref

LEMMA GovernSent == ASSUME DeployInv, GovernCommittee PROVE DeployInv'
<1> DEFINE p == "publisherSetType"
           q == "alwaysSuccessLock"
<1>1. PICK n \in Committees(record) :
        /\ LockOf(n) # Absent => Found(record, q, LockOf(n)) # {}
        /\ SendTx(Job("govern:committee", Absent, record.committees[n].code, n,
                    CodeRef(record, p, record.committees[n].code),
                    IF LockOf(n) = Absent THEN Absent ELSE CodeRef(record, q, LockOf(n))))
  BY DEF GovernCommittee
<1> DEFINE code == record.committees[n].code
           x == CodeRef(record, p, code)
           y == IF LockOf(n) = Absent THEN Absent ELSE CodeRef(record, q, LockOf(n))
           j == Job("govern:committee", Absent, code, n, x, y)
<1>2. n \in Name /\ record.committees[n] \in CommitteeEntry /\ p \in Contract /\ q \in Contract
  BY DEF Committees, DeployInv, Coherent, RecordType, Contract, Core
<1>3. Found(record, p, code) # {}
  <2>1. record.committees[n].version \in Found(record, p, code)
    BY DEF DeployInv, Coherent, Found
  <2> QED
    BY <2>1
<1>4. x \in Nat
  BY <1>2, <1>3, RefIs
<1>5. y \in Nat \cup {Absent}
  BY <1>1, <1>2, RefIs
<1>6. SendTx(j) /\ code \in Build
  BY <1>1, <1>2 DEF CommitteeEntry
<1> HIDE DEF x, y, code
<1>7. j \in Jobs
  BY <1>2, <1>4, <1>5, <1>6 DEF Job, Jobs, Command
<1> HIDE DEF j
<1>8. j.op = "govern:committee" /\ j.name = n /\ ~j.committed
  BY DEF Job, j
<1>9. Asked(record, j)
  BY <1>8 DEF Asked, Command
<1> QED
  BY <1>6, <1>7, <1>8, <1>9, SentKeeps

LEMMA RetireSent == ASSUME DeployInv, RetireCode PROVE DeployInv'
<1> DEFINE p == "publisherSetType"
<1>1. PICK c \in Contract : \E v \in Kept(record, c) :
         /\ c = p => Users(record, v) = {}
         /\ SendTx([Job("retire:code", c, v, Absent, Versions(record, c)[v].cell, Absent)
                    EXCEPT !.forced = (Current(record, c) = v)])
  BY DEF RetireCode
<1>2. PICK v \in Kept(record, c) :
         /\ c = p => Users(record, v) = {}
         /\ SendTx([Job("retire:code", c, v, Absent, Versions(record, c)[v].cell, Absent)
                    EXCEPT !.forced = (Current(record, c) = v)])
  BY <1>1
<1> DEFINE x == Versions(record, c)[v].cell
           j == [Job("retire:code", c, v, Absent, x, Absent) EXCEPT !.forced = (Current(record, c) = v)]
<1>3. v \in DOMAIN Versions(record, c) /\ v \in Nat /\ x \in Nat
  BY VersionsIs DEF Kept, CodeVersion
<1>4. SendTx(j)
  BY <1>2
<1> HIDE DEF x
<1>5. Job("retire:code", c, v, Absent, x, Absent) \in Jobs
  BY <1>3 DEF Job, Jobs, Command
<1>6. j \in Jobs
  <2> DEFINE i == Job("retire:code", c, v, Absent, x, Absent)
  <2> HIDE DEF i
  <2>1. i \in Jobs
    BY <1>5 DEF i
  <2>2. [i EXCEPT !.forced = (Current(record, c) = v)] \in Jobs
    BY <2>1 DEF Jobs
  <2> QED
    BY <2>2 DEF i
<1>7. /\ j.op = "retire:code" /\ j.contract = c /\ j.code = v /\ j.cell = x /\ ~j.committed
      /\ j.forced <=> Current(record, c) = v
  BY DEF Job
<1> HIDE DEF j
<1>8. Unused(record, j)
  BY <1>2, <1>3, <1>7 DEF Unused, x
<1>9. Asked(record, j)
  BY <1>2, <1>7 DEF Asked, Command
<1> QED
  BY <1>4, <1>6, <1>7, <1>8, <1>9, SentKeeps

\* The result of the command the tool waits for, whatever it is, is a record like the
\* one it was asked of; it is on the chain when the transaction is.
LEMMA RecordedOK ==
  ASSUME DeployInv, tool # 0
  PROVE  LET s == Recorded(txs[tool], tool) IN
         Coherent(s) /\ (txs[tool].committed => RecordOK(s, txs))
<1> DEFINE p == "publisherSetType"
           j == txs[tool]
           s == Recorded(j, tool)
           Sound(r) == Coherent(r) /\ (j.committed => RecordOK(r, txs))
<1>1. /\ RecordOK(record, txs) /\ record \in RecordType /\ NotYet(record, tool) /\ Asked(record, j)
      /\ tool \in DOMAIN txs /\ tool \in Nat /\ p \in Contract
  BY DEF DeployInv, RecordOK, Coherent, Awaited, Contract, Core
<1>2. j.committed => tool \in Done(txs)
  BY <1>1 DEF Done
<1> HIDE DEF j
<1>3. CASE j.op = "deploy:code"
  <2> DEFINE c == j.contract
             e == [code |-> j.code, cell |-> tool, retired |-> FALSE]
  <2>1. c \in Contract /\ e \in CodeVersion
    BY <1>1, <1>3 DEF Asked, CodeVersion
  <2>2. e.cell = tool /\ ~e.retired
    OBVIOUS
  <2>3. s = [record EXCEPT !.contracts[c] =
               [current |-> Len(@.versions) + 1, versions |-> Append(@.versions, e)]]
    BY <1>3 DEF Recorded
  <2> HIDE DEF e, s
  <2>4. Appended(record, s, c, e)
    BY <1>1, <2>1, <2>3, AppendedIs
  <2>5. j.committed => VersionTrue(c, e, txs)
    BY <1>2, <1>3, <2>2 DEF VersionTrue, j
  <2> HIDE DEF c
  <2>6. Coherent(record) /\ CellsApart(record) /\ OnChain(record, txs) /\ Retirements(record, txs)
    BY <1>1 DEF RecordOK
  <2>7. /\ Coherent(s) /\ CellsApart(s) /\ Retirements(s, txs)
        /\ VersionTrue(c, e, txs) => OnChain(s, txs)
    BY <1>1, <2>1, <2>2, <2>4, <2>6, AppendKeeps
  <2> QED
    BY <2>5, <2>7 DEF RecordOK, s, j
<1>4. CASE j.op = "retire:code"
  <2> DEFINE c == j.contract
             v == j.code
  <2>1. /\ c \in Contract /\ v \in DOMAIN Versions(record, c)
        /\ c = p => Users(record, v) = {}
    BY <1>1, <1>4 DEF Asked, Kept
  <2>2. s = [record EXCEPT !.contracts[c].versions[v].retired = TRUE]
    BY <1>4 DEF Recorded
  <2>3. Versions(record, c)[v].cell = j.cell
    BY <1>1, <1>4 DEF RecordOK, Retirements, Unused, j
  <2>4. j.committed => Versions(record, c)[v].cell \in Gone(txs)
    BY <1>2, <1>4, <2>3 DEF Gone, j
  <2> HIDE DEF s, c, v
  <2>5. MarkedRetired(record, s, c, v)
    BY <1>1, <2>1, <2>2, MarkedIs
  <2>6. Coherent(record) /\ CellsApart(record) /\ OnChain(record, txs) /\ Retirements(record, txs)
    BY <1>1 DEF RecordOK
  <2>7. /\ Coherent(s) /\ CellsApart(s) /\ Retirements(s, txs)
        /\ Versions(record, c)[v].cell \in Gone(txs) => OnChain(s, txs)
    BY <2>1, <2>5, <2>6, MarkKeeps
  <2> QED
    BY <2>4, <2>7 DEF RecordOK, s, j
<1>5. CASE j.op = "deploy:committee"
  <2> DEFINE n == j.name
             v == Current(record, p)
             k == [code |-> j.code, version |-> v, tx |-> tool, rotations |-> 0]
  <2>1. /\ n \in Name /\ v \in Kept(record, p) /\ j.code = Versions(record, p)[v].code
        /\ j.cell = Versions(record, p)[v].cell
    BY <1>1, <1>5 DEF Asked
  <2>2. v \in DOMAIN Versions(record, p) /\ v \in Nat /\ Versions(record, p)[v] \in CodeVersion
    BY <1>1, <2>1, VersionsIs DEF Kept
  <2>3. s = [record EXCEPT !.committees[n] = k]
    BY <1>5 DEF Recorded
  <2> HIDE DEF s, v
  <2>4. k \in CommitteeEntry /\ k.version = v /\ k.code = j.code /\ k.tx = tool /\ ~(k.rotations > 0)
    BY <1>1, <2>1, <2>2 DEF CommitteeEntry, CodeVersion
  <2> HIDE DEF k
  <2>5. Entered(record, s, n, k)
    BY <1>1, <2>1, <2>3, <2>4, EnteredIs
  <2>6. j.committed => EntryTrue(record, n, k, txs)
    BY <1>2, <2>1, <2>4 DEF EntryTrue, j
  <2>7. Untouched(k.version, txs)
    BY <1>1, <2>4 DEF RecordOK, Retirements, Unused, Untouched, v
  <2>8. Coherent(record) /\ CellsApart(record) /\ OnChain(record, txs) /\ Retirements(record, txs)
    BY <1>1 DEF RecordOK
  <2> HIDE DEF n
  <2>9. /\ Coherent(s) /\ CellsApart(s) /\ Retirements(s, txs)
        /\ EntryTrue(record, n, k, txs) => OnChain(s, txs)
    BY <2>1, <2>4, <2>5, <2>7, <2>8, EntryKeeps DEF n
  <2> QED
    BY <2>6, <2>9 DEF RecordOK, s, j
<1>6. CASE j.op = "govern:committee"
  <2> DEFINE n == j.name
             old == record.committees[n]
             k == [code |-> old.code, version |-> old.version, tx |-> old.tx, rotations |-> old.rotations + 1]
  <2>1. n \in Committees(record) /\ n \in Name /\ old \in CommitteeEntry
    BY <1>1, <1>6 DEF Asked, Committees, RecordType
  <2>2. s = [record EXCEPT !.committees[n].rotations = @ + 1]
    BY <1>6 DEF Recorded
  <2>3. k.version = old.version /\ k.code = old.code /\ k.tx = old.tx
    OBVIOUS
  <2>4. Entered(record, s, n, k)
    <3> HIDE DEF s, n
    <3> QED
      BY <1>1, <2>1, <2>2, RotationIs
  <2> HIDE DEF s, k
  <2>5. old.version \in Kept(record, p) /\ Versions(record, p)[old.version].code = old.code
    BY <1>1, <2>1 DEF RecordOK, Coherent
  <2>6. j.committed => EntryTrue(record, n, k, txs)
    <3>1. EntryTrue(record, n, old, txs)
      BY <1>1, <2>1 DEF RecordOK, OnChain
    <3> QED
      BY <1>2, <1>6, <2>3, <3>1 DEF EntryTrue, j
  <2>7. Untouched(k.version, txs)
    BY <1>1, <2>1, <2>3 DEF RecordOK, Retirements, Unused, Untouched, Users
  <2>8. Coherent(record) /\ CellsApart(record) /\ OnChain(record, txs) /\ Retirements(record, txs)
    BY <1>1 DEF RecordOK
  <2> HIDE DEF n, old
  <2>9. /\ Coherent(s) /\ CellsApart(s) /\ Retirements(s, txs)
        /\ EntryTrue(record, n, k, txs) => OnChain(s, txs)
    BY <2>1, <2>3, <2>4, <2>5, <2>7, <2>8, EntryKeeps
  <2> QED
    BY <2>6, <2>9 DEF RecordOK, s, j
<1> QED
  BY <1>1, <1>3, <1>4, <1>5, <1>6 DEF Asked, Command, j

LEMMA FinishKeeps == ASSUME DeployInv, Finish PROVE DeployInv'
<1>1. /\ tool # 0 /\ txs[tool].committed /\ tool' = 0 /\ txs' = txs
      /\ record' = Recorded(txs[tool], tool) \/ record' = record
      /\ presets' \in {presets, Recorded(txs[tool], tool)}
  BY DEF Finish, Write
<1>2. RecordOK(Recorded(txs[tool], tool), txs) /\ RecordOK(record, txs)
  BY <1>1, RecordedOK DEF DeployInv, RecordOK
<1>3. RecordOK(record', txs) /\ Coherent(presets') /\ OnChain(presets', txs)
  BY <1>1, <1>2 DEF DeployInv, RecordOK
<1>4. Awaited(record', txs', 0)
  BY DEF Awaited
<1> QED
  BY <1>1, <1>3, <1>4 DEF DeployInv, RecordOK

LEMMA RetireCommitteeKeeps == ASSUME DeployInv, RetireCommittee PROVE DeployInv'
<1>1. PICK n \in Committees(record) : /\ tool = 0 /\ txs' = txs /\ tool' = tool
                                      /\ Write([record EXCEPT !.committees[n] = Absent])
  BY DEF RetireCommittee
<1> DEFINE s == [record EXCEPT !.committees[n] = Absent]
<1>2. RecordOK(record, txs) /\ record \in RecordType /\ n \in Name
  BY DEF DeployInv, RecordOK, Coherent, Committees
<1>3. Entered(record, s, n, Absent)
  BY <1>2, EnteredIs
<1>4. (record' = s \/ record' = record) /\ presets' \in {presets, s}
  BY <1>1 DEF Write
<1> HIDE DEF s
<1>5. RecordOK(s, txs)
  BY <1>2, <1>3, EntryKeeps DEF RecordOK
<1>6. RecordOK(record', txs) /\ Coherent(presets') /\ OnChain(presets', txs)
  BY <1>2, <1>4, <1>5 DEF DeployInv, RecordOK
<1>7. Awaited(record', txs', 0)
  BY DEF Awaited
<1> QED
  BY <1>1, <1>6, <1>7 DEF DeployInv, RecordOK

LEMMA CommitKeeps == ASSUME DeployInv, Commit PROVE DeployInv'
<1>1. PICK i \in DOMAIN txs : /\ txs' = [txs EXCEPT ![i].committed = TRUE]
                             /\ record' = record /\ presets' = presets /\ tool' = tool
  BY DEF Commit
<1> DEFINE j == [txs[i] EXCEPT !.committed = TRUE]
           u == txs'
<1>2. /\ txs \in Seq(Jobs) /\ RecordOK(record, txs) /\ Awaited(record, txs, tool)
      /\ Coherent(presets) /\ OnChain(presets, txs)
  BY DEF DeployInv, RecordOK
<1>3. txs[i] \in Jobs
  BY <1>2
<1>4. /\ j \in Jobs /\ j.committed
      /\ j.op = txs[i].op /\ j.contract = txs[i].contract /\ j.code = txs[i].code
      /\ j.name = txs[i].name /\ j.cell = txs[i].cell /\ j.forced = txs[i].forced
  <2> DEFINE k == txs[i]
  <2> HIDE DEF k
  <2>1. k \in Jobs
    BY <1>3 DEF k
  <2>2. /\ [k EXCEPT !.committed = TRUE] \in Jobs /\ [k EXCEPT !.committed = TRUE].committed
        /\ [k EXCEPT !.committed = TRUE].op = k.op /\ [k EXCEPT !.committed = TRUE].contract = k.contract
        /\ [k EXCEPT !.committed = TRUE].code = k.code /\ [k EXCEPT !.committed = TRUE].name = k.name
        /\ [k EXCEPT !.committed = TRUE].cell = k.cell /\ [k EXCEPT !.committed = TRUE].forced = k.forced
    BY <2>1 DEF Jobs
  <2> QED
    BY <2>2 DEF k
<1>5. u = [txs EXCEPT ![i] = j]
  BY <1>1
<1> HIDE DEF j
<1>6. /\ u \in Seq(Jobs) /\ DOMAIN u = DOMAIN txs /\ Len(u) = Len(txs)
      /\ u[i] = j /\ \A k \in DOMAIN txs : k # i => u[k] = txs[k]
  BY <1>2, <1>4, <1>5
<1> HIDE DEF u
<1>7. \A k \in DOMAIN txs :
        /\ u[k].op = txs[k].op /\ u[k].contract = txs[k].contract /\ u[k].code = txs[k].code
        /\ u[k].name = txs[k].name /\ u[k].cell = txs[k].cell /\ u[k].forced = txs[k].forced
        /\ txs[k].committed => u[k].committed
  BY <1>4, <1>6
<1>8. Grows(txs, u)
  BY <1>6, <1>7 DEF Grows
<1>9. OnChain(record, u) /\ OnChain(presets, u)
  BY <1>2, <1>8, ChainKept DEF RecordOK
<1>10. Retirements(record, u)
  <2> SUFFICES ASSUME NEW k \in DOMAIN txs, txs[k].op = "retire:code" PROVE Unused(record, u[k])
    BY <1>6, <1>7 DEF Retirements
  <2>1. Unused(record, txs[k])
    BY <1>2 DEF RecordOK, Retirements
  <2> QED
    BY <1>7, <2>1 DEF Unused
<1>11. Awaited(record, u, tool)
  BY <1>2, <1>6, <1>7 DEF Awaited, Asked
<1> QED
  BY <1>1, <1>2, <1>6, <1>9, <1>10, <1>11 DEF DeployInv, RecordOK, u

\* For any builds, committees and number of transactions, whatever is killed, times out
\* or commits late: current code, and the committee script that a recorded committee
\* runs, is live unless it was given up, a command whose transaction is committed can be
\* recorded, and record and presets say only what is on the chain (actions.ts,
\* record.ts). The code of a committee's lock is not among what is promised.
THEOREM RecordRelied == DeploySpec => []RecordSound
<1>1. DeployInit => DeployInv
  <2> SUFFICES ASSUME DeployInit PROVE DeployInv
    OBVIOUS
  <2>1. record \in RecordType /\ presets = record
    BY DEF DeployInit, RecordType
  <2>2. /\ \A c \in Contract : Versions(record, c) = <<>> /\ Current(record, c) = 0
        /\ Committees(record) = {} /\ txs = <<>> /\ tool = 0
    BY DEF DeployInit, Versions, Current, Committees
  <2> QED
    BY <2>1, <2>2 DEF DeployInv, Coherent, OnChain, CellsApart, Retirements, Awaited
<1>2. DeployInv /\ [DeployNext]_deployVars => DeployInv'
  <2> SUFFICES ASSUME DeployInv, [DeployNext]_deployVars PROVE DeployInv'
    OBVIOUS
  <2>1. CASE Abandon
    <3>1. tool' = 0 /\ txs' = txs /\ record' = record /\ presets' = presets
      BY <2>1 DEF Abandon
    <3>2. Awaited(record, txs, 0)
      BY DEF Awaited
    <3> QED
      BY <3>1, <3>2 DEF DeployInv
  <2>2. CASE UNCHANGED deployVars
    <3>1. tool' = tool /\ txs' = txs /\ record' = record /\ presets' = presets
      BY <2>2 DEF deployVars
    <3> QED
      BY <3>1 DEF DeployInv
  <2> QED
    BY <2>1, <2>2, CodeSent, CommitteeSent, RetireSent, GovernSent, FinishKeeps, RetireCommitteeKeeps, CommitKeeps
    DEF DeployNext
<1>3. DeployInv => RecordSound
  <2> SUFFICES ASSUME DeployInv PROVE RecordSound
    OBVIOUS
  <2> DEFINE p == "publisherSetType"
  <2>1. Committed = Done(txs) /\ Consumed = Gone(txs)
    BY DEF Committed, Consumed, Done, Gone
  <2>2. p \in Contract /\ RecordOK(record, txs)
    BY DEF Contract, Core, DeployInv, RecordOK
  \* Of a cell that is consumed and was not given up: the version that was retired.
  <2>3. ASSUME NEW x \in Consumed \ Forced
        PROVE  \E i \in DOMAIN txs : txs[i].op = "retire:code" /\ ~txs[i].forced /\ txs[i].cell = x /\ Unused(record, txs[i])
    <3>1. PICK i \in Committed : txs[i].op = "retire:code" /\ txs[i].cell = x
      BY DEF Consumed
    <3>2. ~txs[i].forced
      BY <2>3, <3>1 DEF Forced
    <3> QED
      BY <2>2, <3>1, <3>2 DEF Committed, RecordOK, Retirements
  \* A cell tells which version it is.
  <2>4. ASSUME NEW c \in Contract, NEW v \in DOMAIN Versions(record, c),
               NEW d \in Contract, NEW w \in DOMAIN Versions(record, d),
               Versions(record, c)[v].cell = Versions(record, d)[w].cell
        PROVE  c = d /\ v = w
    <3>1. c = d
      BY <2>2, <2>4 DEF RecordOK, OnChain, VersionTrue
    <3> QED
      BY <2>2, <2>4, <3>1 DEF RecordOK, CellsApart
  <2>5. ASSUME NEW c \in Contract, NEW v \in DOMAIN Versions(record, c), Versions(record, c)[v].cell \in Consumed \ Forced
        PROVE  Current(record, c) # v /\ (c = p => Users(record, v) = {})
    <3>1. PICK i \in DOMAIN txs : ~txs[i].forced /\ txs[i].cell = Versions(record, c)[v].cell /\ Unused(record, txs[i])
      BY <2>3, <2>5
    <3>2. txs[i].contract = c /\ txs[i].code = v
      BY <2>4, <3>1 DEF Unused
    <3> QED
      BY <3>1, <3>2 DEF Unused
  <2>6. UsedCodeLive
    <3>1. ASSUME NEW c \in Contract, Current(record, c) # 0
          PROVE  Versions(record, c)[Current(record, c)].cell \notin Consumed \ Forced
      <4>1. Current(record, c) \in 0..Len(Versions(record, c)) /\ Versions(record, c) \in Seq(CodeVersion)
        BY <2>2 DEF RecordOK, Coherent, RecordType, Versions
      <4>2. Current(record, c) \in DOMAIN Versions(record, c)
        BY <3>1, <4>1
      <4> QED
        BY <2>5, <4>2
    <3>2. ASSUME NEW n \in Committees(record) PROVE txs[record.committees[n].tx].cell \notin Consumed \ Forced
      <4> DEFINE v == record.committees[n].version
      <4>1. v \in DOMAIN Versions(record, p) /\ txs[record.committees[n].tx].cell = Versions(record, p)[v].cell
        BY <2>2 DEF RecordOK, Coherent, OnChain, EntryTrue, Kept
      <4>2. n \in Users(record, v)
        BY DEF Users
      <4> HIDE DEF v
      <4> QED
        BY <2>2, <2>5, <4>1, <4>2
    <3> QED
      BY <3>1, <3>2 DEF UsedCodeLive
  <2>7. RecordKeepsUp
    BY RecordedOK, CoherentWritable DEF RecordKeepsUp
  <2>8. \A r : OnChain(r, txs) => SaysDone(r)
    BY <2>1 DEF SaysDone, OnChain, VersionTrue, EntryTrue
  <2>9. SaysDone(record) /\ SaysDone(presets)
    BY <2>2, <2>8 DEF DeployInv, RecordOK
  <2> QED
    BY <2>6, <2>7, <2>9 DEF RecordSound
<1> QED
  BY <1>1, <1>2, <1>3, PTL DEF DeploySpec
=============================================================================
