----------------------------- MODULE PriceProof -----------------------------
(***************************************************************************)
(* How one signed header commits to every price of a tick, and how an      *)
(* update is cut down to some of its feeds without a new signature         *)
(* (packages/sdk/src/protocol/merkle.ts, priceUpdate.ts                    *)
(* assemblePriceUpdate and selectFeeds).                                   *)
(*                                                                         *)
(* A hash is the term that was hashed, a leaf and a node being hashed      *)
(* under different domains; a node is the set of its two children, which   *)
(* the code sorts.  Feed ids are numbers.                                  *)
(***************************************************************************)
EXTENDS Naturals, Sequences

LOCAL INSTANCE SequencesExt
LOCAL INSTANCE FiniteSetsExt

CONSTANTS
  FeedIds,   \* feed ids
  Price      \* what a message says of its feed

ASSUME PriceProofAssumption == FeedIds \subseteq Nat

VARIABLES
  messages,  \* what the tick's update was assembled of
  update     \* a copy of it somebody holds: [leafCount, merkleRoot, entries]

proofVars == <<messages, update>>

Message == [feed : FeedIds, price : Price]

-----------------------------------------------------------------------------
(* The tree *)

LeafHash(m) == <<"leaf", m>>
NodeHash(a, b) == <<"node", {a, b}>>

\* Mutant: a node without a sibling is left out.
NextLevelOfPairs(level) == [n \in 1..Len(level) \div 2 |-> NodeHash(level[2 * n - 1], level[2 * n])]

\* nextLevel: the odd one is promoted.
NextLevel(level) ==
  [n \in 1..(Len(level) + 1) \div 2 |->
     IF 2 * n <= Len(level) THEN NodeHash(level[2 * n - 1], level[2 * n]) ELSE level[2 * n - 1]]

\* The levels from the leaves up; the last are the root alone.
Levels(leaves) ==
  LET L[k \in 0..Len(leaves)] == IF k = 0 THEN leaves
                                 ELSE IF Len(L[k - 1]) = 1 THEN L[k - 1] ELSE NextLevel(L[k - 1])
  IN L

MerkleRoot(leaves) == Levels(leaves)[Len(leaves)][1]

\* `index ^ 1`, counting from 0.
Sibling(i) == IF i % 2 = 0 THEN i + 1 ELSE i - 1

\* merkleProof: at every level below the root, the sibling if there is one.
MerkleProof(leaves, index) ==
  LET L == Levels(leaves)
      P[k \in 0..Len(leaves)] ==
        IF k = Len(leaves) \/ Len(L[k]) = 1 THEN <<>>
        ELSE LET s == Sibling(index \div 2^k)
             IN (IF s < Len(L[k]) THEN <<L[k][s + 1]>> ELSE <<>>) \o P[k + 1]
  IN P[0]

VerifyProof(root, leaf, proof) == FoldLeft(NodeHash, leaf, proof) = root

-----------------------------------------------------------------------------
(* Updates *)

\* assemblePriceUpdate, of messages in any order but one of each feed.
Assembled(set) ==
  LET sorted == SetToSortSeq(set, LAMBDA m, n : m.feed < n.feed)
      leaves == [i \in DOMAIN sorted |-> LeafHash(sorted[i])]
  IN [leafCount |-> Len(sorted),
      merkleRoot |-> MerkleRoot(leaves),
      entries |-> [i \in DOMAIN sorted |-> [message |-> sorted[i], proof |-> MerkleProof(leaves, i - 1)]]]

\* selectFeeds
Selected(u, wanted) == [u EXCEPT !.entries = SelectSeq(@, LAMBDA e : e.message.feed \in wanted)]

Assemble ==
  /\ messages = {}
  /\ \E set \in SUBSET Message :
       /\ set # {}
       /\ \A m, n \in set : m.feed = n.feed => m = n
       /\ messages' = set
       /\ update' = Assembled(set)

Select ==
  /\ messages # {}
  /\ \E wanted \in SUBSET FeedIds :
       /\ Selected(update, wanted).entries # <<>>
       /\ update' = Selected(update, wanted)
  /\ UNCHANGED messages

ProofInit ==
  /\ messages = {}
  /\ update = [leafCount |-> 0, merkleRoot |-> <<>>, entries |-> <<>>]

ProofNext == Assemble \/ Select

ProofSpec == ProofInit /\ [][ProofNext]_proofVars

-----------------------------------------------------------------------------
(* Properties *)

\* Pieces of the proofs an update carries.
Pieces(u) ==
  {SubSeq(u.entries[i].proof, from, Len(u.entries[i].proof)) : i \in DOMAIN u.entries, from \in 1..4}

\* Every entry of an update, however often it was cut down, proves its message
\* against the header, and no message of another price or tick can be proved with
\* what is in it; an inner node of the tree does not pass for a message, nor part of
\* a proof for a proof (merkleProof, verifyProof).
ProofsBind ==
  messages # {} =>
    /\ \A i \in DOMAIN update.entries :
         /\ update.entries[i].message \in messages
         /\ VerifyProof(update.merkleRoot, LeafHash(update.entries[i].message), update.entries[i].proof)
    /\ \A m \in Message, proof \in Pieces(update) :
         VerifyProof(update.merkleRoot, LeafHash(m), proof) => m \in messages
=============================================================================
