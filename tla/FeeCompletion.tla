---------------------------- MODULE FeeCompletion ----------------------------
(***************************************************************************)
(* completeFee of the SDK (packages/sdk/src/tx/fees.ts), the last step of  *)
(* every transaction: the signer's plain cells are added, largest first,   *)
(* until they pay the outputs, the fee of the transaction's size and a     *)
(* change cell.  Plain cells only: what has a type or data is not listed.  *)
(***************************************************************************)
EXTENDS Integers, Sequences, TLC, FiniteSets

LOCAL INSTANCE FiniteSetsExt

CONSTANTS
  MaxCells,     \* bound on the plain cells
  MaxCapacity,  \* and on the capacity of one
  MaxDraft,     \* bound on what the draft spends beyond its inputs
  BaseFee, InputFee, ChangeFee,  \* fee of a signed draft, an input, a change output
  MinChange,    \* what a change cell occupies
  None          \* no result yet

\* What an instance assumes of the constants.
FeeCompletionAssumption ==
  {MaxCells, MaxCapacity, MaxDraft, BaseFee, InputFee, ChangeFee, MinChange} \subseteq Nat

VARIABLES
  cells,     \* capacities in the indexer's order
  leftover,  \* leftoverToFee
  draft,     \* inputs minus outputs before any is added
  fuel,      \* the cells in the order they are added
  added,     \* inputsAdded
  net,       \* inputs minus outputs
  result     \* None, or [ok, change, fee, shortfall]

vars == <<cells, leftover, draft, fuel, added, net, result>>

\* prepareTransaction, estimateFee
FeeOf(inputs, change) == BaseFee + inputs * InputFee + (IF change THEN ChangeFee ELSE 0)

Ok(change, fee) == [ok |-> TRUE, change |-> change, fee |-> fee, shortfall |-> 0]

\* Mutant: the cells are added in the order they are found.
LargestFirstUnsorted(found) == found

\* fuel.sort
LargestFirst(found) == SortSeq(found, >=)

\* One turn of the loop.
Turn ==
  LET withChange == FeeOf(added, TRUE)
      enough == net >= withChange + MinChange
      burn == leftover /\ net >= FeeOf(added, FALSE)
  IN /\ result = None
     /\ IF enough \/ burn \/ added = Len(fuel)
        THEN /\ result' = IF enough THEN Ok(net - withChange, withChange)
                          ELSE IF burn THEN Ok(0, net)
                          ELSE [ok |-> FALSE, change |-> 0, fee |-> withChange,
                                shortfall |-> withChange + MinChange - net]
             /\ UNCHANGED <<added, net>>
        ELSE /\ added' = added + 1
             /\ net' = net + fuel[added + 1]
             /\ UNCHANGED result
     /\ UNCHANGED <<cells, leftover, draft, fuel>>

Init ==
  /\ cells \in UNION {[1..n -> 1..MaxCapacity] : n \in 0..MaxCells}
  /\ leftover \in BOOLEAN
  /\ draft \in (-MaxDraft)..MaxDraft
  /\ fuel = LargestFirst(cells)
  /\ added = 0
  /\ net = draft
  /\ result = None

Next == Turn

Spec == Init /\ [][Next]_vars

-----------------------------------------------------------------------------
(* Properties *)

\* Some choice of cells pays for itself, with change or with the leftover as fee.
Pays(chosen) ==
  LET sum == draft + MapThenSumSet(LAMBDA i : cells[i], chosen)
      n == Cardinality(chosen)
  IN \/ sum >= FeeOf(n, TRUE) + MinChange
     \/ leftover /\ sum >= FeeOf(n, FALSE)

\* It pays exactly what it takes, with the fee of its size or more and a change cell
\* that can exist; it spends the fewest cells that any choice could; and it gives up
\* only when no choice could (completeFee).
FewestInputs ==
  result # None =>
    /\ result.ok =>
         /\ net = result.change + result.fee
         /\ result.change = 0 \/ result.change >= MinChange
         /\ result.fee >= FeeOf(added, result.change > 0)
    /\ \A chosen \in SUBSET DOMAIN cells :
         Pays(chosen) => result.ok /\ added <= Cardinality(chosen)
=============================================================================
