--------------------------- MODULE CommitteeCell ---------------------------
(***************************************************************************)
(* The committee cells on chain and the governance operations that spend   *)
(* and recreate them (contracts/common/src/publisher_set.rs,               *)
(* contracts/publisher_set_type/src/main.rs).                              *)
(*                                                                         *)
(* A key set is its index: the quorum of the current set may authorize any *)
(* operation, over the hashes of the old and of the new state.  A previous *)
(* set always has the index before the current one, so a cell is its nonce,*)
(* its flag, its index, and until, 0 when it keeps no previous set.        *)
(* Time is the timestamp of the newest block; a header dep is of a block   *)
(* that exists.                                                            *)
(***************************************************************************)
EXTENDS Naturals, Sequences

CONSTANTS
  Committee,       \* type script hashes of the committee cells
  Governing,       \* committees whose quorums govern; others stay as created
  Interval,        \* min_rotation_interval_s
  MaxUntilAhead,   \* MAX_UNTIL_AHEAD_MS
  MaxNonce,        \* bound on governance_nonce (u64), so on set_index (u32)
  MaxTime          \* bound on the clock

ASSUME CommitteeCellAssumption ==
  /\ Governing \subseteq Committee
  /\ Interval \in Nat \ {0}
  /\ MaxUntilAhead \in Nat
  /\ MaxNonce \in Nat
  /\ MaxTime \in Nat

VARIABLES
  now,       \* timestamp of the newest block
  cell,      \* [committee -> its PublisherSetData]
  created,   \* [committee -> timestamp of the block that created the cell]
  log        \* [committee -> operations so far], what the chain holds

governance == <<cell, created, log>>

Index == 0..MaxNonce

PublisherSetData ==
  {d \in [nonce : Index, paused : BOOLEAN, index : Index, until : 0..MaxTime + MaxUntilAhead] :
     d.until # 0 => d.index # 0}

Operation == {"rotate", "rotate_revoke", "pause", "unpause", "revoke_previous"}

LogEntry == [op : Operation, old : PublisherSetData, next : PublisherSetData, at : 0..MaxTime]

GovernanceTypeOK ==
  /\ now \in 0..MaxTime
  /\ cell \in [Committee -> PublisherSetData]
  /\ created \in [Committee -> 0..MaxTime]
  /\ log \in [Committee -> Seq(LogEntry)]

\* Sets whose stored prices a consumer accepts.
Trusted(d) == {d.index} \cup (IF d.until = 0 THEN {} ELSE {d.index - 1})

\* Whether a set may have signed an update of a time.
SetFor(d, set, time) ==
  \/ set = d.index
  \/ d.until # 0 /\ set = d.index - 1 /\ time < d.until

-----------------------------------------------------------------------------
(* check_transition *)

SameSets(old, next) == next.index = old.index /\ next.until = old.until

NextSet(old, next) == next.index = old.index + 1 /\ next.paused = old.paused

\* Mutant: the nonce may stay as it is.
CheckTransitionAnyNonce(old, next, op) ==
  /\ next.nonce \in {old.nonce, old.nonce + 1}
  /\ \/ op = "rotate" /\ NextSet(old, next) /\ next.until > old.until
     \/ op = "rotate_revoke" /\ NextSet(old, next) /\ next.until = 0
     \/ op = "pause" /\ ~old.paused /\ next.paused /\ SameSets(old, next)
     \/ op = "unpause" /\ old.paused /\ ~next.paused /\ SameSets(old, next)

\* The state an operation makes of the old one. A previous set replaces an older
\* one only with a later bound.
CheckTransition(old, next, op) ==
  /\ next.nonce = old.nonce + 1
  /\ \/ op = "rotate" /\ NextSet(old, next) /\ next.until > old.until
     \/ op = "rotate_revoke" /\ NextSet(old, next) /\ next.until = 0
     \/ op = "pause" /\ ~old.paused /\ next.paused /\ SameSets(old, next)
     \/ op = "unpause" /\ old.paused /\ ~next.paused /\ SameSets(old, next)
     \/ /\ op = "revoke_previous"
        /\ next.paused = old.paused
        /\ old.until # 0
        /\ next.until = 0
        /\ next.index = old.index

\* The relative since of a routine rotation.
Mature(c) == now >= created[c] + Interval

-----------------------------------------------------------------------------
(* Transactions *)

GovernanceInit ==
  /\ now = 0
  /\ cell = [c \in Committee |-> [nonce |-> 0, paused |-> FALSE, index |-> 0, until |-> 0]]
  /\ created = [c \in Committee |-> 0]
  /\ log = [c \in Committee |-> <<>>]

\* validate_update, authorized by a quorum of the current set; new keys have
\* proved possession.
Govern(c) ==
  \E op \in Operation, next \in PublisherSetData :
    /\ CheckTransition(cell[c], next, op)
    /\ op = "rotate" => Mature(c) /\ next.until <= now + MaxUntilAhead
    /\ cell' = [cell EXCEPT ![c] = next]
    /\ created' = [created EXCEPT ![c] = now]
    /\ log' = [log EXCEPT ![c] = Append(@, [op |-> op, old |-> cell[c], next |-> next, at |-> now])]
    /\ UNCHANGED now

Block ==
  /\ now < MaxTime
  /\ now' = now + 1
  /\ UNCHANGED governance

GovernanceNext == Block \/ \E c \in Governing : Govern(c)

GovernanceSpec == GovernanceInit /\ [][GovernanceNext]_<<now, governance>>

\* The committee cell after its first n operations.
CellAt(c, n) == IF n = Len(log[c]) THEN cell[c] ELSE log[c][n + 1].old

-----------------------------------------------------------------------------
(* Properties *)

\* An authorization names the operation and the hashes of the old and the new
\* state, and nothing else: it could be applied at most once, however the flag and
\* the sets go back and forth (update_hash, governance_nonce).
AuthorizationSpent ==
  \A c \in Committee : \A i, j \in DOMAIN log[c] :
    /\ log[c][i].op = log[c][j].op
    /\ log[c][i].old = log[c][j].old
    /\ log[c][i].next = log[c][j].next
    => i = j

\* A set that the committee dropped, by a revocation or a second rotation, is not
\* trusted or allowed to sign in any later state (docs/oracle-design.md, section 2:
\* older sets never authorize anything).
DroppedForGood ==
  \A c \in Committee : \A i, j \in DOMAIN log[c] :
    i < j => \A set \in 0..log[c][i].next.index :
               set \in Trusted(log[c][j].next) => set \in Trusted(log[c][i].next)

\* Routine rotations are an interval apart, whatever operations come between them
\* (check_interval measures from the last operation).
RotationsSpaced ==
  \A c \in Committee : \A i, j \in DOMAIN log[c] :
    i < j /\ log[c][i].op = "rotate" /\ log[c][j].op = "rotate"
    => log[c][j].at >= log[c][i].at + Interval
=============================================================================
