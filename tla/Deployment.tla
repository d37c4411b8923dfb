----------------------------- MODULE Deployment -----------------------------
(***************************************************************************)
(* The deployment tool (apps/deploy/src/actions.ts) between the chain and  *)
(* the record deployments/<network>.json that it reads and rewrites        *)
(* (record.ts), and the presets the SDK gets of it                         *)
(* (packages/sdk/src/presets/deployment.ts).                               *)
(*                                                                         *)
(* One tool runs at a time: nothing locks the record. A tool that is killed*)
(* while it waits, or whose wait times out, leaves a transaction that may  *)
(* still commit; killed a little later, it leaves the presets behind the   *)
(* record. A dry run changes nothing and is left out; so is the history,   *)
(* which nothing reads.                                                    *)
(***************************************************************************)
EXTENDS Naturals, Sequences

CONSTANTS
  Build,     \* code hashes of the reproducible builds (contracts/checksums.txt)
  Name,      \* names of committees in config/<network>.json
  MaxTxs,    \* bound on the transactions sent
  Absent

ASSUME DeploymentAssumption == MaxTxs \in Nat

Core == {"priceFeedType", "publisherSetType"}
Contract == Core \cup {"alwaysSuccessLock"}

\* deploy:code takes the contracts in this order (CONTRACTS).
Before(c) ==
  CASE c = "priceFeedType" -> {}
    [] c = "publisherSetType" -> {"priceFeedType"}
    [] c = "alwaysSuccessLock" -> Core

VARIABLES
  txs,      \* transactions sent, each with whether it is committed; a cell is its number
  record,   \* the file
  presets,  \* deployments.generated.ts
  tool      \* the transaction the running tool waits for, 0 if none runs

deployVars == <<txs, record, presets, tool>>

Committed == {i \in DOMAIN txs : txs[i].committed}

Consumed == {txs[i].cell : i \in {j \in Committed : txs[j].op = "retire:code"}}

Live(cell) == cell \in Committed \ Consumed

-----------------------------------------------------------------------------
(* The record *)

Versions(r, c) == r.contracts[c].versions
Current(r, c) == r.contracts[c].current
Committees(r) == {n \in Name : r.committees[n] # Absent}
Kept(r, c) == {v \in DOMAIN Versions(r, c) : ~Versions(r, c)[v].retired}

Complete(r) == \A c \in Core : Current(r, c) # 0

\* parseDeployment does not throw: the lock is optional.
Readable(r) ==
  /\ \A c \in Contract : Current(r, c) \in Kept(r, c) \/ (c \notin Core /\ Current(r, c) = 0)
  /\ \A n \in Committees(r) :
       \E v \in Kept(r, "publisherSetType") :
         Versions(r, "publisherSetType")[v].code = r.committees[n].code

MidMigration(r) ==
  \E c \in Contract : Current(r, c) # 0 /\ Versions(r, c)[Current(r, c)].retired

\* update writes the changed record, or throws.
Writable(r) == Complete(r) /\ ~MidMigration(r) => Readable(r)

\* Versions with a code that are not retired.
Found(r, c, code) == {v \in Kept(r, c) : Versions(r, c)[v].code = code}

\* codeRefFor, findCodeRef: the cell of the first of them.
CodeRef(r, c, code) ==
  Versions(r, c)[CHOOSE v \in Found(r, c, code) : \A w \in Found(r, c, code) : v <= w].cell

Users(r, v) == {n \in Committees(r) : r.committees[n].version = v}

-----------------------------------------------------------------------------
(* Commands *)

\* The code cells a transaction spends or depends on. A committee's lock runs, and needs
\* its code, only when the cell is spent.
Takes(job) ==
  ({job.cell} \cup (IF job.op = "govern:committee" THEN {job.lock} ELSE {})) \ {Absent}

\* send: the fee is paid, the node takes the transaction, the tool waits.
SendTx(job) ==
  /\ tool = 0
  /\ Len(txs) < MaxTxs
  /\ \A x \in Takes(job) : Live(x)
  /\ txs' = Append(txs, job)
  /\ tool' = Len(txs) + 1
  /\ UNCHANGED <<record, presets>>

Job(op, contract, code, name, cell, lock) ==
  [op |-> op, contract |-> contract, code |-> code, name |-> name, cell |-> cell, lock |-> lock,
   forced |-> FALSE, committed |-> FALSE]

\* deploy:code, of one contract; the next one starts from the file again.
DeployCode ==
  \E c \in Contract, b \in Build :
    LET v == Current(record, c) IN
    /\ \A d \in Before(c) : Current(record, d) # 0
    /\ ~(v # 0 /\ Versions(record, c)[v].code = b /\ Live(Versions(record, c)[v].cell))
    /\ SendTx(Job("deploy:code", c, b, Absent, Absent, Absent))

Deployable == Complete(record) /\ Readable(record)

\* The lock of a new committee cell is alwaysSuccessLock if it is deployed, else the
\* deployer's own (bootstrapCommittee).
NewLock ==
  LET l == Current(record, "alwaysSuccessLock")
  IN IF l = 0 THEN Absent ELSE Versions(record, "alwaysSuccessLock")[l].code

\* deploy:committee, under the current code.
DeployCommittee ==
  \E n \in Name \ Committees(record) :
    LET v == Versions(record, "publisherSetType")[Current(record, "publisherSetType")] IN
    /\ Deployable
    /\ SendTx(Job("deploy:committee", Absent, v.code, n, v.cell, NewLock))

\* Mutant: committees on the version do not keep it.
RetireCodeUsed ==
  \E c \in Contract : \E v \in Kept(record, c) :
    SendTx([Job("retire:code", c, v, Absent, Versions(record, c)[v].cell, Absent)
            EXCEPT !.forced = (Current(record, c) = v)])

\* retire:code, with --allow-current if the version is current (`forced`). Only users of
\* publisherSetType are looked for.
RetireCode ==
  \E c \in Contract : \E v \in Kept(record, c) :
    /\ c = "publisherSetType" => Users(record, v) = {}
    /\ SendTx([Job("retire:code", c, v, Absent, Versions(record, c)[v].cell, Absent)
               EXCEPT !.forced = (Current(record, c) = v)])

\* The code of the lock of a recorded committee's cell.
LockOf(n) == txs[record.committees[n].tx].lock

\* govern:committee, of a rotation. A lock that is none of the record's is taken for the
\* deployer's own, and the node refuses the transaction if it is not.
GovernCommittee ==
  \E n \in Committees(record) :
    LET code == record.committees[n].code IN
    /\ Deployable
    /\ LockOf(n) # Absent => Found(record, "alwaysSuccessLock", LockOf(n)) # {}
    /\ SendTx(Job("govern:committee", Absent, code, n, CodeRef(record, "publisherSetType", code),
                IF LockOf(n) = Absent THEN Absent
                ELSE CodeRef(record, "alwaysSuccessLock", LockOf(n))))

-----------------------------------------------------------------------------
(* Results *)

\* A record the update takes is written, and the presets follow if the SDK can read it
\* and the tool is not killed before.
Write(r) ==
  /\ record' = IF Writable(r) THEN r ELSE record
  /\ presets' \in {presets} \cup (IF Writable(r) /\ Complete(r) /\ Readable(r) THEN {r} ELSE {})

\* appendCodeVersion, addCommittee, retireCode, addRotation.
Recorded(job, tx) ==
  CASE job.op = "deploy:code" ->
         [record EXCEPT !.contracts[job.contract] =
            [current |-> Len(@.versions) + 1,
             versions |-> Append(@.versions, [code |-> job.code, cell |-> tx, retired |-> FALSE])]]
    [] job.op = "deploy:committee" ->
         [record EXCEPT !.committees[job.name] =
            [code |-> job.code, version |-> Current(record, "publisherSetType"), tx |-> tx, rotations |-> 0]]
    [] job.op = "retire:code" ->
         [record EXCEPT !.contracts[job.contract].versions[job.code].retired = TRUE]
    [] job.op = "govern:committee" ->
         [record EXCEPT !.committees[job.name].rotations = @ + 1]

\* The wait ends: the rest of the command.
Finish ==
  /\ tool # 0
  /\ txs[tool].committed
  /\ Write(Recorded(txs[tool], tool))
  /\ tool' = 0
  /\ UNCHANGED txs

\* The tool is killed, or waitTransaction gives up.
Abandon ==
  /\ tool # 0
  /\ tool' = 0
  /\ UNCHANGED <<txs, record, presets>>

\* retire:committee, of the record only.
RetireCommittee ==
  /\ tool = 0
  /\ \E n \in Committees(record) : Write([record EXCEPT !.committees[n] = Absent])
  /\ UNCHANGED <<txs, tool>>

\* The chain takes a transaction whose cells are live.
Commit ==
  /\ \E i \in DOMAIN txs :
       /\ ~txs[i].committed
       /\ \A x \in Takes(txs[i]) : Live(x)
       /\ txs' = [txs EXCEPT ![i].committed = TRUE]
  /\ UNCHANGED <<record, presets, tool>>

-----------------------------------------------------------------------------
(* The specification *)

DeployInit ==
  /\ txs = <<>>
  /\ record = [contracts |-> [c \in Contract |-> [current |-> 0, versions |-> <<>>]],
               committees |-> [n \in Name |-> Absent]]
  /\ presets = record
  /\ tool = 0

DeployNext ==
  DeployCode \/ DeployCommittee \/ RetireCode \/ GovernCommittee
    \/ Finish \/ Abandon \/ RetireCommittee \/ Commit

DeploySpec == DeployInit /\ [][DeployNext]_deployVars

-----------------------------------------------------------------------------
(* Properties *)

Forced == {txs[i].cell : i \in {j \in Committed : txs[j].op = "retire:code" /\ txs[j].forced}}

\* Whatever is killed, times out or commits late: the code that new cells are created
\* with is live, and so is the committee script each recorded committee runs, unless it
\* was given up as the current version with --allow-current (retireCode: committees on
\* it must be retired first). The code of a committee's lock is not looked for.
UsedCodeLive ==
  /\ \A c \in Contract :
       LET v == Current(record, c) IN
       v # 0 => Versions(record, c)[v].cell \notin Consumed \ Forced
  /\ \A n \in Committees(record) : txs[record.committees[n].tx].cell \notin Consumed \ Forced

\* The record never refuses what the chain has done: a command whose transaction is
\* committed can write its result down (update throws on a record the SDK cannot read).
RecordKeepsUp == tool # 0 => Writable(Recorded(txs[tool], tool))

\* A record says nothing the chain has not done: its code is deployed, what it says is
\* retired is gone, its committees exist and were rotated (send waits before update).
SaysDone(r) ==
  /\ \A c \in Contract : \A v \in DOMAIN Versions(r, c) :
       LET e == Versions(r, c)[v] IN
       e.cell \in Committed /\ (e.retired => e.cell \in Consumed)
  /\ \A n \in Committees(r) :
       LET rotated(i) == txs[i].op = "govern:committee" /\ txs[i].name = n IN
       /\ r.committees[n].tx \in Committed
       /\ r.committees[n].rotations > 0 => \E i \in Committed : rotated(i)

\* The deployment record can be relied on: the code that is current, and that recorded
\* committees run, is live, the record is never stuck behind the chain, and neither it
\* nor the presets, however far behind, are ahead of the chain (actions.ts, record.ts).
RecordSound == UsedCodeLive /\ RecordKeepsUp /\ SaysDone(record) /\ SaysDone(presets)
=============================================================================
