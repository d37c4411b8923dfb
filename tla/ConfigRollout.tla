--------------------------- MODULE ConfigRollout ---------------------------
(***************************************************************************)
(* How config versions and key sets reach running publishers: files in a   *)
(* directory, read at start and picked up every fifteen seconds, approved  *)
(* by the key set a publisher was started with, which it leaves by exiting *)
(* when the committee cell changes (apps/publisher/src/config.ts,          *)
(* configSchedule.ts, scheduler.ts, main.ts run and startSources,          *)
(* packages/sdk/src/protocol/committeeConfig.ts).                          *)
(*                                                                         *)
(* A version stands for its valid config; the set that approved it, for a  *)
(* quorum of its signatures over the config's hash.  A file is kept once   *)
(* placed.  Every publisher is in every set.  Time is in ticks.            *)
(***************************************************************************)
EXTENDS Naturals, Sequences

CONSTANTS
  Publisher,
  Activation,   \* activationTickMs of the signed config of each version, from 1
  MaxSet,       \* bound on setIndex
  MaxTime,      \* bound on the clock
  MaxCrashes    \* bound on failures of processes

ASSUME ConfigRolloutAssumption ==
  /\ Activation \in Seq(Nat)
  /\ MaxSet \in Nat /\ MaxTime \in Nat /\ MaxCrashes \in Nat

Version == DOMAIN Activation
Index == 0..MaxSet

VARIABLES
  now,
  current,   \* setIndex of the committee cell
  placed,    \* [publisher -> <<version, set>> of the approvals in its directory]
  process,   \* [publisher -> [up, set, held]], held being the versions of its ConfigSchedule
  seen,      \* [publisher -> versions approved by its set when it last read the directory]
  fired,     \* [publisher -> its last tick: [tick, version, known, prompt, passed]]
  crashes

vars == <<now, current, placed, process, seen, fired, crashes>>

Placed(p) == {v \in Version : \E i \in Index : <<v, i>> \in placed[p]}

\* Mutant: only the signatures of the set that signed the file first are read.
ApprovedByFirst(p, v, set) == set = 0 /\ <<v, 0>> \in placed[p]

\* verifyCommitteeConfig of the approval that approvalFor chooses.
Approved(p, v, set) == <<v, set>> \in placed[p]

Last(held) == held[Len(held)]

Holds(held, v) == \E i \in DOMAIN held : held[i] = v

-----------------------------------------------------------------------------
(* ConfigSchedule and loadConfigDir *)

\* Mutant: versions are added as they come.
FollowsAnyOrder(held, v) == TRUE

\* add: later in version and in activation than every version held.
Follows(held, v) ==
  held = <<>> \/ (v > Last(held) /\ Activation[v] > Activation[Last(held)])

\* What is held once the versions up to each have been looked at.
Loaded(p, set, held) ==
  LET loaded[v \in 0..Len(Activation)] ==
        IF v = 0 THEN held
        ELSE IF v \in Placed(p) /\ ~Holds(held, v) /\ Approved(p, v, set) /\ Follows(loaded[v - 1], v)
             THEN Append(loaded[v - 1], v) ELSE loaded[v - 1]
  IN loaded

\* loadConfigDir: the versions not known, in order; what add rejects is left out.
Load(p, set, held) == Loaded(p, set, held)[Len(Activation)]

\* at: the version that applies at a tick; 0 before the first activation.
At(held, tick) ==
  LET active == {i \in DOMAIN held : Activation[held[i]] <= tick}
  IN IF active = {} THEN 0 ELSE held[CHOOSE i \in active : \A j \in active : j <= i]

-----------------------------------------------------------------------------
(* Operators and the committee *)

\* sign-config and add-approval: a quorum of the current or of the next set has
\* signed, and the file is copied to a publisher.
Place ==
  \E p \in Publisher, v \in Version, i \in {current, current + 1} \cap Index :
    /\ ~Approved(p, v, i)
    /\ placed' = [placed EXCEPT ![p] = @ \cup {<<v, i>>}]
    /\ UNCHANGED <<now, current, process, seen, fired, crashes>>

Rotate ==
  /\ current < MaxSet
  /\ current' = current + 1
  /\ UNCHANGED <<now, placed, process, seen, fired, crashes>>

-----------------------------------------------------------------------------
(* Publishers *)

Up(p) == process[p].up

Exited == [up |-> FALSE, set |-> 0, held |-> <<>>]

\* loadConfig: one rejected file, or none accepted, ends the start; the container
\* starts it again.
Start(p) ==
  /\ ~Up(p)
  /\ LET held == Load(p, current, <<>>)
     IN /\ held # <<>>
        /\ \A v \in Placed(p) : Holds(held, v)
        /\ process' = [process EXCEPT ![p] = [up |-> TRUE, set |-> current, held |-> held]]
  /\ seen' = [seen EXCEPT ![p] = {v \in Version : Approved(p, v, process'[p].set)}]
  /\ UNCHANGED <<now, current, placed, fired, crashes>>

\* The timer of startSources: what is rejected is logged.
PickUp(p) ==
  /\ Up(p)
  /\ process' = [process EXCEPT ![p].held = Load(p, process[p].set, @)]
  /\ seen' = [seen EXCEPT ![p] = {v \in Version : Approved(p, v, process'[p].set)}]
  /\ UNCHANGED <<now, current, placed, fired, crashes>>

\* The committee watch of run: any change ends the process.
Watch(p) ==
  /\ Up(p)
  /\ process[p].set # current
  /\ process' = [process EXCEPT ![p] = Exited]
  /\ seen' = [seen EXCEPT ![p] = {}]
  /\ UNCHANGED <<now, current, placed, fired, crashes>>

Crash(p) ==
  /\ Up(p)
  /\ crashes < MaxCrashes
  /\ crashes' = crashes + 1
  /\ process' = [process EXCEPT ![p] = Exited]
  /\ seen' = [seen EXCEPT ![p] = {}]
  /\ UNCHANGED <<now, current, placed, fired>>

\* Versions of the directory up to the newest that is active: one that is not active
\* yet keeps a later one out that would be.
Known(p) == {v \in Placed(p) : \E w \in Placed(p) : v <= w /\ Activation[w] <= now}

\* Those of them that a publisher rejected because it held a later one.
PassedOver(p) ==
  {v \in Known(p) : /\ ~Holds(process[p].held, v)
                    /\ \E i \in DOMAIN process[p].held : process[p].held[i] > v}

\* fire, of the tick that is due.
Fire(p) ==
  LET prompt == Known(p) \subseteq seen[p]
  IN /\ Up(p)
     /\ fired[p].tick < now
     /\ At(process[p].held, now) # 0
     /\ fired' = [fired EXCEPT ![p] =
          [tick |-> now, version |-> At(process[p].held, now), prompt |-> prompt,
           known |-> IF prompt THEN Known(p) ELSE {}, passed |-> PassedOver(p) # {}]]
     /\ UNCHANGED <<now, current, placed, process, seen, crashes>>

Tick ==
  /\ now < MaxTime
  /\ now' = now + 1
  /\ UNCHANGED <<current, placed, process, seen, fired, crashes>>

Init ==
  /\ now = 0
  /\ current = 0
  /\ placed = [p \in Publisher |-> {}]
  /\ process = [p \in Publisher |-> Exited]
  /\ seen = [p \in Publisher |-> {}]
  /\ fired = [p \in Publisher |-> [tick |-> 0, version |-> 0, known |-> {}, prompt |-> FALSE, passed |-> FALSE]]
  /\ crashes = 0

Next ==
  \/ Place
  \/ Rotate
  \/ Tick
  \/ \E p \in Publisher : Start(p) \/ PickUp(p) \/ Watch(p) \/ Crash(p) \/ Fire(p)

Spec == Init /\ [][Next]_vars

\* Timers fire, and the container restarts what exits.
FairSpec == Spec /\ \A p \in Publisher : WF_vars(Start(p)) /\ WF_vars(PickUp(p)) /\ WF_vars(Watch(p))

-----------------------------------------------------------------------------
(* Properties *)

\* Two publishers that sign a tick, having read the same versions before it, of sets that
\* approved them.
SameFiles(p, q) ==
  /\ fired[p].tick = fired[q].tick
  /\ fired[p].prompt /\ fired[q].prompt
  /\ fired[p].known = fired[q].known

\* They sign it under the same config, whenever each was started and whichever set it
\* runs, unless one of them passed over a version that came after a later one: that one
\* it refuses until it is started again (ConfigSchedule.add).
ScheduleAgreed ==
  \A p, q \in Publisher :
    SameFiles(p, q) /\ ~fired[p].passed /\ ~fired[q].passed
    => fired[p].version = fired[q].version

\* What docs/oracle-design.md says, section 3.1: all publishers switch at
\* activation_tick. It does not hold of one that got the version after a later one.
SwitchTogether ==
  \A p, q \in Publisher : SameFiles(p, q) => fired[p].version = fired[q].version

\* Every version in the directory is approved by the current set and can follow the
\* others.
Prepared(p) ==
  /\ Placed(p) # {}
  /\ \A v \in Placed(p) :
       <<v, current>> \in placed[p] /\ \A w \in Placed(p) : w < v => Activation[w] < Activation[v]

\* Publishers whose files the next set approved come back under it, and come to hold
\* the newest version (approvals, ConfigFile).
LiveRollout ==
  \A p \in Publisher :
    <>[](Prepared(p) => /\ Up(p)
                        /\ process[p].set = current
                        /\ \A v \in Placed(p) : v <= Last(process[p].held))
=============================================================================
