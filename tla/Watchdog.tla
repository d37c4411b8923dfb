------------------------------ MODULE Watchdog ------------------------------
(***************************************************************************)
(* The watchdog of apps/watchdog: every round it asks the publishers and   *)
(* the mirror for their latest tick, and tells a Telegram chat what        *)
(* changed.                                                                *)
(*                                                                         *)
(* A round is one step: its checks run together and the clock it compares  *)
(* with is read once (main.ts, now).  A message that Telegram refuses is   *)
(* logged and dropped: what the watchdog believes it said is in its state  *)
(* before the message is sent.  The mirror answers /health and             *)
(* /v1/equivocations, or one of them fails and the round knows nothing of  *)
(* its committees.  The hour between two reminders is not counted: a       *)
(* reminder may be due in any round.  A day has DaySlots rounds, the last  *)
(* of them in the hour of the summary, and days are numbered as getUTCDate *)
(* numbers them, from the start again after the last.                      *)
(***************************************************************************)
EXTENDS Integers

CONSTANTS
  Watched, Told,          \* what WATCH_PUBLISHERS and the mirror's /health name
  DaySlots, Days,
  Limit,                  \* the most conflicts one answer lists
  MaxConflicts, MaxRestarts,
  NoAnswer

ASSUME WatchdogAssumption ==
  /\ {DaySlots, Days, Limit, MaxConflicts, MaxRestarts} \subseteq Nat
  /\ DaySlots > 0
  /\ NoAnswer \notin Nat

Mirror == "mirror:reachable"
Key == Watched \cup Told \cup {Mirror}

VARIABLES
  healthy,     \* the keys a check would find well
  conflicts,   \* conflicting updates the mirror holds
  telegram,    \* whether messages arrive
  slot, day,   \* the clock
  failures,    \* of a key: failed checks since it was last well, counted to two
  alerted,     \* of a key: the chat was sent an alert
  baseline,    \* conflicts seen last, NoAnswer before the first answer
  lastSummary, \* the day of the last summary
  told,        \* of a key: what the chat last heard, "well" if nothing
  first,       \* conflicts seen first since the watchdog started
  announced,   \* conflicts that messages which arrived called new since then
  lost,        \* conflicts that messages which Telegram refused called new since then
  total,       \* conflicts the last summary that arrived spoke of, NoAnswer if unknown or none
  restarts

watchdogVars == <<healthy, conflicts, telegram, slot, day, failures, alerted, baseline, lastSummary,
                  told, first, announced, lost, total, restarts>>

Seen == IF conflicts < Limit THEN conflicts ELSE Limit

\* The keys a round has a result for: without the mirror, none of its committees.
Checked == IF Mirror \in healthy THEN Key ELSE Key \ Told

\* The keys with a result since it started, this round's included.
Reported == IF first = NoAnswer THEN Checked ELSE Key

Ok(k) == k \in healthy

-----------------------------------------------------------------------------
(* One round *)

Count(k) == IF Ok(k) THEN 0 ELSE IF failures[k] < 2 THEN failures[k] + 1 ELSE 2

Alerts == {k \in Checked : ~Ok(k) /\ ~alerted[k] /\ Count(k) = 2}

Recoveries == {k \in Checked : Ok(k) /\ alerted[k]}

StillFailing == {k \in Checked : ~Ok(k) /\ alerted[k]}

\* Mutant: the days of a month are taken to grow for ever.
SummaryDueByOrder == slot = DaySlots - 1 /\ day > lastSummary

\* main: in its hour, once a day.
SummaryDue == slot = DaySlots - 1 /\ day # lastSummary

\* Mutant: a round without an answer forgets what was seen.
NextBaselineAny(seen) == seen

\* -1 says the round has no answer.
NextBaseline(seen) == IF seen >= 0 THEN seen ELSE baseline

Tomorrow == IF slot + 1 < DaySlots THEN day ELSE (day + 1) % Days

Round ==
  LET seen == IF Mirror \in healthy THEN Seen ELSE -1
      alertedNow == [k \in Key |-> IF k \in Checked THEN ~Ok(k) /\ (alerted[k] \/ k \in Alerts) ELSE alerted[k]]
      new == IF seen >= 0 /\ baseline # NoAnswer /\ seen > baseline THEN seen - baseline ELSE 0
  IN \E reminders \in SUBSET StillFailing : \E heard \in SUBSET (Alerts \cup Recoveries \cup reminders),
                                            arrives \in BOOLEAN, summary \in {FALSE, SummaryDue} :
       /\ telegram => heard = Alerts \cup Recoveries \cup reminders /\ arrives /\ summary = SummaryDue
       /\ failures' = [k \in Key |-> IF k \in Checked THEN Count(k) ELSE failures[k]]
       /\ alerted' = alertedNow
       /\ told' = [k \in Key |-> IF k \in heard \/ (summary /\ k \in Reported)
                                 THEN IF alertedNow[k] THEN "failing" ELSE "well"
                                 ELSE told[k]]
       /\ announced' = IF arrives THEN announced + new ELSE announced
       /\ lost' = IF arrives THEN lost ELSE lost + new
       /\ total' = IF summary THEN NextBaseline(seen) ELSE total
       /\ baseline' = NextBaseline(seen)
       /\ first' = IF first = NoAnswer /\ seen >= 0 THEN seen ELSE first
       /\ lastSummary' = IF SummaryDue THEN day ELSE lastSummary
       /\ slot' = (slot + 1) % DaySlots /\ day' = Tomorrow
       /\ UNCHANGED <<healthy, conflicts, telegram, restarts>>

-----------------------------------------------------------------------------
(* What it watches, and its own restarts *)

HealthChanges ==
  /\ healthy' \in SUBSET Key
  /\ UNCHANGED <<conflicts, telegram, slot, day, failures, alerted, baseline, lastSummary, told, first,
                 announced, lost, total, restarts>>

TelegramChanges ==
  /\ telegram' = ~telegram
  /\ UNCHANGED <<healthy, conflicts, slot, day, failures, alerted, baseline, lastSummary, told, first,
                 announced, lost, total, restarts>>

ConflictFound ==
  /\ conflicts < MaxConflicts
  /\ conflicts' = conflicts + 1
  /\ UNCHANGED <<healthy, telegram, slot, day, failures, alerted, baseline, lastSummary, told, first,
                 announced, lost, total, restarts>>

\* Nothing it remembers outlives it.
RestartWatchdog ==
  /\ restarts < MaxRestarts
  /\ restarts' = restarts + 1
  /\ failures' = [k \in Key |-> 0]
  /\ alerted' = [k \in Key |-> FALSE]
  /\ baseline' = NoAnswer /\ first' = NoAnswer /\ announced' = 0 /\ lost' = 0
  /\ lastSummary' = day
  /\ UNCHANGED <<healthy, conflicts, telegram, slot, day, told, total>>

WatchInit ==
  /\ healthy = Key
  /\ conflicts = 0
  /\ telegram = TRUE
  /\ slot = 0 /\ day = 0
  /\ failures = [k \in Key |-> 0]
  /\ alerted = [k \in Key |-> FALSE]
  /\ baseline = NoAnswer /\ first = NoAnswer /\ announced = 0 /\ lost = 0 /\ total = NoAnswer
  /\ lastSummary = 0
  /\ told = [k \in Key |-> "well"]
  /\ restarts = 0

WatchNext == Round \/ HealthChanges \/ TelegramChanges \/ ConflictFound \/ RestartWatchdog

\* The loop waits an interval and goes on; every request and message has a timeout.
WatchFairness == WF_watchdogVars(Round)

WatchSpec == WatchInit /\ [][WatchNext]_watchdogVars /\ WatchFairness

-----------------------------------------------------------------------------
(* Properties *)

\* Of the conflicts the mirror came to hold between its first and its last answer
\* since the watchdog started, each was called new in one message, through rounds
\* in which the mirror did not answer: one that arrived, or one that Telegram
\* refused, which is not sent again (AlertState.update; main, send).
EquivocationsTold ==
  announced + lost = IF first = NoAnswer THEN 0 ELSE baseline - first

\* If from some time on messages arrive and a check goes one way, the chat comes to
\* know it, of a committee as long as the mirror answers; it comes to know the number of
\* conflicts too.  Any single message may have been lost: what the watchdog said is not
\* said again, and only the daily summary mends that (main, summary).
LiveTold ==
  /\ \A k \in Key :
       LET Checkable == telegram /\ (k \in Told => Ok(Mirror))
       IN /\ <>[](Checkable /\ ~Ok(k)) => <>[](told[k] = "failing")
          /\ <>[](Checkable /\ Ok(k)) => <>[](told[k] = "well")
  /\ <>[](telegram /\ Ok(Mirror)) => <>[](Seen > 0 => total = Seen)

=============================================================================
