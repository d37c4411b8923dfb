------------------------------ MODULE Recorder ------------------------------
(***************************************************************************)
(* The market-data recorder of a publisher                                 *)
(* (apps/publisher/src/recorder.ts) and the shutdown that waits for it, and*)
(* then for the peers that dialled the transport (main.ts, close in        *)
(* wsTransport.ts): records queue in front of the file of their hour, files*)
(* are rotated, capped and may fail, and the process exits.  A record is   *)
(* one line; the file system writes lines, closes files and fails when it  *)
(* will.                                                                   *)
(***************************************************************************)
EXTENDS Integers, Sequences, FiniteSets

LOCAL INSTANCE FiniteSetsExt

CONSTANTS
  HighWater,   \* HIGH_WATER_BYTES, in lines
  MaxLines,    \* maxBytes, in lines
  Inbound,     \* publishers that dial this one
  MaxHour,     \* bound on the clock
  MaxWrites    \* bound on the lines written

\* What an instance assumes of the constants.
RecorderAssumption == {HighWater, MaxLines, MaxHour, MaxWrites} \subseteq Nat

VARIABLES
  now,       \* the clock's hour
  writes,    \* lines written so far
  asked,     \* a depth snapshot is asked for; one at a time stands for those of all markets
  files,     \* [hour, queue, disk, ended, state, kept], one per gzip stream
  hour,      \* of the open stream, 0 if none
  current,   \* index of the open stream, 0 if none (gzip, file)
  blocked,
  failed,
  closed,
  closing,   \* index of the file `closing` waits for, 0 if undefined
  resolved,  \* and whether it has resolved
  listening, \* the transport's server takes connections
  links,     \* the publishers whose connections it has
  process    \* running, stopping, exited

clock == <<now, writes, asked>>
recorder == <<files, hour, current, blocked, failed, closed, closing, resolved>>
server == <<listening, links>>
vars == <<clock, recorder, server, process>>

-----------------------------------------------------------------------------
(* Writing *)

Size(fs, I) == MapThenSumSet(LAMBDA i : fs[i].disk, I)

\* enforceCap: the oldest files go until the rest fits.
EnforceCap(fs) ==
  LET Kept(n) == {i \in DOMAIN fs : fs[i].kept /\ i > n}
      deleted == CHOOSE n \in 0..Len(fs) :
                   /\ Size(fs, Kept(n)) <= MaxLines
                   /\ \A m \in 0..(n - 1) : Size(fs, Kept(m)) > MaxLines
  IN [i \in DOMAIN fs |-> [fs[i] EXCEPT !.kept = @ /\ i > deleted]]

NewFile(h) ==
  [hour |-> h, queue |-> 0, disk |-> 0, ended |-> FALSE, state |-> "open", kept |-> TRUE]

\* stream, when the hour is a new one: the open stream ends.
Rotated(h) ==
  Append(EnforceCap([i \in DOMAIN files |->
                       [files[i] EXCEPT !.ended = @ \/ i = current]]),
         NewFile(h))

\* write of a record of hour h: a late one stays in the open file, a full queue
\* drops it.
Write(h) ==
  LET fresh == current = 0 \/ h > hour
      fs == IF fresh THEN Rotated(h) ELSE files
      n == IF fresh THEN Len(fs) ELSE current
  IN /\ current' = n
     /\ hour' = IF fresh THEN h ELSE hour
     /\ IF blocked /\ ~fresh
        THEN files' = fs /\ UNCHANGED blocked
        ELSE /\ files' = [fs EXCEPT ![n].queue = @ + 1]
             /\ blocked' = (fs[n].queue + 1 > HighWater)
     /\ UNCHANGED <<failed, closed, closing, resolved>>

\* write, unless recording is off. The time is the sender's.
RecordLine ==
  /\ writes < MaxWrites
  /\ writes' = writes + 1
  /\ IF failed \/ closed
     THEN UNCHANGED recorder
     ELSE \E h \in {now, now - 1} \ {0} : Write(h)

\* A source or the node has something to record.
Event ==
  /\ process # "exited"
  /\ RecordLine
  /\ UNCHANGED <<now, asked, server, process>>

\* A round of depth snapshots asks a venue for its book, unless the venue refused
\* lately.
AskDepth ==
  /\ process # "exited"
  /\ ~asked /\ ~failed /\ ~closed
  /\ asked' = TRUE
  /\ UNCHANGED <<now, writes, recorder, server, process>>

\* The answer may come after the recorder failed or closed.
DepthArrives ==
  /\ process # "exited"
  /\ asked
  /\ asked' = FALSE
  /\ RecordLine
  /\ UNCHANGED <<now, server, process>>

\* Or the venue refuses, or does not answer.
DepthFails ==
  /\ asked
  /\ asked' = FALSE
  /\ UNCHANGED <<now, writes, recorder, server, process>>

HourPasses ==
  /\ process = "running"
  /\ now < MaxHour
  /\ now' = now + 1
  /\ UNCHANGED <<writes, asked, recorder, server, process>>

-----------------------------------------------------------------------------
(* The file system *)

\* Lines reach the disk; an emptied stream that has not ended drains.
Flush ==
  /\ process # "exited"
  /\ \E i \in DOMAIN files :
       /\ files[i].state = "open"
       /\ files[i].queue > 0
       /\ files' = [files EXCEPT ![i].queue = @ - 1, ![i].disk = @ + 1]
       /\ blocked' = (blocked /\ ~(i = current /\ files[i].queue = 1))
  /\ UNCHANGED <<clock, hour, current, failed, closed, closing, resolved, server, process>>

\* The close event of an ended file.
FileCloses ==
  /\ process # "exited"
  /\ \E i \in DOMAIN files :
       /\ files[i].state = "open"
       /\ files[i].ended
       /\ files[i].queue = 0
       /\ files' = [files EXCEPT ![i].state = "closed"]
       /\ resolved' = (resolved \/ i = closing)
  /\ UNCHANGED <<clock, hour, current, blocked, failed, closed, closing, server, process>>

\* fail, on the error event of a file: the open stream is destroyed with it.
FileFails ==
  /\ process # "exited"
  /\ \E i \in DOMAIN files :
       /\ files[i].state = "open"
       /\ files' = [j \in DOMAIN files |->
                      IF j = i \/ (j = current /\ ~failed)
                      THEN [files[j] EXCEPT !.state = "broken"] ELSE files[j]]
       /\ resolved' = (resolved \/ i = closing)
  /\ failed' = TRUE
  /\ UNCHANGED <<clock, hour, current, blocked, closed, closing, server, process>>

-----------------------------------------------------------------------------
(* Shutdown *)

\* Mutant: the second call does not return the promise of the first.
CloseForgets ==
  /\ closed' = TRUE
  /\ IF current = 0
     THEN closing' = 0 /\ UNCHANGED <<files, hour, current, resolved>>
     ELSE /\ closing' = 0
          /\ resolved' = FALSE
          /\ files' = [files EXCEPT ![current].ended = TRUE]
          /\ hour' = 0
          /\ current' = 0
  /\ UNCHANGED <<blocked, failed>>

\* close: ends the open stream, and waits for its file unless that is gone.
Close ==
  /\ closed' = TRUE
  /\ IF current = 0
     THEN UNCHANGED <<files, hour, current, closing, resolved>>
     ELSE /\ closing' = current
          /\ resolved' = (files[current].state # "open")
          /\ files' = [files EXCEPT ![current].ended = TRUE]
          /\ hour' = 0
          /\ current' = 0
  /\ UNCHANGED <<blocked, failed>>

\* shutdown, on a signal or a change of the committee: `stop` closes, then the
\* promise of a second `close` is awaited. A second signal does the same again.
Signal ==
  /\ process # "exited"
  /\ process' = "stopping"
  /\ Close
  /\ UNCHANGED <<clock, server>>

\* close of the transport, once the recorder's is awaited: its server stops listening.
CloseTransport ==
  /\ process = "stopping"
  /\ closing = 0 \/ resolved
  /\ listening
  /\ listening' = FALSE
  /\ UNCHANGED <<clock, recorder, links, process>>

\* The server is closed when it has no connection left: none that a peer opened is
\* ended here. Then the store closes and the process ends.
Exit ==
  /\ process = "stopping"
  /\ ~listening /\ links = {}
  /\ process' = "exited"
  /\ UNCHANGED <<clock, recorder, server>>

PeerDials ==
  /\ listening
  /\ \E q \in Inbound \ links : links' = links \cup {q}
  /\ UNCHANGED <<clock, recorder, listening, process>>

\* The peer ends the connection, or its own process, or the connection is lost.
PeerLeaves ==
  /\ \E q \in links : links' = links \ {q}
  /\ UNCHANGED <<clock, recorder, listening, process>>

-----------------------------------------------------------------------------
(* The specification *)

Init ==
  /\ now = 1
  /\ writes = 0
  /\ asked = FALSE
  /\ files = <<>>
  /\ hour = 0
  /\ current = 0
  /\ blocked = FALSE
  /\ failed = FALSE
  /\ closed = FALSE
  /\ closing = 0
  /\ resolved = FALSE
  /\ listening = TRUE
  /\ links = {}
  /\ process = "running"

Next ==
  \/ Event \/ AskDepth \/ DepthArrives \/ DepthFails
  \/ HourPasses \/ Flush \/ FileCloses \/ FileFails
  \/ Signal \/ CloseTransport \/ Exit \/ PeerDials \/ PeerLeaves

\* The file system writes and closes what it is given, the event loop runs. Of the peers
\* nothing is assumed.
Fairness ==
  /\ WF_vars(Flush) /\ WF_vars(FileCloses)
  /\ WF_vars(CloseTransport) /\ WF_vars(Exit)

Spec == Init /\ [][Next]_vars /\ Fairness

-----------------------------------------------------------------------------
(* Properties *)

Flushed == failed \/ files = <<>> \/ files[Len(files)].queue = 0

\* Each peer lets go of its connection, again and again.
PeersLeave == \A q \in Inbound : []<>(q \notin links)

\* A publisher told to stop, or to restart with a new committee, closes its transport,
\* whichever file failed or closed before, with all the lines of the file open at the
\* signal on disk unless the file system failed; and it ends, if the peers that dialled
\* it let go: it does not end their connections (close; main.ts: a cut-off file loses
\* its tail).
LiveExit ==
  /\ (process = "stopping") ~> (~listening /\ Flushed)
  /\ PeersLeave => ((process = "stopping") ~> (process = "exited" /\ Flushed))
=============================================================================
