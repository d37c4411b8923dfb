---------------------------- MODULE PeerTransport ----------------------------
(***************************************************************************)
(* The connections between publishers (wsTransport.ts, helloDigest,        *)
(* answerHello and checkHello in wire.ts): every publisher dials the peers *)
(* its configuration names, answers their challenge with its index and a   *)
(* signature, and sends them its frames; frames of an inbound connection   *)
(* carry the index that was proved.                                        *)
(*                                                                         *)
(* A publisher runs with the key set it read when it started, so that two  *)
(* of them may count indices in different sets.  A line is a publisher and *)
(* one peer it dials; it has one socket at a time.  A url may lead to      *)
(* another publisher.  Each end learns by itself that the other is gone.   *)
(* After the client's end is closed what is still on its way is of no      *)
(* interest: the server's end stays with the index it proved.  A challenge *)
(* is random: it is only ever answered for its own socket, so it is left   *)
(* out of the digest.  Signatures of other keys are not forged.            *)
(***************************************************************************)
EXTENDS Naturals, Sequences, Functions

CONSTANTS
  Peer,          \* keys
  Sets,          \* the key sets of the committee, oldest first: sequences of keys
  Line,          \* pairs <<publisher, peer it is configured with>>
  MaxDetours,    \* bound on the dials that end at another publisher
  MaxBreaks,     \* bound on the connections that break, or are given up
  MaxStarts,     \* bound on the starts of publishers
  Nobody         \* no index, no publisher

ASSUME TransportAssumption ==
  /\ \A e \in DOMAIN Sets : Sets[e] \in Seq(Peer) /\ IsInjective(Sets[e])
  /\ Line \subseteq Peer \X Peer
  /\ {MaxDetours, MaxBreaks, MaxStarts} \subseteq Nat
  /\ Nobody \notin Nat

VARIABLES
  epoch,     \* of a publisher: the set it runs with, 0 while it is down
  client,    \* of a line: phase of the dialling end
  server,    \* of a line: [at, phase, from] of the other end
  channel,   \* of a line: what the client sent and the server has not read
  counts     \* starts, detours, breaks so far

transportVars == <<epoch, client, server, channel, counts>>

NoEnd == [at |-> Nobody, phase |-> "gone", from |-> Nobody]

KeysOf(p) == Sets[epoch[p]]

\* loadConfig refuses to start with a key or a peer that is not in the set.
MayRun(p, e) == \A q \in {p} \cup {l[2] : l \in {m \in Line : m[1] = p}} : q \in Range(Sets[e])

IndexIn(e, p) == CHOOSE i \in DOMAIN Sets[e] : Sets[e][i] = p

-----------------------------------------------------------------------------
(* The hello *)

\* Mutant: the digest does not name the server.
HelloDigestOpen(serverKey, index) == <<"PEER_HELLO", index>>

\* helloDigest; the challenge is the socket's.
HelloDigest(serverKey, index) == <<"PEER_HELLO", serverKey, index>>

AnswerHello(p, peer) ==
  LET index == IndexIn(epoch[p], p) IN [index |-> index, digest |-> HelloDigest(peer, index), by |-> p]

\* What is not a hello.
Frame == [index |-> Nobody, digest |-> <<>>, by |-> Nobody]

\* checkHello at server u: the index proved, or Nobody.
CheckHello(u, m) ==
  IF /\ m.index \in DOMAIN KeysOf(u)
     /\ m.by = KeysOf(u)[m.index]
     /\ m.digest = HelloDigest(u, m.index)
  THEN m.index ELSE Nobody

-----------------------------------------------------------------------------
(* The dialling end *)

\* dial, at first and after every close: the url leads to the peer or elsewhere.
Dial(l) ==
  /\ client[l] = "waiting" /\ epoch[l[1]] # 0
  /\ \E u \in Peer \ {l[1]} :
       /\ epoch[u] # 0
       /\ u # l[2] => counts.detours < MaxDetours
       /\ server' = [server EXCEPT ![l] = [at |-> u, phase |-> "unproven", from |-> Nobody]]
       /\ counts' = IF u = l[2] THEN counts ELSE [counts EXCEPT !.detours = @ + 1]
  /\ client' = [client EXCEPT ![l] = "open"]
  /\ channel' = [channel EXCEPT ![l] = <<>>]
  /\ UNCHANGED epoch

\* The challenge arrives; answerHello awaits the signer.
Challenged(l) ==
  /\ client[l] = "open"
  /\ client' = [client EXCEPT ![l] = "signing"]
  /\ UNCHANGED <<epoch, server, channel, counts>>

Answered(l) ==
  /\ client[l] = "signing"
  /\ client' = [client EXCEPT ![l] = "ready"]
  /\ channel' = [channel EXCEPT ![l] = Append(@, AnswerHello(l[1], l[2]))]
  /\ UNCHANGED <<epoch, server, counts>>

\* Mutant: frames go out as soon as the socket is open.
ReadyOpen(l) == client[l] \in {"open", "signing", "ready"}

\* peer.ready, and the socket is open.
Ready(l) == client[l] = "ready"

\* send, broadcast.
Send(l) ==
  /\ Ready(l)
  /\ Len(channel[l]) < 2
  /\ channel' = [channel EXCEPT ![l] = Append(@, Frame)]
  /\ UNCHANGED <<epoch, client, server, counts>>

\* The socket is closed, by the other end or by a break: dial again, later.
Closed(l) ==
  /\ client[l] \in {"open", "signing", "ready"}
  /\ server[l].phase = "gone"
  /\ client' = [client EXCEPT ![l] = "waiting"]
  /\ UNCHANGED <<epoch, server, channel, counts>>

-----------------------------------------------------------------------------
(* The accepting end *)

Terminated(l) == server' = [server EXCEPT ![l] = NoEnd]

\* accept, on message: the first must be the hello; the frames after it go to the handler
\* with the index it proved.
Message(l) ==
  LET u == server[l].at
      from == CheckHello(u, Head(channel[l]))
  IN /\ server[l].phase # "gone" /\ channel[l] # <<>>
     /\ channel' = [channel EXCEPT ![l] = Tail(@)]
     /\ IF server[l].phase = "proven" THEN UNCHANGED server
        ELSE IF from = Nobody THEN Terminated(l)
        ELSE server' = [server EXCEPT ![l].phase = "proven", ![l].from = from]
     /\ UNCHANGED <<epoch, client, counts>>

\* HELLO_TIMEOUT_MS: a slow answer.
HelloTimeout(l) ==
  /\ counts.breaks < MaxBreaks
  /\ server[l].phase = "unproven"
  /\ Terminated(l)
  /\ counts' = [counts EXCEPT !.breaks = @ + 1]
  /\ UNCHANGED <<epoch, client, channel>>

\* The server learns that the client is gone.
Left(l) ==
  /\ client[l] = "waiting" /\ server[l].phase # "gone"
  /\ Terminated(l)
  /\ UNCHANGED <<epoch, client, channel, counts>>

-----------------------------------------------------------------------------
(* The network and the publishers *)

Break(l) ==
  /\ counts.breaks < MaxBreaks
  /\ client[l] # "waiting" /\ server[l].phase # "gone"
  /\ \/ Terminated(l) /\ UNCHANGED client
     \/ client' = [client EXCEPT ![l] = "waiting"] /\ UNCHANGED server
  /\ counts' = [counts EXCEPT !.breaks = @ + 1]
  /\ UNCHANGED <<epoch, channel>>

\* run ends when the committee cell changes, and on a crash; all its sockets close.
StopPublisher(p) ==
  /\ epoch[p] # 0
  /\ epoch' = [epoch EXCEPT ![p] = 0]
  /\ client' = [l \in Line |-> IF l[1] = p THEN "waiting" ELSE client[l]]
  /\ server' = [l \in Line |-> IF server[l].at = p THEN NoEnd ELSE server[l]]
  /\ UNCHANGED <<channel, counts>>

\* Started, or started again, with the set that is current then.
StartPublisher(p) ==
  /\ epoch[p] = 0
  /\ counts.starts < MaxStarts
  /\ \E e \in DOMAIN Sets : MayRun(p, e) /\ epoch' = [epoch EXCEPT ![p] = e]
  /\ counts' = [counts EXCEPT !.starts = @ + 1]
  /\ UNCHANGED <<client, server, channel>>

TransportInit ==
  /\ epoch = [p \in Peer |-> 0]
  /\ client = [l \in Line |-> "waiting"]
  /\ server = [l \in Line |-> NoEnd]
  /\ channel = [l \in Line |-> <<>>]
  /\ counts = [detours |-> 0, breaks |-> 0, starts |-> 0]

TransportNext ==
  \/ \E l \in Line :
       \/ Dial(l) \/ Challenged(l) \/ Answered(l) \/ Send(l) \/ Closed(l)
       \/ Message(l) \/ HelloTimeout(l) \/ Left(l) \/ Break(l)
  \/ \E p \in Peer : StopPublisher(p) \/ StartPublisher(p)

\* Timers fire, the signer answers, and the end of a socket is noticed: TCP reports it at
\* the latest when frames go unacknowledged. Connections break, and answers are slower
\* than the hello timeout, finitely often.
TransportFairness ==
  \A l \in Line :
    /\ WF_transportVars(Dial(l)) /\ WF_transportVars(Challenged(l)) /\ WF_transportVars(Answered(l))
    /\ WF_transportVars(Closed(l)) /\ WF_transportVars(Message(l)) /\ WF_transportVars(Left(l))

TransportSpec == TransportInit /\ [][TransportNext]_transportVars /\ TransportFairness

-----------------------------------------------------------------------------
(* Properties *)

\* Frames are handled only by the publisher they are meant for, under the index that
\* the set it runs with gives their sender, though urls may lead astray and
\* publishers run with different sets (helloDigest, checkHello).
AddressedOnly ==
  \A l \in Line :
    server[l].phase = "proven" => server[l].at = l[2] /\ KeysOf(l[2])[server[l].from] = l[1]

\* Two publishers whose sets give the dialler one index, and that keep running, are in
\* the end connected for good (dial, accept).
Matched(l) ==
  /\ epoch[l[1]] # 0 /\ epoch[l[2]] # 0
  /\ l[1] \in Range(KeysOf(l[2]))
  /\ IndexIn(epoch[l[1]], l[1]) = IndexIn(epoch[l[2]], l[1])

Connected(l) == Ready(l) /\ server[l].phase = "proven"

LiveConnected == \A l \in Line : <>[]Matched(l) => <>[]Connected(l)

=============================================================================
