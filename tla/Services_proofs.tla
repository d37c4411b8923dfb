--------------------------- MODULE Services_proofs ---------------------------
(***************************************************************************)
(* What keeps publishers together, for any number of them: the connections *)
(* between publishers that run with different key sets, the config versions*)
(* they follow, and the watchdog that looks after what they let through.   *)
(* And what feeds each of them: the connections to venues that stream, the *)
(* addresses these are dialed at, and venues that are polled.              *)
(***************************************************************************)
EXTENDS PeerTransport, ConfigRollout, Watchdog, StreamVenue, PolledVenue,
        FiniteSetTheorems, WellFoundedInduction, TLAPS

-----------------------------------------------------------------------------
(* Connections between publishers *)

\* What a client sends on line l: a hello that names its server, and frames.
Hello(l) == {[index |-> i, digest |-> HelloDigest(l[2], i), by |-> l[1]] : i \in Nat}
Mail(l) == Hello(l) \cup {Frame}

ServerEnd ==
  [at : Peer \cup {Nobody}, phase : {"gone", "unproven", "proven"}, from : Nat \cup {Nobody}]

TransportTypeOK ==
  /\ epoch \in [Peer -> {0} \cup DOMAIN Sets]
  /\ client \in [Line -> {"waiting", "open", "signing", "ready"}]
  /\ server \in [Line -> ServerEnd]
  /\ DOMAIN channel = Line
  /\ channel = [l \in Line |-> channel[l]]
  /\ \A l \in Line : channel[l] \in Seq(Mail(l))

\* Publishers run with sets they may run with; who has an end of a line is up.
EndsUp ==
  /\ \A p \in Peer : epoch[p] # 0 => MayRun(p, epoch[p])
  /\ \A l \in Line : client[l] # "waiting" => epoch[l[1]] # 0
  /\ \A l \in Line : server[l].phase # "gone" => server[l].at \in Peer /\ epoch[server[l].at] # 0

TransportInv == TransportTypeOK /\ EndsUp /\ AddressedOnly

\* The two publishers of a line.
LEMMA LineEnds ==
  ASSUME NEW l \in Line
  PROVE  l[1] \in Peer /\ l[2] \in Peer /\ l = <<l[1], l[2]>>
BY TransportAssumption

\* A publisher that is up has an index in its set.
LEMMA IndexOfUp ==
  ASSUME TransportInv, NEW p \in Peer, epoch[p] # 0
  PROVE  /\ epoch[p] \in DOMAIN Sets /\ KeysOf(p) \in Seq(Peer)
         /\ IndexIn(epoch[p], p) \in DOMAIN KeysOf(p) /\ IndexIn(epoch[p], p) \in Nat
<1>1. epoch[p] \in DOMAIN Sets
  BY DEF TransportInv, TransportTypeOK
<1>2. KeysOf(p) \in Seq(Peer)
  BY <1>1, TransportAssumption DEF KeysOf
<1>3. p \in Range(Sets[epoch[p]])
  BY DEF TransportInv, EndsUp, MayRun
<1>4. \E i \in DOMAIN Sets[epoch[p]] : Sets[epoch[p]][i] = p
  BY <1>3 DEF Range
<1>5. IndexIn(epoch[p], p) \in DOMAIN KeysOf(p)
  BY <1>4 DEF IndexIn, KeysOf
<1> QED
  BY <1>1, <1>2, <1>5

\* Only the server a hello was made for takes it, as its sender.
LEMMA HelloBinds ==
  ASSUME TransportInv, NEW l \in Line, NEW u \in Peer, epoch[u] # 0, NEW m \in Mail(l),
         CheckHello(u, m) # Nobody
  PROVE  /\ u = l[2]
         /\ CheckHello(u, m) \in Nat
         /\ KeysOf(u)[CheckHello(u, m)] = l[1]
<1>1. /\ CheckHello(u, m) = m.index
      /\ m.index \in DOMAIN KeysOf(u)
      /\ m.by = KeysOf(u)[m.index]
      /\ m.digest = <<"PEER_HELLO", u, m.index>>
  BY DEF CheckHello, HelloDigest
<1>2. m.index \in Nat
  BY <1>1, IndexOfUp
<1>3. m # Frame
  BY <1>2, TransportAssumption DEF Frame
<1>4. PICK i \in Nat : m = [index |-> i, digest |-> <<"PEER_HELLO", l[2], i>>, by |-> l[1]]
  BY <1>3 DEF Mail, Hello, HelloDigest
<1>5. <<"PEER_HELLO", u, m.index>> = <<"PEER_HELLO", l[2], i>>
  BY <1>1, <1>4
<1>6. u = l[2]
  BY <1>5
<1> QED
  BY <1>1, <1>2, <1>4, <1>6

LEMMA TransportStarts == TransportInit => TransportInv
<1> SUFFICES ASSUME TransportInit PROVE TransportInv
  OBVIOUS
<1>1. NoEnd \in ServerEnd /\ NoEnd.phase = "gone"
  BY DEF NoEnd, ServerEnd
<1>2. TransportTypeOK
  BY <1>1 DEF TransportInit, TransportTypeOK
<1>3. EndsUp
  BY <1>1 DEF TransportInit, EndsUp
<1>4. AddressedOnly
  BY <1>1 DEF TransportInit, AddressedOnly
<1> QED
  BY <1>2, <1>3, <1>4 DEF TransportInv

\* What a step says of every line: what was sent, who is up, and whom a proven
\* connection joins.
LineKept(l) ==
  /\ server'[l] \in ServerEnd
  /\ client'[l] \in {"waiting", "open", "signing", "ready"}
  /\ channel'[l] \in Seq(Mail(l))
  /\ client'[l] # "waiting" => epoch'[l[1]] # 0
  /\ server'[l].phase # "gone" => server'[l].at \in Peer /\ epoch'[server'[l].at] # 0
  /\ server'[l].phase = "proven" =>
       server'[l].at = l[2] /\ Sets[epoch'[l[2]]][server'[l].from] = l[1]

LinesAreFunctions ==
  /\ server' = [l \in Line |-> server'[l]]
  /\ client' = [l \in Line |-> client'[l]]
  /\ DOMAIN channel' = Line
  /\ channel' = [l \in Line |-> channel'[l]]

LEMMA KeptByLines ==
  ASSUME TransportInv, LinesAreFunctions, \A l \in Line : LineKept(l),
         epoch' \in [Peer -> {0} \cup DOMAIN Sets],
         \A p \in Peer : epoch'[p] # 0 => MayRun(p, epoch'[p])
  PROVE  TransportInv'
<1>1. server' \in [Line -> ServerEnd]
  BY DEF LinesAreFunctions, LineKept
<1>2. client' \in [Line -> {"waiting", "open", "signing", "ready"}]
  BY DEF LinesAreFunctions, LineKept
<1>3. TransportTypeOK'
  BY <1>1, <1>2 DEF LinesAreFunctions, LineKept, TransportTypeOK
<1>4. EndsUp'
  BY DEF EndsUp, LineKept
<1>5. AddressedOnly'
  BY DEF AddressedOnly, LineKept, KeysOf
<1> QED
  BY <1>3, <1>4, <1>5 DEF TransportInv

\* A line that a step leaves alone, with the publishers at its ends.
LEMMA LineUntouched ==
  ASSUME TransportInv, NEW l \in Line,
         server'[l] = server[l], client'[l] = client[l], channel'[l] = channel[l],
         UNCHANGED epoch
  PROVE  LineKept(l)
<1>1. server[l] \in ServerEnd /\ client[l] \in {"waiting", "open", "signing", "ready"} /\ channel[l] \in Seq(Mail(l))
  BY DEF TransportInv, TransportTypeOK
<1>2. client[l] # "waiting" => epoch[l[1]] # 0
  BY DEF TransportInv, EndsUp
<1>3. server[l].phase # "gone" => server[l].at \in Peer /\ epoch[server[l].at] # 0
  BY DEF TransportInv, EndsUp
<1>4. server[l].phase = "proven" =>
        server[l].at = l[2] /\ Sets[epoch[l[2]]][server[l].from] = l[1]
  BY DEF TransportInv, AddressedOnly, KeysOf
<1> QED
  BY <1>1, <1>2, <1>3, <1>4 DEF LineKept

\* A step of line l leaves the publishers and the other lines alone.
OnlyLine(l) ==
  /\ server' = [server EXCEPT ![l] = server'[l]]
  /\ client' = [client EXCEPT ![l] = client'[l]]
  /\ channel' = [channel EXCEPT ![l] = channel'[l]]
  /\ UNCHANGED epoch

LEMMA OneLine ==
  ASSUME TransportInv, NEW l \in Line, OnlyLine(l), LineKept(l)
  PROVE  TransportInv'
<1>1. ASSUME NEW k \in Line, k # l
      PROVE  LineKept(k)
  <2>1. server'[k] = server[k] /\ client'[k] = client[k] /\ channel'[k] = channel[k]
    BY <1>1 DEF OnlyLine, TransportInv, TransportTypeOK
  <2> QED
    BY <2>1, LineUntouched DEF OnlyLine
<1>2. LinesAreFunctions
  BY DEF OnlyLine, LinesAreFunctions, TransportInv, TransportTypeOK
<1>3. epoch' \in [Peer -> {0} \cup DOMAIN Sets] /\ \A p \in Peer : epoch'[p] # 0 => MayRun(p, epoch'[p])
  BY DEF OnlyLine, TransportInv, TransportTypeOK, EndsUp
<1> QED
  BY <1>1, <1>2, <1>3, KeptByLines

\* What line l is before a step.
LEMMA LineNow ==
  ASSUME TransportInv, NEW l \in Line
  PROVE  /\ server[l] \in ServerEnd /\ client[l] \in {"waiting", "open", "signing", "ready"}
         /\ channel[l] \in Seq(Mail(l))
         /\ client[l] # "waiting" => epoch[l[1]] # 0
         /\ server[l].phase # "gone" => server[l].at \in Peer /\ epoch[server[l].at] # 0
         /\ server[l].phase = "proven" =>
              server[l].at = l[2] /\ Sets[epoch[l[2]]][server[l].from] = l[1]
<1>1. /\ server[l] \in ServerEnd /\ client[l] \in {"waiting", "open", "signing", "ready"}
      /\ channel[l] \in Seq(Mail(l))
  BY DEF TransportInv, TransportTypeOK
<1>2. /\ client[l] # "waiting" => epoch[l[1]] # 0
      /\ server[l].phase # "gone" => server[l].at \in Peer /\ epoch[server[l].at] # 0
  BY DEF TransportInv, EndsUp
<1>3. server[l].phase = "proven" =>
        server[l].at = l[2] /\ Sets[epoch[l[2]]][server[l].from] = l[1]
  BY DEF TransportInv, AddressedOnly, KeysOf
<1> QED
  BY <1>1, <1>2, <1>3

\* Where an EXCEPT of one line leads.
LEMMA LineThen ==
  ASSUME TransportInv, NEW l \in Line
  PROVE  /\ DOMAIN server = Line /\ DOMAIN client = Line /\ DOMAIN channel = Line
         /\ server = [server EXCEPT ![l] = server[l]]
         /\ client = [client EXCEPT ![l] = client[l]]
         /\ channel = [channel EXCEPT ![l] = channel[l]]
         /\ \A x : [server EXCEPT ![l] = x][l] = x
         /\ \A x : [client EXCEPT ![l] = x][l] = x
         /\ \A x : [channel EXCEPT ![l] = x][l] = x
<1>1. DOMAIN server = Line /\ DOMAIN client = Line /\ DOMAIN channel = Line
  BY DEF TransportInv, TransportTypeOK
<1>2. server = [server EXCEPT ![l] = server[l]] /\ client = [client EXCEPT ![l] = client[l]]
  BY DEF TransportInv, TransportTypeOK
<1>3. channel = [channel EXCEPT ![l] = channel[l]]
  BY DEF TransportInv, TransportTypeOK
<1> QED
  BY <1>1, <1>2, <1>3

LEMMA Gone == NoEnd \in ServerEnd /\ NoEnd.phase = "gone"
BY DEF NoEnd, ServerEnd

LEMMA DialKeeps ==
  ASSUME TransportInv, NEW l \in Line, Dial(l)
  PROVE  TransportInv'
<1>1. PICK u \in Peer : /\ epoch[u] # 0
                        /\ server' = [server EXCEPT ![l] = [at |-> u, phase |-> "unproven", from |-> Nobody]]
  BY DEF Dial
<1> DEFINE s == [at |-> u, phase |-> "unproven", from |-> Nobody]
<1>2. s \in ServerEnd /\ s.phase = "unproven" /\ s.at = u
  BY DEF ServerEnd
<1>3. <<>> \in Seq(Mail(l))
  OBVIOUS
<1>4. /\ client' = [client EXCEPT ![l] = "open"] /\ channel' = [channel EXCEPT ![l] = <<>>]
      /\ UNCHANGED epoch /\ epoch[l[1]] # 0
  BY DEF Dial
<1> HIDE DEF s
<1>5. server'[l] = s /\ client'[l] = "open" /\ channel'[l] = <<>>
  BY <1>1, <1>4, LineThen DEF s
<1>6. OnlyLine(l)
  BY <1>1, <1>4, <1>5 DEF OnlyLine, s
<1>7. LineKept(l)
  BY <1>1, <1>2, <1>3, <1>4, <1>5 DEF LineKept
<1> QED
  BY <1>6, <1>7, OneLine

\* The client's end changes, and what it sent.
LEMMA ClientKeeps ==
  ASSUME TransportInv, NEW l \in Line, Challenged(l) \/ Answered(l) \/ Send(l) \/ Closed(l)
  PROVE  TransportInv'
<1>1. UNCHANGED <<epoch, server>>
  BY DEF Challenged, Answered, Send, Closed
<1>2. PICK c \in {"waiting", "signing", "ready", client[l]} :
        client' = [client EXCEPT ![l] = c] /\ (c # "waiting" => client[l] # "waiting")
  <2>1. CASE Challenged(l)
    BY <2>1 DEF Challenged
  <2>2. CASE Answered(l)
    BY <2>2 DEF Answered
  <2>3. CASE Send(l)
    BY <2>3, LineThen DEF Send, Ready
  <2>4. CASE Closed(l)
    BY <2>4 DEF Closed
  <2> QED
    BY <2>1, <2>2, <2>3, <2>4
<1>3. PICK sent \in Seq(Mail(l)) : channel' = [channel EXCEPT ![l] = sent]
  <2>1. channel[l] \in Seq(Mail(l)) /\ channel = [channel EXCEPT ![l] = channel[l]]
    BY LineNow, LineThen
  <2>2. CASE Challenged(l) \/ Closed(l)
    <3>1. channel' = channel
      BY <2>2 DEF Challenged, Closed
    <3> QED
      BY <2>1, <3>1
  <2>3. CASE Answered(l)
    <3>1. client[l] = "signing" /\ channel' = [channel EXCEPT ![l] = Append(channel[l], AnswerHello(l[1], l[2]))]
      BY <2>3 DEF Answered
    <3>2. epoch[l[1]] # 0
      BY <3>1, LineNow
    <3>3. IndexIn(epoch[l[1]], l[1]) \in Nat
      BY <3>2, LineEnds, IndexOfUp
    <3>4. AnswerHello(l[1], l[2]) \in Mail(l)
      BY <3>3 DEF AnswerHello, Mail, Hello
    <3>5. Append(channel[l], AnswerHello(l[1], l[2])) \in Seq(Mail(l))
      BY <2>1, <3>4
    <3> QED
      BY <3>1, <3>5
  <2>4. CASE Send(l)
    <3>1. channel' = [channel EXCEPT ![l] = Append(channel[l], Frame)]
      BY <2>4 DEF Send
    <3>2. Append(channel[l], Frame) \in Seq(Mail(l))
      BY <2>1 DEF Mail
    <3> QED
      BY <3>1, <3>2
  <2> QED
    BY <2>2, <2>3, <2>4
<1>4. client'[l] = c /\ channel'[l] = sent /\ server'[l] = server[l]
  BY <1>1, <1>2, <1>3, LineThen
<1>5. OnlyLine(l)
  BY <1>1, <1>2, <1>3, <1>4, LineThen DEF OnlyLine
<1>6. LineKept(l)
  BY <1>1, <1>2, <1>4, LineNow DEF LineKept
<1> QED
  BY <1>5, <1>6, OneLine

\* The first message must be a hello made for this server; what comes after it is a frame.
LEMMA MessageKeeps ==
  ASSUME TransportInv, NEW l \in Line, Message(l)
  PROVE  TransportInv'
<1> DEFINE u == server[l].at
           m == Head(channel[l])
           from == CheckHello(u, m)
<1>1. /\ server[l].phase # "gone" /\ channel[l] # <<>>
      /\ channel' = [channel EXCEPT ![l] = Tail(channel[l])]
      /\ UNCHANGED <<epoch, client>>
      /\ IF server[l].phase = "proven" THEN UNCHANGED server
         ELSE IF from = Nobody THEN Terminated(l)
         ELSE server' = [server EXCEPT ![l].phase = "proven", ![l].from = from]
  BY DEF Message
<1>2. u \in Peer /\ epoch[u] # 0
  BY <1>1, LineNow
<1>3. m \in Mail(l) /\ Tail(channel[l]) \in Seq(Mail(l))
  <2>1. channel[l] \in Seq(Mail(l))
    BY LineNow
  <2> QED
    BY <1>1, <2>1
<1> HIDE DEF u, m, from
<1>4. channel'[l] = Tail(channel[l]) /\ client'[l] = client[l]
  BY <1>1, LineThen
<1>5. OnlyLine(l) /\ LineKept(l)
  <2>1. CASE server[l].phase = "proven"
    <3>1. server'[l] = server[l] /\ UNCHANGED server
      BY <1>1, <2>1
    <3>2. OnlyLine(l)
      BY <1>1, <1>4, <3>1, LineThen DEF OnlyLine
    <3>3. LineKept(l)
      BY <1>1, <1>3, <1>4, <3>1, LineNow DEF LineKept
    <3> QED
      BY <3>2, <3>3
  <2>2. CASE server[l].phase # "proven" /\ from = Nobody
    <3>1. server' = [server EXCEPT ![l] = NoEnd]
      BY <1>1, <2>2 DEF Terminated
    <3>2. server'[l] = NoEnd
      BY <3>1, LineThen
    <3>3. OnlyLine(l)
      BY <1>1, <1>4, <3>1, <3>2, LineThen DEF OnlyLine
    <3>4. LineKept(l)
      BY <1>1, <1>3, <1>4, <3>2, LineNow, Gone DEF LineKept
    <3> QED
      BY <3>3, <3>4
  <2>3. CASE server[l].phase # "proven" /\ from # Nobody
    <3>1. u = l[2] /\ from \in Nat /\ KeysOf(u)[from] = l[1]
      BY <1>2, <1>3, <2>3, HelloBinds DEF from
    <3> DEFINE s == [at |-> u, phase |-> "proven", from |-> from]
    <3>2. s \in ServerEnd /\ s.phase = "proven" /\ s.at = u /\ s.from = from
      BY <1>2, <3>1 DEF ServerEnd
    <3>3. server' = [server EXCEPT ![l] = s]
      <4>1. server[l] \in ServerEnd /\ server \in [Line -> ServerEnd]
        BY DEF TransportInv, TransportTypeOK
      <4>2. PICK a \in Peer \cup {Nobody}, ph \in {"gone", "unproven", "proven"}, f \in Nat \cup {Nobody} :
              server[l] = [at |-> a, phase |-> ph, from |-> f]
        BY <4>1 DEF ServerEnd
      <4>3. u = a
        BY <4>2 DEF u
      <4>4. server' = [server EXCEPT ![l].phase = "proven", ![l].from = from]
        BY <1>1, <2>3
      <4>5. server'[l] = [[at |-> a, phase |-> ph, from |-> f] EXCEPT !.phase = "proven", !.from = from]
        BY <4>1, <4>2, <4>4
      <4>6. server'[l] = s
        BY <4>3, <4>5
      <4>7. \A k \in Line : k # l => server'[k] = server[k]
        BY <4>1, <4>4
      <4>8. server' = [k \in Line |-> server'[k]]
        BY <4>1, <4>4
      <4> QED
        BY <4>1, <4>6, <4>7, <4>8
    <3> HIDE DEF s
    <3>4. server'[l] = s
      BY <3>3, LineThen
    <3>5. OnlyLine(l)
      BY <1>1, <1>4, <3>3, <3>4, LineThen DEF OnlyLine
    <3>6. LineKept(l)
      BY <1>1, <1>2, <1>3, <1>4, <3>1, <3>2, <3>4, LineNow DEF LineKept, KeysOf
    <3> QED
      BY <3>5, <3>6
  <2> QED
    BY <2>1, <2>2, <2>3
<1> QED
  BY <1>5, OneLine

\* An end learns that the other one is gone.
LEMMA EndKeeps ==
  ASSUME TransportInv, NEW l \in Line, HelloTimeout(l) \/ Left(l) \/ Break(l)
  PROVE  TransportInv'
<1>1. /\ UNCHANGED <<epoch, channel>>
      /\ \/ server' = [server EXCEPT ![l] = NoEnd] /\ UNCHANGED client
         \/ client' = [client EXCEPT ![l] = "waiting"] /\ UNCHANGED server
  BY DEF HelloTimeout, Left, Break, Terminated
<1>2. CASE server' = [server EXCEPT ![l] = NoEnd] /\ UNCHANGED client
  <2>1. server'[l] = NoEnd
    BY <1>2, LineThen
  <2>2. OnlyLine(l)
    BY <1>1, <1>2, <2>1, LineThen DEF OnlyLine
  <2>3. LineKept(l)
    BY <1>1, <1>2, <2>1, LineNow, Gone DEF LineKept
  <2> QED
    BY <2>2, <2>3, OneLine
<1>3. CASE client' = [client EXCEPT ![l] = "waiting"] /\ UNCHANGED server
  <2>1. client'[l] = "waiting"
    BY <1>3, LineThen
  <2>2. OnlyLine(l)
    BY <1>1, <1>3, <2>1, LineThen DEF OnlyLine
  <2>3. LineKept(l)
    BY <1>1, <1>3, <2>1, LineNow DEF LineKept
  <2> QED
    BY <2>2, <2>3, OneLine
<1> QED
  BY <1>1, <1>2, <1>3

\* A publisher that stops takes its ends of lines with it.
LEMMA StopKeeps ==
  ASSUME TransportInv, NEW p \in Peer, StopPublisher(p)
  PROVE  TransportInv'
<1>1. /\ epoch' = [epoch EXCEPT ![p] = 0]
      /\ client' = [l \in Line |-> IF l[1] = p THEN "waiting" ELSE client[l]]
      /\ server' = [l \in Line |-> IF server[l].at = p THEN NoEnd ELSE server[l]]
      /\ UNCHANGED channel
  BY DEF StopPublisher
<1>2. /\ epoch' \in [Peer -> {0} \cup DOMAIN Sets]
      /\ epoch'[p] = 0 /\ \A q \in Peer : q # p => epoch'[q] = epoch[q]
  BY <1>1 DEF TransportInv, TransportTypeOK
<1>3. \A q \in Peer : epoch'[q] # 0 => MayRun(q, epoch'[q])
  BY <1>2 DEF TransportInv, EndsUp
<1>4. LinesAreFunctions
  <2>1. DOMAIN channel = Line /\ channel = [l \in Line |-> channel[l]]
    BY DEF TransportInv, TransportTypeOK
  <2> QED
    BY <1>1, <2>1 DEF LinesAreFunctions
<1>5. ASSUME NEW l \in Line
      PROVE  LineKept(l)
  <2>1. /\ server[l] \in ServerEnd /\ client[l] \in {"waiting", "open", "signing", "ready"}
        /\ channel[l] \in Seq(Mail(l))
        /\ client[l] # "waiting" => epoch[l[1]] # 0
        /\ server[l].phase # "gone" => server[l].at \in Peer /\ epoch[server[l].at] # 0
        /\ server[l].phase = "proven" =>
              server[l].at = l[2] /\ Sets[epoch[l[2]]][server[l].from] = l[1]
    BY LineNow
  <2>2. client'[l] \in {"waiting", "open", "signing", "ready"} /\ (client'[l] # "waiting" => epoch'[l[1]] # 0)
    BY <1>1, <1>2, <2>1, LineEnds
  <2>3. CASE server[l].at = p
    <3>1. server'[l] = NoEnd
      BY <1>1, <2>3
    <3> QED
      BY <1>1, <2>1, <2>2, <3>1, Gone DEF LineKept
  <2>4. CASE server[l].at # p
    <3>1. server'[l] = server[l]
      BY <1>1, <2>4
    <3>2. server[l].phase # "gone" => epoch'[server[l].at] = epoch[server[l].at]
      BY <1>2, <2>1, <2>4
    <3> QED
      BY <1>1, <2>1, <2>2, <3>1, <3>2 DEF LineKept
  <2> QED
    BY <2>3, <2>4
<1> QED
  BY <1>2, <1>3, <1>4, <1>5, KeptByLines

\* Nobody has an end at a publisher that is down, so the set it starts with is news to
\* none of them.
LEMMA StartKeeps ==
  ASSUME TransportInv, NEW p \in Peer, StartPublisher(p)
  PROVE  TransportInv'
<1>1. PICK e \in DOMAIN Sets : MayRun(p, e) /\ epoch' = [epoch EXCEPT ![p] = e]
  BY DEF StartPublisher
<1>2. epoch[p] = 0 /\ UNCHANGED <<client, server, channel>>
  BY DEF StartPublisher
<1>3. DOMAIN Sets \subseteq Nat \ {0}
  BY TransportAssumption
<1>4. /\ epoch' \in [Peer -> {0} \cup DOMAIN Sets]
      /\ epoch'[p] = e /\ \A q \in Peer : q # p => epoch'[q] = epoch[q]
  BY <1>1 DEF TransportInv, TransportTypeOK
<1>5. \A q \in Peer : epoch'[q] # 0 => MayRun(q, epoch'[q])
  BY <1>1, <1>4 DEF TransportInv, EndsUp
<1>6. LinesAreFunctions
  BY <1>2 DEF LinesAreFunctions, TransportInv, TransportTypeOK
<1>7. ASSUME NEW l \in Line
      PROVE  LineKept(l)
  <2>1. /\ server[l] \in ServerEnd /\ client[l] \in {"waiting", "open", "signing", "ready"}
        /\ channel[l] \in Seq(Mail(l))
        /\ client[l] # "waiting" => epoch[l[1]] # 0
        /\ server[l].phase # "gone" => server[l].at \in Peer /\ epoch[server[l].at] # 0
        /\ server[l].phase = "proven" =>
              server[l].at = l[2] /\ Sets[epoch[l[2]]][server[l].from] = l[1]
    BY LineNow
  <2>2. client[l] # "waiting" => epoch'[l[1]] # 0
    BY <1>2, <1>4, <2>1, LineEnds
  <2>3. server[l].phase # "gone" => epoch'[server[l].at] = epoch[server[l].at]
    BY <1>2, <1>4, <2>1
  <2> QED
    BY <1>2, <2>1, <2>2, <2>3 DEF LineKept
<1> QED
  BY <1>4, <1>5, <1>6, <1>7, KeptByLines

\* For any publishers, key sets and urls, with connections that break and publishers
\* that start again in other sets at any time: a frame is handled only by the publisher
\* it is meant for, under the index that its set gives the sender (checkHello).
THEOREM Addressed == TransportSpec => []AddressedOnly
<1>1. TransportInit => TransportInv
  BY TransportStarts
<1>2. TransportInv /\ [TransportNext]_transportVars => TransportInv'
  <2> SUFFICES ASSUME TransportInv, [TransportNext]_transportVars PROVE TransportInv'
    OBVIOUS
  <2>1. ASSUME NEW l \in Line, Dial(l) PROVE TransportInv'
    BY <2>1, DialKeeps
  <2>2. ASSUME NEW l \in Line, Challenged(l) \/ Answered(l) \/ Send(l) \/ Closed(l) PROVE TransportInv'
    BY <2>2, ClientKeeps
  <2>3. ASSUME NEW l \in Line, Message(l) PROVE TransportInv'
    BY <2>3, MessageKeeps
  <2>4. ASSUME NEW l \in Line, HelloTimeout(l) \/ Left(l) \/ Break(l) PROVE TransportInv'
    BY <2>4, EndKeeps
  <2>5. ASSUME NEW p \in Peer, StopPublisher(p) PROVE TransportInv'
    BY <2>5, StopKeeps
  <2>6. ASSUME NEW p \in Peer, StartPublisher(p) PROVE TransportInv'
    BY <2>6, StartKeeps
  <2>7. CASE UNCHANGED transportVars
    <3>1. UNCHANGED <<epoch, client, server, channel>>
      BY <2>7 DEF transportVars
    <3> QED
      BY <3>1 DEF TransportInv, TransportTypeOK, EndsUp, AddressedOnly, KeysOf
  <2> QED
    BY <2>1, <2>2, <2>3, <2>4, <2>5, <2>6, <2>7 DEF TransportNext
<1>3. TransportInv => AddressedOnly
  BY DEF TransportInv
<1> QED
  BY <1>1, <1>2, <1>3, PTL DEF TransportSpec

-----------------------------------------------------------------------------
(* Config versions *)

\* A nonempty set of naturals has a least element.
LEMMA Smallest ==
  ASSUME NEW S \in SUBSET Nat, S # {}
  PROVE  \E x \in S : \A y \in S : x <= y
<1> DEFINE Less == {ss \in Nat \X Nat : ss[1] < ss[2]}
<1>1. IsWellFoundedOn(Less, Nat)
  BY NatLessThanWellFounded DEF OpToRel
<1>2. PICK x \in S : \A y \in S : <<y, x>> \notin Less
  <2> HIDE DEF Less
  <2> QED BY <1>1, WFMin
<1>3. \A y \in S : ~(y < x)
  BY <1>2
<1> QED
  BY <1>3

\* A nonempty set of naturals below some number has a greatest element.
LEMMA Largest ==
  ASSUME NEW S \in SUBSET Nat, S # {}, NEW b \in Nat, \A x \in S : x <= b
  PROVE  \E x \in S : \A y \in S : y <= x
<1> DEFINE Below == {b - x : x \in S}
<1>1. \A x \in S : x \in Nat /\ b - x \in Nat
  <2> SUFFICES ASSUME NEW x \in S PROVE x \in Nat /\ b - x \in Nat
    OBVIOUS
  <2>1. x \in Nat /\ x <= b
    OBVIOUS
  <2> QED
    BY <2>1
<1>2. Below \in SUBSET Nat /\ Below # {}
  BY <1>1
<1>3. PICK c \in Below : \A d \in Below : c <= d
  <2> HIDE DEF Below
  <2> QED
    BY <1>2, Smallest
<1>4. PICK x \in S : c = b - x
  OBVIOUS
<1>5. ASSUME NEW y \in S PROVE y <= x
  <2>1. b - y \in Below
    OBVIOUS
  <2>2. b - x <= b - y
    BY <1>3, <1>4, <2>1
  <2>3. x \in Nat /\ y \in Nat
    BY <1>1
  <2> QED
    BY <2>2, <2>3
<1> QED
  BY <1>5

LEMMA Versions ==
  /\ Version = 1..Len(Activation) /\ Version \subseteq Nat /\ Len(Activation) \in Nat
  /\ \A v \in Version : v \in Nat /\ v >= 1 /\ v <= Len(Activation) /\ Activation[v] \in Nat
BY ConfigRolloutAssumption DEF Version

\* What a ConfigSchedule holds: versions, later ones active later.
Ordered(held) ==
  \A i, j \in DOMAIN held : i < j => held[i] < held[j] /\ Activation[held[i]] < Activation[held[j]]

Schedule == {held \in Seq(Version) : Ordered(held)}

LEMMA HeldLast ==
  ASSUME NEW held \in Schedule, held # <<>>
  PROVE  /\ Len(held) \in DOMAIN held /\ Last(held) \in Version /\ Holds(held, Last(held))
         /\ \A v : Holds(held, v) => v \in Version /\ v <= Last(held) /\ Activation[v] <= Activation[Last(held)]
<1>1. held \in Seq(Version) /\ Ordered(held)
  BY DEF Schedule
<1>2. Len(held) \in DOMAIN held /\ Last(held) = held[Len(held)]
  BY <1>1 DEF Last
<1>3. Last(held) \in Version /\ Holds(held, Last(held))
  BY <1>1, <1>2 DEF Holds
<1>4. ASSUME NEW i \in DOMAIN held
      PROVE  held[i] \in Version /\ held[i] <= Last(held) /\ Activation[held[i]] <= Activation[Last(held)]
  <2>1. held[i] \in Version
    BY <1>1
  <2>2. CASE i = Len(held)
    BY <2>1, <2>2, <1>2, Versions
  <2>3. CASE i # Len(held)
    <3>1. i < Len(held)
      BY <1>1, <2>3
    <3>2. held[i] < Last(held) /\ Activation[held[i]] < Activation[Last(held)]
      BY <1>1, <1>2, <3>1 DEF Ordered
    <3> QED
      BY <1>3, <2>1, <3>2, Versions
  <2> QED
    BY <2>2, <2>3
<1> QED
  BY <1>2, <1>3, <1>4 DEF Holds

\* What add appends keeps the order.
LEMMA AddKeeps ==
  ASSUME NEW held \in Schedule, NEW v \in Version, Follows(held, v)
  PROVE  /\ Append(held, v) \in Schedule
         /\ Append(held, v) # <<>> /\ Last(Append(held, v)) = v
         /\ \A w : Holds(Append(held, v), w) <=> Holds(held, w) \/ w = v
         /\ \A w \in Version : held # <<>> /\ ~Follows(held, w) => ~Follows(Append(held, v), w)
<1> DEFINE longer == Append(held, v)
<1>1. held \in Seq(Version) /\ Ordered(held)
  BY DEF Schedule
<1>2. /\ longer \in Seq(Version) /\ Len(longer) = Len(held) + 1 /\ longer # <<>>
      /\ DOMAIN held = 1..Len(held) /\ DOMAIN longer = 1..(Len(held) + 1) /\ Len(held) \in Nat
      /\ \A i \in DOMAIN held : longer[i] = held[i]
      /\ longer[Len(held) + 1] = v
  BY <1>1
<1> HIDE DEF longer
<1>3. Last(longer) = v
  BY <1>2 DEF Last
<1>4. \A w : Holds(longer, w) <=> Holds(held, w) \/ w = v
  BY <1>2 DEF Holds
<1>5. Ordered(longer)
  <2> SUFFICES ASSUME NEW i \in DOMAIN longer, NEW j \in DOMAIN longer, i < j
               PROVE  longer[i] < longer[j] /\ Activation[longer[i]] < Activation[longer[j]]
    BY DEF Ordered
  <2>1. i \in DOMAIN held
    BY <1>2
  <2>2. CASE j \in DOMAIN held
    BY <1>1, <1>2, <2>1, <2>2 DEF Ordered
  <2>3. CASE j = Len(held) + 1
    <3>1. held # <<>>
      BY <2>1
    <3>2. v > Last(held) /\ Activation[v] > Activation[Last(held)]
      BY <3>1 DEF Follows
    <3>3. Last(held) \in Version /\ held[i] \in Version /\ held[i] <= Last(held)
          /\ Activation[held[i]] <= Activation[Last(held)]
      BY <2>1, <3>1, HeldLast DEF Holds
    <3>4. held[i] < v /\ Activation[held[i]] < Activation[v]
      BY <3>2, <3>3, Versions
    <3> QED
      BY <1>2, <2>1, <2>3, <3>4
  <2> QED
    BY <1>2, <2>2, <2>3
<1>6. longer \in Schedule
  BY <1>2, <1>5 DEF Schedule
<1>7. ASSUME NEW w \in Version, held # <<>>, ~Follows(held, w)
      PROVE  ~Follows(longer, w)
  <2>1. v > Last(held) /\ Activation[v] > Activation[Last(held)] /\ Last(held) \in Version
    BY <1>7, HeldLast DEF Follows
  <2>2. ~(w > Last(held) /\ Activation[w] > Activation[Last(held)])
    BY <1>7 DEF Follows
  <2>3. ~(w > v /\ Activation[w] > Activation[v])
    BY <2>1, <2>2, Versions
  <2> QED
    BY <1>2, <1>3, <2>3 DEF Follows
<1> QED
  BY <1>2, <1>3, <1>4, <1>6, <1>7 DEF longer

\* What loadConfigDir looks for in version v.
Taken(p, set, held, schedule, v) ==
  v \in Placed(p) /\ ~Holds(held, v) /\ Approved(p, v, set) /\ Follows(schedule, v)

LoadedTo(p, set, held, n, f) ==
  f = [v \in 0..n |-> IF v = 0 THEN held
                      ELSE IF Taken(p, set, held, f[v - 1], v) THEN Append(f[v - 1], v) ELSE f[v - 1]]

LEMMA StepOfLoaded ==
  ASSUME NEW p, NEW set, NEW held, NEW n \in Nat, NEW f, LoadedTo(p, set, held, n, f)
  PROVE  /\ f[0] = held
         /\ \A v \in 1..n :
              f[v] = IF Taken(p, set, held, f[v - 1], v) THEN Append(f[v - 1], v) ELSE f[v - 1]
<1> DEFINE step(v) == IF v = 0 THEN held
                      ELSE IF Taken(p, set, held, f[v - 1], v) THEN Append(f[v - 1], v) ELSE f[v - 1]
<1>1. f = [v \in 0..n |-> step(v)]
  BY DEF LoadedTo
<1>2. \A v \in 0..n : f[v] = step(v)
  <2> HIDE DEF step
  <2> QED
    BY <1>1
<1>3. f[0] = held
  BY <1>2
<1>4. ASSUME NEW v \in 1..n
      PROVE  f[v] = IF Taken(p, set, held, f[v - 1], v) THEN Append(f[v - 1], v) ELSE f[v - 1]
  <2>1. v \in 0..n /\ v # 0
    OBVIOUS
  <2> QED
    BY <1>2, <2>1
<1> QED
  BY <1>3, <1>4

\* Looking at the files one after the other has one outcome.
LEMMA LoadedStepwise ==
  ASSUME NEW p \in Publisher, NEW set, NEW held
  PROVE  /\ Loaded(p, set, held)[0] = held
         /\ \A v \in Version :
              Loaded(p, set, held)[v] =
                IF Taken(p, set, held, Loaded(p, set, held)[v - 1], v)
                THEN Append(Loaded(p, set, held)[v - 1], v) ELSE Loaded(p, set, held)[v - 1]
<1> DEFINE Exists(n) == \E f : LoadedTo(p, set, held, n, f)
<1>1. Exists(0)
  <2> DEFINE f == [v \in 0..0 |-> held]
  <2>1. LoadedTo(p, set, held, 0, f)
    BY DEF LoadedTo
  <2> QED
    BY <2>1
<1>2. ASSUME NEW n \in Nat, Exists(n) PROVE Exists(n + 1)
  <2>1. PICK f : LoadedTo(p, set, held, n, f)
    BY <1>2
  <2> DEFINE g == [v \in 0..(n + 1) |->
                    IF v = n + 1
                    THEN IF Taken(p, set, held, f[n], n + 1) THEN Append(f[n], n + 1) ELSE f[n]
                    ELSE f[v]]
  <2>2. \A v \in 0..n : g[v] = f[v]
    OBVIOUS
  <2>3. g[n + 1] = IF Taken(p, set, held, g[n], n + 1) THEN Append(g[n], n + 1) ELSE g[n]
    BY <2>2
  <2>4. f[0] = held /\ \A v \in 1..n : f[v] = IF Taken(p, set, held, f[v - 1], v)
                                               THEN Append(f[v - 1], v) ELSE f[v - 1]
    BY <1>2, <2>1, StepOfLoaded
  <2>5. g = [v \in 0..(n + 1) |-> g[v]]
    OBVIOUS
  <2> HIDE DEF g
  <2>6. \A v \in 0..(n + 1) :
          g[v] = IF v = 0 THEN held
                 ELSE IF Taken(p, set, held, g[v - 1], v) THEN Append(g[v - 1], v) ELSE g[v - 1]
    <3> SUFFICES ASSUME NEW v \in 0..(n + 1)
                 PROVE  g[v] = IF v = 0 THEN held
                               ELSE IF Taken(p, set, held, g[v - 1], v) THEN Append(g[v - 1], v) ELSE g[v - 1]
      OBVIOUS
    <3>1. CASE v = 0
      BY <2>2, <2>4, <3>1
    <3>2. CASE v \in 1..n
      <4>1. v \in 0..n /\ v - 1 \in 0..n /\ v # 0
        BY <3>2
      <4> QED
        BY <2>2, <2>4, <3>2, <4>1
    <3>3. CASE v = n + 1
      BY <2>3, <3>3
    <3> QED
      BY <3>1, <3>2, <3>3
  <2>7. LoadedTo(p, set, held, n + 1, g)
    BY <2>5, <2>6 DEF LoadedTo
  <2> QED
    BY <2>7
<1> HIDE DEF Exists
<1>3. Exists(Len(Activation))
  <2> DEFINE Failing == {n \in Nat : ~Exists(n)}
  <2>1. Failing = {}
    <3> SUFFICES ASSUME Failing # {} PROVE FALSE
      OBVIOUS
    <3>1. PICK n \in Failing : \A m \in Failing : n <= m
      <4>1. Failing \in SUBSET Nat
        OBVIOUS
      <4> HIDE DEF Failing
      <4> QED
        BY <4>1, Smallest
    <3>2. n # 0 /\ n - 1 \in Nat /\ n - 1 \notin Failing
      BY <1>1, <3>1
    <3>3. Exists((n - 1) + 1)
      BY <1>2, <3>2
    <3> QED
      BY <3>1, <3>2, <3>3
  <2> QED
    BY <2>1, Versions
<1>4. LoadedTo(p, set, held, Len(Activation), Loaded(p, set, held))
  BY <1>3 DEF Exists, LoadedTo, Loaded, Taken
<1>5. /\ Loaded(p, set, held)[0] = held
      /\ \A v \in 1..Len(Activation) :
           Loaded(p, set, held)[v] =
             IF Taken(p, set, held, Loaded(p, set, held)[v - 1], v)
             THEN Append(Loaded(p, set, held)[v - 1], v) ELSE Loaded(p, set, held)[v - 1]
  <2> DEFINE f == Loaded(p, set, held)
  <2>1. LoadedTo(p, set, held, Len(Activation), f) /\ Len(Activation) \in Nat
    BY <1>4, Versions
  <2> HIDE DEF f
  <2>2. /\ f[0] = held
        /\ \A v \in 1..Len(Activation) :
             f[v] = IF Taken(p, set, held, f[v - 1], v) THEN Append(f[v - 1], v) ELSE f[v - 1]
    BY <2>1, StepOfLoaded
  <2> QED
    BY <2>2 DEF f
<1> QED
  BY <1>5, Versions

\* What a publisher was given and does not hold cannot follow what it holds.
Refused(held, v) == Holds(held, v) \/ ~Follows(held, v)

\* After the versions up to v: what was held is held, what came is in the directory, and
\* an approved version that was looked at is held or refused.
LoadedOK(p, set, held, v, schedule) ==
  /\ schedule \in Schedule
  /\ held # <<>> => schedule # <<>>
  /\ \A w : Holds(held, w) => Holds(schedule, w)
  /\ \A w : Holds(schedule, w) => Holds(held, w) \/ w \in Placed(p)
  /\ \A w \in Version : w <= v /\ Approved(p, w, set) /\ w \in Placed(p) => Refused(schedule, w)

LEMMA LoadedStepOK ==
  ASSUME NEW p, NEW set, NEW held \in Schedule, NEW v \in Version, NEW before, NEW after,
         LoadedOK(p, set, held, v - 1, before),
         after = IF Taken(p, set, held, before, v) THEN Append(before, v) ELSE before
  PROVE  LoadedOK(p, set, held, v, after)
<1>1. before \in Schedule
  BY DEF LoadedOK
<1>2. CASE Taken(p, set, held, before, v)
  <2>1. v \in Placed(p) /\ Follows(before, v) /\ after = Append(before, v)
    BY <1>2 DEF Taken
  <2>2. /\ after \in Schedule /\ after # <<>>
        /\ \A w : Holds(after, w) <=> Holds(before, w) \/ w = v
        /\ \A w \in Version : before # <<>> /\ ~Follows(before, w) => ~Follows(after, w)
    BY <1>1, <2>1, AddKeeps
  <2>3. \A w : ~Follows(before, w) => before # <<>>
    BY DEF Follows
  <2>4. ASSUME NEW w \in Version, w <= v, Approved(p, w, set), w \in Placed(p)
        PROVE  Refused(after, w)
    <3>1. CASE w = v
      BY <2>2, <3>1 DEF Refused
    <3>2. CASE w # v
      <4>1. w <= v - 1
        BY <2>4, <3>2, Versions
      <4>2. Refused(before, w)
        BY <2>4, <4>1 DEF LoadedOK
      <4> QED
        BY <2>2, <2>3, <4>2 DEF Refused
    <3> QED
      BY <3>1, <3>2
  <2> QED
    BY <2>1, <2>2, <2>4 DEF LoadedOK
<1>3. CASE ~Taken(p, set, held, before, v)
  <2>1. after = before
    BY <1>3
  <2>2. ASSUME NEW w \in Version, w <= v, Approved(p, w, set), w \in Placed(p)
        PROVE  Refused(after, w)
    <3>1. CASE w = v
      <4>1. Holds(held, v) \/ ~Follows(before, v)
        BY <1>3, <2>2, <3>1 DEF Taken
      <4>2. Holds(held, v) => Holds(before, v)
        BY DEF LoadedOK
      <4> QED
        BY <2>1, <3>1, <4>1, <4>2 DEF Refused
    <3>2. CASE w # v
      <4>1. w <= v - 1
        BY <2>2, <3>2, Versions
      <4> QED
        BY <2>1, <2>2, <4>1 DEF LoadedOK
    <3> QED
      BY <3>1, <3>2
  <2> QED
    BY <2>1, <2>2 DEF LoadedOK
<1> QED
  BY <1>2, <1>3

\* What loadConfigDir returns.
LEMMA LoadOK ==
  ASSUME NEW p \in Publisher, NEW set, NEW held \in Schedule
  PROVE  LoadedOK(p, set, held, Len(Activation), Load(p, set, held))
<1> DEFINE L == Loaded(p, set, held)
           OK(v) == LoadedOK(p, set, held, v, L[v])
<1>1. /\ L[0] = held
      /\ \A v \in Version : L[v] = IF Taken(p, set, held, L[v - 1], v) THEN Append(L[v - 1], v) ELSE L[v - 1]
  BY LoadedStepwise
<1> HIDE DEF L
<1>2. OK(0)
  <2>1. \A w \in Version : ~(w <= 0)
    BY Versions
  <2> QED
    BY <1>1, <2>1 DEF LoadedOK
<1>3. ASSUME NEW v \in Version, OK(v - 1) PROVE OK(v)
  BY <1>1, <1>3, LoadedStepOK
<1>4. OK(Len(Activation))
  <2> DEFINE Failing == {v \in 0..Len(Activation) : ~OK(v)}
  <2>1. Failing = {}
    <3> SUFFICES ASSUME Failing # {} PROVE FALSE
      OBVIOUS
    <3>1. PICK v \in Failing : \A w \in Failing : v <= w
      <4>1. Failing \in SUBSET Nat
        OBVIOUS
      <4> HIDE DEF Failing
      <4> QED
        BY <4>1, Smallest
    <3>2. v \in Version /\ v - 1 \in 0..Len(Activation) /\ v - 1 \notin Failing
      <4> HIDE DEF OK
      <4>1. v # 0
        BY <1>2, <3>1
      <4> QED
        BY <3>1, <4>1, Versions
    <3> HIDE DEF OK
    <3>3. OK(v - 1)
      BY <3>2
    <3> QED
      BY <1>3, <3>1, <3>2, <3>3
  <2> HIDE DEF OK
  <2>2. Len(Activation) \in 0..Len(Activation)
    BY Versions
  <2> QED
    BY <2>1, <2>2
<1> QED
  BY <1>4 DEF L, Load

\* The version that applies: the last one held that is active.
LEMMA AtIsLast ==
  ASSUME NEW held \in Schedule, NEW tick \in Nat, At(held, tick) # 0
  PROVE  \E m \in DOMAIN held :
           /\ At(held, tick) = held[m] /\ Activation[held[m]] <= tick
           /\ \A j \in DOMAIN held : Activation[held[j]] <= tick => j <= m
<1> DEFINE active == {i \in DOMAIN held : Activation[held[i]] <= tick}
           above == {b \in Nat : \A j \in active : j <= b}
<1>1. active # {} /\ At(held, tick) = held[CHOOSE i \in active : \A j \in active : j <= i]
  BY DEF At
<1>2. DOMAIN held = 1..Len(held) /\ Len(held) \in Nat
  BY DEF Schedule
<1>3. active \subseteq Nat
  BY <1>2
<1>4. PICK b \in above : \A c \in above : b <= c
  <2>1. Len(held) \in above
    BY <1>2
  <2>2. above \in SUBSET Nat /\ above # {}
    BY <2>1
  <2> HIDE DEF above
  <2> QED
    BY <2>2, Smallest
<1>5. b \in active
  <2> SUFFICES ASSUME b \notin active PROVE FALSE
    OBVIOUS
  <2> HIDE DEF active
  <2>1. PICK i \in active : TRUE
    BY <1>1
  <2>2. \A j \in active : j < b
    BY <1>3, <1>4
  <2>3. b - 1 \in Nat /\ \A j \in active : j <= b - 1
    BY <1>3, <1>4, <2>1, <2>2
  <2>4. b <= b - 1
    BY <1>4, <2>3
  <2> QED
    BY <1>4, <2>4
<1>6. \E i \in active : \A j \in active : j <= i
  BY <1>4, <1>5
<1> DEFINE m == CHOOSE i \in active : \A j \in active : j <= i
<1>7. m \in active /\ \A j \in active : j <= m
  <2> HIDE DEF active
  <2> QED
    BY <1>6
<1> QED
  BY <1>1, <1>7

RolloutTypeOK ==
  /\ now \in Nat /\ current \in Index
  /\ placed \in [Publisher -> SUBSET (Version \X Index)]
  /\ process \in [Publisher -> [up : BOOLEAN, set : Index, held : Schedule]]
  /\ seen \in [Publisher -> SUBSET Version]
  /\ fired \in [Publisher -> [tick : Nat, version : Nat, known : SUBSET Version,
                           prompt : BOOLEAN, passed : BOOLEAN]]

\* What is held was placed, and what was seen and is not held was refused.
HeldOK ==
  \A p \in Publisher :
    /\ \A v : Holds(process[p].held, v) => v \in Placed(p)
    /\ \A v \in seen[p] : Refused(process[p].held, v)

\* Of the versions known, this one applies at a tick: nothing before it is active as
\* late, and one after it that is active follows one that is active as late.
Applies(version, known, tick) ==
  /\ version \in known /\ Activation[version] <= tick
  /\ \A v \in known : v < version => Activation[v] < Activation[version]
  /\ \A v \in known : v > version /\ Activation[v] <= tick =>
       \E w \in known : version <= w /\ w < v /\ Activation[v] <= Activation[w]

FiredOK ==
  \A p \in Publisher :
    fired[p].prompt /\ ~fired[p].passed => Applies(fired[p].version, fired[p].known, fired[p].tick)

RolloutInv == RolloutTypeOK /\ HeldOK /\ FiredOK

LEMMA OneApplies ==
  ASSUME NEW known \in SUBSET Version, NEW tick \in Nat, NEW v, NEW w,
         Applies(v, known, tick), Applies(w, known, tick)
  PROVE  v = w
<1>1. ASSUME NEW a, NEW b, Applies(a, known, tick), Applies(b, known, tick), a < b
      PROVE  FALSE
  <2>1. a \in known /\ b \in known /\ Activation[b] <= tick
    BY <1>1 DEF Applies
  <2>2. PICK c \in known : a <= c /\ c < b /\ Activation[b] <= Activation[c]
    BY <1>1, <2>1, Versions DEF Applies
  <2>3. Activation[c] < Activation[b]
    BY <1>1, <2>2 DEF Applies
  <2> QED
    BY <2>1, <2>2, <2>3, Versions
<1>2. v \in Nat /\ w \in Nat
  BY Versions DEF Applies
<1>3. ~(v < w) /\ ~(w < v)
  BY <1>1
<1> QED
  BY <1>2, <1>3

LEMMA RolloutStarts == Init => RolloutInv
<1> SUFFICES ASSUME Init PROVE RolloutInv
  OBVIOUS
<1>1. 0 \in Index
  BY ConfigRolloutAssumption DEF Index
<1>2. <<>> \in Schedule /\ \A v : ~Holds(<<>>, v)
  BY DEF Schedule, Ordered, Holds
<1>3. Exited \in [up : BOOLEAN, set : Index, held : Schedule] /\ Exited.held = <<>>
  BY <1>1, <1>2 DEF Exited
<1>4. RolloutTypeOK
  BY <1>1, <1>3 DEF Init, RolloutTypeOK
<1>5. HeldOK
  BY <1>2, <1>3 DEF Init, HeldOK
<1>6. FiredOK
  BY DEF Init, FiredOK
<1> QED
  BY <1>4, <1>5, <1>6 DEF RolloutInv

LEMMA PlaceKeeps == RolloutInv /\ Place => RolloutInv'
<1> SUFFICES ASSUME RolloutInv, NEW q \in Publisher, NEW x \in Version, NEW i \in {current, current + 1} \cap Index,
                    placed' = [placed EXCEPT ![q] = @ \cup {<<x, i>>}],
                    UNCHANGED <<now, current, process, seen, fired, crashes>>
             PROVE  RolloutInv'
  BY DEF Place
<1>1. placed' \in [Publisher -> SUBSET (Version \X Index)]
  BY DEF RolloutInv, RolloutTypeOK
<1>2. \A p \in Publisher : placed[p] \subseteq placed'[p]
  BY DEF RolloutInv, RolloutTypeOK
<1>3. \A p \in Publisher : Placed(p) \subseteq Placed(p)'
  BY <1>2 DEF Placed
<1>4. RolloutTypeOK'
  BY <1>1 DEF RolloutInv, RolloutTypeOK
<1>5. HeldOK'
  BY <1>3 DEF RolloutInv, HeldOK
<1>6. FiredOK'
  BY DEF RolloutInv, FiredOK
<1> QED
  BY <1>4, <1>5, <1>6 DEF RolloutInv

LEMMA ClockKeeps == RolloutInv /\ (Rotate \/ Tick) => RolloutInv'
<1> SUFFICES ASSUME RolloutInv, Rotate \/ Tick PROVE RolloutInv'
  OBVIOUS
<1>1. UNCHANGED <<placed, process, seen, fired>>
  BY DEF Rotate, Tick
<1>2. now' \in Nat
  BY DEF Rotate, Tick, RolloutInv, RolloutTypeOK
<1>3. current' \in Index
  BY ConfigRolloutAssumption DEF Rotate, Tick, RolloutInv, RolloutTypeOK, Index
<1>4. RolloutTypeOK'
  BY <1>1, <1>2, <1>3 DEF RolloutInv, RolloutTypeOK
<1>5. HeldOK' /\ FiredOK'
  BY <1>1 DEF RolloutInv, HeldOK, FiredOK, Placed
<1> QED
  BY <1>4, <1>5 DEF RolloutInv

\* A publisher that has read its directory, with the set it runs.
LEMMA ReadKeeps ==
  ASSUME RolloutInv, NEW p \in Publisher, NEW set \in Index, NEW held \in Schedule,
         \A v : Holds(held, v) => v \in Placed(p),
         process' = [process EXCEPT ![p] = [up |-> TRUE, set |-> set, held |-> Load(p, set, held)]],
         seen' = [seen EXCEPT ![p] = {v \in Version : Approved(p, v, process'[p].set)}],
         UNCHANGED <<now, current, placed, fired>>
  PROVE  RolloutInv'
<1> DEFINE s == [up |-> TRUE, set |-> set, held |-> Load(p, set, held)]
<1>1. LoadedOK(p, set, held, Len(Activation), Load(p, set, held))
  BY LoadOK
<1>2. s \in [up : BOOLEAN, set : Index, held : Schedule] /\ s.set = set /\ s.held = Load(p, set, held)
  BY <1>1 DEF LoadedOK
<1>3. process' = [process EXCEPT ![p] = s]
  OBVIOUS
<1> HIDE DEF s
<1>4. process' \in [Publisher -> [up : BOOLEAN, set : Index, held : Schedule]] /\ process'[p] = s
      /\ \A q \in Publisher : q # p => process'[q] = process[q]
  BY <1>2, <1>3 DEF RolloutInv, RolloutTypeOK
<1>5. seen' \in [Publisher -> SUBSET Version] /\ seen'[p] = {v \in Version : Approved(p, v, set)}
      /\ \A q \in Publisher : q # p => seen'[q] = seen[q]
  BY <1>2, <1>4 DEF RolloutInv, RolloutTypeOK
<1>6. RolloutTypeOK'
  BY <1>4, <1>5 DEF RolloutInv, RolloutTypeOK
<1>7. HeldOK'
  <2> SUFFICES ASSUME NEW q \in Publisher
               PROVE  /\ \A v : Holds(process'[q].held, v) => v \in Placed(q)
                      /\ \A v \in seen'[q] : Refused(process'[q].held, v)
    BY DEF HeldOK, Placed
  <2>1. CASE q = p
    <3>1. \A v : Holds(s.held, v) => v \in Placed(p)
      BY <1>1, <1>2 DEF LoadedOK
    <3>2. ASSUME NEW v \in seen'[p] PROVE Refused(s.held, v)
      <4>1. v \in Version /\ Approved(p, v, set)
        BY <1>5
      <4>2. v \in Placed(p)
        BY <4>1 DEF Approved, Placed
      <4> QED
        BY <1>1, <1>2, <4>1, <4>2, Versions DEF LoadedOK
    <3> QED
      BY <1>4, <2>1, <3>1, <3>2
  <2>2. CASE q # p
    BY <1>4, <1>5, <2>2 DEF RolloutInv, HeldOK
  <2> QED
    BY <2>1, <2>2
<1>8. FiredOK'
  BY DEF RolloutInv, FiredOK
<1> QED
  BY <1>6, <1>7, <1>8 DEF RolloutInv

LEMMA StartsKeep == ASSUME RolloutInv, NEW p \in Publisher, Start(p) PROVE RolloutInv'
<1>1. /\ process' = [process EXCEPT ![p] = [up |-> TRUE, set |-> current, held |-> Load(p, current, <<>>)]]
      /\ seen' = [seen EXCEPT ![p] = {v \in Version : Approved(p, v, process'[p].set)}]
      /\ UNCHANGED <<now, current, placed, fired>>
  BY DEF Start
<1>2. <<>> \in Schedule /\ \A v : ~Holds(<<>>, v)
  BY DEF Schedule, Ordered, Holds
<1>3. current \in Index
  BY DEF RolloutInv, RolloutTypeOK
<1> QED
  BY <1>1, <1>2, <1>3, ReadKeeps

LEMMA PickUpKeeps == ASSUME RolloutInv, NEW p \in Publisher, PickUp(p) PROVE RolloutInv'
<1> DEFINE set == process[p].set
           held == process[p].held
<1>1. PICK u \in BOOLEAN, i \in Index, h \in Schedule : process[p] = [up |-> u, set |-> i, held |-> h]
  BY DEF RolloutInv, RolloutTypeOK
<1>2. u = TRUE /\ set = i /\ held = h
  BY <1>1 DEF PickUp, Up
<1>3. [process[p] EXCEPT !.held = Load(p, set, held)] = [up |-> TRUE, set |-> set, held |-> Load(p, set, held)]
  <2>1. \A x : [[up |-> u, set |-> i, held |-> h] EXCEPT !.held = x] = [up |-> u, set |-> i, held |-> x]
    OBVIOUS
  <2> HIDE DEF set, held
  <2> QED
    BY <1>1, <1>2, <2>1
<1>4. process' = [process EXCEPT ![p] = [process[p] EXCEPT !.held = Load(p, set, held)]]
  BY DEF PickUp
<1>5. \A v : Holds(held, v) => v \in Placed(p)
  BY DEF RolloutInv, HeldOK
<1>6. /\ process' = [process EXCEPT ![p] = [up |-> TRUE, set |-> set, held |-> Load(p, set, held)]]
      /\ seen' = [seen EXCEPT ![p] = {v \in Version : Approved(p, v, process'[p].set)}]
      /\ UNCHANGED <<now, current, placed, fired>>
  BY <1>3, <1>4 DEF PickUp
<1> HIDE DEF set, held
<1> QED
  BY <1>2, <1>5, <1>6, ReadKeeps

LEMMA ExitKeeps == ASSUME RolloutInv, NEW p \in Publisher, Watch(p) \/ Crash(p) PROVE RolloutInv'
<1>1. /\ process' = [process EXCEPT ![p] = Exited]
      /\ seen' = [seen EXCEPT ![p] = {}]
      /\ UNCHANGED <<now, current, placed, fired>>
  BY DEF Watch, Crash
<1>2. <<>> \in Schedule /\ \A v : ~Holds(<<>>, v)
  BY DEF Schedule, Ordered, Holds
<1>3. 0 \in Index
  BY ConfigRolloutAssumption DEF Index
<1>4. Exited \in [up : BOOLEAN, set : Index, held : Schedule] /\ Exited.held = <<>>
  BY <1>2, <1>3 DEF Exited
<1>5. RolloutTypeOK'
  BY <1>1, <1>4 DEF RolloutInv, RolloutTypeOK
<1>6. HeldOK'
  <2> SUFFICES ASSUME NEW q \in Publisher
               PROVE  /\ \A v : Holds(process'[q].held, v) => v \in Placed(q)
                      /\ \A v \in seen'[q] : Refused(process'[q].held, v)
    BY <1>1 DEF HeldOK, Placed
  <2>1. CASE q = p
    BY <1>1, <1>2, <1>4, <2>1 DEF RolloutInv, RolloutTypeOK
  <2>2. CASE q # p
    BY <1>1, <2>2 DEF RolloutInv, RolloutTypeOK, HeldOK
  <2> QED
    BY <2>1, <2>2
<1>7. FiredOK'
  BY <1>1 DEF RolloutInv, FiredOK
<1> QED
  BY <1>5, <1>6, <1>7 DEF RolloutInv

\* A publisher that passed no version over and read the versions it knows of signs under
\* the one that applies.
LEMMA PromptApplies ==
  ASSUME RolloutInv, NEW p \in Publisher, At(process[p].held, now) # 0,
         PassedOver(p) = {}, Known(p) \subseteq seen[p]
  PROVE  Applies(At(process[p].held, now), Known(p), now)
<1> DEFINE held == process[p].held
           version == At(held, now)
<1>1. held \in Schedule /\ now \in Nat
  BY DEF RolloutInv, RolloutTypeOK
<1>2. \A v : Holds(held, v) => v \in Placed(p)
  BY DEF RolloutInv, HeldOK
<1>3. \A v \in Known(p) : Refused(held, v)
  BY DEF RolloutInv, HeldOK
<1>4. \A v \in Known(p) : ~Holds(held, v) => \A w : Holds(held, w) => ~(w > v)
  BY DEF PassedOver, Holds
<1>5. \A v : v \in Known(p) <=> v \in Placed(p) /\ \E w \in Placed(p) : v <= w /\ Activation[w] <= now
  BY DEF Known
<1>6. Placed(p) \subseteq Version
  BY DEF Placed
<1>7. version # 0
  OBVIOUS
<1> HIDE DEF held
<1>8. PICK m \in DOMAIN held :
        /\ version = held[m] /\ Activation[held[m]] <= now
        /\ \A j \in DOMAIN held : Activation[held[j]] <= now => j <= m
  BY <1>1, <1>7, AtIsLast
<1> HIDE DEF version
<1>9. held \in Seq(Version) /\ Ordered(held) /\ held # <<>> /\ Holds(held, version)
  BY <1>1, <1>8 DEF Schedule, Holds
<1>10. version \in Version /\ version \in Known(p) /\ Activation[version] <= now
  BY <1>2, <1>5, <1>6, <1>8, <1>9, Versions
<1>11. ASSUME NEW v \in Known(p), v < version
       PROVE  Activation[v] < Activation[version]
  <2>1. Holds(held, v)
    BY <1>4, <1>5, <1>9, <1>10, <1>6, <1>11, Versions
  <2>2. PICK i \in DOMAIN held : held[i] = v
    BY <2>1 DEF Holds
  <2>3. i \in Nat /\ m \in Nat
    BY <1>9
  <2>4. ~(m < i) /\ i # m
    BY <1>8, <1>9, <1>10, <1>11, <2>2, Versions DEF Ordered
  <2> QED
    BY <1>8, <1>9, <2>2, <2>3, <2>4 DEF Ordered
<1>12. ASSUME NEW v \in Known(p), v > version, Activation[v] <= now
       PROVE  \E w \in Known(p) : version <= w /\ w < v /\ Activation[v] <= Activation[w]
  <2>1. v \in Version /\ v \in Placed(p)
    BY <1>5, <1>6
  <2>2. ~Holds(held, v)
    <3> SUFFICES ASSUME Holds(held, v) PROVE FALSE
      OBVIOUS
    <3>1. PICK j \in DOMAIN held : held[j] = v
      BY DEF Holds
    <3>2. j \in Nat /\ m \in Nat /\ j <= m
      BY <1>8, <1>9, <1>12, <3>1
    <3>3. j # m
      BY <1>8, <1>10, <1>12, <2>1, <3>1, Versions
    <3>4. held[j] < held[m]
      BY <1>9, <3>2, <3>3 DEF Ordered
    <3> QED
      BY <1>8, <1>10, <1>12, <2>1, <3>1, <3>4, Versions
  <2>3. ~(v > Last(held) /\ Activation[v] > Activation[Last(held)])
    BY <1>3, <1>9, <1>12, <2>2 DEF Refused, Follows
  <2>4. Last(held) \in Version /\ Holds(held, Last(held)) /\ version <= Last(held)
    BY <1>1, <1>9, HeldLast
  <2>5. Last(held) < v
    <3>1. ~(Last(held) > v)
      BY <1>4, <1>12, <2>2, <2>4
    <3>2. Last(held) # v
      BY <2>2, <2>4
    <3> QED
      BY <2>1, <2>4, <3>1, <3>2, Versions
  <2>6. Activation[v] <= Activation[Last(held)]
    BY <2>1, <2>3, <2>4, <2>5, Versions
  <2>7. Last(held) \in Known(p)
    BY <1>2, <1>5, <1>12, <2>1, <2>4, <2>5, Versions
  <2> QED
    BY <2>4, <2>5, <2>6, <2>7
<1>13. Applies(version, Known(p), now)
  BY <1>10, <1>11, <1>12 DEF Applies
<1> QED
  BY <1>13 DEF held, version

LEMMA FireKeeps == ASSUME RolloutInv, NEW p \in Publisher, Fire(p) PROVE RolloutInv'
<1> DEFINE version == At(process[p].held, now)
           prompt == Known(p) \subseteq seen[p]
           passed == PassedOver(p) # {}
           known == IF prompt THEN Known(p) ELSE {}
           r == [tick |-> now, version |-> version, prompt |-> prompt, known |-> known,
                 passed |-> passed]
<1>1. /\ version # 0
      /\ fired' = [fired EXCEPT ![p] = r]
      /\ UNCHANGED <<now, current, placed, process, seen>>
  BY DEF Fire
<1>2. now \in Nat /\ process[p].held \in Schedule
  BY DEF RolloutInv, RolloutTypeOK
<1>3. version \in Nat
  <2>1. PICK m \in DOMAIN process[p].held : version = process[p].held[m]
    BY <1>1, <1>2, AtIsLast
  <2>2. process[p].held \in Seq(Version)
    BY <1>2 DEF Schedule
  <2> QED
    BY <2>1, <2>2, Versions
<1>4. known \subseteq Version
  BY DEF Known, Placed
<1>5. prompt /\ ~passed => Applies(version, known, now)
  BY <1>1, PromptApplies
<1>6. prompt \in BOOLEAN /\ passed \in BOOLEAN
  OBVIOUS
<1> HIDE DEF version, known, prompt, passed
<1>7. r \in [tick : Nat, version : Nat, known : SUBSET Version,
            prompt : BOOLEAN, passed : BOOLEAN]
  BY <1>2, <1>3, <1>4, <1>6
<1>8. r.prompt /\ ~r.passed => Applies(r.version, r.known, r.tick)
  BY <1>5
<1> HIDE DEF r
<1>9. RolloutTypeOK'
  BY <1>1, <1>7 DEF RolloutInv, RolloutTypeOK
<1>10. HeldOK'
  BY <1>1 DEF RolloutInv, HeldOK, Placed
<1>11. FiredOK'
  BY <1>1, <1>8 DEF RolloutInv, RolloutTypeOK, FiredOK
<1> QED
  BY <1>9, <1>10, <1>11 DEF RolloutInv

\* For any publishers and any versions, whatever order their activations have, however
\* files are placed, sets rotate and publishers start, exit and crash: of two that sign a
\* tick having read the same versions before it, both take the same one, unless one of
\* them was running with a later version when an earlier one came, which it passed over
\* (ConfigSchedule.add and at, loadConfigDir).
THEOREM SchedulesAgree == Spec => []ScheduleAgreed
<1>1. Init => RolloutInv
  BY RolloutStarts
<1>2. RolloutInv /\ [Next]_vars => RolloutInv'
  <2> SUFFICES ASSUME RolloutInv, [Next]_vars PROVE RolloutInv'
    OBVIOUS
  <2>1. CASE Place
    BY <2>1, PlaceKeeps
  <2>2. CASE Rotate \/ Tick
    BY <2>2, ClockKeeps
  <2>3. ASSUME NEW p \in Publisher, Start(p) PROVE RolloutInv'
    BY <2>3, StartsKeep
  <2>4. ASSUME NEW p \in Publisher, PickUp(p) PROVE RolloutInv'
    BY <2>4, PickUpKeeps
  <2>5. ASSUME NEW p \in Publisher, Watch(p) \/ Crash(p) PROVE RolloutInv'
    BY <2>5, ExitKeeps
  <2>6. ASSUME NEW p \in Publisher, Fire(p) PROVE RolloutInv'
    BY <2>6, FireKeeps
  <2>7. CASE UNCHANGED vars
    <3>1. UNCHANGED <<now, current, placed, process, seen, fired>>
      BY <2>7 DEF vars
    <3> QED
      BY <3>1 DEF RolloutInv, RolloutTypeOK, HeldOK, FiredOK, Placed
  <2> QED
    BY <2>1, <2>2, <2>3, <2>4, <2>5, <2>6, <2>7 DEF Next
<1>3. RolloutInv => ScheduleAgreed
  <2> SUFFICES ASSUME RolloutInv, NEW p \in Publisher, NEW q \in Publisher,
                      SameFiles(p, q), ~fired[p].passed, ~fired[q].passed
               PROVE  fired[p].version = fired[q].version
    BY DEF ScheduleAgreed
  <2>1. fired[p].known \in SUBSET Version /\ fired[p].tick \in Nat
    BY DEF RolloutInv, RolloutTypeOK
  <2> QED
    BY <2>1, OneApplies DEF RolloutInv, FiredOK, SameFiles
<1> QED
  BY <1>1, <1>2, <1>3, PTL DEF Spec

-----------------------------------------------------------------------------
(* The watchdog *)

\* What it was told of conflicts is of a time when the mirror held no more than now, and
\* adds up.
TallyOK(held, base, start, new) ==
  /\ held \in Nat /\ new \in Nat
  /\ base \in Nat \cup {NoAnswer} /\ start \in Nat \cup {NoAnswer}
  /\ base = NoAnswer <=> start = NoAnswer
  /\ base # NoAnswer => base <= held
  /\ IF start = NoAnswer THEN new = 0 ELSE new = base - start

WatchInv ==
  /\ conflicts \in Nat /\ announced \in Nat /\ lost \in Nat
  /\ TallyOK(Seen, baseline, first, announced + lost)

LEMMA LimitType == Limit \in Nat
BY WatchdogAssumption

LEMMA RoundTally ==
  ASSUME NEW held, NEW base, NEW start, NEW new, TallyOK(held, base, start, new), NEW answer \in {held, -1}
  PROVE  TallyOK(held, IF answer >= 0 THEN answer ELSE base, IF start = NoAnswer /\ answer >= 0 THEN answer ELSE start,
                 IF answer >= 0 /\ base # NoAnswer /\ answer > base THEN new + (answer - base) ELSE new)
<1>1. /\ held \in Nat /\ new \in Nat
      /\ base \in Nat \cup {NoAnswer} /\ start \in Nat \cup {NoAnswer}
      /\ base = NoAnswer <=> start = NoAnswer
      /\ base # NoAnswer => base <= held
      /\ IF start = NoAnswer THEN new = 0 ELSE new = base - start
  BY DEF TallyOK
<1>2. CASE answer = -1
  <2>1. ~(answer >= 0)
    BY <1>2
  <2> QED
    BY <2>1
<1>3. CASE answer = held /\ base = NoAnswer
  <2>1. answer >= 0 /\ answer \in Nat /\ answer # NoAnswer /\ start = NoAnswer
    BY <1>1, <1>3, WatchdogAssumption
  <2>2. TallyOK(held, answer, answer, new)
    BY <1>1, <1>3, <2>1 DEF TallyOK
  <2> QED
    BY <1>3, <2>1, <2>2
<1>4. CASE answer = held /\ base # NoAnswer
  <2>1. /\ answer >= 0 /\ answer \in Nat /\ answer # NoAnswer /\ base \in Nat /\ start \in Nat /\ start # NoAnswer
        /\ base <= answer /\ new = base - start
    BY <1>1, <1>4, WatchdogAssumption
  <2>2. CASE answer > base
    <3>1. TallyOK(held, answer, start, new + (answer - base))
      BY <1>1, <1>4, <2>1, <2>2 DEF TallyOK
    <3> QED
      BY <1>4, <2>1, <2>2, <3>1
  <2>3. CASE answer = base
    <3>1. TallyOK(held, answer, start, new) /\ ~(answer > base)
      BY <1>1, <1>4, <2>1, <2>3 DEF TallyOK
    <3> QED
      BY <1>4, <2>1, <3>1
  <2> QED
    BY <2>1, <2>2, <2>3
<1> QED
  BY <1>2, <1>3, <1>4

\* For any number of conflicts and any limit on an answer, through rounds without an
\* answer, refused messages and restarts: each conflict the mirror came to hold between its
\* first and its last answer was called new in one message, that arrived or was refused
\* (AlertState.update; main, send).
THEOREM ConflictsTold == WatchSpec => []EquivocationsTold
<1>1. WatchInit => WatchInv
  <2> SUFFICES ASSUME WatchInit PROVE WatchInv
    OBVIOUS
  <2>1. Seen \in Nat
    BY LimitType DEF WatchInit, Seen
  <2> QED
    BY <2>1 DEF WatchInit, WatchInv, TallyOK
<1>2. WatchInv /\ [WatchNext]_watchdogVars => WatchInv'
  <2> SUFFICES ASSUME WatchInv, [WatchNext]_watchdogVars PROVE WatchInv'
    OBVIOUS
  <2>1. CASE Round
    <3> DEFINE answer == IF Mirror \in healthy THEN Seen ELSE -1
               new == IF answer >= 0 /\ baseline # NoAnswer /\ answer > baseline THEN answer - baseline ELSE 0
               tally == announced + lost
    <3>1. /\ \/ announced' = announced + new /\ lost' = lost
             \/ announced' = announced /\ lost' = lost + new
          /\ baseline' = IF answer >= 0 THEN answer ELSE baseline
          /\ first' = IF first = NoAnswer /\ answer >= 0 THEN answer ELSE first
          /\ conflicts' = conflicts
      BY <2>1, Zenon DEF Round, NextBaseline
    <3>2. answer \in {Seen, -1}
      OBVIOUS
    <3>3. answer \in Int /\ baseline \in Nat \cup {NoAnswer} /\ announced \in Nat /\ lost \in Nat
      BY <3>2, LimitType DEF WatchInv, TallyOK, Seen
    <3>4. /\ new \in Nat
          /\ IF answer >= 0 /\ baseline # NoAnswer /\ answer > baseline
             THEN tally + new = tally + (answer - baseline) ELSE tally + new = tally
      <4> HIDE DEF answer
      <4> QED
        BY <3>3
    <3> HIDE DEF answer, new
    <3>5. announced' \in Nat /\ lost' \in Nat /\ announced' + lost' = tally + new
      BY <3>1, <3>3, <3>4
    <3> HIDE DEF tally
    <3>6. TallyOK(Seen, baseline, first, tally)
      BY DEF WatchInv, tally
    <3>7. announced' + lost' = IF answer >= 0 /\ baseline # NoAnswer /\ answer > baseline
                               THEN tally + (answer - baseline) ELSE tally
      BY <3>4, <3>5
    <3>8. TallyOK(Seen, baseline', first', announced' + lost')
      BY <3>1, <3>2, <3>6, <3>7, RoundTally
    <3>9. Seen' = Seen
      BY <3>1 DEF Seen
    <3> QED
      BY <3>1, <3>5, <3>8, <3>9 DEF WatchInv
  <2>2. CASE HealthChanges \/ TelegramChanges \/ UNCHANGED watchdogVars
    BY <2>2 DEF HealthChanges, TelegramChanges, watchdogVars, WatchInv, Seen
  <2>3. CASE ConflictFound
    <3>1. conflicts' = conflicts + 1 /\ UNCHANGED <<baseline, first, announced, lost>> /\ conflicts \in Nat
      BY <2>3 DEF ConflictFound, WatchInv
    <3> DEFINE more == IF conflicts + 1 < Limit THEN conflicts + 1 ELSE Limit
    <3>2. Seen \in Nat /\ more \in Nat /\ Seen <= more
      BY <3>1, LimitType DEF Seen
    <3>3. Seen' = more
      BY <3>1 DEF Seen
    <3> HIDE DEF more
    <3>4. TallyOK(more, baseline, first, announced + lost)
      BY <3>2 DEF WatchInv, TallyOK
    <3> QED
      BY <3>1, <3>3, <3>4 DEF WatchInv
  <2>4. CASE RestartWatchdog
    <3>1. baseline' = NoAnswer /\ first' = NoAnswer /\ announced' = 0 /\ lost' = 0 /\ conflicts' = conflicts
      BY <2>4 DEF RestartWatchdog
    <3>2. Seen \in Nat /\ conflicts \in Nat
      BY DEF WatchInv, TallyOK
    <3>3. TallyOK(Seen, NoAnswer, NoAnswer, 0) /\ Seen' = Seen
      BY <3>1, <3>2 DEF TallyOK, Seen
    <3> QED
      BY <3>1, <3>2, <3>3 DEF WatchInv
  <2> QED
    BY <2>1, <2>2, <2>3, <2>4 DEF WatchNext
<1>3. WatchInv => EquivocationsTold
  BY DEF WatchInv, TallyOK, EquivocationsTold
<1> QED
  BY <1>1, <1>2, <1>3, PTL DEF WatchSpec

-----------------------------------------------------------------------------
(* Addresses of venues *)

\* An answer that came: times to live by address, each for as long as the cache may keep
\* the address.
Backed(allowed, end, answer, f) ==
  answer # Nothing =>
    /\ DOMAIN answer \subseteq Address[f]
    /\ answer \in [DOMAIN answer -> Ttl]
    /\ \A a \in DOMAIN answer : end + Kept({answer[a]}) <= allowed[a]

\* A lookup whose answers so far are backed until the last moment it may end.
Pending(at, allowed, lookup) ==
  /\ lookup = [until |-> lookup.until, answers |-> lookup.answers]
  /\ lookup.answers = [f \in Family |-> lookup.answers[f]]
  /\ lookup.until \in Nat
  /\ at <= lookup.until /\ lookup.until <= at + QueryTimeout
  /\ \A f \in Family : Backed(allowed, lookup.until, lookup.answers[f], f)

CacheBacked ==
  cache # Nothing =>
    /\ cache.addresses \subseteq Addresses
    /\ cache.expiresAt \in Nat
    /\ \A a \in cache.addresses : cache.expiresAt <= good[a]

AddressInv ==
  /\ clock \in Nat
  /\ good \in [Addresses -> Nat]
  /\ lookups = [l \in Lookup |-> lookups[l]]
  /\ \A l \in Lookup : lookups[l] # Nothing => Pending(clock, good, lookups[l])
  /\ CacheBacked
  /\ given.at \in Nat /\ given.addresses \subseteq Addresses
  /\ AddressesRecent

\* The cache keeps an answer no longer than any of its addresses alone.
LEMMA KeptLeast ==
  ASSUME NEW ttls, ttls \subseteq Nat
  PROVE  Kept(ttls) \in Nat /\ Kept(ttls) > 0 /\ \A t \in ttls : Kept(ttls) <= Kept({t})
<1> DEFINE Least(s) == CHOOSE t \in s \cup {Cap} : \A u \in s \cup {Cap} : t <= u
<1>1. ASSUME NEW s, s \subseteq Nat
      PROVE  Least(s) \in s \cup {Cap} /\ \A u \in s \cup {Cap} : Least(s) <= u
  <2>1. s \cup {Cap} \subseteq Nat /\ s \cup {Cap} # {}
    BY <1>1, ResolverAssumption
  <2>2. \E t \in s \cup {Cap} : \A u \in s \cup {Cap} : t <= u
    BY <2>1, Smallest
  <2> QED
    BY <2>2
<1>2. ASSUME NEW s, s \subseteq Nat PROVE Kept(s) = IF Least(s) < Floor THEN Floor ELSE Least(s)
  BY DEF Kept
<1> HIDE DEF Least
<1>3. Cap \in Nat /\ Floor \in Nat /\ Floor > 0
  BY ResolverAssumption
<1>4. ASSUME NEW t \in ttls PROVE Kept(ttls) <= Kept({t})
  <2>1. {t} \subseteq Nat /\ t \in Nat
    BY <1>4
  <2>2. Least({t}) \in {t, Cap} /\ Least(ttls) <= t /\ Least(ttls) <= Cap /\ Least(ttls) \in Nat
    BY <1>1, <1>3, <2>1
  <2>3. Least(ttls) <= Least({t}) /\ Least({t}) \in Nat
    BY <2>1, <2>2, <1>3
  <2>4. Kept({t}) = IF Least({t}) < Floor THEN Floor ELSE Least({t})
    BY <1>2, <2>1
  <2>5. Kept(ttls) = IF Least(ttls) < Floor THEN Floor ELSE Least(ttls)
    BY <1>2
  <2> QED
    BY <2>2, <2>3, <2>4, <2>5, <1>3
<1>5. Least(ttls) \in Nat
  BY <1>1, <1>3
<1>6. Kept(ttls) = IF Least(ttls) < Floor THEN Floor ELSE Least(ttls)
  BY <1>2
<1> QED
  BY <1>3, <1>4, <1>5, <1>6

\* What is backed stays so when answers allow more.
LEMMA BackedMore ==
  ASSUME NEW old \in [Addresses -> Nat], NEW new \in [Addresses -> Nat],
         \A a \in Addresses : old[a] <= new[a],
         NEW end \in Nat, NEW answer, NEW f \in Family, Backed(old, end, answer, f)
  PROVE  Backed(new, end, answer, f)
<1> SUFFICES ASSUME answer # Nothing, NEW a \in DOMAIN answer
             PROVE  end + Kept({answer[a]}) <= new[a]
  BY DEF Backed
<1>1. a \in Addresses /\ answer[a] \in Ttl /\ end + Kept({answer[a]}) <= old[a]
  BY DEF Backed, Family, Addresses
<1>2. Kept({answer[a]}) \in Nat
  BY <1>1, KeptLeast, ResolverAssumption
<1> QED
  BY <1>1, <1>2

LEMMA PendingMore ==
  ASSUME NEW old \in [Addresses -> Nat], NEW new \in [Addresses -> Nat],
         \A a \in Addresses : old[a] <= new[a],
         NEW at, NEW lookup, Pending(at, old, lookup)
  PROVE  Pending(at, new, lookup)
<1>1. \A f \in Family : Backed(new, lookup.until, lookup.answers[f], f)
  BY BackedMore DEF Pending
<1> QED
  BY <1>1 DEF Pending

\* A step that leaves the cache and what was given alone.
LEMMA CacheStays ==
  ASSUME AddressInv, UNCHANGED <<cache, given>>,
         good' \in [Addresses -> Nat], \A a \in Addresses : good[a] <= good'[a]
  PROVE  (CacheBacked /\ given.at \in Nat /\ given.addresses \subseteq Addresses /\ AddressesRecent)'
<1>1. ASSUME cache # Nothing, NEW a \in cache.addresses PROVE cache.expiresAt <= good'[a]
  <2>1. a \in Addresses /\ cache.expiresAt \in Nat /\ cache.expiresAt <= good[a]
    BY <1>1 DEF AddressInv, CacheBacked
  <2>2. good[a] \in Nat /\ good'[a] \in Nat /\ good[a] <= good'[a]
    BY <2>1 DEF AddressInv
  <2> QED
    BY <2>1, <2>2
<1>2. ASSUME NEW a \in given.addresses PROVE given.at < good'[a]
  <2>1. a \in Addresses /\ given.at \in Nat /\ given.at < good[a]
    BY <1>2 DEF AddressInv, AddressesRecent
  <2>2. good[a] \in Nat /\ good'[a] \in Nat /\ good[a] <= good'[a]
    BY <2>1 DEF AddressInv
  <2> QED
    BY <2>1, <2>2
<1> QED
  BY <1>1, <1>2 DEF AddressInv, CacheBacked, AddressesRecent

\* Two answers together: while the cache keeps them, answers allow each address.
LEMMA Together ==
  ASSUME NEW allowed \in [Addresses -> Nat], NEW end \in Nat, NEW answers,
         answers[4] # Nothing, answers[6] # Nothing,
         \A f \in Family : Backed(allowed, end, answers[f], f)
  PROVE  /\ Found(answers) \subseteq Addresses
         /\ Kept(Ttls(answers)) \in Nat /\ Kept(Ttls(answers)) > 0
         /\ \A a \in Found(answers) : end + Kept(Ttls(answers)) <= allowed[a]
<1>1. ASSUME NEW f \in Family
      PROVE  /\ DOMAIN answers[f] \subseteq Addresses
             /\ answers[f] \in [DOMAIN answers[f] -> Ttl]
             /\ \A a \in DOMAIN answers[f] : end + Kept({answers[f][a]}) <= allowed[a]
  BY DEF Family, Backed, Addresses
<1>2. Ttls(answers) \subseteq Nat
  <2> SUFFICES ASSUME NEW f \in Family, NEW t \in Range(answers[f]) PROVE t \in Nat
    BY DEF Ttls
  <2>1. PICK a \in DOMAIN answers[f] : t = answers[f][a]
    BY DEF Range
  <2> QED
    BY <1>1, <2>1, ResolverAssumption
<1>3. Kept(Ttls(answers)) \in Nat /\ Kept(Ttls(answers)) > 0 /\ \A t \in Ttls(answers) : Kept(Ttls(answers)) <= Kept({t})
  BY <1>2, KeptLeast
<1>4. ASSUME NEW f \in Family, NEW a \in DOMAIN answers[f] PROVE end + Kept(Ttls(answers)) <= allowed[a]
  <2> DEFINE t == answers[f][a]
  <2>1. t \in Ttls(answers)
    BY DEF Range, Ttls
  <2>2. Kept({t}) \in Nat
    BY <1>2, <2>1, KeptLeast
  <2>3. Kept(Ttls(answers)) <= Kept({t})
    BY <1>3, <2>1
  <2>4. allowed[a] \in Nat /\ end + Kept({t}) <= allowed[a]
    BY <1>1
  <2> HIDE DEF t
  <2> QED
    BY <1>3, <2>2, <2>3, <2>4
<1> QED
  BY <1>1, <1>3, <1>4 DEF Found

\* An answer, or a failed query, is taken; the last one ends the lookup.
LEMMA SettledKeeps ==
  ASSUME AddressInv, NEW l \in Lookup, lookups[l] # Nothing, NEW answers,
         answers = [f \in Family |-> answers[f]],
         Settled(l, answers), clock' = clock,
         good' \in [Addresses -> Nat], \A a \in Addresses : good[a] <= good'[a],
         \A f \in Family : Backed(good', lookups[l].until, answers[f], f)
  PROVE  AddressInv'
<1> DEFINE end == lookups[l].until
           found == Found(answers)
           long == Kept(Ttls(answers))
<1>1. Pending(clock, good, lookups[l]) /\ end \in Nat /\ clock <= end /\ clock \in Nat
  BY DEF AddressInv, Pending
<1>2. ASSUME NEW k \in Lookup, lookups[k] # Nothing PROVE Pending(clock, good', lookups[k])
  BY <1>2, PendingMore DEF AddressInv
<1>3. CASE Nothing \in {answers[4], answers[6]}
  <2>1. lookups' = [lookups EXCEPT ![l].answers = answers] /\ UNCHANGED <<cache, given>>
    BY <1>3 DEF Settled
  <2>2. lookups' = [k \in Lookup |-> lookups'[k]] /\ \A k \in Lookup \ {l} : lookups'[k] = lookups[k]
    BY <2>1 DEF AddressInv
  <2>3. lookups'[l] = [until |-> end, answers |-> answers]
    BY <1>1, <2>1 DEF AddressInv, Pending
  <2>4. Pending(clock, good', lookups'[l])
    BY <1>1, <2>3 DEF Pending
  <2>5. \A k \in Lookup : lookups'[k] # Nothing => Pending(clock, good', lookups'[k])
    BY <1>2, <2>2, <2>4
  <2>6. (CacheBacked /\ given.at \in Nat /\ given.addresses \subseteq Addresses /\ AddressesRecent)'
    BY <2>1, CacheStays
  <2> QED
    BY <1>1, <2>2, <2>5, <2>6 DEF AddressInv
<1>4. CASE Nothing \notin {answers[4], answers[6]}
  <2>1. lookups' = [lookups EXCEPT ![l] = Nothing]
    BY <1>4 DEF Settled
  <2>2. /\ lookups' = [k \in Lookup |-> lookups'[k]]
        /\ \A k \in Lookup : lookups'[k] # Nothing => k # l /\ lookups'[k] = lookups[k]
    BY <2>1 DEF AddressInv
  <2>3. \A k \in Lookup : lookups'[k] # Nothing => Pending(clock, good', lookups'[k])
    BY <1>2, <2>2
  <2>4. /\ found \subseteq Addresses /\ long \in Nat /\ long > 0
        /\ \A a \in found : end + long <= good'[a]
    <3>1. answers[4] # Nothing /\ answers[6] # Nothing
      BY <1>4
    <3>2. \A f \in Family : Backed(good', end, answers[f], f)
      OBVIOUS
    <3> HIDE DEF end
    <3> QED
      BY <1>1, <3>1, <3>2, Together
  <2>5. PICK wants \in {Address[4], Address[6], Addresses} :
          given' = [addresses |-> found \cap wants, at |-> clock]
    BY <1>4 DEF Settled, Give
  <2>6. cache' = IF found = {} THEN cache
                 ELSE [addresses |-> found, expiresAt |-> clock + long]
    BY <1>4 DEF Settled
  <2> HIDE DEF long, found, end
  <2>7. \A a \in found : clock + long <= good'[a] /\ good'[a] \in Nat
    BY <1>1, <2>4
  <2>8. CacheBacked'
    <3>1. CASE found = {}
      <4>1. ASSUME cache # Nothing, NEW a \in cache.addresses PROVE cache.expiresAt <= good'[a]
        <5>1. a \in Addresses /\ cache.expiresAt \in Nat /\ cache.expiresAt <= good[a]
          BY <4>1 DEF AddressInv, CacheBacked
        <5>2. good[a] \in Nat /\ good'[a] \in Nat /\ good[a] <= good'[a]
          BY <5>1 DEF AddressInv
        <5> QED
          BY <5>1, <5>2
      <4> QED
        BY <4>1, <3>1, <2>6 DEF AddressInv, CacheBacked
    <3>2. CASE found # {}
      <4>1. cache'.addresses = found /\ cache'.expiresAt = clock + long
        BY <2>6, <3>2
      <4> QED
        BY <4>1, <2>4, <2>7, <1>1 DEF CacheBacked
    <3> QED
      BY <3>1, <3>2
  <2>9. (given.at \in Nat /\ given.addresses \subseteq Addresses /\ AddressesRecent)'
    <3>1. given'.at = clock /\ given'.addresses \subseteq found
      BY <2>5
    <3>2. \A a \in found : clock < good'[a]
      BY <1>1, <2>4, <2>7
    <3> QED
      BY <1>1, <2>4, <3>1, <3>2 DEF AddressesRecent
  <2> QED
    BY <1>1, <2>2, <2>3, <2>8, <2>9 DEF AddressInv
<1> QED
  BY <1>3, <1>4

LEMMA HitKeeps == AddressInv /\ Hit => AddressInv'
<1> SUFFICES ASSUME AddressInv, Hit PROVE AddressInv'
  OBVIOUS
<1>1. cache # Nothing /\ cache.expiresAt > clock /\ UNCHANGED <<clock, cache, lookups, good>>
  BY DEF Hit, Fresh
<1>2. PICK wants : given' = [addresses |-> cache.addresses \cap wants, at |-> clock]
  BY DEF Hit, Give
<1>3. ASSUME NEW a \in given'.addresses PROVE a \in Addresses /\ clock < good[a]
  <2>1. a \in cache.addresses
    BY <1>2, <1>3
  <2>2. a \in Addresses /\ cache.expiresAt \in Nat /\ cache.expiresAt <= good[a]
    BY <1>1, <2>1 DEF AddressInv, CacheBacked
  <2>3. good[a] \in Nat /\ clock \in Nat
    BY <2>2 DEF AddressInv
  <2> QED
    BY <1>1, <2>2, <2>3
<1>4. given'.at = clock
  BY <1>2
<1> QED
  BY <1>1, <1>3, <1>4 DEF AddressInv, CacheBacked, AddressesRecent

LEMMA MissKeeps == ASSUME AddressInv, NEW l \in Lookup, Miss(l) PROVE AddressInv'
<1> DEFINE asked == [until |-> clock + QueryTimeout, answers |-> [f \in Family |-> Nothing]]
<1>1. lookups' = [lookups EXCEPT ![l] = asked] /\ UNCHANGED <<clock, cache, given, good>>
  BY DEF Miss
<1>2. Pending(clock, good, asked)
  BY ResolverAssumption DEF AddressInv, Pending, Backed
<1> HIDE DEF asked
<1>3. /\ lookups' = [k \in Lookup |-> lookups'[k]]
      /\ \A k \in Lookup : lookups'[k] # Nothing => Pending(clock, good, lookups'[k])
  BY <1>1, <1>2 DEF AddressInv
<1> QED
  BY <1>1, <1>3 DEF AddressInv, CacheBacked, AddressesRecent

LEMMA AnswerKeeps ==
  ASSUME AddressInv, NEW l \in Lookup, NEW f \in Family, AnswerComes(l, f)
  PROVE  AddressInv'
<1>0. PICK found \in SUBSET Address[f] : \E answer \in [found -> Ttl] :
        /\ Settled(l, [lookups[l].answers EXCEPT ![f] = answer])
        /\ good' = [a \in Addresses |->
             IF a \in found /\ Allowed(answer[a]) > good[a] THEN Allowed(answer[a]) ELSE good[a]]
  BY DEF AnswerComes
<1>1. PICK answer \in [found -> Ttl] :
        /\ Settled(l, [lookups[l].answers EXCEPT ![f] = answer])
        /\ good' = [a \in Addresses |->
             IF a \in found /\ Allowed(answer[a]) > good[a] THEN Allowed(answer[a]) ELSE good[a]]
  BY <1>0
<1>2. lookups[l] # Nothing /\ clock' = clock
  BY DEF AnswerComes, Asking
<1>3. Pending(clock, good, lookups[l]) /\ clock \in Nat /\ good \in [Addresses -> Nat]
  BY <1>2 DEF AddressInv
<1> DEFINE end == lookups[l].until
           held == lookups[l].answers
           answers == [held EXCEPT ![f] = answer]
<1>4. /\ held = [g \in Family |-> held[g]]
      /\ end \in Nat /\ clock <= end /\ end <= clock + QueryTimeout
      /\ \A g \in Family : Backed(good, end, held[g], g)
  BY <1>3 DEF Pending
<1>5. found \subseteq Addresses /\ \A a \in found : answer[a] \in Nat /\ Kept({answer[a]}) \in Nat
  <2>1. \A a \in found : answer[a] \in Nat
    BY ResolverAssumption
  <2> QED
    BY <2>1, KeptLeast DEF Family, Addresses
<1>6. QueryTimeout \in Nat
  BY ResolverAssumption
<1>7. ASSUME NEW a \in Addresses
      PROVE  /\ good'[a] \in Nat /\ good[a] <= good'[a]
             /\ a \in found => end + Kept({answer[a]}) <= good'[a]
  <2>1. good[a] \in Nat
    BY <1>3
  <2>2. CASE a \notin found
    BY <1>1, <2>1, <2>2
  <2>3. CASE a \in found
    <3> DEFINE may == Allowed(answer[a])
               long == Kept({answer[a]})
    <3>1. may = clock + long + QueryTimeout /\ long \in Nat
      BY <1>5, <2>3 DEF Allowed
    <3>2. good'[a] = IF may > good[a] THEN may ELSE good[a]
      BY <1>1, <2>3
    <3> HIDE DEF may, long, end
    <3>3. end + long <= good'[a] /\ good'[a] \in Nat /\ good[a] <= good'[a]
      BY <1>3, <1>4, <1>6, <2>1, <3>1, <3>2
    <3> QED
      BY <3>3 DEF long
  <2> QED
    BY <2>2, <2>3
<1>8. good' \in [Addresses -> Nat]
  <2>1. good' = [a \in Addresses |-> good'[a]]
    BY <1>1
  <2> QED
    BY <2>1, <1>7
<1>9. Backed(good', end, answer, f)
  BY <1>5, <1>7 DEF Backed
<1>10. ASSUME NEW g \in Family PROVE Backed(good', end, answers[g], g)
  <2>1. CASE g = f
    BY <1>4, <1>9, <2>1
  <2>2. CASE g # f
    <3>1. answers[g] = held[g] /\ Backed(good, end, held[g], g)
      BY <1>4, <2>2
    <3> HIDE DEF answers, held, end
    <3> QED
      BY <1>3, <1>4, <1>7, <1>8, <3>1, BackedMore
  <2> QED
    BY <2>1, <2>2
<1>11. answers = [g \in Family |-> answers[g]]
  BY <1>4
<1>12. Settled(l, answers)
  BY <1>1
<1> HIDE DEF answers
<1> QED
  BY <1>2, <1>7, <1>8, <1>10, <1>11, <1>12, SettledKeeps

LEMMA FailureKeeps ==
  ASSUME AddressInv, NEW l \in Lookup, NEW f \in Family, QueryFails(l, f)
  PROVE  AddressInv'
<1>1. lookups[l] # Nothing /\ UNCHANGED <<clock, good>>
  BY DEF QueryFails, Asking
<1>2. Pending(clock, good, lookups[l]) /\ clock \in Nat /\ good \in [Addresses -> Nat]
  BY <1>1 DEF AddressInv
<1>3. CASE f = 6 /\ Settled(l, [lookups[l].answers EXCEPT ![6] = << >>])
  <2> DEFINE held == lookups[l].answers
             answers == [held EXCEPT ![6] = << >>]
  <2>1. held = [g \in Family |-> held[g]] /\ \A g \in Family : Backed(good, lookups[l].until, held[g], g)
    BY <1>2 DEF Pending
  <2>2. Backed(good, lookups[l].until, << >>, 6)
    BY DEF Backed
  <2>3. \A g \in Family : Backed(good, lookups[l].until, answers[g], g)
    BY <2>1, <2>2
  <2>4. answers = [g \in Family |-> answers[g]] /\ Settled(l, answers)
    BY <1>3, <2>1
  <2>5. \A a \in Addresses : good[a] <= good'[a]
    BY <1>1, <1>2
  <2> HIDE DEF answers
  <2> QED
    BY <1>1, <1>2, <2>3, <2>4, <2>5, SettledKeeps
<1>4. CASE f = 4 /\ lookups' = [lookups EXCEPT ![l] = Nothing] /\ Give({}) /\ UNCHANGED cache
  <2>1. given'.addresses = {} /\ given'.at = clock
    BY <1>4 DEF Give
  <2>2. /\ lookups' = [k \in Lookup |-> lookups'[k]]
        /\ \A k \in Lookup : lookups'[k] # Nothing => Pending(clock, good, lookups'[k])
    BY <1>4 DEF AddressInv
  <2> QED
    BY <1>1, <1>2, <1>4, <2>1, <2>2 DEF AddressInv, CacheBacked, AddressesRecent
<1> QED
  BY <1>3, <1>4 DEF QueryFails

LEMMA PassesKeeps == AddressInv /\ Passes => AddressInv'
<1> SUFFICES ASSUME AddressInv, Passes PROVE AddressInv'
  OBVIOUS
<1>1. clock' = clock + 1 /\ UNCHANGED <<cache, lookups, given, good>> /\ clock \in Nat
  BY DEF Passes, AddressInv
<1>2. ASSUME NEW l \in Lookup, lookups[l] # Nothing PROVE Pending(clock', good, lookups[l])
  <2>1. Pending(clock, good, lookups[l]) /\ clock < lookups[l].until
    BY <1>2 DEF Passes, AddressInv
  <2>2. lookups[l].until \in Nat /\ QueryTimeout \in Nat /\ lookups[l].until <= clock + QueryTimeout
    BY <2>1, ResolverAssumption DEF Pending
  <2>3. clock' <= lookups[l].until /\ lookups[l].until <= clock' + QueryTimeout
    BY <1>1, <2>1, <2>2
  <2> QED
    BY <2>1, <2>3 DEF Pending
<1> QED
  BY <1>1, <1>2 DEF AddressInv, CacheBacked, AddressesRecent

\* Whatever lookups overlap and whatever times to live answers give, the addresses that
\* are given are ones the last answers naming them still allow (DohResolver.resolve).
THEOREM DialsRecent == ResolverSpec => []AddressesRecent
<1>1. ResolverInit => AddressInv
  <2> SUFFICES ASSUME ResolverInit PROVE AddressInv
    OBVIOUS
  <2> QED
    BY DEF ResolverInit, AddressInv, CacheBacked, AddressesRecent
<1>2. AddressInv /\ [ResolverNext]_resolverVars => AddressInv'
  <2> SUFFICES ASSUME AddressInv, [ResolverNext]_resolverVars PROVE AddressInv'
    OBVIOUS
  <2>1. CASE UNCHANGED resolverVars
    <3>1. UNCHANGED <<clock, cache, lookups, given, good>>
      BY <2>1 DEF resolverVars
    <3> QED
      BY <3>1 DEF AddressInv, CacheBacked, AddressesRecent
  <2> QED
    BY <2>1, HitKeeps, MissKeeps, AnswerKeeps, FailureKeeps, PassesKeeps DEF ResolverNext
<1>3. AddressInv => AddressesRecent
  BY DEF AddressInv
<1> QED
  BY <1>1, <1>2, <1>3, PTL DEF ResolverSpec

-----------------------------------------------------------------------------
(* A streamed venue *)

Prices == Bid \cup Ask
Sides == {"buy", "sell"}

\* Messages of the venue.
Snapshots == [snapshot : SUBSET Prices]
Changes == [price : Prices, on : BOOLEAN]

Quiet == {"resolving", "waiting", "done"}

Conn ==
  [markets : MarketSets, phase : Quiet \cup {"handshake", "open"}, stopped : BOOLEAN,
   silent : BOOLEAN, fed : BOOLEAN, wire : Seq(Snapshots \cup Changes)]

\* Whether a message tells of a price, and what.
About(m, p) == Whole(m) \/ m.price = p
Says(m, p) == IF Whole(m) THEN p \in m.snapshot ELSE m.on

LastWord(wire, n, p) ==
  /\ n \in DOMAIN wire
  /\ About(wire[n], p)
  /\ \A k \in DOMAIN wire : k > n => ~About(wire[k], p)

\* Taking what is on the wire leads from one set of levels to another: of each price the
\* last message that tells of it says so, and where none does the two agree.
LeadsAt(prices, wire, there, p) ==
  \/ \E n \in DOMAIN wire : LastWord(wire, n, p) /\ (Says(wire[n], p) <=> p \in there)
  \/ /\ \A n \in DOMAIN wire : ~About(wire[n], p)
     /\ p \in prices <=> p \in there

Leads(prices, wire, there) == \A p \in Prices : LeadsAt(prices, wire, there, p)

StreamTypeOK ==
  /\ levels \in SUBSET Prices /\ book \in SUBSET Prices
  /\ wanted \in MarketSets
  /\ conns \in Seq(Conn)
  /\ running \in Nat

\* Only the connection of the manager is up, and that one is for the markets wanted.
OthersQuiet ==
  \A i \in DOMAIN conns :
    /\ i # running => conns[i].stopped /\ conns[i].phase \in Quiet
    /\ i = running => ~conns[i].stopped /\ conns[i].markets = wanted

\* What is on the wire of a connection that is served leads from the book to the venue's.
Following ==
  \A i \in DOMAIN conns :
    i = running /\ conns[i].phase = "open" /\ ~conns[i].silent => Leads(book, conns[i].wire, levels)

BestOfBook ==
  /\ best = [side \in Sides |-> Scan(book, side)]
  /\ Top(best) # Nothing => quote = Top(best)

StreamInv == StreamTypeOK /\ OthersQuiet /\ Following /\ BestOfBook

Mine(prices, side) == {p \in prices : Side(p) = side}
AtLeast(side, p, q) == IF side = "buy" THEN q <= p ELSE p <= q

\* A scan finds the best price of a side, if there is one: bids are below any ask.
LEMMA ScanFinds ==
  ASSUME NEW prices \in SUBSET Prices, NEW side \in Sides
  PROVE  /\ Mine(prices, side) = {} => Scan(prices, side) = Nothing
         /\ Mine(prices, side) # {} =>
              /\ Scan(prices, side) \in Mine(prices, side)
              /\ \A q \in Mine(prices, side) : AtLeast(side, Scan(prices, side), q)
<1>1. Scan(prices, side) =
        IF Mine(prices, side) = {} THEN Nothing
        ELSE CHOOSE p \in Mine(prices, side) : \A q \in Mine(prices, side) : AtLeast(side, p, q)
  BY DEF Scan, Mine, AtLeast
<1>2. ASSUME Mine(prices, side) # {}
      PROVE  \E p \in Mine(prices, side) : \A q \in Mine(prices, side) : AtLeast(side, p, q)
  <2> DEFINE mine == Mine(prices, side)
  <2>1. mine \in SUBSET Nat
    BY StreamVenueAssumption DEF Mine, Prices
  <2>2. CASE side = "buy"
    <3>1. PICK top \in Ask : TRUE
      BY StreamVenueAssumption
    <3>2. \A p \in mine : p \in Nat /\ p < top /\ top \in Nat
      BY <2>2, StreamVenueAssumption DEF Mine, Side, Prices
    <3> HIDE DEF mine
    <3>3. mine # {}
      BY <1>2 DEF mine
    <3>4. PICK p \in mine : \A q \in mine : q <= p
      <4>1. top \in Nat /\ \A q \in mine : q <= top
        BY <3>2, <3>3
      <4> QED
        BY <2>1, <3>3, <4>1, Largest
    <3> QED
      BY <2>2, <3>4 DEF AtLeast, mine
  <2>3. CASE side # "buy"
    <3>1. PICK p \in mine : \A q \in mine : p <= q
      BY <1>2, <2>1, Smallest
    <3> QED
      BY <2>3, <3>1 DEF AtLeast
  <2> QED
    BY <2>2, <2>3
<1> QED
  BY <1>1, <1>2

\* What is the best of a side is what a scan finds.
LEMMA ScanIs ==
  ASSUME NEW prices \in SUBSET Prices, NEW side \in Sides, NEW p \in Mine(prices, side),
         \A q \in Mine(prices, side) : AtLeast(side, p, q)
  PROVE  Scan(prices, side) = p
<1>1. /\ Scan(prices, side) \in Mine(prices, side)
      /\ AtLeast(side, Scan(prices, side), p) /\ AtLeast(side, p, Scan(prices, side))
  BY ScanFinds
<1>2. Mine(prices, side) \subseteq Nat
  BY StreamVenueAssumption DEF Mine, Prices
<1>3. Scan(prices, side) \in Nat /\ p \in Nat
  BY <1>1, <1>2
<1> QED
  BY <1>1, <1>3 DEF AtLeast

\* A change keeps aside what a scan of the new book would find.
LEMMA ChangeScans ==
  ASSUME book \in SUBSET Prices, best = [side \in Sides |-> Scan(book, side)],
         NEW p \in Prices, NEW on \in BOOLEAN, Change(p, on)
  PROVE  book' \in SUBSET Prices /\ best' = [side \in Sides |-> Scan(book', side)]
<1> DEFINE mine == Side(p)
<1>1. mine \in Sides
  BY DEF Side, Sides
<1>2. book' = IF on THEN book \cup {p} ELSE book \ {p}
  BY DEF Change
<1>3. book' \in SUBSET Prices
  BY <1>2
<1>4. ASSUME NEW side \in Sides, side # mine PROVE Scan(book', side) = best[side]
  <2>1. Mine(book', side) = Mine(book, side)
    BY <1>2, <1>4 DEF Mine
  <2>2. CASE Mine(book, side) = {}
    BY <1>3, <2>1, <2>2, ScanFinds
  <2>3. CASE Mine(book, side) # {}
    <3>1. /\ Scan(book, side) \in Mine(book, side)
          /\ \A q \in Mine(book, side) : AtLeast(side, Scan(book, side), q)
      BY <2>3, ScanFinds
    <3>2. Scan(book', side) = Scan(book, side)
      BY <1>3, <2>1, <3>1, ScanIs
    <3> QED
      BY <3>2
  <2> QED
    BY <2>2, <2>3
<1>5. ASSUME NEW q, q = Scan(book', mine), best' = [best EXCEPT ![mine] = q] \/ (best' = best /\ q = best[mine])
      PROVE  best' = [side \in Sides |-> Scan(book', side)]
  BY <1>1, <1>4, <1>5
<1>6. best[mine] = Scan(book, mine)
  BY <1>1
<1>7. p \in Nat /\ Mine(book, mine) \subseteq Nat /\ Nothing \notin Nat \cap Prices
  BY StreamVenueAssumption DEF Mine, Prices
<1>8. CASE on
  <2>1. best' = IF Better(p, best[mine], mine) THEN [best EXCEPT ![mine] = p] ELSE best
    BY <1>8 DEF Change
  <2>2. Mine(book', mine) = Mine(book, mine) \cup {p}
    BY <1>2, <1>8 DEF Mine
  <2>3. CASE Mine(book, mine) = {}
    <3>1. best[mine] = Nothing
      BY <1>1, <1>6, <2>3, ScanFinds
    <3>2. Scan(book', mine) = p
      BY <1>1, <1>3, <1>7, <2>2, <2>3, ScanIs DEF AtLeast
    <3> QED
      BY <1>3, <1>5, <2>1, <3>1, <3>2 DEF Better
  <2>4. CASE Mine(book, mine) # {}
    <3> DEFINE old == best[mine]
    <3>1. old \in Mine(book, mine) /\ \A q \in Mine(book, mine) : AtLeast(mine, old, q)
      BY <1>1, <1>6, <2>4, ScanFinds
    <3>2. old \in Nat /\ old # Nothing
      BY <1>7, <3>1, StreamVenueAssumption DEF Mine, Prices
    <3>3. CASE Better(p, old, mine)
      <4>1. \A q \in Mine(book', mine) : AtLeast(mine, p, q)
        <5> HIDE DEF old
        <5> QED
          BY <1>1, <1>7, <2>2, <3>1, <3>2, <3>3 DEF Better, AtLeast, Sides
      <4>2. Scan(book', mine) = p
        BY <1>1, <1>3, <2>2, <4>1, ScanIs
      <4> QED
        BY <1>3, <1>5, <2>1, <3>3, <4>2
    <3>4. CASE ~Better(p, old, mine)
      <4>1. \A q \in Mine(book', mine) : AtLeast(mine, old, q)
        <5> HIDE DEF old
        <5> QED
          BY <1>1, <1>7, <2>2, <3>1, <3>2, <3>4 DEF Better, AtLeast, Sides
      <4>2. Scan(book', mine) = old
        BY <1>1, <1>3, <2>2, <3>1, <4>1, ScanIs
      <4> QED
        BY <1>3, <1>5, <2>1, <3>4, <4>2
    <3> QED
      BY <3>3, <3>4
  <2> QED
    BY <2>3, <2>4
<1>9. CASE ~on
  <2>1. best' = IF p = best[mine] THEN [best EXCEPT ![mine] = Scan(book', mine)] ELSE best
    BY <1>9 DEF Change
  <2>2. Mine(book', mine) = Mine(book, mine) \ {p}
    BY <1>2, <1>9 DEF Mine
  <2>3. CASE p = best[mine]
    BY <1>3, <1>5, <2>1, <2>3
  <2>4. CASE p # best[mine] /\ Mine(book, mine) = {}
    <3>1. Scan(book, mine) = Nothing /\ Scan(book', mine) = Nothing
      BY <1>1, <1>3, <2>2, <2>4, ScanFinds
    <3> QED
      BY <1>3, <1>5, <1>6, <2>1, <2>4, <3>1
  <2>5. CASE p # best[mine] /\ Mine(book, mine) # {}
    <3> DEFINE old == best[mine]
    <3>1. old \in Mine(book, mine) /\ \A q \in Mine(book, mine) : AtLeast(mine, old, q)
      BY <1>1, <1>6, <2>5, ScanFinds
    <3>2. Scan(book', mine) = old
      BY <1>1, <1>3, <2>2, <2>5, <3>1, ScanIs
    <3> QED
      BY <1>3, <1>5, <2>1, <2>5, <3>2
  <2> QED
    BY <2>3, <2>4, <2>5
<1> QED
  BY <1>3, <1>8, <1>9

LEMMA Kinds ==
  /\ \A m \in Snapshots : Whole(m) /\ m.snapshot \in SUBSET Prices
  /\ \A m \in Changes : ~Whole(m) /\ m.price \in Prices /\ m.on \in BOOLEAN
<1>1. ASSUME NEW m \in Snapshots PROVE Whole(m) /\ m.snapshot \in SUBSET Prices
  BY DEF Snapshots, Whole
<1>2. ASSUME NEW m \in Changes PROVE ~Whole(m) /\ m.price \in Prices /\ m.on \in BOOLEAN
  <2>1. DOMAIN m = {"price", "on"}
    BY DEF Changes
  <2> QED
    BY <2>1 DEF Changes, Whole
<1> QED
  BY <1>1, <1>2

\* A message is parsed: the book is as it says, and the rest of BestOfBook holds.
LEMMA ParseKeeps ==
  ASSUME book \in SUBSET Prices, BestOfBook, NEW m \in Snapshots \cup Changes, Parse(m)
  PROVE  /\ book' \in SUBSET Prices /\ BestOfBook'
         /\ \A p \in Prices : p \in book' <=> IF About(m, p) THEN Says(m, p) ELSE p \in book
<1>1. quote' = IF Top(best') = Nothing THEN quote ELSE Top(best')
  BY DEF Parse
<1>2. CASE m \in Snapshots
  <2>1. Whole(m) /\ m.snapshot \in SUBSET Prices
    BY <1>2, Kinds
  <2>2. book' = m.snapshot /\ best' = [side \in Sides |-> Scan(book', side)]
    BY <2>1 DEF Parse, Snapshot, Sides
  <2> QED
    BY <1>1, <2>1, <2>2 DEF BestOfBook, About, Says
<1>3. CASE m \in Changes
  <2>1. ~Whole(m) /\ m.price \in Prices /\ m.on \in BOOLEAN
    BY <1>3, Kinds
  <2>2. Change(m.price, m.on)
    BY <2>1 DEF Parse
  <2>3. book' \in SUBSET Prices /\ best' = [side \in Sides |-> Scan(book', side)]
    BY <2>1, <2>2, ChangeScans DEF BestOfBook
  <2>4. book' = IF m.on THEN book \cup {m.price} ELSE book \ {m.price}
    BY <2>2 DEF Change
  <2> QED
    BY <1>1, <2>1, <2>3, <2>4 DEF BestOfBook, About, Says
<1> QED
  BY <1>2, <1>3

\* A snapshot leads anywhere it says.
LEMMA SnapshotLeads ==
  ASSUME NEW prices, NEW there \in SUBSET Prices
  PROVE  Leads(prices, <<[snapshot |-> there]>>, there)
<1> DEFINE m == [snapshot |-> there]
           wire == <<m>>
<1>1. Whole(m) /\ m.snapshot = there
  BY DEF Whole
<1>2. DOMAIN wire = {1} /\ wire[1] = m
  OBVIOUS
<1> HIDE DEF m, wire
<1>3. \A p \in Prices : LastWord(wire, 1, p) /\ (Says(wire[1], p) <=> p \in there)
  BY <1>1, <1>2 DEF LastWord, About, Says
<1> QED
  BY <1>2, <1>3 DEF Leads, LeadsAt, m, wire

\* The first message is taken.
LEMMA HeadLeads ==
  ASSUME NEW wire \in Seq(Snapshots \cup Changes), wire # << >>, NEW prices, NEW next, NEW there,
         Leads(prices, wire, there),
         \A p \in Prices : p \in next <=> IF About(Head(wire), p) THEN Says(Head(wire), p) ELSE p \in prices
  PROVE  Leads(next, Tail(wire), there)
<1> DEFINE rest == Tail(wire)
<1>1. /\ Len(wire) \in Nat /\ Len(wire) > 0 /\ DOMAIN wire = 1..Len(wire)
      /\ DOMAIN rest = 1..(Len(wire) - 1)
      /\ \A n \in DOMAIN rest : rest[n] = wire[n + 1] /\ n + 1 \in DOMAIN wire /\ n \in Nat
      /\ Head(wire) = wire[1]
  OBVIOUS
<1>2. \A k \in DOMAIN wire : k \in Nat /\ (k > 1 => k - 1 \in DOMAIN rest /\ wire[k] = rest[k - 1])
  BY <1>1
<1> HIDE DEF rest
<1>3. SUFFICES ASSUME NEW p \in Prices PROVE LeadsAt(next, rest, there, p)
  BY DEF Leads, rest
<1>4. CASE \E n \in DOMAIN wire : LastWord(wire, n, p) /\ (Says(wire[n], p) <=> p \in there)
  <2>1. PICK n \in DOMAIN wire : LastWord(wire, n, p) /\ (Says(wire[n], p) <=> p \in there)
    BY <1>4
  <2>2. CASE n = 1
    <3>1. \A k \in DOMAIN rest : ~About(rest[k], p)
      <4> SUFFICES ASSUME NEW k \in DOMAIN rest PROVE ~About(rest[k], p)
        OBVIOUS
      <4>1. k + 1 \in DOMAIN wire /\ k + 1 > 1 /\ rest[k] = wire[k + 1]
        BY <1>1
      <4> QED
        BY <2>1, <2>2, <4>1 DEF LastWord
    <3>2. p \in next <=> p \in there
      BY <1>1, <2>1, <2>2 DEF LastWord
    <3> QED
      BY <3>1, <3>2 DEF LeadsAt
  <2>3. CASE n # 1
    <3>1. n - 1 \in DOMAIN rest /\ wire[n] = rest[n - 1] /\ n \in Nat
      BY <1>1, <1>2, <2>3
    <3>2. ASSUME NEW k \in DOMAIN rest, k > n - 1 PROVE ~About(rest[k], p)
      <4>1. k + 1 \in DOMAIN wire /\ k + 1 > n /\ rest[k] = wire[k + 1]
        BY <1>1, <3>1, <3>2
      <4> QED
        BY <2>1, <4>1 DEF LastWord
    <3>3. LastWord(rest, n - 1, p)
      BY <2>1, <3>1, <3>2 DEF LastWord
    <3> QED
      BY <2>1, <3>1, <3>3 DEF LeadsAt
  <2> QED
    BY <2>2, <2>3
<1>5. CASE (\A n \in DOMAIN wire : ~About(wire[n], p)) /\ (p \in prices <=> p \in there)
  <2>1. \A n \in DOMAIN rest : ~About(rest[n], p)
    BY <1>1, <1>5
  <2>2. ~About(Head(wire), p)
    BY <1>1, <1>5
  <2> QED
    BY <1>5, <2>1, <2>2 DEF LeadsAt
<1> QED
  BY <1>4, <1>5 DEF Leads, LeadsAt

\* The venue's book changes at one price, and the wire says so.
LEMMA ChangeLeads ==
  ASSUME NEW wire \in Seq(Snapshots \cup Changes), NEW prices, NEW there, NEW next,
         Leads(prices, wire, there), NEW q \in Prices,
         \A p \in Prices \ {q} : p \in next <=> p \in there,
         NEW on \in BOOLEAN, on <=> q \in next
  PROVE  Leads(prices, Append(wire, [price |-> q, on |-> on]), next)
<1> DEFINE m == [price |-> q, on |-> on]
           longer == Append(wire, m)
           last == Len(wire) + 1
<1>1. m \in Changes /\ m.price = q /\ m.on = on
  BY DEF Changes
<1>2. ~Whole(m)
  BY <1>1, Kinds
<1> HIDE DEF m
<1>3. /\ Len(wire) \in Nat /\ DOMAIN wire = 1..Len(wire) /\ DOMAIN longer = 1..last
      /\ longer[last] = m /\ last \in DOMAIN longer
      /\ \A n \in DOMAIN wire : longer[n] = wire[n] /\ n \in DOMAIN longer /\ n \in Nat
      /\ \A n \in DOMAIN longer : n <= last /\ (n # last => n \in DOMAIN wire)
  OBVIOUS
<1> HIDE DEF longer
<1>4. SUFFICES ASSUME NEW p \in Prices PROVE LeadsAt(prices, longer, next, p)
  BY DEF Leads, longer, m
<1>5. CASE p = q
  <2>1. LastWord(longer, last, p)
    <3>1. \A k \in DOMAIN longer : ~(k > last)
      BY <1>3
    <3> QED
      BY <1>1, <1>3, <1>5, <3>1 DEF LastWord, About
  <2>2. Says(longer[last], p) <=> p \in next
    BY <1>1, <1>2, <1>3, <1>5 DEF Says
  <2> QED
    BY <1>3, <2>1, <2>2 DEF LeadsAt
<1>6. CASE p # q
  <2>1. ~About(longer[last], p) /\ (p \in next <=> p \in there)
    BY <1>1, <1>2, <1>3, <1>6 DEF About
  <2>2. ASSUME NEW n \in DOMAIN wire, LastWord(wire, n, p), Says(wire[n], p) <=> p \in there
        PROVE  LeadsAt(prices, longer, next, p)
    <3>1. LastWord(longer, n, p)
      BY <1>3, <2>1, <2>2 DEF LastWord
    <3> QED
      BY <1>3, <2>1, <2>2, <3>1 DEF LeadsAt
  <2>3. ASSUME \A n \in DOMAIN wire : ~About(wire[n], p), p \in prices <=> p \in there
        PROVE  LeadsAt(prices, longer, next, p)
    BY <1>3, <2>1, <2>3 DEF LeadsAt
  <2> QED
    BY <2>2, <2>3 DEF Leads, LeadsAt
<1> QED
  BY <1>5, <1>6

-----------------------------------------------------------------------------
(* Its connections *)

LEMMA WhereRunning ==
  ASSUME StreamInv, NEW i \in DOMAIN conns
  PROVE  /\ conns[i] \in Conn /\ i \in 1..Len(conns) /\ DOMAIN conns = 1..Len(conns)
         /\ Len(conns) \in Nat
BY DEF StreamInv, StreamTypeOK

\* A connection goes on by itself, and the book is as before.
LEMMA OneGoesOn ==
  ASSUME StreamInv, NEW i \in DOMAIN conns, NEW c \in Conn, Becomes(i, c),
         UNCHANGED <<levels, wanted, running, book, best, quote>>,
         c.stopped = conns[i].stopped, c.markets = conns[i].markets,
         i # running => c.phase \in Quiet,
         i = running /\ c.phase = "open" /\ ~c.silent => Leads(book, c.wire, levels)
  PROVE  StreamInv'
<1>1. conns' = [conns EXCEPT ![i] = c] /\ conns \in Seq(Conn)
  BY DEF Becomes, StreamInv, StreamTypeOK
<1>2. /\ conns' \in Seq(Conn) /\ DOMAIN conns' = DOMAIN conns /\ conns'[i] = c
      /\ \A k \in DOMAIN conns : k # i => conns'[k] = conns[k]
  BY <1>1
<1>3. StreamTypeOK'
  BY <1>2 DEF StreamInv, StreamTypeOK
<1>4. OthersQuiet'
  BY <1>2 DEF StreamInv, OthersQuiet
<1>5. Following'
  BY <1>2 DEF StreamInv, Following
<1>6. BestOfBook'
  BY DEF StreamInv, BestOfBook
<1> QED
  BY <1>3, <1>4, <1>5, <1>6 DEF StreamInv

\* A connection that is up is the manager's.
LEMMA UpRuns ==
  ASSUME StreamInv, NEW i \in DOMAIN conns, conns[i].phase \in {"handshake", "open"}
  PROVE  i = running /\ ~conns[i].stopped
BY DEF StreamInv, OthersQuiet, Quiet

LEMMA RetryIs ==
  ASSUME NEW c \in Conn
  PROVE  /\ Retry(c) \in Conn /\ Retry(c).phase \in Quiet
         /\ Retry(c).stopped = c.stopped /\ Retry(c).markets = c.markets
<1> DEFINE phase == IF c.stopped THEN "done" ELSE "waiting"
<1>1. << >> \in Seq(Snapshots \cup Changes)
  OBVIOUS
<1>2. phase \in Quiet
  BY DEF Quiet
<1>3. Retry(c) = [c EXCEPT !.phase = phase, !.silent = FALSE, !.fed = FALSE, !.wire = << >>]
  BY DEF Retry
<1> HIDE DEF phase
<1> QED
  BY <1>1, <1>2, <1>3 DEF Conn

LEMMA StopIs ==
  ASSUME NEW c \in Conn
  PROVE  Stop(c) \in Conn /\ Stop(c).phase \in Quiet /\ Stop(c).stopped
<1> DEFINE s == [c EXCEPT !.stopped = TRUE]
<1>1. s \in Conn /\ s.stopped /\ s.phase = c.phase
  BY DEF Conn
<1>2. Stop(c) = IF c.phase \in {"handshake", "open"} THEN Retry(s) ELSE s
  BY DEF Stop
<1>3. c.phase \in Quiet \cup {"handshake", "open"}
  BY DEF Conn
<1> HIDE DEF s
<1> QED
  BY <1>1, <1>2, <1>3, RetryIs

LEMMA SyncKeeps == StreamInv /\ Sync => StreamInv'
<1> SUFFICES ASSUME StreamInv, Sync PROVE StreamInv'
  OBVIOUS
<1> DEFINE old == [i \in DOMAIN conns |-> IF i = running THEN Stop(conns[i]) ELSE conns[i]]
<1>1. UNCHANGED <<levels, book, best, quote>> /\ conns \in Seq(Conn)
  BY DEF Sync, StreamInv, StreamTypeOK
<1>2. PICK markets \in MarketSets \ {wanted} :
        /\ wanted' = markets
        /\ IF markets = {}
           THEN conns' = old /\ running' = 0
           ELSE /\ conns' = Append(old, Connection(markets))
                /\ running' = Len(conns) + 1
  BY DEF Sync
<1>3. DOMAIN conns = 1..Len(conns) /\ Len(conns) \in Nat /\ \A i \in DOMAIN conns : conns[i] \in Conn
  BY <1>1
<1>4. ASSUME NEW i \in DOMAIN conns PROVE old[i] \in Conn /\ old[i].stopped /\ old[i].phase \in Quiet
  <2>1. CASE i = running
    BY <1>3, <2>1, StopIs
  <2>2. CASE i # running
    BY <1>3, <2>2 DEF StreamInv, OthersQuiet
  <2> QED
    BY <2>1, <2>2
<1>5. old \in Seq(Conn) /\ Len(old) = Len(conns) /\ DOMAIN old = DOMAIN conns
  <2>1. old \in [1..Len(conns) -> Conn]
    BY <1>3, <1>4
  <2> HIDE DEF old
  <2> QED
    BY <1>3, <2>1
<1>6. BestOfBook'
  BY <1>1 DEF StreamInv, BestOfBook
<1> HIDE DEF old
<1>7. CASE markets = {}
  <2>1. conns' = old /\ running' = 0 /\ wanted' \in MarketSets
    BY <1>2, <1>7
  <2>2. StreamTypeOK'
    BY <1>1, <1>5, <2>1 DEF StreamInv, StreamTypeOK
  <2>3. \A i \in DOMAIN conns' : i # running'
    BY <1>3, <1>5, <2>1
  <2>4. OthersQuiet' /\ Following'
    BY <1>4, <1>5, <2>1, <2>3 DEF OthersQuiet, Following
  <2> QED
    BY <1>6, <2>2, <2>4 DEF StreamInv
<1>8. CASE markets # {}
  <2> DEFINE c == Connection(markets)
             n == Len(conns) + 1
  <2>1. << >> \in Seq(Snapshots \cup Changes)
    OBVIOUS
  <2>2. /\ c \in Conn /\ c.phase = "resolving" /\ ~c.stopped /\ c.markets = markets
    BY <2>1 DEF Connection, Conn, Quiet
  <2>3. conns' = Append(old, c) /\ running' = n /\ wanted' = markets
    BY <1>2, <1>8
  <2> HIDE DEF c
  <2>4. /\ conns' \in Seq(Conn) /\ DOMAIN conns' = 1..n /\ conns'[n] = c
        /\ \A i \in DOMAIN conns' : i # n => i \in DOMAIN conns /\ conns'[i] = old[i]
    BY <1>3, <1>5, <2>2, <2>3
  <2>5. StreamTypeOK'
    BY <1>1, <1>2, <1>3, <2>3, <2>4 DEF StreamInv, StreamTypeOK
  <2>6. OthersQuiet'
    BY <1>4, <2>2, <2>3, <2>4 DEF OthersQuiet
  <2>7. Following'
    BY <2>2, <2>3, <2>4 DEF Following
  <2> QED
    BY <1>6, <2>5, <2>6, <2>7 DEF StreamInv
<1> QED
  BY <1>7, <1>8

LEMMA OpenKeeps == ASSUME StreamInv, NEW i \in DOMAIN conns, Open(i) PROVE StreamInv'
<1> DEFINE c == [conns[i] EXCEPT !.phase = IF conns[i].stopped THEN "done" ELSE "handshake"]
<1>1. Becomes(i, c) /\ UNCHANGED <<levels, wanted, running, book, best, quote>>
  BY DEF Open
<1>2. conns[i] \in Conn
  BY WhereRunning
<1>3. /\ c \in Conn /\ c.stopped = conns[i].stopped /\ c.markets = conns[i].markets
      /\ c.phase = IF conns[i].stopped THEN "done" ELSE "handshake"
  BY <1>2 DEF Conn, Quiet
<1>4. i # running => conns[i].stopped
  BY DEF StreamInv, OthersQuiet
<1> HIDE DEF c
<1> QED
  BY <1>1, <1>3, <1>4, OneGoesOn DEF Quiet

LEMMA OpenedKeeps == ASSUME StreamInv, NEW i \in DOMAIN conns, Opened(i) PROVE StreamInv'
<1> DEFINE w == <<[snapshot |-> levels]>>
           c == [conns[i] EXCEPT !.phase = "open", !.wire = w]
<1>1. Becomes(i, c) /\ UNCHANGED <<levels, wanted, running, book, best, quote>>
  BY DEF Opened
<1>2. conns[i] \in Conn /\ i = running
  BY WhereRunning, UpRuns DEF Opened
<1>3. levels \in SUBSET Prices
  BY DEF StreamInv, StreamTypeOK
<1>4. w \in Seq(Snapshots \cup Changes)
  BY <1>3 DEF Snapshots
<1>5. Leads(book, w, levels)
  BY <1>3, SnapshotLeads
<1> HIDE DEF w
<1>6. c \in Conn /\ c.stopped = conns[i].stopped /\ c.markets = conns[i].markets /\ c.wire = w
  BY <1>2, <1>4 DEF Conn
<1> HIDE DEF c
<1> QED
  BY <1>1, <1>2, <1>5, <1>6, OneGoesOn

LEMMA EndsKeeps ==
  ASSUME StreamInv, NEW i \in DOMAIN conns, Fails(i) \/ Stall(i)
  PROVE  StreamInv'
<1>1. Becomes(i, Retry(conns[i])) /\ UNCHANGED <<levels, wanted, running, book, best, quote>>
  BY DEF Fails, Stall
<1>2. conns[i] \in Conn
  BY WhereRunning
<1>3. /\ Retry(conns[i]) \in Conn /\ Retry(conns[i]).phase \in Quiet
      /\ Retry(conns[i]).stopped = conns[i].stopped /\ Retry(conns[i]).markets = conns[i].markets
  BY <1>2, RetryIs
<1> DEFINE c == Retry(conns[i])
<1> HIDE DEF c
<1>4. c.phase # "open"
  BY <1>3 DEF c, Quiet
<1> QED
  BY <1>1, <1>3, <1>4, OneGoesOn DEF c

LEMMA SilenceKeeps == ASSUME StreamInv, NEW i \in DOMAIN conns, GoesSilent(i) PROVE StreamInv'
<1>1. UNCHANGED <<levels, wanted, running, book, best, quote>>
  BY DEF GoesSilent
<1>2. conns[i] \in Conn /\ i = running
  BY WhereRunning, UpRuns DEF GoesSilent
<1>3. PICK n \in 0..Len(conns[i].wire) :
        Becomes(i, [conns[i] EXCEPT !.silent = TRUE, !.wire = SubSeq(@, 1, n)])
  BY DEF GoesSilent
<1> DEFINE w == SubSeq(conns[i].wire, 1, n)
           c == [conns[i] EXCEPT !.silent = TRUE, !.wire = w]
<1>4. conns[i].wire \in Seq(Snapshots \cup Changes)
  BY <1>2 DEF Conn
<1>5. w \in Seq(Snapshots \cup Changes)
  BY <1>3, <1>4
<1>6. Becomes(i, c)
  BY <1>3
<1> HIDE DEF w
<1>7. c \in Conn /\ c.stopped = conns[i].stopped /\ c.markets = conns[i].markets /\ c.silent
  BY <1>2, <1>5 DEF Conn
<1> HIDE DEF c
<1> QED
  BY <1>1, <1>2, <1>6, <1>7, OneGoesOn

LEMMA ConnectKeeps == ASSUME StreamInv, NEW i \in DOMAIN conns, Connect(i) PROVE StreamInv'
<1> DEFINE c == [conns[i] EXCEPT !.phase = IF conns[i].stopped THEN "done" ELSE "resolving"]
<1>1. Becomes(i, c) /\ UNCHANGED <<levels, wanted, running, book, best, quote>>
  BY DEF Connect
<1>2. conns[i] \in Conn
  BY WhereRunning
<1>3. /\ c \in Conn /\ c.stopped = conns[i].stopped /\ c.markets = conns[i].markets
      /\ c.phase \in Quiet /\ c.phase # "open"
  BY <1>2 DEF Conn, Quiet
<1> HIDE DEF c
<1> QED
  BY <1>1, <1>3, OneGoesOn

LEMMA NewsKeeps == ASSUME StreamInv, NEW i \in DOMAIN conns, NextMessage(i) PROVE StreamInv'
<1> DEFINE wire == conns[i].wire
           m == Head(wire)
           rest == Tail(wire)
           c == [conns[i] EXCEPT !.wire = rest, !.fed = @ \/ Whole(m)]
<1>1. /\ conns[i].phase = "open" /\ wire # << >> /\ Parse(m) /\ Becomes(i, c)
      /\ UNCHANGED <<levels, wanted, running>>
  BY DEF NextMessage
<1>2. conns[i] \in Conn /\ i = running /\ conns \in Seq(Conn)
  BY <1>1, WhereRunning, UpRuns DEF StreamInv, StreamTypeOK
<1>3. wire \in Seq(Snapshots \cup Changes)
  BY <1>2 DEF Conn
<1>4. m \in Snapshots \cup Changes /\ rest \in Seq(Snapshots \cup Changes)
  BY <1>1, <1>3
<1>5. /\ book' \in SUBSET Prices /\ BestOfBook'
      /\ \A p \in Prices : p \in book' <=> IF About(m, p) THEN Says(m, p) ELSE p \in book
  BY <1>1, <1>4, ParseKeeps DEF StreamInv, StreamTypeOK
<1>6. ~conns[i].silent => Leads(book', rest, levels)
  <2>1. ~conns[i].silent => Leads(book, wire, levels)
    BY <1>1, <1>2 DEF StreamInv, Following
  <2> HIDE DEF wire
  <2> QED
    BY <1>1, <1>3, <1>5, <2>1, HeadLeads
<1> HIDE DEF rest
<1>7. /\ c \in Conn /\ c.stopped = conns[i].stopped /\ c.markets = conns[i].markets
      /\ c.wire = rest /\ c.silent = conns[i].silent /\ c.phase = conns[i].phase
  <2>1. conns[i].fed \/ Whole(m) \in BOOLEAN
    BY DEF Whole
  <2> QED
    BY <1>2, <1>4, <2>1 DEF Conn
<1>8. conns' = [conns EXCEPT ![i] = c]
  BY <1>1 DEF Becomes
<1> HIDE DEF c, m, wire
<1>9. /\ conns' \in Seq(Conn) /\ DOMAIN conns' = DOMAIN conns /\ conns'[i] = c
      /\ \A k \in DOMAIN conns : k # i => conns'[k] = conns[k]
  BY <1>2, <1>7, <1>8
<1>10. StreamTypeOK'
  BY <1>1, <1>5, <1>9 DEF StreamInv, StreamTypeOK
<1>11. OthersQuiet'
  BY <1>1, <1>7, <1>9 DEF StreamInv, OthersQuiet
<1>12. Following'
  BY <1>1, <1>2, <1>6, <1>7, <1>9 DEF Following
<1> QED
  BY <1>5, <1>10, <1>11, <1>12 DEF StreamInv

LEMMA VenueKeeps == StreamInv /\ VenueMoves => StreamInv'
<1> SUFFICES ASSUME StreamInv, VenueMoves PROVE StreamInv'
  OBVIOUS
<1>1. UNCHANGED <<wanted, running, book, best, quote>> /\ conns \in Seq(Conn) /\ levels \in SUBSET Prices
  BY DEF VenueMoves, StreamInv, StreamTypeOK
<1>2. PICK q \in Prices :
        /\ levels' = IF q \in levels THEN levels \ {q} ELSE levels \cup {q}
        /\ conns' = [i \in DOMAIN conns |->
                       IF conns[i].phase = "open" /\ ~conns[i].silent
                       THEN [conns[i] EXCEPT !.wire = Append(@, [price |-> q, on |-> q \notin levels])]
                       ELSE conns[i]]
  BY DEF VenueMoves, Prices
<1> DEFINE news == [price |-> q, on |-> q \notin levels]
<1>3. levels' \in SUBSET Prices /\ \A p \in Prices \ {q} : p \in levels' <=> p \in levels
  BY <1>1, <1>2
<1>4. news \in Changes /\ (q \notin levels <=> q \in levels')
  BY <1>2 DEF Changes
<1>5. ASSUME NEW i \in DOMAIN conns
      PROVE  /\ conns'[i] \in Conn
             /\ conns'[i].phase = conns[i].phase /\ conns'[i].stopped = conns[i].stopped
             /\ conns'[i].silent = conns[i].silent /\ conns'[i].markets = conns[i].markets
             /\ conns[i].phase = "open" /\ ~conns[i].silent =>
                  conns'[i].wire = Append(conns[i].wire, news)
  <2> DEFINE w == Append(conns[i].wire, news)
  <2>1. conns[i] \in Conn
    BY WhereRunning
  <2>2. w \in Seq(Snapshots \cup Changes)
    BY <1>4, <2>1 DEF Conn
  <2>3. conns'[i] = IF conns[i].phase = "open" /\ ~conns[i].silent
                    THEN [conns[i] EXCEPT !.wire = w] ELSE conns[i]
    BY <1>2
  <2> HIDE DEF w
  <2>4. [conns[i] EXCEPT !.wire = w] \in Conn /\ [conns[i] EXCEPT !.wire = w].wire = w
    BY <2>1, <2>2 DEF Conn
  <2> QED
    BY <2>1, <2>3, <2>4 DEF Conn, w
<1> HIDE DEF news
<1>6. conns' \in Seq(Conn) /\ DOMAIN conns' = DOMAIN conns
  <2>1. DOMAIN conns' = DOMAIN conns /\ DOMAIN conns = 1..Len(conns) /\ Len(conns) \in Nat
    BY <1>1, <1>2
  <2>2. conns' = [i \in 1..Len(conns) |-> conns'[i]]
    BY <1>2, <2>1
  <2>3. conns' \in [1..Len(conns) -> Conn]
    BY <1>5, <2>1, <2>2
  <2> QED
    BY <2>1, <2>3
<1>7. StreamTypeOK'
  BY <1>1, <1>3, <1>6 DEF StreamInv, StreamTypeOK
<1>8. OthersQuiet'
  BY <1>1, <1>5, <1>6 DEF StreamInv, OthersQuiet
<1>9. Following'
  <2> SUFFICES ASSUME NEW i \in DOMAIN conns, i = running, conns[i].phase = "open", ~conns[i].silent
               PROVE  Leads(book, conns'[i].wire, levels')
    BY <1>1, <1>5, <1>6 DEF Following
  <2>1. Leads(book, conns[i].wire, levels)
    BY DEF StreamInv, Following
  <2>2. conns[i].wire \in Seq(Snapshots \cup Changes)
    BY WhereRunning DEF Conn
  <2>3. Leads(book, Append(conns[i].wire, news), levels')
    BY <1>3, <1>4, <2>1, <2>2, ChangeLeads DEF news
  <2> QED
    BY <1>5, <2>3
<1>10. BestOfBook'
  BY <1>1 DEF StreamInv, BestOfBook
<1> QED
  BY <1>7, <1>8, <1>9, <1>10 DEF StreamInv

LEMMA StreamStarts == StreamInit => StreamInv
<1> SUFFICES ASSUME StreamInit PROVE StreamInv
  OBVIOUS
<1>1. \A side \in Sides : Scan({}, side) = Nothing
  BY ScanFinds DEF Mine
<1>2. best = [side \in Sides |-> Scan(book, side)] /\ Top(best) = Nothing
  BY <1>1 DEF StreamInit, Sides, Top
<1>3. StreamTypeOK /\ OthersQuiet /\ Following
  BY StreamVenueAssumption DEF StreamInit, StreamTypeOK, OthersQuiet, Following, Prices
<1> QED
  BY <1>2, <1>3 DEF StreamInv, BestOfBook

\* Two properties of a venue that streams, of its book and of its connections.
LEMMA StreamTells == StreamInv => OneSource /\ BookFollows
<1> SUFFICES ASSUME StreamInv PROVE OneSource /\ BookFollows
  OBVIOUS
<1>1. OneSource
  BY DEF StreamInv, OthersQuiet, OneSource, Quiet
<1>2. BookFollows
  <2> SUFFICES ASSUME NEW i \in DOMAIN conns, conns[i].phase = "open", ~conns[i].silent,
                      conns[i].wire = << >>,
                      Top([side \in Sides |-> Scan(levels, side)]) # Nothing
               PROVE  quote = Top([side \in Sides |-> Scan(levels, side)])
    BY DEF BookFollows, Sides
  <2>1. Leads(book, << >>, levels)
    BY UpRuns DEF StreamInv, Following
  <2>2. \A p \in Prices : p \in book <=> p \in levels
    <3>1. DOMAIN << >> = {}
      OBVIOUS
    <3> QED
      BY <2>1, <3>1 DEF Leads, LeadsAt
  <2>3. book = levels
    <3>1. book \in SUBSET Prices /\ levels \in SUBSET Prices
      BY DEF StreamInv, StreamTypeOK
    <3> QED
      BY <2>2, <3>1
  <2> QED
    BY <2>3 DEF StreamInv, BestOfBook
<1> QED
  BY <1>1, <1>2

\* Whatever connections fail, fall silent or are replaced, a venue is measured from one
\* connection for the markets wanted, the quote is the top of the venue's book once all
\* its messages are in, and it is dialed at addresses that answers still allow
\* (SourceManager, TopOfBook, DohResolver).
THEOREM SourcesTrue == StreamSpec /\ ResolverSpec => []SourceTrue
<1>1. StreamInit => StreamInv
  BY StreamStarts
<1>2. StreamInv /\ [StreamNext]_streamVars => StreamInv'
  <2> SUFFICES ASSUME StreamInv, [StreamNext]_streamVars PROVE StreamInv'
    OBVIOUS
  <2>1. CASE UNCHANGED streamVars
    <3>1. UNCHANGED <<levels, wanted, conns, running, book, best, quote>>
      BY <2>1 DEF streamVars
    <3> QED
      BY <3>1 DEF StreamInv, StreamTypeOK, OthersQuiet, Following, BestOfBook
  <2> QED
    BY <2>1, SyncKeeps, VenueKeeps, OpenKeeps, OpenedKeeps, EndsKeeps, SilenceKeeps,
       ConnectKeeps, NewsKeeps DEF StreamNext
<1>3. StreamInv /\ AddressesRecent => SourceTrue
  BY StreamTells DEF SourceTrue
<1> QED
  BY <1>1, <1>2, <1>3, DialsRecent, PTL DEF StreamSpec

-----------------------------------------------------------------------------
(* A polled venue: its trades *)

Deals == [trade : Trade, at : Nat]

MadeInOrder ==
  /\ time \in Nat
  /\ made \in Seq(Deals)
  /\ \A n \in 1..Len(made) : made[n].at <= time
  /\ \A m, n \in 1..Len(made) : m <= n => made[m].at <= made[n].at

PollsPast ==
  \A p \in polls :
    /\ p = [start |-> p.start, book |-> p.book, trades |-> p.trades]
    /\ p.book \in Nat \cup {Unset}
    /\ p.trades \in 0..Len(made) \cup {Unset}

Received == {n \in 1..Len(made) : \E newest \in answered.all : n \in Listed(newest)}

\* The cursor is at the newest time of some trades, with the contents of that time.
Describes(c, trades) ==
  /\ c \in Cursor
  /\ \A n \in trades : made[n].at <= c.at
  /\ c.at = 0 \/ \E n \in trades : made[n].at = c.at
  /\ c.seen = {made[n].trade : n \in {m \in trades : made[m].at = c.at}}

AnswersSound ==
  /\ answered.all \in SUBSET (0..Len(made))
  /\ IF cursor = Unset THEN answered.all = {} /\ answered.first = 0
     ELSE answered.first \in answered.all /\ Describes(cursor, Received)

\* What is given was received, and what bears the cursor's time was counted.
TakenSound ==
  /\ taken \in [1..Len(made) -> Nat]
  /\ \A n \in 1..Len(made) : n \notin Received => taken[n] = 0
  /\ \A n \in Received : made[n].at = cursor.at => Given(n)
  /\ TradesOnce

TradesInv == MadeInOrder /\ PollsPast /\ AnswersSound /\ TakenSound

LEMMA MadeTyped ==
  ASSUME MadeInOrder
  PROVE  /\ Len(made) \in Nat /\ DOMAIN made = 1..Len(made)
         /\ \A n \in 1..Len(made) :
              /\ n \in Nat /\ made[n].at \in Nat /\ made[n].trade \in Trade
              /\ made[n] = [trade |-> made[n].trade, at |-> made[n].at]
<1>1. Len(made) \in Nat /\ DOMAIN made = 1..Len(made)
  BY DEF MadeInOrder
<1>2. \A n \in 1..Len(made) : made[n] \in Deals
  BY DEF MadeInOrder
<1> QED
  BY <1>1, <1>2 DEF Deals

\* The cursor, moved over an answer, describes what was received with it.
LEMMA CursorMoves ==
  ASSUME MadeInOrder, NEW received \in SUBSET (1..Len(made)), NEW trades \in SUBSET (1..Len(made)),
         IF cursor = Unset THEN received = {} ELSE Describes(cursor, received)
  PROVE  Describes(NextCursor(trades), received \cup trades)
<1> DEFINE before == IF cursor = Unset THEN [at |-> 0, seen |-> {}] ELSE cursor
           times == {made[n].at : n \in trades} \cup {before.at}
           latest == CHOOSE t \in times : \A u \in times : u <= t
           those == {made[n].trade : n \in {m \in trades : made[m].at = latest}}
<1>1. Describes(before, received)
  BY DEF Describes, Cursor
<1>2. NextCursor(trades) =
        [at |-> latest, seen |-> IF latest = before.at THEN before.seen \cup those ELSE those]
  BY DEF NextCursor
<1>3. /\ \A n \in received \cup trades : made[n].at \in Nat /\ made[n].trade \in Trade
      /\ before \in Cursor /\ before.at \in Nat /\ before.seen \in SUBSET Trade
  BY <1>1, MadeTyped DEF Describes, Cursor
<1> HIDE DEF before
<1>4. latest \in times /\ \A u \in times : u <= latest
  <2>1. times \in SUBSET Nat /\ times # {}
    BY <1>3
  <2>2. /\ time + before.at \in Nat
        /\ \A u \in times : u <= time + before.at
    <3>1. time \in Nat /\ \A n \in trades : made[n].at <= time /\ made[n].at \in Nat
      BY <1>3 DEF MadeInOrder
    <3>2. \A n \in trades : made[n].at <= time + before.at
      BY <1>3, <3>1
    <3> QED
      BY <1>3, <3>1, <3>2
  <2>3. \E t \in times : \A u \in times : u <= t
    <3> HIDE DEF times
    <3> QED
      BY <2>1, <2>2, Largest
  <2> QED
    BY <2>3
<1>5. /\ latest \in Nat /\ before.at <= latest
      /\ \A n \in trades : made[n].at <= latest
      /\ latest = before.at \/ \E n \in trades : made[n].at = latest
  BY <1>3, <1>4
<1> HIDE DEF latest
<1>6. \A n \in received : made[n].at <= before.at
  BY <1>1 DEF Describes
<1>7. before.seen = {made[n].trade : n \in {m \in received : made[m].at = before.at}}
  BY <1>1 DEF Describes
<1>8. before.at = 0 \/ \E n \in received : made[n].at = before.at
  BY <1>1 DEF Describes
<1> DEFINE all == received \cup trades
           next == NextCursor(trades)
<1>9. \A n \in all : made[n].at <= latest
  BY <1>3, <1>5, <1>6
<1>10. latest = 0 \/ \E n \in all : made[n].at = latest
  BY <1>5, <1>8
<1>11. next.seen = {made[n].trade : n \in {m \in all : made[m].at = latest}}
  <2>1. CASE latest = before.at
    <3>1. next.seen = before.seen \cup those
      BY <1>2, <2>1
    <3> QED
      BY <1>7, <2>1, <3>1
  <2>2. CASE latest # before.at
    <3>1. \A n \in received : made[n].at # latest
      BY <1>3, <1>5, <1>6, <2>2
    <3>2. next.seen = those
      BY <1>2, <2>2
    <3> QED
      BY <3>1, <3>2
  <2> QED
    BY <2>1, <2>2
<1>12. next.at = latest /\ next \in Cursor
  <2>1. those \in SUBSET Trade
    BY <1>3
  <2> HIDE DEF those
  <2> QED
    BY <1>2, <1>3, <1>5, <2>1 DEF Cursor
<1> QED
  BY <1>9, <1>10, <1>11, <1>12 DEF Describes

\* What passes the cursor was not received before.
LEMMA NewIsNew ==
  ASSUME cursor # Unset, Describes(cursor, Received), MadeInOrder,
         NEW trades \in SUBSET (1..Len(made)), NEW n \in NewTrades(trades)
  PROVE  n \in trades /\ n \notin Received
<1>1. n \in trades /\ (made[n].at > cursor.at \/ (made[n].at = cursor.at /\ made[n].trade \notin cursor.seen))
  BY DEF NewTrades
<1>2. made[n].at \in Nat /\ cursor.at \in Nat
  BY <1>1, MadeTyped DEF Describes, Cursor
<1> QED
  BY <1>1, <1>2 DEF Describes

\* What does not pass it is behind it, or equals a trade received at its time.
LEMMA OldIsOld ==
  ASSUME cursor # Unset, Describes(cursor, Received), MadeInOrder,
         NEW trades \in SUBSET (1..Len(made)), NEW n \in trades, n \notin NewTrades(trades)
  PROVE  \/ made[n].at < cursor.at
         \/ \E m \in Received : made[m].at = cursor.at /\ made[m] = made[n]
<1>1. made[n].at \in Nat /\ cursor.at \in Nat /\ n \in 1..Len(made)
  BY MadeTyped DEF Describes, Cursor
<1>2. made[n].at < cursor.at \/ (made[n].at = cursor.at /\ made[n].trade \in cursor.seen)
  BY <1>1 DEF NewTrades
<1>3. ASSUME made[n].at = cursor.at, made[n].trade \in cursor.seen
      PROVE  \E m \in Received : made[m].at = cursor.at /\ made[m] = made[n]
  <2>1. PICK m \in Received : made[m].at = cursor.at /\ made[m].trade = made[n].trade
    BY <1>3 DEF Describes
  <2>2. made[m] = [trade |-> made[m].trade, at |-> made[m].at]
    BY MadeTyped DEF Received
  <2>3. made[n] = [trade |-> made[n].trade, at |-> made[n].at]
    BY <1>1, MadeTyped
  <2> QED
    BY <1>3, <2>1, <2>2, <2>3
<1> QED
  BY <1>2, <1>3

LEMMA AnsweredKeeps == TradesInv /\ Receive => TradesInv'
<1> SUFFICES ASSUME TradesInv, Receive PROVE TradesInv'
  OBVIOUS
<1>1. PICK p \in polls :
        /\ InTime(p)
        /\ polls' = polls \ {p}
        /\ LET new == NewTrades(Listed(p.trades))
           IN taken' = [n \in DOMAIN made |-> IF n \in new THEN taken[n] + 1 ELSE taken[n]]
        /\ answered' = [first |-> IF cursor = Unset THEN p.trades ELSE answered.first,
                        all |-> answered.all \cup {p.trades}]
        /\ cursor' = NextCursor(Listed(p.trades))
        /\ UNCHANGED <<time, made>>
  BY DEF Receive, venue
<1> DEFINE last == p.trades
           trades == Listed(last)
           new == NewTrades(trades)
<1>2. last \in 0..Len(made) /\ Len(made) \in Nat /\ DOMAIN made = 1..Len(made) /\ MadeInOrder
  BY <1>1, MadeTyped DEF InTime, TradesInv, PollsPast
<1>3. /\ taken' = [n \in 1..Len(made) |-> IF n \in new THEN taken[n] + 1 ELSE taken[n]]
      /\ answered' = [first |-> IF cursor = Unset THEN last ELSE answered.first,
                      all |-> answered.all \cup {last}]
      /\ cursor' = NextCursor(trades)
      /\ UNCHANGED <<time, made>>
  BY <1>1, <1>2
<1>4. MadeInOrder' /\ PollsPast'
  BY <1>1 DEF TradesInv, MadeInOrder, PollsPast
<1> HIDE DEF last
<1>5. trades \in SUBSET (1..Len(made))
  BY <1>2 DEF Listed
<1>6. AnswersSound /\ TakenSound
  BY DEF TradesInv
<1>7. Received \in SUBSET (1..Len(made)) /\ (cursor = Unset => Received = {})
      /\ (cursor # Unset => Describes(cursor, Received))
  BY <1>6 DEF AnswersSound, Received
<1>8. Received' = Received \cup trades
  BY <1>3, <1>5 DEF Received, Listed
<1>9. Describes(cursor, Received)' /\ cursor' # Unset
  <2>1. Describes(NextCursor(trades), Received \cup trades)
    BY <1>2, <1>5, <1>7, CursorMoves
  <2>2. Describes(cursor, Received)'
    BY <1>3, <1>8, <2>1 DEF Describes
  <2> QED
    BY <2>2, PolledVenueAssumption DEF Describes
<1>10. AnswersSound'
  BY <1>2, <1>3, <1>6, <1>9 DEF AnswersSound
<1>11. ASSUME NEW n \in new
       PROVE  cursor # Unset /\ n \in trades /\ n \notin Received /\ taken[n] = 0 /\ taken'[n] = 1
  <2>1. cursor # Unset
    BY DEF NewTrades
  <2>2. n \in trades /\ n \notin Received
    BY <1>2, <1>5, <1>7, <2>1, NewIsNew
  <2> QED
    BY <1>3, <1>5, <1>6, <2>1, <2>2 DEF TakenSound
<1>12. taken' \in [1..Len(made') -> Nat]
  <2>1. taken \in [1..Len(made) -> Nat]
    BY <1>6 DEF TakenSound
  <2> QED
    BY <1>3, <2>1
<1>13. ASSUME NEW n \in 1..Len(made), n \notin new PROVE taken'[n] = taken[n]
  BY <1>3, <1>13
<1> HIDE DEF new
<1>14. \A n \in 1..Len(made) : n \notin Received' => taken'[n] = 0
  BY <1>6, <1>8, <1>11, <1>13 DEF TakenSound
<1>15. ASSUME cursor # Unset PROVE Backlog' = Backlog /\ Backlog \in SUBSET Received
  <2>1. answered'.first = answered.first /\ answered.first \in answered.all
        /\ answered.all \in SUBSET (0..Len(made))
    BY <1>3, <1>6, <1>15 DEF AnswersSound
  <2>2. Backlog = Listed(answered.first) /\ Backlog' = Listed(answered.first)
    BY <1>9, <1>15, <2>1 DEF Backlog, Listed
  <2> QED
    BY <1>2, <2>1, <2>2 DEF Received, Listed
<1>16. ASSUME cursor = Unset PROVE Backlog' = trades
  BY <1>3, <1>9, <1>16 DEF Backlog, Listed
<1>17. \A n \in 1..Len(made) : taken'[n] <= (IF n \in Backlog' THEN 0 ELSE 1)
  <2> SUFFICES ASSUME NEW n \in 1..Len(made) PROVE taken'[n] <= (IF n \in Backlog' THEN 0 ELSE 1)
    OBVIOUS
  <2>1. CASE n \in new
    <3>1. cursor # Unset /\ n \notin Received /\ taken'[n] = 1
      BY <1>11, <2>1
    <3>2. n \notin Backlog'
      BY <1>15, <3>1
    <3> QED
      BY <3>1, <3>2
  <2>2. CASE n \notin new /\ cursor = Unset
    BY <1>6, <1>7, <1>13, <2>2 DEF TakenSound
  <2>3. CASE n \notin new /\ cursor # Unset
    <3>1. taken[n] <= (IF n \in Backlog THEN 0 ELSE 1)
      BY <1>2, <1>6 DEF TakenSound, TradesOnce
    <3> QED
      BY <1>13, <1>15, <2>3, <3>1
  <2> QED
    BY <2>1, <2>2, <2>3
<1>18. ASSUME cursor # Unset, NEW n \in 1..Len(made), Given(n) PROVE Given(n)'
  <2>1. PICK k \in 1..Len(made) : made[k] = made[n] /\ (taken[k] = 1 \/ k \in Backlog)
    BY <1>2, <1>18 DEF Given
  <2>2. taken[k] = 1 => taken'[k] = 1
    BY <1>11, <1>13
  <2> QED
    BY <1>2, <1>3, <1>15, <1>18, <2>1, <2>2 DEF Given
<1>19. ASSUME cursor # Unset, NEW m \in Received, made[m].at = cursor.at,
              NEW n \in 1..Len(made), made[m] = made[n]
       PROVE  Given(n)'
  <2>1. Given(m)
    BY <1>6, <1>19 DEF TakenSound
  <2>2. Given(n)
    BY <1>19, <2>1 DEF Given
  <2> QED
    BY <1>18, <1>19, <2>2
<1>20. ASSUME NEW n \in new PROVE Given(n)'
  <2>1. n \in 1..Len(made) /\ taken'[n] = 1
    BY <1>5, <1>11
  <2> QED
    BY <1>2, <1>3, <2>1 DEF Given
<1>21. cursor # Unset => cursor.at <= cursor'.at /\ cursor.at \in Nat /\ cursor'.at \in Nat
  BY <1>3, <1>7, <1>8, <1>9 DEF Describes, Cursor
<1>22. ASSUME NEW n, n \in Received', made'[n].at = cursor'.at PROVE Given(n)'
  <2>1. n \in 1..Len(made) /\ made[n].at = cursor'.at /\ made[n].at \in Nat
    BY <1>2, <1>3, <1>5, <1>7, <1>8, <1>22, MadeTyped
  <2>2. CASE cursor = Unset
    <3>1. n \in Backlog'
      BY <1>7, <1>8, <1>16, <1>22, <2>2
    <3> QED
      BY <1>2, <1>3, <2>1, <3>1 DEF Given
  <2>3. CASE cursor # Unset /\ n \in Received
    <3>1. made[n].at <= cursor.at
      BY <1>7, <2>3 DEF Describes
    <3>2. made[n].at = cursor.at
      BY <1>21, <2>1, <2>3, <3>1
    <3> QED
      BY <1>19, <2>1, <2>3, <3>2
  <2>4. CASE cursor # Unset /\ n \in trades /\ n \notin new
    <3>1. ~(made[n].at < cursor.at)
      BY <1>21, <2>1, <2>4
    <3>2. PICK m \in Received : made[m].at = cursor.at /\ made[m] = made[n]
      BY <1>2, <1>5, <1>7, <2>4, <3>1, OldIsOld DEF new
    <3> QED
      BY <1>19, <2>1, <2>4, <3>2
  <2> QED
    BY <1>8, <1>20, <1>22, <2>2, <2>3, <2>4
<1>23. ASSUME NEW n \in 1..Len(made), (n > answered.first)', Reached(n)', StillListed(n)'
       PROVE  Given(n)'
  <2>1. /\ \E newest \in answered.all \cup {last} : n <= newest
        /\ \A newest \in answered.all \cup {last} : n <= newest => n \in Listed(newest)
    BY <1>3, <1>23 DEF Reached, StillListed, Listed
  <2>2. CASE cursor # Unset /\ Reached(n)
    <3>1. n > answered.first /\ StillListed(n)
      BY <1>3, <1>23, <2>1, <2>2 DEF StillListed
    <3>2. Given(n)
      BY <1>2, <1>6, <2>2, <3>1 DEF TakenSound, TradesOnce
    <3> QED
      BY <1>18, <2>2, <3>2
  <2>3. CASE cursor = Unset
    <3>1. answered'.first = last /\ answered.all = {}
      BY <1>3, <1>6, <2>3 DEF AnswersSound
    <3>2. n > last
      BY <1>23, <3>1
    <3> QED
      BY <1>2, <2>1, <3>1, <3>2
  <2>4. CASE cursor # Unset /\ ~Reached(n)
    <3>1. n \in trades /\ \A newest \in answered.all : ~(n <= newest)
      BY <2>1, <2>4 DEF Reached
    <3>2. CASE n \in new
      BY <1>20, <3>2
    <3>3. CASE n \notin new
      <4>1. \A m \in Received : m <= n
        <5> SUFFICES ASSUME NEW m \in Received PROVE m <= n
          OBVIOUS
        <5>1. PICK newest \in answered.all : m \in Listed(newest)
          BY DEF Received
        <5>2. newest \in Nat /\ m \in Nat /\ m <= newest
          BY <1>2, <1>6, <5>1 DEF AnswersSound, Listed
        <5> QED
          BY <3>1, <5>1, <5>2
      <4>2. \A m \in Received : made[m].at <= made[n].at
        BY <1>2, <1>7, <4>1 DEF MadeInOrder
      <4>3. ~(made[n].at < cursor.at)
        <5>1. made[n].at \in Nat /\ cursor.at \in Nat
          BY <1>2, <1>21, <2>4, MadeTyped
        <5>2. cursor.at = 0 \/ \E m \in Received : made[m].at = cursor.at
          BY <1>7, <2>4 DEF Describes
        <5> QED
          BY <4>2, <5>1, <5>2
      <4>4. PICK m \in Received : made[m].at = cursor.at /\ made[m] = made[n]
        BY <1>2, <1>5, <1>7, <2>4, <3>1, <3>3, <4>3, OldIsOld DEF new
      <4> QED
        BY <1>19, <2>4, <4>4
    <3> QED
      BY <3>2, <3>3
  <2> QED
    BY <2>2, <2>3, <2>4
<1>24. TradesOnce'
  <2>1. DOMAIN made' = 1..Len(made)
    BY <1>2, <1>3
  <2> QED
    BY <1>17, <1>23, <2>1 DEF TradesOnce
<1>25. TakenSound'
  BY <1>3, <1>12, <1>14, <1>22, <1>24 DEF TakenSound
<1> QED
  BY <1>4, <1>10, <1>25 DEF TradesInv

LEMMA TradesKeeps == TradesInv /\ Trades => TradesInv'
<1> SUFFICES ASSUME TradesInv, Trades PROVE TradesInv'
  OBVIOUS
<1>1. PICK t \in Trade : made' = Append(made, [trade |-> t, at |-> time])
  BY DEF Trades
<1>2. UNCHANGED <<time, polls, cursor, answered>> /\ taken' = Append(taken, 0)
  BY DEF Trades, poller
<1> DEFINE N == Len(made)
           deal == [trade |-> t, at |-> time]
<1>3. MadeInOrder /\ N \in Nat /\ DOMAIN made = 1..N /\ AnswersSound /\ TakenSound /\ PollsPast
  BY MadeTyped DEF TradesInv
<1>4. deal \in Deals /\ deal.at = time /\ time \in Nat
  BY <1>3 DEF MadeInOrder, Deals
<1>5. /\ made' \in Seq(Deals) /\ Len(made') = N + 1 /\ DOMAIN made' = 1..(N + 1)
      /\ made'[N + 1] = deal
      /\ \A n \in 1..N : made'[n] = made[n]
  <2>1. made \in Seq(Deals) /\ made' = Append(made, deal)
    BY <1>1, <1>3 DEF MadeInOrder
  <2> HIDE DEF deal
  <2> QED
    BY <1>4, <2>1
<1>6. /\ taken' \in [1..(N + 1) -> Nat] /\ taken'[N + 1] = 0
      /\ \A n \in 1..N : taken'[n] = taken[n]
  <2>1. taken \in [1..N -> Nat] /\ N \in Nat
    BY <1>3 DEF TakenSound
  <2> HIDE DEF N
  <2>2. taken \in Seq(Nat) /\ Len(taken) = N
    BY <2>1
  <2>3. taken' \in Seq(Nat) /\ Len(taken') = N + 1
    BY <1>2, <2>2
  <2>4. taken' \in [1..(N + 1) -> Nat]
    BY <2>3
  <2>5. taken'[N + 1] = 0 /\ \A n \in 1..N : taken'[n] = taken[n]
    BY <1>2, <2>2
  <2> QED
    BY <2>4, <2>5
<1> HIDE DEF N, deal
<1>7. MadeInOrder'
  <2>1. \A n \in 1..(N + 1) : made'[n].at <= time /\ (n \in 1..N \/ n = N + 1)
    BY <1>3, <1>4, <1>5 DEF MadeInOrder, N
  <2>2. ASSUME NEW m \in 1..(N + 1), NEW n \in 1..(N + 1), m <= n
        PROVE  made'[m].at <= made'[n].at
    <3>1. CASE n = N + 1
      BY <1>4, <1>5, <2>1, <3>1
    <3>2. CASE n \in 1..N
      <4>1. m \in 1..N
        BY <1>3, <2>2, <3>2
      <4> QED
        BY <1>3, <1>5, <2>2, <3>2, <4>1 DEF MadeInOrder, N
    <3> QED
      BY <2>1, <3>1, <3>2
  <2> QED
    BY <1>2, <1>4, <1>5, <2>1, <2>2 DEF MadeInOrder
<1>8. PollsPast'
  BY <1>2, <1>3, <1>5 DEF PollsPast, N
<1>9. answered.all \in SUBSET (0..N) /\ N + 1 \notin Received' /\ Received' = Received
  <2>1. answered.all \in SUBSET (0..N)
    BY <1>3 DEF AnswersSound, N
  <2>2. \A newest \in answered.all : Listed(newest) \in SUBSET (1..N)
    BY <1>3, <2>1 DEF Listed
  <2>3. Received' = {n \in 1..(N + 1) : \E newest \in answered.all : n \in Listed(newest)}
    BY <1>2, <1>5 DEF Received, Listed
  <2>4. Received = {n \in 1..N : \E newest \in answered.all : n \in Listed(newest)}
    BY DEF Received, N
  <2> QED
    BY <1>3, <2>1, <2>2, <2>3, <2>4
<1>10. Received \in SUBSET (1..N)
  BY DEF Received, N
<1>11. AnswersSound'
  <2>1. cursor # Unset => Describes(cursor, Received)'
    BY <1>2, <1>3, <1>5, <1>9, <1>10 DEF AnswersSound, Describes
  <2> QED
    BY <1>2, <1>3, <1>5, <1>9, <2>1 DEF AnswersSound
<1>12. Backlog' = Backlog
  BY <1>2 DEF Backlog, Listed
<1>13. ASSUME NEW n \in 1..N, Given(n) PROVE Given(n)'
  <2>1. PICK k \in 1..N : made[k] = made[n] /\ (taken[k] = 1 \/ k \in Backlog)
    BY <1>3, <1>13 DEF Given
  <2> QED
    BY <1>3, <1>5, <1>6, <1>12, <1>13, <2>1 DEF Given
<1>14. ASSUME NEW n, n \in Received', made'[n].at = cursor'.at PROVE Given(n)'
  BY <1>2, <1>3, <1>5, <1>9, <1>10, <1>13, <1>14 DEF TakenSound
<1>15. ASSUME NEW n \in 1..(N + 1)
       PROVE  /\ taken'[n] <= (IF n \in Backlog' THEN 0 ELSE 1)
              /\ (n > answered.first)' /\ Reached(n)' /\ StillListed(n)' => Given(n)'
  <2>1. CASE n \in 1..N
    <3>1. /\ taken[n] <= (IF n \in Backlog THEN 0 ELSE 1)
          /\ n > answered.first /\ Reached(n) /\ StillListed(n) => Given(n)
      BY <1>3, <2>1 DEF TakenSound, TradesOnce
    <3>2. Reached(n)' = Reached(n) /\ StillListed(n)' = StillListed(n)
      BY <1>2 DEF Reached, StillListed, Listed
    <3> QED
      BY <1>2, <1>6, <1>12, <1>13, <2>1, <3>1, <3>2
  <2>2. CASE n = N + 1
    <3>1. ~Reached(n)'
      BY <1>2, <1>3, <1>9, <2>2 DEF Reached
    <3> QED
      BY <1>6, <2>2, <3>1
  <2> QED
    BY <1>3, <2>1, <2>2
<1>16. \A n \in 1..Len(made') : n \notin Received' => taken'[n] = 0
  <2>1. \A n \in 1..N : n \notin Received => taken[n] = 0
    BY <1>3 DEF TakenSound, N
  <2> QED
    BY <1>3, <1>5, <1>6, <1>9, <2>1
<1>17. TakenSound'
  BY <1>5, <1>6, <1>14, <1>15, <1>16 DEF TakenSound, TradesOnce
<1> QED
  BY <1>7, <1>8, <1>11, <1>17 DEF TradesInv

LEMMA TradesStay ==
  ASSUME TradesInv, UNCHANGED <<made, cursor, taken, answered>>,
         time' = time \/ time' = time + 1,
         \A p \in polls' :
           /\ p = [start |-> p.start, book |-> p.book, trades |-> p.trades]
           /\ p.book \in Nat \cup {Unset}
           /\ p.trades \in 0..Len(made) \cup {Unset}
  PROVE  TradesInv'
<1>1. MadeInOrder'
  <2>1. time \in Nat /\ \A n \in 1..Len(made) : made[n].at \in Nat /\ made[n].at <= time
    BY MadeTyped DEF TradesInv, MadeInOrder
  <2>2. time' \in Nat /\ \A n \in 1..Len(made) : made[n].at <= time'
    BY <2>1
  <2> QED
    BY <2>2 DEF TradesInv, MadeInOrder
<1>2. PollsPast' /\ AnswersSound'
  BY DEF TradesInv, PollsPast, AnswersSound, Received, Listed, Describes
<1>3. TakenSound'
  <2>1. Backlog' = Backlog /\ Received' = Received
    BY DEF Backlog, Received, Listed
  <2>2. \A n : /\ Given(n)' = Given(n)
               /\ Reached(n)' = Reached(n)
               /\ StillListed(n)' = StillListed(n)
    BY <2>1 DEF Given, Reached, StillListed, Listed
  <2> QED
    BY <2>1, <2>2 DEF TradesInv, TakenSound, TradesOnce
<1> QED
  BY <1>1, <1>2, <1>3 DEF TradesInv

-----------------------------------------------------------------------------
(* Its quotes *)

Quotes == [state : Nat, at : Nat]

\* MarketData holds what was heard but for quotes at the front, all out of retention.
Suffix(d) ==
  /\ d <= Len(heard)
  /\ Len(quotes) = Len(heard) - d
  /\ \A n \in 1..Len(quotes) : quotes[n] = heard[n + d]
  /\ \A n \in 1..d : heard[n].at < time - Retention

QuotesInv ==
  /\ quotes \in Seq(Quotes) /\ heard \in Seq(Quotes)
  /\ \E d \in Nat : Suffix(d)

\* What push drops is the front of the list, and out of retention.
LEMMA PushDrops ==
  ASSUME NEW list \in Seq(Quotes), NEW item \in Quotes
  PROVE  \E k \in 0..Len(list) + 1 :
           /\ Push(list, item) = SubSeq(Append(list, item), k + 1, Len(list) + 1)
           /\ \A n \in 1..k : Append(list, item)[n].at < item.at - Retention
<1> DEFINE all == Append(list, item)
           size == Len(list) + 1
           old == {n \in DOMAIN all : \A k \in 1..n : all[k].at < item.at - Retention}
<1>1. size \in Nat /\ DOMAIN all = 1..size /\ Len(all) = size
  OBVIOUS
<1>2. Push(list, item) = SubSeq(all, Cardinality(old) + 1, size)
  BY <1>1 DEF Push
<1>3. old = {n \in 1..size : \A k \in 1..n : all[k].at < item.at - Retention}
  BY <1>1
<1> HIDE DEF all, size, old
<1>4. \E k \in 0..size : old = 1..k
  <2>1. CASE old = 1..size
    BY <1>1, <2>1
  <2>2. CASE old # 1..size
    <3> DEFINE young == {n \in 1..size : n \notin old}
    <3>1. young \in SUBSET Nat /\ young # {}
      BY <1>1, <1>3, <2>2
    <3>2. PICK n \in young : \A m \in young : n <= m
      <4> HIDE DEF young
      <4> QED
        BY <3>1, Smallest
    <3>3. n \in 1..size /\ n \notin old /\ n - 1 \in 0..size /\ n \in Nat
      BY <1>1, <3>2
    <3>4. ASSUME NEW m \in 1..size PROVE m \in old <=> m < n
      <4>1. CASE m < n
        BY <1>1, <3>2, <3>3, <4>1
      <4>2. CASE ~(m < n)
        <5>1. n \in 1..m /\ \A k \in 1..n : k \in 1..m
          BY <1>1, <3>3, <4>2
        <5>2. m \notin old
          BY <1>3, <3>3, <5>1
        <5> QED
          BY <4>2, <5>2
      <4> QED
        BY <4>1, <4>2
    <3>5. old \subseteq 1..size
      BY <1>3
    <3>6. old = 1..(n - 1)
      <4>1. \A m \in old : m \in 1..(n - 1)
        BY <1>1, <3>3, <3>4, <3>5
      <4>2. \A m \in 1..(n - 1) : m \in old
        BY <1>1, <3>3, <3>4
      <4> QED
        BY <4>1, <4>2
    <3> QED
      BY <3>3, <3>6
  <2> QED
    BY <2>1, <2>2
<1>5. PICK k \in 0..size : old = 1..k
  BY <1>4
<1>6. k \in Nat /\ Cardinality(old) = k
  <2>1. k \in Nat /\ 1 \in Int /\ k \in Int
    BY <1>1
  <2>2. Cardinality(1..k) = IF 1 > k THEN 0 ELSE k - 1 + 1
    BY <2>1, FS_Interval
  <2> QED
    BY <1>5, <2>1, <2>2
<1>7. \A n \in 1..k : all[n].at < item.at - Retention
  <2> SUFFICES ASSUME NEW n \in 1..k PROVE all[n].at < item.at - Retention
    OBVIOUS
  <2>1. n \in old /\ n \in 1..n
    BY <1>5, <1>6
  <2> QED
    BY <1>3, <2>1
<1> QED
  BY <1>2, <1>6, <1>7 DEF all, size

LEMMA QuoteKeeps == QuotesInv /\ MadeInOrder /\ PollsPast /\ Receive => QuotesInv'
<1> SUFFICES ASSUME QuotesInv, MadeInOrder, PollsPast, Receive PROVE QuotesInv'
  OBVIOUS
<1>1. PICK p \in polls :
        /\ InTime(p)
        /\ quotes' = Push(quotes, [state |-> p.book, at |-> time])
        /\ heard' = Append(heard, [state |-> p.book, at |-> time])
        /\ time' = time
  BY DEF Receive
<1> DEFINE item == [state |-> p.book, at |-> time]
<1>2. item \in Quotes /\ item.at = time
  BY <1>1 DEF PollsPast, InTime, Quotes, MadeInOrder
<1>3. quotes' = Push(quotes, item) /\ heard' = Append(heard, item)
  BY <1>1
<1> HIDE DEF item
<1> DEFINE q == Append(quotes, item)
<1>4. PICK d \in Nat : Suffix(d)
  BY DEF QuotesInv
<1>5. quotes \in Seq(Quotes) /\ heard \in Seq(Quotes) /\ time \in Nat /\ Retention \in Nat
  BY PolledVenueAssumption DEF QuotesInv, MadeInOrder
<1>6. PICK k \in 0..Len(quotes) + 1 :
        /\ quotes' = SubSeq(q, k + 1, Len(quotes) + 1)
        /\ \A n \in 1..k : q[n].at < time - Retention
  BY <1>2, <1>3, <1>5, PushDrops
<1>7. /\ Len(quotes) \in Nat /\ Len(heard) \in Nat /\ k \in Nat
      /\ Len(quotes) = Len(heard) - d /\ d <= Len(heard)
  BY <1>4, <1>5, <1>6 DEF Suffix
<1>8. /\ q \in Seq(Quotes) /\ Len(q) = Len(quotes) + 1
      /\ heard' \in Seq(Quotes) /\ Len(heard') = Len(heard) + 1
      /\ \A n \in 1..Len(heard) : heard'[n] = heard[n]
      /\ heard'[Len(heard) + 1] = item
      /\ \A n \in 1..Len(quotes) : q[n] = quotes[n]
      /\ q[Len(quotes) + 1] = item
  BY <1>2, <1>3, <1>5
<1> HIDE DEF q
<1>9. /\ quotes' \in Seq(Quotes) /\ Len(quotes') = Len(quotes) + 1 - k
      /\ \A n \in 1..Len(quotes') : quotes'[n] = q[n + k]
  BY <1>6, <1>7, <1>8
<1>10. \A n \in 1..Len(quotes) + 1 : q[n] = heard'[n + d]
  <2> SUFFICES ASSUME NEW n \in 1..Len(quotes) + 1 PROVE q[n] = heard'[n + d]
    OBVIOUS
  <2>1. CASE n = Len(quotes) + 1
    <3>1. n + d = Len(heard) + 1
      BY <1>7, <2>1
    <3> QED
      BY <1>8, <2>1, <3>1
  <2>2. CASE n # Len(quotes) + 1
    <3>1. n \in 1..Len(quotes) /\ n + d \in 1..Len(heard)
      BY <1>7, <2>2
    <3> QED
      BY <1>4, <1>8, <3>1 DEF Suffix
  <2> QED
    BY <2>1, <2>2
<1> DEFINE e == d + k
<1>11. e \in Nat /\ e <= Len(heard') /\ Len(quotes') = Len(heard') - e
  BY <1>6, <1>7, <1>8, <1>9
<1>12. \A n \in 1..Len(quotes') : quotes'[n] = heard'[n + e]
  <2> SUFFICES ASSUME NEW n \in 1..Len(quotes') PROVE quotes'[n] = heard'[n + e]
    OBVIOUS
  <2>1. n + k \in 1..Len(quotes) + 1 /\ (n + k) + d = n + e
    BY <1>6, <1>7, <1>9
  <2> QED
    BY <1>9, <1>10, <2>1
<1>13. \A n \in 1..e : heard'[n].at < time - Retention
  <2> SUFFICES ASSUME NEW n \in 1..e PROVE heard'[n].at < time - Retention
    OBVIOUS
  <2>1. CASE n <= d
    <3>1. n \in 1..d /\ n \in 1..Len(heard)
      BY <1>7, <2>1
    <3> QED
      BY <1>4, <1>8, <3>1 DEF Suffix
  <2>2. CASE ~(n <= d)
    <3>1. n - d \in 1..k /\ n - d \in 1..Len(quotes) + 1 /\ (n - d) + d = n
      BY <1>6, <1>7, <2>2
    <3> QED
      BY <1>6, <1>10, <3>1
  <2> QED
    BY <2>1, <2>2
<1> HIDE DEF e
<1>14. Suffix(e)'
  BY <1>1, <1>11, <1>12, <1>13 DEF Suffix
<1> QED
  BY <1>8, <1>9, <1>11, <1>14 DEF QuotesInv

Before(list, at) == {n \in DOMAIN list : list[n].at <= at}

\* latestQuote is the newest quote before a time.
LEMMA LatestFound ==
  ASSUME NEW list \in Seq(Quotes), NEW at
  PROVE  /\ Before(list, at) = {} => LatestQuote(list, at) = Unset
         /\ Before(list, at) # {} =>
              \E n \in Before(list, at) :
                LatestQuote(list, at) = list[n] /\ \A k \in Before(list, at) : k <= n
<1>1. LatestQuote(list, at) =
        IF Before(list, at) = {} THEN Unset
        ELSE list[CHOOSE n \in Before(list, at) : \A k \in Before(list, at) : k <= n]
  BY DEF LatestQuote, Before
<1>2. ASSUME Before(list, at) # {}
      PROVE  \E n \in Before(list, at) : \A k \in Before(list, at) : k <= n
  <2>1. Before(list, at) \in SUBSET Nat /\ Len(list) \in Nat /\ \A n \in Before(list, at) : n <= Len(list)
    BY DEF Before
  <2> QED
    BY <1>2, <2>1, Largest
<1> QED
  BY <1>1, <1>2

\* What was dropped is too old to be used in any sample of a window.
LEMMA SameUsable ==
  ASSUME QuotesInv, time \in Nat, NEW at \in (time - Window + 1)..time
  PROVE  UsableQuote(quotes, at, time) = UsableQuote(heard, at, time)
<1>1. PICK d \in Nat : Suffix(d)
  BY DEF QuotesInv
<1>2. quotes \in Seq(Quotes) /\ heard \in Seq(Quotes)
  BY DEF QuotesInv
<1>3. /\ DOMAIN quotes = 1..Len(quotes) /\ DOMAIN heard = 1..Len(heard)
      /\ Len(quotes) \in Nat /\ Len(heard) \in Nat /\ Len(quotes) = Len(heard) - d
      /\ \A n \in DOMAIN quotes : n \in Nat /\ n + d \in DOMAIN heard /\ quotes[n] = heard[n + d]
      /\ \A n \in DOMAIN heard : n \in Nat /\ (n > d => n - d \in DOMAIN quotes /\ heard[n] = quotes[n - d])
  <2>1. /\ DOMAIN quotes = 1..Len(quotes) /\ DOMAIN heard = 1..Len(heard)
        /\ Len(quotes) \in Nat /\ Len(heard) \in Nat /\ Len(quotes) = Len(heard) - d
    BY <1>1, <1>2 DEF Suffix
  <2>2. \A n \in DOMAIN quotes : n \in Nat /\ n + d \in DOMAIN heard /\ quotes[n] = heard[n + d]
    BY <1>1, <2>1 DEF Suffix
  <2>3. ASSUME NEW n \in DOMAIN heard, n > d PROVE n - d \in DOMAIN quotes /\ heard[n] = quotes[n - d]
    <3>1. n - d \in DOMAIN quotes /\ (n - d) + d = n
      BY <2>1, <2>3
    <3> QED
      BY <2>2, <3>1
  <2> QED
    BY <2>1, <2>2, <2>3
<1> DEFINE inQuotes == Before(quotes, at)
           inHeard == Before(heard, at)
<1>4. \A n \in inQuotes : n \in Nat /\ n \in DOMAIN quotes /\ n + d \in inHeard
  BY <1>3 DEF Before
<1>5. \A n \in inHeard : n \in Nat /\ n \in DOMAIN heard /\ (n > d => n - d \in inQuotes)
  BY <1>3 DEF Before
<1>6. ASSUME LatestQuote(quotes, at) = LatestQuote(heard, at)
      PROVE  UsableQuote(quotes, at, time) = UsableQuote(heard, at, time)
  BY <1>6 DEF UsableQuote
<1>7. CASE inHeard = {}
  <2>1. inQuotes = {}
    BY <1>4, <1>7
  <2> QED
    BY <1>2, <1>6, <1>7, <2>1, LatestFound
<1>8. CASE inHeard # {}
  <2>1. PICK n \in inHeard : LatestQuote(heard, at) = heard[n] /\ \A k \in inHeard : k <= n
    BY <1>2, <1>8, LatestFound
  <2> HIDE DEF inQuotes, inHeard
  <2>2. CASE n > d
    <3>1. inQuotes # {} /\ n - d \in inQuotes /\ n \in DOMAIN heard /\ n \in Nat
      BY <1>5, <2>2
    <3>2. PICK m \in inQuotes : LatestQuote(quotes, at) = quotes[m] /\ \A k \in inQuotes : k <= m
      BY <1>2, <3>1, LatestFound DEF inQuotes
    <3>3. m \in Nat /\ m + d <= n /\ n - d <= m
      BY <1>4, <2>1, <3>1, <3>2
    <3>4. m = n - d
      BY <3>1, <3>3
    <3>5. quotes[m] = heard[n]
      BY <1>3, <2>2, <3>1, <3>4
    <3> QED
      BY <1>6, <2>1, <3>2, <3>5
  <2>3. CASE ~(n > d)
    <3>1. inQuotes = {}
      <4> SUFFICES ASSUME NEW k \in inQuotes PROVE FALSE
        OBVIOUS
      <4>1. k \in Nat /\ k + d <= n /\ n \in Nat /\ k >= 1
        BY <1>3, <1>4, <1>5, <2>1
      <4> QED
        BY <2>3, <4>1
    <3>2. UsableQuote(quotes, at, time) = Unset
      BY <1>2, <3>1, LatestFound DEF UsableQuote, inQuotes
    <3>3. n \in 1..d /\ heard[n].at < time - Retention /\ heard[n].at \in Nat
      <4>1. n \in 1..Len(heard)
        BY <1>3, <1>5
      <4>2. heard[n] \in Quotes
        BY <1>2, <4>1
      <4> QED
        BY <1>1, <2>3, <4>1, <4>2 DEF Suffix, Quotes
    <3>4. at - heard[n].at > MaxBookAge
      <4>1. /\ Retention \in Nat /\ Window \in Nat /\ MaxBookAge \in Nat
            /\ Retention + 1 >= Window + MaxBookAge
        BY PolledVenueAssumption
      <4>2. at \in Int /\ at >= time - Window + 1
        BY <4>1
      <4> QED
        BY <3>3, <4>1, <4>2
    <3>5. UsableQuote(heard, at, time) = Unset
      BY <2>1, <3>4 DEF UsableQuote
    <3> QED
      BY <3>2, <3>5
  <2> QED
    BY <2>2, <2>3
<1> QED
  BY <1>7, <1>8

PolledInv == TradesInv /\ QuotesInv /\ shown \in Nat

LEMMA PolledTells == PolledInv => SamplesTrue
<1> SUFFICES ASSUME PolledInv PROVE SamplesTrue
  OBVIOUS
<1>1. TradesOnce
  BY DEF PolledInv, TradesInv, TakenSound
<1>2. HistoryEnough
  <2> DEFINE W == (time - Window + 1)..time
  <2>1. \A at \in W : UsableQuote(quotes, at, time) = UsableQuote(heard, at, time)
    BY SameUsable DEF PolledInv, TradesInv, MadeInOrder
  <2>2. {a \in W : UsableQuote(quotes, a, time) # Unset} = {a \in W : UsableQuote(heard, a, time) # Unset}
    BY <2>1
  <2>3. Samples(quotes, time) = Samples(heard, time)
    <3> HIDE DEF W
    <3>1. /\ Samples(quotes, time) =
               {[at |-> at, quote |-> UsableQuote(quotes, at, time)] :
                  at \in {a \in W : UsableQuote(quotes, a, time) # Unset}}
          /\ Samples(heard, time) =
               {[at |-> at, quote |-> UsableQuote(heard, at, time)] :
                  at \in {a \in W : UsableQuote(heard, a, time) # Unset}}
      BY DEF Samples, W
    <3> QED
      BY <2>1, <2>2, <3>1
  <2> QED
    BY <2>3 DEF HistoryEnough
<1> QED
  BY <1>1, <1>2 DEF SamplesTrue

LEMMA QuotesStay ==
  ASSUME QuotesInv, time \in Nat, UNCHANGED <<quotes, heard>>, time' = time \/ time' = time + 1
  PROVE  QuotesInv'
<1>1. PICK d \in Nat : Suffix(d)
  BY DEF QuotesInv
<1>2. ASSUME NEW n \in 1..d PROVE heard[n].at < time' - Retention
  <2>1. heard[n].at < time - Retention /\ n \in 1..Len(heard) /\ heard \in Seq(Quotes)
    <3>1. heard \in Seq(Quotes) /\ Len(heard) \in Nat
      BY DEF QuotesInv
    <3> QED
      BY <1>1, <1>2, <3>1 DEF Suffix
  <2>2. heard[n].at \in Nat /\ Retention \in Nat
    <3>1. heard[n] \in Quotes
      BY <2>1
    <3> QED
      BY <3>1, PolledVenueAssumption DEF Quotes
  <2> QED
    BY <2>1, <2>2
<1>3. Suffix(d)'
  BY <1>1, <1>2 DEF Suffix
<1> QED
  BY <1>3 DEF QuotesInv

\* However polls overlap, fail and overtake each other, a venue is measured from no trade
\* twice, from every trade made since the first answer that all answers past it still
\* listed, but for one equal to another counted, and from every quote a window needs
\* (ingestTrades, push).
THEOREM SamplesKept == PolledSpec => []SamplesTrue
<1>1. PolledInit => PolledInv
  <2> SUFFICES ASSUME PolledInit PROVE PolledInv
    OBVIOUS
  <2>1. MadeInOrder /\ PollsPast
    BY DEF PolledInit, MadeInOrder, PollsPast
  <2>2. AnswersSound /\ TakenSound
    BY DEF PolledInit, AnswersSound, TakenSound, Received, TradesOnce
  <2>3. QuotesInv
    <3>1. Suffix(0)
      BY DEF PolledInit, Suffix
    <3>2. quotes \in Seq(Quotes) /\ heard \in Seq(Quotes)
      BY DEF PolledInit
    <3> QED
      BY <3>1, <3>2 DEF QuotesInv
  <2> QED
    BY <2>1, <2>2, <2>3 DEF PolledInit, PolledInv, TradesInv
<1>2. PolledInv /\ [PolledNext]_polledVars => PolledInv'
  <2> SUFFICES ASSUME PolledInv, [PolledNext]_polledVars PROVE PolledInv'
    OBVIOUS
  <2> USE DEF PolledInv
  <2>1. time \in Nat /\ MadeInOrder /\ PollsPast
    BY DEF TradesInv, MadeInOrder
  <2>2. ASSUME NEW p \in polls
        PROVE  /\ p = [start |-> p.start, book |-> p.book, trades |-> p.trades]
               /\ p.book \in Nat \cup {Unset}
               /\ p.trades \in 0..Len(made) \cup {Unset}
    BY <2>1 DEF PollsPast
  <2>3. CASE Receive
    <3>1. shown' = shown
      BY <2>3 DEF Receive, venue
    <3> QED
      BY <2>1, <2>3, <3>1, AnsweredKeeps, QuoteKeeps
  <2>4. CASE Trades
    <3>1. UNCHANGED <<time, quotes, heard, shown>>
      BY <2>4 DEF Trades
    <3> QED
      BY <2>1, <2>4, <3>1, TradesKeeps, QuotesStay
  <2>5. CASE Advance \/ BookMoves \/ UNCHANGED polledVars
    <3>1. /\ UNCHANGED <<made, polls, cursor, taken, answered, quotes, heard>>
          /\ time' = time \/ time' = time + 1
      BY <2>5 DEF Advance, BookMoves, polledVars, venue, poller, data
    <3>2. shown' \in Nat
      BY <2>5 DEF Advance, BookMoves, polledVars, venue
    <3> QED
      BY <2>1, <2>2, <3>1, <3>2, TradesStay, QuotesStay
  <2>6. CASE Poll
    <3>1. /\ UNCHANGED <<time, made, cursor, taken, answered, quotes, heard, shown>>
          /\ polls' = polls \cup {[start |-> time, book |-> Unset, trades |-> Unset]}
      BY <2>6 DEF Poll, venue, data
    <3> QED
      BY <2>1, <2>2, <3>1, TradesStay, QuotesStay
  <2>7. CASE Fail
    <3>1. UNCHANGED <<time, made, cursor, taken, answered, quotes, heard, shown>> /\ polls' \subseteq polls
      BY <2>7 DEF Fail, venue, data
    <3> QED
      BY <2>1, <2>2, <3>1, TradesStay, QuotesStay
  <2>8. CASE VenueAnswers
    <3>1. UNCHANGED <<time, made, cursor, taken, answered, quotes, heard, shown>>
      BY <2>8 DEF VenueAnswers, venue, data
    <3>2. PICK p \in polls :
            \/ polls' = (polls \ {p}) \cup {[p EXCEPT !.book = shown]}
            \/ polls' = (polls \ {p}) \cup {[p EXCEPT !.trades = Len(made)]}
      BY <2>8 DEF VenueAnswers
    <3>3. [p EXCEPT !.book = shown] = [start |-> p.start, book |-> shown, trades |-> p.trades]
      BY <2>2
    <3>4. [p EXCEPT !.trades = Len(made)] = [start |-> p.start, book |-> p.book, trades |-> Len(made)]
      BY <2>2
    <3>5. Len(made) \in 0..Len(made)
      BY <2>1, MadeTyped
    <3> QED
      BY <2>1, <2>2, <3>1, <3>2, <3>3, <3>4, <3>5, TradesStay, QuotesStay
  <2> QED
    BY <2>3, <2>4, <2>5, <2>6, <2>7, <2>8 DEF PolledNext
<1>3. PolledInv => SamplesTrue
  BY PolledTells
<1> QED
  BY <1>1, <1>2, <1>3, PTL DEF PolledSpec
=============================================================================
