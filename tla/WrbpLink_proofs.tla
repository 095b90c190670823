--------------------------- MODULE WrbpLink_proofs ---------------------------
(***************************************************************************)
(* The disk protocol of Server mode, for every size of disk, request and   *)
(* chunk and every setting of the server: as long as no receive or send    *)
(* timed out, client and server stay in step, reads deliver the image, and *)
(* acknowledged writes are in it and, where that is promised, on the       *)
(* medium - through refusals, breaks and sessions that end anywhere.       *)
(*                                                                         *)
(* The invariant follows the one request r there can be.  It is unread,    *)
(* being served, or done with ("quiet"); only then are there units on      *)
(* their way back, and they are a beginning of its answer.  A connection   *)
(* that breaks cuts both streams short, so nothing is said of their whole  *)
(* length; and r outlives the client's interest in it, since the server    *)
(* goes on with what it has received.                                      *)
(***************************************************************************)
EXTENDS WrbpLink, SequenceTheorems, TLAPS

ReqOps == {"hello", "time", "ping", "read", "write", "flush", "none"}

LinkTypeOK ==
  /\ link \in {"up", "down", "silent"} /\ c2s \in Seq(Unit) /\ s2c \in Seq(Unit)
  /\ client \in [phase : {"off", "idle", "answer", "payload"}, req : Request, got : Seq(Content)]
  /\ answer \in [op : ReqOps, rc : {0, -1}, first : 0 .. NbSectors, data : Seq(Content)]
  /\ server \in [phase : {"listen", "head", "data"}, req : Request, done : 0 .. LongestRequest,
                 writes : {0, 1}, flushed : {0, 1}]
  /\ image \in [Sector -> Content] /\ durable \in [Sector -> Content]
  /\ acked \in [Sector -> Stamp] /\ stamp \in Stamp
  /\ sessions \in 0 .. MaxSessions
  /\ timeouts \in [recv : 0 .. RecvTimeouts, send : 0 .. SendTimeouts]
  /\ server.phase = "data" => server.done <= Payload(server.req)

Waiting == client.phase \in {"answer", "payload"}
Quiet   == c2s = <<>> /\ server.phase # "data"

\* Where a request r stands at the server.
Unread(r) ==
  /\ server.phase = "head" /\ c2s # <<>> /\ c2s[1] = Header(r, 1)
  /\ Len(c2s) <= 1 + Payload(r)
  /\ \A i \in 2 .. Len(c2s) : c2s[i] = Data(r.stamp)

Served(r) ==
  /\ server.phase = "data" /\ server.req = [r EXCEPT !.stamp = 0] /\ r.op \in {"write", "ping"}
  /\ server.done < Payload(r) /\ Len(c2s) <= Payload(r) - server.done
  /\ \A i \in 1 .. Len(c2s) : c2s[i] = Data(r.stamp)
  /\ Accepted(r) => \A s \in r.first .. r.first + server.done - 1 : image[s] = r.stamp

\* A request the client makes: a write has sectors and the newest stamp.
Proper(r) ==
  /\ r.op = "write" => r.n > 0 /\ r.stamp <= stamp /\ \A s \in Sector : acked[s] <= r.stamp
  /\ r.op = "read" => r.n > 0

\* The answer of request r on its way: a header, after the one to a READ the sectors.
OnItsWay(r) ==
  s2c # <<>> =>
    /\ \E ok \in {0, 1} : s2c[1] = Header(r, ok)
    /\ r.op = "write" /\ s2c[1].ok = 1 => Accepted(r) /\ \A s \in Span(r) : image[s] = r.stamp
    /\ IF r.op = "read" /\ s2c[1].ok = 1
       THEN /\ InRange(r) /\ Len(s2c) <= 1 + r.n
            /\ \A i \in 2 .. Len(s2c) : s2c[i] = Data(image[r.first + i - 2])
       ELSE Len(s2c) = 1

\* The sectors of a READ that have arrived and those that still follow.
Arriving(r) ==
  /\ r.op = "read" /\ InRange(r)
  /\ Len(client.got) < r.n /\ Len(client.got) + Len(s2c) <= r.n
  /\ \A i \in 1 .. Len(client.got) : client.got[i] = image[r.first + i - 1]
  /\ \A i \in 1 .. Len(s2c) : s2c[i] = Data(image[r.first + Len(client.got) + i - 1])

\* Of one request r, the client's if it waits for an answer.
InStep(r) ==
  /\ Proper(r)
  /\ Quiet \/ Unread(r) \/ Served(r)
  /\ Waiting => r = client.req /\ r.op # "none"
  /\ s2c # <<>> => Waiting /\ Quiet
  /\ client.phase = "answer" => OnItsWay(r) /\ client.got = <<>>
  /\ client.phase = "payload" => Quiet /\ Arriving(r)

Lines ==
  /\ link = "up" => client.phase # "off" /\ server.phase # "listen"
  /\ link = "up" /\ client.phase = "idle" => Quiet
  /\ server.phase = "listen" => c2s = <<>>

\* A write whose success is on its way counts as acknowledged.
Promised(s) ==
  IF client.phase = "answer" /\ client.req.op = "write" /\ s2c # <<>> /\ s2c[1].ok = 1
       /\ s \in Span(client.req)
  THEN client.req.stamp ELSE acked[s]

InImage == \A s \in Sector : image[s] >= Promised(s) /\ acked[s] <= stamp
OnMedium == \A s \in Sector : durable[s] >= Promised(s)

\* The image is on the medium while no write was counted since it was, and when a strict
\* flush has succeeded, whether or not the answer has arrived.
Kept ==
  /\ ReadOnly => OnMedium
  /\ server.flushed = 1 /\ (server.phase = "listen" \/ server.writes = 0) => OnMedium
  /\ StrictFlush /\ client.phase = "answer" /\ client.req.op = "flush" /\ s2c # <<>> /\ s2c[1].ok = 1
       => OnMedium
  /\ StrictFlush /\ answer.op = "flush" /\ answer.rc = 0 => OnMedium

\* What the client was told of a READ is still in the image.
Told ==
  /\ Waiting => answer = NoAnswer
  /\ answer.op = "read" /\ answer.rc = 0 =>
       /\ Quiet /\ ~Waiting
       /\ \A i \in 1 .. Len(answer.data) : answer.data[i] = image[answer.first + i - 1]
  /\ answer.op = "flush" => ~Waiting

Coupled == (\E r \in Request : InStep(r)) /\ Lines /\ InImage /\ Kept /\ Told
LinkInv == LinkTypeOK /\ (Untimed => Coupled)

-----------------------------------------------------------------------------
(***************************************************************************)
(* Sequences.                                                              *)
(***************************************************************************)
\* A sequence is empty when it has no elements.
LEMMA EmptyOf ==
  ASSUME NEW S, NEW s \in Seq(S)
  PROVE  (s = <<>>) <=> (Len(s) = 0)
  <1>1. s = <<>> => Len(s) = 0
    OBVIOUS
  <1>2. s # <<>> => Len(s) # 0
    BY EmptySeq
  <1>. QED  BY <1>1, <1>2

\* A sequence that is not empty has a first element, and loses it.
LEMMA TailOf ==
  ASSUME NEW S, NEW s \in Seq(S), s # <<>>
  PROVE  /\ s[1] \in S /\ Len(s) \in Nat \ {0}
         /\ Tail(s) \in Seq(S) /\ Len(Tail(s)) = Len(s) - 1
         /\ \A i \in 1 .. Len(s) - 1 : Tail(s)[i] = s[i + 1]
         /\ (Tail(s) = <<>>) <=> (Len(s) = 1)
  <1>1. Len(s) \in Nat \ {0} /\ s[1] \in S
    BY EmptySeq, ElementOfSeq
  <1>2. /\ Tail(s) \in Seq(S) /\ Len(Tail(s)) = Len(s) - 1
        /\ \A i \in 1 .. Len(s) - 1 : Tail(s)[i] = s[i + 1]
    BY HeadTailProperties
  <1>3. (Tail(s) = <<>>) <=> (Len(Tail(s)) = 0)
    BY <1>2, EmptyOf
  <1>. QED  BY <1>1, <1>2, <1>3

\* What is left after the first n.
LEMMA RestOf ==
  ASSUME NEW S, NEW s \in Seq(S), NEW n \in 0 .. Len(s)
  PROVE  /\ SubSeq(s, n + 1, Len(s)) \in Seq(S) /\ Len(SubSeq(s, n + 1, Len(s))) = Len(s) - n
         /\ \A i \in 1 .. Len(s) - n : SubSeq(s, n + 1, Len(s))[i] = s[n + i]
         /\ (SubSeq(s, n + 1, Len(s)) = <<>>) <=> (Len(s) = n)
  <1>1. Len(s) \in Nat /\ \A i \in n + 1 .. Len(s) : s[i] \in S
    BY ElementOfSeq, LenProperties
  <1>2. /\ SubSeq(s, n + 1, Len(s)) \in Seq(S)
        /\ Len(SubSeq(s, n + 1, Len(s))) = Len(s) - n
        /\ \A i \in 1 .. Len(s) - n : SubSeq(s, n + 1, Len(s))[i] = s[n + i]
    BY <1>1, SubSeqProperties
  <1>3. (SubSeq(s, n + 1, Len(s)) = <<>>) <=> (Len(SubSeq(s, n + 1, Len(s))) = 0)
    BY <1>2, EmptyOf
  <1>. QED  BY <1>1, <1>2, <1>3

\* The first n.
LEMMA PrefixOf ==
  ASSUME NEW S, NEW s \in Seq(S), NEW n \in 0 .. Len(s)
  PROVE  /\ SubSeq(s, 1, n) \in Seq(S) /\ Len(SubSeq(s, 1, n)) = n
         /\ \A i \in 1 .. n : SubSeq(s, 1, n)[i] = s[i]
         /\ SubSeq(s, 1, n) # <<>> => s # <<>> /\ n > 0
  <1>1. Len(s) \in Nat /\ \A i \in 1 .. n : s[i] \in S
    BY ElementOfSeq, LenProperties
  <1>2. /\ SubSeq(s, 1, n) \in Seq(S) /\ Len(SubSeq(s, 1, n)) = n
        /\ \A i \in 1 .. n : SubSeq(s, 1, n)[i] = s[i]
    BY <1>1, SubSeqProperties
  <1>. QED  BY <1>1, <1>2, EmptySeq

\* One element and a sequence.
LEMMA ConsOf ==
  ASSUME NEW S, NEW x \in S, NEW t \in Seq(S)
  PROVE  /\ <<x>> \o t \in Seq(S) /\ Len(<<x>> \o t) = 1 + Len(t) /\ <<x>> \o t # <<>>
         /\ (<<x>> \o t)[1] = x
         /\ \A i \in 2 .. 1 + Len(t) : (<<x>> \o t)[i] = t[i - 1]
  <1>1. <<x>> \in Seq(S) /\ Len(<<x>>) = 1 /\ <<x>>[1] = x
    OBVIOUS
  <1>2. Len(t) \in Nat
    BY LenProperties
  <1>3. /\ <<x>> \o t \in Seq(S) /\ Len(<<x>> \o t) = 1 + Len(t)
        /\ \A i \in 1 .. 1 + Len(t) : (<<x>> \o t)[i] = IF i <= 1 THEN <<x>>[i] ELSE t[i - 1]
    BY <1>1, ConcatProperties
  <1>. QED  BY <1>1, <1>2, <1>3, EmptySeq

\* Nothing before a sequence.
LEMMA NothingBefore ==
  ASSUME NEW S, NEW t \in Seq(S)
  PROVE  <<>> \o t = t
  BY ConcatEmptySeq

-----------------------------------------------------------------------------
(***************************************************************************)
(* Units and requests.                                                     *)
(***************************************************************************)
\* The operations of the protocol.
LEMMA OpsOfRequests == {r.op : r \in Request} = ReqOps
  <1>1. \A r \in Request : r.op \in ReqOps
    BY DEF Request, ReqOps
  <1>2. ASSUME NEW op \in ReqOps PROVE \E r \in Request : r.op = op
    <2>1. [op |-> op, first |-> 0, n |-> 0, stamp |-> 0] \in Request
      BY BlockCallsAssumption, WrbpAssumption DEF Request, ReqOps, Stamp
    <2>. QED  BY <2>1
  <1>. QED  BY <1>1, <1>2

\* Headers and sectors are units, and the request a header stands for is one.
LEMMA UnitTypes ==
  /\ \A r \in Request : r.n \in Nat /\ r.first \in Nat /\ r.op \in ReqOps /\ r.stamp \in Stamp
  /\ \A r \in Request, ok \in {0, 1} : Header(r, ok) \in Unit
  /\ \A c \in Content : Data(c) \in Unit
  /\ \A u \in Unit : Asked(u) \in Request /\ u.stamp \in Content
  /\ NoRequest \in Request /\ Stamp \subseteq Content /\ Junk \in Content /\ 0 \in Stamp
  <1>1. \A r \in Request : r.n \in Nat /\ r.first \in Nat /\ r.op \in ReqOps /\ r.stamp \in Stamp
    BY BlockCallsAssumption, WrbpAssumption DEF Request, ReqOps
  <1>2. 0 \in Stamp /\ Stamp \subseteq Content /\ Junk \in Content
    BY BlockCallsAssumption DEF Stamp, Content
  <1>3. NoRequest \in Request
    BY <1>2, BlockCallsAssumption, WrbpAssumption DEF NoRequest, Request
  <1>4. \A r \in Request, ok \in {0, 1} : Header(r, ok) \in Unit
    BY <1>1, <1>2, OpsOfRequests DEF Header, Unit, Request
  <1>5. \A c \in Content : Data(c) \in Unit
    BY OpsOfRequests, BlockCallsAssumption, WrbpAssumption DEF Data, Unit, ReqOps
  <1>6. \A u \in Unit : Asked(u) \in Request /\ u.stamp \in Content
    BY <1>2, OpsOfRequests DEF Asked, Unit, Request, ReqOps
  <1>. QED  BY <1>1, <1>2, <1>3, <1>4, <1>5, <1>6

\* netblk_send_all sends a header and the payload.
LEMMA PayloadType ==
  ASSUME NEW r \in Request
  PROVE  Payload(r) \in 0 .. LongestRequest
  BY WrbpAssumption DEF Payload, Request

\* A request on the wire: its header, then as many units of its stamp as it has payload.
LEMMA UnitsOf ==
  ASSUME NEW r \in Request
  PROVE  /\ Units(r) \in Seq(Unit) /\ Units(r) # <<>> /\ Len(Units(r)) = 1 + Payload(r)
         /\ Units(r)[1] = Header(r, 1)
         /\ \A i \in 2 .. 1 + Payload(r) : Units(r)[i] = Data(r.stamp)
  <1> DEFINE n == Payload(r)
             x == Data(r.stamp)
             t == [i \in 1 .. n |-> x]
  <1>1. n \in Nat /\ x \in Unit /\ Header(r, 1) \in Unit
    BY PayloadType, UnitTypes, WrbpAssumption
  <1>2. t \in Seq(Unit) /\ Len(t) = n /\ \A i \in 1 .. n : t[i] = x
    <2>. HIDE DEF n, x
    <2>. QED  BY <1>1
  <1>3. Units(r) = <<Header(r, 1)>> \o t
    BY DEF Units
  <1>. HIDE DEF n, x, t
  <1>4. /\ Units(r) \in Seq(Unit) /\ Len(Units(r)) = 1 + n /\ Units(r) # <<>>
        /\ Units(r)[1] = Header(r, 1)
        /\ \A i \in 2 .. 1 + n : Units(r)[i] = t[i - 1]
    BY <1>1, <1>2, <1>3, ConsOf
  <1>5. \A i \in 2 .. 1 + n : Units(r)[i] = x
    BY <1>1, <1>2, <1>4
  <1>. QED  BY <1>4, <1>5 DEF n, x

\* send_image_exact sends the sectors of the image.
LEMMA SectorsOf ==
  ASSUME NEW r \in Request, InRange(r), image \in [Sector -> Content]
  PROVE  /\ Sectors(r) \in Seq(Unit) /\ Len(Sectors(r)) = r.n
         /\ \A i \in 1 .. r.n : Sectors(r)[i] = Data(image[r.first + i - 1])
  <1>1. r.n \in Nat /\ r.first \in Nat
    BY UnitTypes
  <1>2. \A i \in 1 .. r.n : Data(image[r.first + i - 1]) \in Unit
    BY <1>1, UnitTypes, BlockCallsAssumption DEF InRange, Sector
  <1>3. Sectors(r) = [i \in 1 .. r.n |-> Data(image[r.first + i - 1])]
    BY DEF Sectors
  <1>. QED  BY <1>1, <1>2, <1>3

-----------------------------------------------------------------------------
(***************************************************************************)
(* Types.                                                                  *)
(***************************************************************************)
\* The types the runs check are part of those the proofs use.
LEMMA TypeOKOf == LinkTypeOK => TypeOK
  BY OpsOfRequests DEF LinkTypeOK, TypeOK

\* The types at the start.
LEMMA LinkInitType == Init => LinkTypeOK
  <1>1. SUFFICES ASSUME Init PROVE LinkTypeOK
    OBVIOUS
  <1>2. 0 \in Stamp /\ 0 \in Content /\ NoRequest \in Request
    BY UnitTypes
  <1>3. <<>> \in Seq(Unit) /\ <<>> \in Seq(Content)
    BY EmptySeq
  <1>4. answer \in [op : ReqOps, rc : {0, -1}, first : 0 .. NbSectors, data : Seq(Content)]
    BY <1>1, <1>3, BlockCallsAssumption DEF Init, NoAnswer, ReqOps
  <1>. QED  BY <1>1, <1>2, <1>3, <1>4, WrbpAssumption DEF Init, LinkTypeOK

\* The end of netblk_request.
LEMMA EndsType ==
  ASSUME LinkTypeOK, NEW rc \in {0, -1}, NEW data \in Seq(Content), Ends(rc, data)
  PROVE  /\ client' \in [phase : {"off", "idle", "answer", "payload"}, req : Request, got : Seq(Content)]
         /\ answer' \in [op : ReqOps, rc : {0, -1}, first : 0 .. NbSectors, data : Seq(Content)]
         /\ acked' \in [Sector -> Stamp] /\ link' \in {"up", "down", "silent"}
  <1>1. client' \in [phase : {"off", "idle", "answer", "payload"}, req : Request, got : Seq(Content)]
    BY UnitTypes, EmptySeq DEF Ends, PhaseAfter
  <1>2. client.req \in Request
    BY DEF LinkTypeOK
  <1>3. answer' \in [op : ReqOps, rc : {0, -1}, first : 0 .. NbSectors, data : Seq(Content)]
    BY <1>2 DEF Ends, Request, ReqOps
  <1>4. acked' \in [Sector -> Stamp]
    BY <1>2, UnitTypes DEF Ends, LinkTypeOK
  <1>. QED  BY <1>1, <1>3, <1>4 DEF Ends, LinkTypeOK

\* Chunks are within the payload, and within what has been received.
LEMMA ChunkType ==
  ASSUME LinkTypeOK, server.phase = "data"
  PROVE  /\ Chunk \in Nat /\ Chunk <= Payload(server.req) - server.done
         /\ server.done < Payload(server.req) => Chunk > 0
         /\ Last <=> server.done + Chunk = Payload(server.req)
  <1>1. Payload(server.req) \in Nat /\ server.done \in Nat /\ server.done <= Payload(server.req)
    BY PayloadType, WrbpAssumption DEF LinkTypeOK
  <1>2. MaxSectors \in Nat \ {0}
    BY WrbpAssumption
  <1>. QED  BY <1>1, <1>2 DEF Chunk, Lesser, Last

\* What recv_image_write puts into the image.
LEMMA ImageType ==
  ASSUME LinkTypeOK, ServeData
  PROVE  image' \in [Sector -> Content]
  <1>1. Chunk \in Nat /\ Len(c2s) >= Chunk /\ Len(c2s) \in Nat
    BY ChunkType, LenProperties DEF ServeData, LinkTypeOK
  <1>2. \A i \in 1 .. Chunk : c2s[i].stamp \in Content
    BY <1>1, ElementOfSeq, UnitTypes DEF LinkTypeOK
  <1>3. Junk \in Content /\ image \in [Sector -> Content]
    BY UnitTypes DEF LinkTypeOK
  <1>4. image' = IF Accepted(server.req)
              THEN [s \in Sector |->
                     IF Place(s) \in 1 .. Chunk
                     THEN IF c2s[Place(s)].kind = "data" THEN c2s[Place(s)].stamp ELSE Junk
                     ELSE image[s]]
              ELSE image
    BY DEF ServeData
  <1>. QED  BY <1>2, <1>3, <1>4

\* The server's end of a session.
LEMMA ClosesType ==
  ASSUME LinkTypeOK, NEW flushes, Closes(flushes), image' \in [Sector -> Content]
  PROVE  /\ server' \in [phase : {"listen", "head", "data"}, req : Request, done : 0 .. LongestRequest,
                         writes : {0, 1}, flushed : {0, 1}]
         /\ server'.phase = "listen" /\ server'.writes = server.writes
         /\ durable' \in [Sector -> Content]
         /\ link' = "down" /\ c2s' = <<>> /\ c2s' \in Seq(Unit)
  <1>1. PICK done \in FlushOutcomes :
          /\ server' = [server EXCEPT !.phase = "listen", !.req = NoRequest, !.done = 0,
                          !.flushed = IF flushes THEN done ELSE @]
          /\ IF flushes THEN FlushImage(done) ELSE UNCHANGED durable
    BY DEF Closes
  <1>2. done \in {0, 1} /\ 0 \in 0 .. LongestRequest /\ NoRequest \in Request
    BY WrbpAssumption, UnitTypes DEF FlushOutcomes
  <1>3. server' \in [phase : {"listen", "head", "data"}, req : Request, done : 0 .. LongestRequest,
                         writes : {0, 1}, flushed : {0, 1}]
    BY <1>1, <1>2 DEF LinkTypeOK
  <1>4. durable' \in [Sector -> Content]
    BY <1>1 DEF LinkTypeOK, FlushImage
  <1>. QED  BY <1>1, <1>3, <1>4, EmptySeq DEF Closes, LinkTypeOK

\* What a request adds to the stream, whole or in part.
LEMMA AskType ==
  ASSUME LinkTypeOK, NEW r \in Requests(Lesser(stamp + 1, MaxStamp)), Ask(r)
  PROVE  /\ r \in Request /\ r.op \in {"ping", "read", "write", "flush"}
         /\ client.phase = "idle" /\ stamp' \in Stamp /\ stamp' >= stamp
         /\ r.op = "write" => r.n > 0 /\ r.stamp = stamp + 1 /\ stamp' = stamp + 1
         /\ r.op = "read" => r.n > 0
  <1>1. stamp \in Nat /\ MaxStamp \in Nat /\ stamp <= MaxStamp
    BY BlockCallsAssumption DEF LinkTypeOK, Stamp
  <1>2. r \in Request /\ r.op \in {"ping", "read", "write", "flush"}
    BY DEF Requests
  <1>3. r.op = "write" => stamp < MaxStamp
    BY DEF Ask
  <1>4. stamp' = IF r.op = "write" THEN stamp + 1 ELSE stamp
    BY DEF Ask, Stamped
  <1>5. r.op = "write" => r.n > 0 /\ r.stamp = stamp + 1
    BY <1>1, <1>3 DEF Requests, Lesser
  <1>6. r.op = "read" => r.n > 0
    BY DEF Requests
  <1>. QED  BY <1>1, <1>2, <1>3, <1>4, <1>5, <1>6 DEF Ask, Stamp

\* Types: block_device_init_net and the clock program.
LEMMA ConnectType ==
  ASSUME LinkTypeOK, NEW op \in {"hello", "time"}, Connect(op)
  PROVE  LinkTypeOK'
  <1> DEFINE r == [NoRequest EXCEPT !.op = op]
  <1>1. r \in Request /\ r.op = op
    BY UnitTypes DEF NoRequest, Request
  <1>2. client' = [phase |-> "answer", req |-> r, got |-> <<>>] /\ c2s' = Units(r)
    BY DEF Connect
  <1>. HIDE DEF r
  <1>3. /\ client' \in [phase : {"off", "idle", "answer", "payload"}, req : Request, got : Seq(Content)]
        /\ c2s' \in Seq(Unit) /\ s2c' \in Seq(Unit)
    BY <1>1, <1>2, UnitsOf, EmptySeq DEF Connect
  <1>4. answer' \in [op : ReqOps, rc : {0, -1}, first : 0 .. NbSectors, data : Seq(Content)]
    BY EmptySeq, BlockCallsAssumption DEF Connect, NoAnswer, ReqOps
  <1>5. /\ server' \in [phase : {"listen", "head", "data"}, req : Request, done : 0 .. LongestRequest,
                        writes : {0, 1}, flushed : {0, 1}]
        /\ server'.phase = "head"
    BY DEF Connect, LinkTypeOK
  <1>6. sessions' \in 0 .. MaxSessions
    BY WrbpAssumption DEF Connect, LinkTypeOK
  <1>. QED  BY <1>3, <1>4, <1>5, <1>6 DEF Connect, LinkTypeOK, disk

\* Types: netblk_request sends, or cannot.
LEMMA SendType ==
  ASSUME LinkTypeOK, Send \/ SendFails \/ SendTimeout
  PROVE  LinkTypeOK'
  <1>0. /\ <<>> \in Seq(Content)
        /\ NoAnswer \in [op : ReqOps, rc : {0, -1}, first : 0 .. NbSectors, data : Seq(Content)]
        /\ \A r \in Request : [NoAnswer EXCEPT !.op = r.op, !.rc = -1]
              \in [op : ReqOps, rc : {0, -1}, first : 0 .. NbSectors, data : Seq(Content)]
    <2>1. <<>> \in Seq(Content) /\ 0 \in 0 .. NbSectors
      BY EmptySeq, BlockCallsAssumption
    <2>2. \A r \in Request : r.op \in ReqOps
      BY UnitTypes
    <2>3. "none" \in ReqOps
      BY DEF ReqOps
    <2>. QED  BY <2>1, <2>2, <2>3 DEF NoAnswer
  <1>1. CASE Send
    <2>1. PICK r \in Requests(Lesser(stamp + 1, MaxStamp)) :
            /\ Ask(r) /\ link = "up"
            /\ client' = [phase |-> "answer", req |-> r, got |-> <<>>]
            /\ c2s' = c2s \o Units(r)
            /\ answer' = NoAnswer
            /\ UNCHANGED <<link, s2c, server, disk, acked, sessions, timeouts>>
      BY <1>1 DEF Send
    <2>2. r \in Request /\ stamp' \in Stamp
      BY <2>1, AskType
    <2>3. c2s' \in Seq(Unit)
      BY <2>1, <2>2, UnitsOf, ConcatProperties DEF LinkTypeOK
    <2>4. client' \in [phase : {"off", "idle", "answer", "payload"}, req : Request, got : Seq(Content)]
      BY <1>0, <2>1, <2>2
    <2>. QED  BY <1>0, <2>1, <2>2, <2>3, <2>4 DEF LinkTypeOK, disk
  <1>2. CASE SendFails
    <2>1. PICK r \in Requests(Lesser(stamp + 1, MaxStamp)) :
            /\ Ask(r) /\ answer' = [NoAnswer EXCEPT !.op = r.op, !.rc = -1]
            /\ UNCHANGED <<wire, client, server, disk, acked, sessions, timeouts>>
      BY <1>2 DEF SendFails
    <2>2. r \in Request /\ stamp' \in Stamp
      BY <2>1, AskType
    <2>. QED  BY <1>0, <2>1, <2>2 DEF LinkTypeOK, disk, wire
  <1>3. CASE SendTimeout
    <2>1. PICK r \in Requests(Lesser(stamp + 1, MaxStamp)) :
            /\ Ask(r) /\ \E sent \in 0 .. Payload(r) : c2s' = c2s \o SubSeq(Units(r), 1, sent)
            /\ timeouts.send < SendTimeouts /\ timeouts' = [timeouts EXCEPT !.send = @ + 1]
            /\ answer' = [NoAnswer EXCEPT !.op = r.op, !.rc = -1]
            /\ UNCHANGED <<link, s2c, client, server, disk, acked, sessions>>
      BY <1>3 DEF SendTimeout
    <2>2. r \in Request /\ stamp' \in Stamp
      BY <2>1, AskType
    <2>3. PICK sent \in 0 .. Payload(r) : c2s' = c2s \o SubSeq(Units(r), 1, sent)
      BY <2>1
    <2>4. SubSeq(Units(r), 1, sent) \in Seq(Unit)
      <3>1. Payload(r) \in Nat
        BY <2>2, PayloadType, WrbpAssumption
      <3>. QED  BY <2>2, <2>3, <3>1, UnitsOf, PrefixOf
    <2>5. c2s' \in Seq(Unit)
      BY <2>3, <2>4, ConcatProperties DEF LinkTypeOK
    <2>6. timeouts' \in [recv : 0 .. RecvTimeouts, send : 0 .. SendTimeouts]
      <3>1. timeouts \in [recv : 0 .. RecvTimeouts, send : 0 .. SendTimeouts] /\ SendTimeouts \in Nat
        BY WrbpAssumption DEF LinkTypeOK
      <3>2. timeouts.send + 1 \in 0 .. SendTimeouts
        BY <2>1, <3>1
      <3>. QED  BY <2>1, <3>1, <3>2
    <2>. QED  BY <1>0, <2>1, <2>2, <2>5, <2>6 DEF LinkTypeOK, disk
  <1>. QED  BY <1>1, <1>2, <1>3

\* Types: netblk_request receives, or cannot.
LEMMA RecvType ==
  ASSUME LinkTypeOK, RecvHeader \/ RecvPayload \/ RecvFails
  PROVE  LinkTypeOK'
  <1>0. <<>> \in Seq(Content)
    BY EmptySeq
  <1>1. CASE RecvHeader
    <2>1. s2c' \in Seq(Unit)
      BY <1>1, TailOf DEF RecvHeader, LinkTypeOK
    <2>2. \/ client' = [client EXCEPT !.phase = "payload"] /\ UNCHANGED <<link, answer, acked>>
          \/ \E rc \in {0, -1} : Ends(rc, <<>>)
      BY <1>1 DEF RecvHeader
    <2>3. /\ client' \in [phase : {"off", "idle", "answer", "payload"}, req : Request, got : Seq(Content)]
          /\ answer' \in [op : ReqOps, rc : {0, -1}, first : 0 .. NbSectors, data : Seq(Content)]
          /\ acked' \in [Sector -> Stamp] /\ link' \in {"up", "down", "silent"}
      BY <1>0, <2>2, EndsType DEF LinkTypeOK
    <2>. QED  BY <1>1, <2>1, <2>3 DEF RecvHeader, LinkTypeOK, disk
  <1>2. CASE RecvPayload
    <2>1. s2c' \in Seq(Unit) /\ s2c[1] \in Unit
      BY <1>2, TailOf DEF RecvPayload, LinkTypeOK
    <2> DEFINE got == Append(client.got, IF s2c[1].kind = "data" THEN s2c[1].stamp ELSE Junk)
    <2>2. got \in Seq(Content)
      BY <2>1, UnitTypes, AppendProperties DEF LinkTypeOK
    <2>3. \/ client' = [client EXCEPT !.got = got] /\ UNCHANGED <<link, answer, acked>>
          \/ Ends(0, got)
      BY <1>2 DEF RecvPayload
    <2>. HIDE DEF got
    <2>4. /\ client' \in [phase : {"off", "idle", "answer", "payload"}, req : Request, got : Seq(Content)]
          /\ answer' \in [op : ReqOps, rc : {0, -1}, first : 0 .. NbSectors, data : Seq(Content)]
          /\ acked' \in [Sector -> Stamp] /\ link' \in {"up", "down", "silent"}
      BY <2>2, <2>3, EndsType DEF LinkTypeOK
    <2>. QED  BY <1>2, <2>1, <2>4 DEF RecvPayload, LinkTypeOK, disk
  <1>3. CASE RecvFails
    <2>1. Ends(-1, <<>>)
      BY <1>3 DEF RecvFails
    <2>2. timeouts' \in [recv : 0 .. RecvTimeouts, send : 0 .. SendTimeouts]
      BY <1>3, WrbpAssumption, SMTT(30) DEF RecvFails, LinkTypeOK
    <2>. QED  BY <1>0, <1>3, <2>1, <2>2, EndsType DEF RecvFails, LinkTypeOK, disk
  <1>. QED  BY <1>1, <1>2, <1>3

\* Types: the connection ends, breaks, or is found to be gone.
LEMMA EndType ==
  ASSUME LinkTypeOK, Stop \/ Break \/ Notice
  PROVE  LinkTypeOK'
  <1>1. CASE Stop
    <2>1. /\ client' \in [phase : {"off", "idle", "answer", "payload"}, req : Request, got : Seq(Content)]
          /\ s2c' \in Seq(Unit)
      BY <1>1, EmptySeq, UnitTypes DEF Stop
    <2>2. answer' \in [op : ReqOps, rc : {0, -1}, first : 0 .. NbSectors, data : Seq(Content)]
      BY <1>1, EmptySeq, BlockCallsAssumption DEF Stop, NoAnswer, ReqOps
    <2>3. link' \in {"up", "down", "silent"}
      BY <1>1 DEF Stop, LinkTypeOK
    <2>. QED  BY <1>1, <2>1, <2>2, <2>3 DEF Stop, LinkTypeOK, disk
  <1>2. CASE Break
    <2>1. c2s' \in Seq(Unit) /\ s2c' \in Seq(Unit)
      BY <1>2, PrefixOf DEF Break, LinkTypeOK
    <2>. QED  BY <1>2, <2>1 DEF Break, LinkTypeOK, disk
  <1>3. CASE Notice
    BY <1>3 DEF Notice, LinkTypeOK, disk
  <1>. QED  BY <1>1, <1>2, <1>3

\* send_all adds to the stream of a connection that is up.
LEMMA SendsType ==
  ASSUME LinkTypeOK, NEW units \in Seq(Unit), SendsOk(units)
  PROVE  s2c' \in Seq(Unit)
  BY ConcatProperties DEF SendsOk, LinkTypeOK

\* Types: the loop of handle_client goes on after an answer.
LEMMA AnswersType ==
  ASSUME LinkTypeOK, NEW units \in Seq(Unit), Answers(units)
  PROVE  /\ s2c' \in Seq(Unit) /\ UNCHANGED link
         /\ server' \in [phase : {"listen", "head", "data"}, req : Request, done : 0 .. LongestRequest,
                         writes : {0, 1}, flushed : {0, 1}]
         /\ server'.phase = "head" /\ server'.writes = server.writes /\ server'.flushed = server.flushed
  <1>1. 0 \in 0 .. LongestRequest /\ NoRequest \in Request
    BY WrbpAssumption, UnitTypes
  <1>2. s2c' \in Seq(Unit)
    BY SendsType DEF Answers
  <1>. QED  BY <1>1, <1>2 DEF Answers, LinkTypeOK

\* The five ways a header is dealt with.
ServedAtOnce(u, r) ==
  /\ c2s' = Tail(c2s)
  /\ \/ u.op = "hello" /\ Answers(<<Header(r, 1)>>) /\ UNCHANGED durable
     \/ /\ u.op = "read" /\ InRange(r) /\ r.n <= MaxSectors
        /\ Answers(<<Header(r, 1)>> \o Sectors(r)) /\ UNCHANGED durable
     \/ /\ u.op = "read" /\ ~(InRange(r) /\ r.n <= MaxSectors)
        /\ Answers(<<Header(r, 0)>>) /\ UNCHANGED durable
     \/ /\ u.op = "flush" /\ StrictFlush /\ ~ReadOnly
        /\ \E done \in {0, 1} : FlushImage(done) /\ Answers(<<Header(r, done)>>)
     \/ /\ u.op = "flush" /\ ~(StrictFlush /\ ~ReadOnly)
        /\ Answers(<<Header(r, 1)>>) /\ UNCHANGED durable

\* A header is answered at once or, when a payload follows, becomes the server's request.
LEMMA ServeHeaderCases ==
  ASSUME LinkTypeOK, ServeHeader
  PROVE  /\ server.phase = "head" /\ c2s # <<>> /\ c2s[1].kind = "head"
         /\ UNCHANGED <<image, client, answer, acked, stamp, sessions, timeouts>>
         /\ \/ ServedAtOnce(c2s[1], Asked(c2s[1]))
            \/ /\ c2s[1].op \in {"write", "ping"} /\ c2s' = Tail(c2s)
               /\ server' = [server EXCEPT !.phase = "data", !.req = Asked(c2s[1]), !.done = 0]
               /\ UNCHANGED <<link, s2c, durable>>
  <1>1. FlushOutcomes \subseteq {0, 1} /\ \A done : FlushStatus(done) = done
    BY DEF FlushOutcomes, FlushStatus
  <1>. QED  BY <1>1 DEF ServeHeader, ServedAtOnce

\* Types: handle_client and a header.
LEMMA ServeHeaderType ==
  ASSUME LinkTypeOK, ServeHeader
  PROVE  LinkTypeOK'
  <1> DEFINE u == c2s[1]
             r == Asked(u)
  <1>1. /\ server.phase = "head" /\ c2s # <<>>
        /\ UNCHANGED <<image, client, answer, acked, stamp, sessions, timeouts>>
        /\ \/ ServedAtOnce(u, r)
           \/ /\ c2s' = Tail(c2s)
              /\ server' = [server EXCEPT !.phase = "data", !.req = r, !.done = 0]
              /\ UNCHANGED <<link, s2c, durable>>
    BY ServeHeaderCases
  <1>2. r \in Request /\ c2s' \in Seq(Unit)
    <2>1. c2s \in Seq(Unit) /\ c2s' = Tail(c2s)
      BY <1>1 DEF LinkTypeOK, ServedAtOnce
    <2>2. u \in Unit /\ Tail(c2s) \in Seq(Unit)
      BY <1>1, <2>1, TailOf
    <2>. QED  BY <2>1, <2>2, UnitTypes
  <1>. HIDE DEF u, r
  <1>3. /\ <<Header(r, 1)>> \in Seq(Unit) /\ <<Header(r, 0)>> \in Seq(Unit)
        /\ InRange(r) => <<Header(r, 1)>> \o Sectors(r) \in Seq(Unit)
    <2>1. Header(r, 1) \in Unit /\ Header(r, 0) \in Unit
      BY <1>2, UnitTypes
    <2>2. InRange(r) => Sectors(r) \in Seq(Unit)
      BY <1>2, SectorsOf DEF LinkTypeOK
    <2>. QED  BY <2>1, <2>2, ConsOf
  <1>4. CASE ServedAtOnce(u, r)
    <2>1. \E units \in Seq(Unit) : Answers(units)
      BY <1>3, <1>4 DEF ServedAtOnce
    <2>2. durable' \in [Sector -> Content]
      BY <1>1, <1>4 DEF ServedAtOnce, FlushImage, LinkTypeOK
    <2>3. /\ s2c' \in Seq(Unit) /\ UNCHANGED link
          /\ server' \in [phase : {"listen", "head", "data"}, req : Request, done : 0 .. LongestRequest,
                         writes : {0, 1}, flushed : {0, 1}]
          /\ server'.phase = "head"
      BY <2>1, AnswersType
    <2>. QED  BY <1>1, <1>2, <2>2, <2>3 DEF LinkTypeOK
  <1>5. CASE /\ server' = [server EXCEPT !.phase = "data", !.req = r, !.done = 0]
             /\ UNCHANGED <<link, s2c, durable>>
    <2>1. /\ server' \in [phase : {"listen", "head", "data"}, req : Request, done : 0 .. LongestRequest,
                          writes : {0, 1}, flushed : {0, 1}]
          /\ server'.req = r /\ server'.done = 0
      <3>1. 0 \in 0 .. LongestRequest
        BY WrbpAssumption
      <3>. QED  BY <1>2, <1>5, <3>1 DEF LinkTypeOK
    <2>2. 0 <= Payload(r)
      BY <1>2, PayloadType
    <2>3. Payload(server.req)' = Payload(r)
      BY <2>1 DEF Payload
    <2>. QED  BY <1>1, <1>2, <1>5, <2>1, <2>2, <2>3 DEF LinkTypeOK
  <1>. QED  BY <1>1, <1>4, <1>5

\* Types: handle_client and a chunk of payload.
LEMMA ServeDataType ==
  ASSUME LinkTypeOK, ServeData
  PROVE  LinkTypeOK'
  <1>0. UNCHANGED <<client, answer, acked, stamp, sessions, timeouts>>
    BY DEF ServeData
  <1>1. image' \in [Sector -> Content]
    BY ImageType
  <1>2. /\ Chunk \in Nat /\ Chunk <= Payload(server.req) - server.done
        /\ Chunk <= Len(c2s) /\ Len(c2s) \in Nat
        /\ Payload(server.req) \in Nat /\ Payload(server.req) <= LongestRequest /\ server.done \in Nat
    BY ChunkType, LenProperties, PayloadType, WrbpAssumption, SMTT(30) DEF ServeData, LinkTypeOK
  <1>3. SubSeq(c2s, Chunk + 1, Len(c2s)) \in Seq(Unit)
    BY <1>2, RestOf DEF LinkTypeOK
  <1>4. CASE /\ server' = [server EXCEPT !.done = @ + Chunk]
             /\ c2s' = SubSeq(c2s, Chunk + 1, Len(c2s)) /\ UNCHANGED <<link, s2c, durable>>
    <2>1. /\ server' \in [phase : {"listen", "head", "data"}, req : Request, done : 0 .. LongestRequest,
                          writes : {0, 1}, flushed : {0, 1}]
          /\ server'.req = server.req /\ server'.done = server.done + Chunk
      <3>1. server.done + Chunk \in 0 .. LongestRequest
        BY <1>2, WrbpAssumption
      <3>. QED  BY <1>4, <3>1 DEF LinkTypeOK
    <2>2. Payload(server.req)' = Payload(server.req)
      BY <2>1 DEF Payload
    <2>. QED  BY <1>0, <1>1, <1>2, <1>3, <1>4, <2>1, <2>2, SMTT(30) DEF LinkTypeOK
  <1>5. CASE /\ c2s' = SubSeq(c2s, Chunk + 1, Len(c2s))
             /\ \E ok \in {0, 1} : SendsOk(<<Header(server.req, ok)>>)
             /\ server' = [server EXCEPT !.phase = "head", !.req = NoRequest, !.done = 0,
                             !.writes = IF Accepted(server.req) THEN 1 ELSE @]
             /\ UNCHANGED <<link, durable>>
    <2>1. s2c' \in Seq(Unit)
      <3>1. \A ok \in {0, 1} : <<Header(server.req, ok)>> \in Seq(Unit)
        BY UnitTypes DEF LinkTypeOK
      <3>. QED  BY <1>5, <3>1, SendsType
    <2>2. /\ server' \in [phase : {"listen", "head", "data"}, req : Request, done : 0 .. LongestRequest,
                          writes : {0, 1}, flushed : {0, 1}]
          /\ server'.phase = "head"
      <3>1. 0 \in 0 .. LongestRequest /\ NoRequest \in Request
        BY WrbpAssumption, UnitTypes
      <3>. QED  BY <1>5, <3>1 DEF LinkTypeOK
    <2>. QED  BY <1>0, <1>1, <1>3, <1>5, <2>1, <2>2 DEF LinkTypeOK
  <1>6. CASE SessionEnd(FALSE) /\ UNCHANGED s2c
    BY <1>0, <1>1, <1>6, ClosesType DEF SessionEnd, LinkTypeOK
  <1>. QED  BY <1>4, <1>5, <1>6 DEF ServeData

\* Types: the ways a session ends.
LEMMA ServeEndType ==
  ASSUME LinkTypeOK, ServeTime \/ BadMagic \/ ServerRecvFails
  PROVE  LinkTypeOK'
  <1>1. /\ \E orderly \in BOOLEAN : SessionEnd(orderly)
        /\ UNCHANGED <<image, client, answer, acked, stamp, sessions, timeouts>>
    BY DEF ServeTime, BadMagic, ServerRecvFails
  <1>2. s2c' \in Seq(Unit)
    <2>1. CASE ServeTime
      <3>1. <<Header(Asked(c2s[1]), 1)>> \in Seq(Unit)
        BY <2>1, TailOf, UnitTypes DEF ServeTime, LinkTypeOK
      <3>. QED  BY <2>1, <3>1, SendsType DEF ServeTime
    <2>2. CASE BadMagic \/ ServerRecvFails
      BY <2>2 DEF BadMagic, ServerRecvFails, LinkTypeOK
    <2>. QED  BY <2>1, <2>2
  <1>3. image' \in [Sector -> Content]
    BY <1>1 DEF LinkTypeOK
  <1>. QED  BY <1>1, <1>2, <1>3, ClosesType DEF SessionEnd, LinkTypeOK

\* Types are kept by every step.
LEMMA LinkStepType == LinkTypeOK /\ [Next]_vars => LinkTypeOK'
  <1>1. SUFFICES ASSUME LinkTypeOK, [Next]_vars PROVE LinkTypeOK'
    OBVIOUS
  <1>2. CASE UNCHANGED vars
    BY <1>1, <1>2 DEF vars, wire, disk, LinkTypeOK
  <1>3. CASE Next
    BY <1>1, <1>3, ConnectType, SendType, RecvType, EndType, ServeHeaderType, ServeDataType,
       ServeEndType DEF Next
  <1>. QED  BY <1>1, <1>2, <1>3

-----------------------------------------------------------------------------
(***************************************************************************)
(* What is promised.                                                       *)
(***************************************************************************)
\* Promises, acknowledgements and contents are numbers.
LEMMA PromisedType ==
  ASSUME LinkTypeOK, NEW s \in Sector
  PROVE  /\ Promised(s) \in Stamp /\ Promised(s) \in Int /\ acked[s] \in Int
         /\ image[s] \in Int /\ durable[s] \in Int
  <1>1. client.req.stamp \in Stamp /\ acked[s] \in Stamp
    BY UnitTypes DEF LinkTypeOK
  <1>2. Stamp \subseteq Int /\ Content \subseteq Int
    BY BlockCallsAssumption DEF Stamp, Content, Junk
  <1>. QED  BY <1>1, <1>2 DEF Promised, LinkTypeOK

\* Nothing but an answer to a WRITE on its way makes a difference.
LEMMA PromisedAcked ==
  ASSUME s2c = <<>> \/ client.phase # "answer" \/ client.req.op # "write", NEW s
  PROVE  Promised(s) = acked[s]
  BY DEF Promised

\* A promise is never less than what was acknowledged.
LEMMA PromisedAtLeast ==
  ASSUME LinkTypeOK, NEW r \in Request, InStep(r), NEW s \in Sector
  PROVE  Promised(s) >= acked[s]
  <1>1. Promised(s) \in Int /\ acked[s] \in Int
    BY PromisedType
  <1>2. CASE Promised(s) = acked[s]
    BY <1>1, <1>2
  <1>3. CASE Promised(s) # acked[s]
    <2>1. client.phase = "answer" /\ client.req.op = "write" /\ Promised(s) = client.req.stamp
      BY <1>3 DEF Promised
    <2>2. r = client.req
      BY <2>1 DEF InStep, Waiting
    <2>. QED  BY <2>1, <2>2 DEF InStep, Proper
  <1>. QED  BY <1>2, <1>3

\* The medium keeps its promises while no new ones are made, and keeps all of them when the
\* image is brought there.
LEMMA MediumStays ==
  ASSUME LinkTypeOK, LinkTypeOK', InImage',
         \A s \in Sector : Promised(s)' <= Promised(s),
         durable' = durable \/ durable' = image'
  PROVE  /\ OnMedium => OnMedium'
         /\ durable' = image' => OnMedium'
  <1>1. \A s \in Sector : Promised(s) \in Int /\ durable[s] \in Int
    BY PromisedType
  <1>2. \A s \in Sector : image'[s] >= Promised(s)'
    BY DEF InImage
  <1>3. \A s \in Sector : Promised(s)' \in Int
    <2>1. client'.req \in Request /\ acked' \in [Sector -> Stamp]
      BY DEF LinkTypeOK
    <2>2. client'.req.stamp \in Stamp /\ Stamp \subseteq Int
      BY <2>1, UnitTypes, BlockCallsAssumption DEF Stamp
    <2>. QED  BY <2>1, <2>2 DEF Promised
  <1>4. durable' = image' => OnMedium'
    BY <1>2 DEF OnMedium
  <1>5. ASSUME OnMedium, durable' = durable, NEW s \in Sector
        PROVE  durable'[s] >= Promised(s)'
    BY <1>1, <1>3, <1>5 DEF OnMedium
  <1>. QED  BY <1>4, <1>5 DEF OnMedium

-----------------------------------------------------------------------------
(***************************************************************************)
(* The client's steps.                                                     *)
(***************************************************************************)
\* A whole request in an empty stream is unread.
LEMMA FreshRequest ==
  ASSUME NEW r \in Request, c2s' = Units(r), server'.phase = "head"
  PROVE  Unread(r)' /\ c2s' # <<>>
  <1>1. Payload(r) \in Nat
    BY PayloadType, WrbpAssumption
  <1>. QED  BY <1>1, UnitsOf DEF Unread

\* A new connection: one request, not yet read, in empty streams.
LEMMA ConnectStep ==
  ASSUME LinkTypeOK, LinkTypeOK', Coupled, NEW op \in {"hello", "time"}, Connect(op)
  PROVE  Coupled'
  <1> DEFINE r == [NoRequest EXCEPT !.op = op]
  <1>1. r \in Request /\ r.op = op
    BY UnitTypes DEF NoRequest, Request
  <1>2. /\ client' = [phase |-> "answer", req |-> r, got |-> <<>>] /\ c2s' = Units(r)
        /\ link' = "up" /\ s2c' = <<>> /\ answer' = NoAnswer
        /\ client.phase = "off" /\ server.phase = "listen"
        /\ server'.phase = "head" /\ server'.flushed = server.flushed /\ server'.writes = 0
        /\ UNCHANGED <<image, durable, acked, stamp>>
    BY DEF Connect, disk, LinkTypeOK
  <1>. HIDE DEF r
  <1>3. Unread(r)' /\ c2s' # <<>>
    BY <1>1, <1>2, FreshRequest
  <1>4. InStep(r)'
    BY <1>1, <1>2, <1>3 DEF InStep, Proper, Waiting, OnItsWay
  <1>5. Lines'
    BY <1>2 DEF Lines
  <1>6. \A s \in Sector : Promised(s)' = acked[s] /\ Promised(s) = acked[s]
    BY <1>2 DEF Promised
  <1>7. InImage' /\ (OnMedium => OnMedium')
    BY <1>2, <1>6 DEF Coupled, InImage, OnMedium
  <1>8. Kept'
    BY <1>2, <1>7 DEF Coupled, Kept, NoAnswer
  <1>9. Told'
    BY <1>2 DEF Told, Waiting, NoAnswer
  <1>. QED  BY <1>1, <1>4, <1>5, <1>7, <1>8, <1>9 DEF Coupled

\* A request is sent only when nothing of the last one is left.
LEMMA SendStep ==
  ASSUME LinkTypeOK, LinkTypeOK', Coupled, Send
  PROVE  Coupled'
  <1>1. PICK r \in Requests(Lesser(stamp + 1, MaxStamp)) :
          /\ Ask(r) /\ link = "up"
          /\ client' = [phase |-> "answer", req |-> r, got |-> <<>>]
          /\ c2s' = c2s \o Units(r)
          /\ answer' = NoAnswer
          /\ UNCHANGED <<link, s2c, server, disk, acked, sessions, timeouts>>
    BY DEF Send
  <1>2. /\ r \in Request /\ r.op \in {"ping", "read", "write", "flush"}
        /\ client.phase = "idle" /\ stamp' \in Stamp /\ stamp' >= stamp
        /\ r.op = "write" => r.n > 0 /\ r.stamp = stamp + 1 /\ stamp' = stamp + 1
        /\ r.op = "read" => r.n > 0
    BY <1>1, AskType
  <1>3. c2s = <<>> /\ s2c = <<>> /\ server.phase = "head"
    BY <1>1, <1>2 DEF Coupled, Lines, Quiet, InStep, Waiting, LinkTypeOK
  <1>4. c2s' = Units(r)
    BY <1>1, <1>2, <1>3, UnitsOf, NothingBefore
  <1>5. Unread(r)' /\ c2s' # <<>>
    BY <1>1, <1>2, <1>3, <1>4, FreshRequest
  <1>6. /\ stamp \in Int /\ stamp' \in Int /\ MaxStamp \in Int
        /\ \A s \in Sector : acked[s] \in Int /\ acked[s] <= stamp
    BY PromisedType, BlockCallsAssumption DEF Coupled, InImage, LinkTypeOK, Stamp
  <1>7. InStep(r)'
    <2>1. Proper(r)'
      BY <1>1, <1>2, <1>6 DEF Proper
    <2>2. s2c' = <<>>
      BY <1>1, <1>3
    <2>. QED  BY <1>1, <1>2, <1>5, <2>1, <2>2 DEF InStep, Waiting, OnItsWay
  <1>8. Lines'
    BY <1>1, <1>3 DEF Lines
  <1>9. \A s \in Sector : Promised(s)' = acked[s] /\ Promised(s) = acked[s]
    BY <1>1, <1>2, <1>3 DEF Promised
  <1>10. InImage' /\ (OnMedium => OnMedium')
    BY <1>1, <1>2, <1>6, <1>9 DEF Coupled, InImage, OnMedium, disk
  <1>11. Kept'
    BY <1>1, <1>3, <1>10 DEF Coupled, Kept, NoAnswer
  <1>12. Told'
    BY <1>1 DEF Told, Waiting, NoAnswer
  <1>. QED  BY <1>2, <1>7, <1>8, <1>10, <1>11, <1>12 DEF Coupled

\* A request on a connection that is gone fails and leaves everything as it is.
LEMMA SendFailsStep ==
  ASSUME LinkTypeOK, LinkTypeOK', Coupled, SendFails
  PROVE  Coupled'
  <1>1. PICK q \in Requests(Lesser(stamp + 1, MaxStamp)) :
          /\ Ask(q) /\ link = "down"
          /\ answer' = [NoAnswer EXCEPT !.op = q.op, !.rc = -1]
          /\ UNCHANGED <<wire, client, server, disk, acked, sessions, timeouts>>
    BY DEF SendFails
  <1>2. client.phase = "idle" /\ stamp' >= stamp
    BY <1>1, AskType
  <1>3. PICK r \in Request : InStep(r)
    BY DEF Coupled
  <1>4. stamp \in Int /\ stamp' \in Int /\ r.stamp \in Int /\ \A s \in Sector : acked[s] \in Int
    <2>1. r.stamp \in Stamp /\ Stamp \subseteq Int
      BY <1>3, UnitTypes, BlockCallsAssumption DEF Stamp
    <2>2. stamp \in Stamp /\ stamp' \in Stamp /\ \A s \in Sector : acked[s] \in Stamp
      BY DEF LinkTypeOK
    <2>. QED  BY <2>1, <2>2
  <1>5. InStep(r)'
    <2>1. Proper(r)'
      BY <1>1, <1>2, <1>3, <1>4 DEF InStep, Proper
    <2>. QED  BY <1>1, <1>2, <1>3, <2>1 DEF InStep, Waiting, Quiet, Unread, Served, wire, disk
  <1>6. Lines'
    BY <1>1 DEF Coupled, Lines, Quiet, wire
  <1>7. \A s \in Sector : Promised(s)' = Promised(s)
    BY <1>1 DEF Promised, wire
  <1>8. InImage' /\ (OnMedium => OnMedium')
    BY <1>1, <1>2, <1>4, <1>7 DEF Coupled, InImage, OnMedium, disk
  <1>9. answer'.rc = -1 /\ answer'.op = q.op
    BY <1>1 DEF NoAnswer
  <1>10. Kept'
    BY <1>1, <1>8, <1>9 DEF Coupled, Kept, wire
  <1>11. Told'
    BY <1>1, <1>2, <1>9 DEF Told, Waiting
  <1>. QED  BY <1>5, <1>6, <1>8, <1>10, <1>11 DEF Coupled

\* What the end of a request leaves: the client waits no more, and the connection stays as it
\* is unless the client closes it.
LEMMA AfterEnds ==
  ASSUME LinkTypeOK, NEW rc, NEW data, Ends(rc, data)
  PROVE  /\ client'.phase \in {"idle", "off"} /\ client'.got = <<>>
         /\ link' = link \/ link' = "down"
         /\ link' = "up" => client'.phase = "idle"
         /\ answer'.op = client.req.op /\ answer'.rc = rc /\ answer'.first = client.req.first
         /\ answer'.data = data
         /\ ~Waiting' /\ \A s : Promised(s)' = acked'[s]
  <1>1. client'.phase \in {"idle", "off"} /\ client'.got = <<>>
    BY DEF Ends, PhaseAfter
  <1>2. link' = "up" => client'.phase = "idle"
    BY DEF Ends, PhaseAfter
  <1>3. ~Waiting' /\ \A s : Promised(s)' = acked'[s]
    BY <1>1 DEF Waiting, Promised
  <1>. QED  BY <1>1, <1>2, <1>3 DEF Ends

\* A request that ends when all of its answer has arrived, or when none will.
LEMMA EndsStep ==
  ASSUME LinkTypeOK, LinkTypeOK', Coupled, Waiting, NEW rc \in {0, -1}, NEW data,
         Ends(rc, data), s2c' = <<>>, Quiet \/ link = "down",
         UNCHANGED <<c2s, server, image, durable, stamp>>,
         \A s \in Sector : acked'[s] = acked[s] \/ acked'[s] = Promised(s),
         client.req.op = "read" /\ rc = 0 =>
           Quiet /\ \A i \in 1 .. Len(data) : data[i] = image[client.req.first + i - 1],
         client.req.op = "flush" /\ rc = 0 => client.phase = "answer" /\ s2c # <<>> /\ s2c[1].ok = 1
  PROVE  Coupled'
  <1>1. PICK r \in Request : InStep(r)
    BY DEF Coupled
  <1>2. r = client.req /\ Proper(r) /\ (Quiet \/ Unread(r) \/ Served(r))
    BY <1>1 DEF InStep
  <1>3. \A s \in Sector : Promised(s) >= acked[s] /\ Promised(s) \in Int /\ acked[s] \in Int
                          /\ image[s] \in Int /\ durable[s] \in Int
    BY <1>1, PromisedAtLeast, PromisedType
  <1>4. \A s \in Sector : Promised(s)' = acked'[s]
    BY AfterEnds
  <1>5. stamp \in Int /\ r.stamp \in Int /\ \A s \in Sector : acked[s] <= stamp
    <2>1. r.stamp \in Stamp /\ Stamp \subseteq Int
      BY <1>1, UnitTypes, BlockCallsAssumption DEF Stamp
    <2>. QED  BY <2>1 DEF Coupled, InImage, LinkTypeOK
  <1>6. \A s \in Sector : acked'[s] = acked[s] \/ (r.op = "write" /\ acked'[s] = r.stamp)
    BY <1>1 DEF Promised, InStep
  <1>7. Proper(r)'
    BY <1>1, <1>5, <1>6 DEF InStep, Proper
  <1>8. InStep(r)'
    <2>1. Quiet' \/ Unread(r)' \/ Served(r)'
      BY <1>1 DEF InStep, Quiet, Unread, Served
    <2>. QED  BY <1>7, <2>1, AfterEnds DEF InStep, Waiting
  <1>9. Lines'
    <2>1. link' = "up" => Quiet /\ link = "up"
      BY AfterEnds
    <2>. QED  BY <2>1, AfterEnds DEF Coupled, Lines, Quiet
  <1>10. InImage'
    BY <1>1, <1>2, <1>3, <1>4, <1>5, <1>6 DEF Coupled, InImage, InStep, Proper
  <1>11. OnMedium => OnMedium'
    BY <1>3, <1>4 DEF OnMedium
  <1>12. Kept'
    BY <1>11, AfterEnds DEF Coupled, Kept
  <1>13. Told'
    <2>1. Quiet => Quiet'
      BY DEF Quiet
    <2>. QED  BY <2>1, AfterEnds DEF Told
  <1>. QED  BY <1>1, <1>8, <1>9, <1>10, <1>12, <1>13 DEF Coupled

\* The header of the answer: of the client's request, and the last unit unless sectors follow.
LEMMA RecvHeaderStep ==
  ASSUME LinkTypeOK, LinkTypeOK', Coupled, RecvHeader
  PROVE  Coupled'
  <1>1. /\ client.phase = "answer" /\ s2c # <<>> /\ s2c' = Tail(s2c)
        /\ UNCHANGED <<c2s, server, image, durable, stamp, timeouts>>
    BY DEF RecvHeader, disk
  <1>2. PICK r \in Request : InStep(r)
    BY DEF Coupled
  <1>3. r = client.req /\ Quiet /\ OnItsWay(r) /\ Proper(r) /\ client.got = <<>> /\ Waiting
    BY <1>1, <1>2 DEF InStep, Waiting
  <1>4. PICK ok \in {0, 1} : s2c[1] = Header(r, ok)
    BY <1>1, <1>3 DEF OnItsWay
  <1>5. s2c[1].kind = "head" /\ s2c[1].op = r.op /\ s2c[1].ok = ok /\ s2c[1].n = r.n
    BY <1>4 DEF Header
  <1>6. HeaderOk(s2c[1]) <=> ok = 1
    BY <1>3, <1>5 DEF HeaderOk
  <1>7. /\ Len(s2c) \in Nat \ {0} /\ Len(Tail(s2c)) = Len(s2c) - 1
        /\ \A i \in 1 .. Len(s2c) - 1 : Tail(s2c)[i] = s2c[i + 1]
        /\ (Tail(s2c) = <<>>) <=> (Len(s2c) = 1)
    <2>1. s2c \in Seq(Unit) /\ s2c # <<>>
      BY <1>1 DEF LinkTypeOK
    <2>. QED  BY <2>1, TailOf
  <1>8. CASE ok = 1 /\ r.op = "read"
    <2>1. client' = [client EXCEPT !.phase = "payload"] /\ UNCHANGED <<link, answer, acked>>
      BY <1>3, <1>5, <1>6, <1>8 DEF RecvHeader
    <2>2. client'.phase = "payload" /\ client'.req = r /\ client'.got = <<>>
      BY <1>3, <2>1 DEF LinkTypeOK
    <2>3. /\ InRange(r) /\ Len(s2c) <= 1 + r.n
          /\ \A i \in 2 .. Len(s2c) : s2c[i] = Data(image[r.first + i - 2])
      BY <1>1, <1>3, <1>5, <1>8 DEF OnItsWay
    <2>4. r.n \in Nat /\ r.first \in Nat /\ r.n > 0
      BY <1>2, <1>3, <1>8, UnitTypes DEF Proper
    <2>5. Arriving(r)'
      <3>1. Len(client'.got) = 0
        BY <2>2
      <3>2. \A i \in 1 .. Len(s2c') : s2c'[i] = Data(image'[r.first + 0 + i - 1])
        <4>1. SUFFICES ASSUME NEW i \in 1 .. Len(s2c) - 1
                       PROVE  s2c'[i] = Data(image[r.first + 0 + i - 1])
          BY <1>1, <1>7
        <4>2. i + 1 \in 2 .. Len(s2c) /\ r.first + (i + 1) - 2 = r.first + 0 + i - 1
          BY <1>7, <2>4
        <4>. QED  BY <1>1, <1>7, <2>3, <4>2
      <3>. QED  BY <1>1, <1>7, <1>8, <2>2, <2>3, <2>4, <3>1, <3>2 DEF Arriving, InRange
    <2>6. Quiet' /\ Proper(r)'
      BY <1>1, <1>3, <2>1 DEF Quiet, Proper
    <2>7. InStep(r)'
      BY <1>8, <2>2, <2>5, <2>6 DEF InStep, Waiting
    <2>8. \A s \in Sector : Promised(s)' = acked[s] /\ Promised(s) = acked[s]
      BY <1>3, <1>8, <2>1, <2>2 DEF Promised
    <2>9. InImage' /\ (OnMedium => OnMedium')
      BY <1>1, <2>1, <2>8 DEF Coupled, InImage, OnMedium
    <2>10. Lines'
      BY <1>1, <2>1, <2>2 DEF Coupled, Lines, Quiet
    <2>11. Kept'
      BY <1>1, <2>1, <2>2, <2>9 DEF Coupled, Kept
    <2>12. Told'
      BY <1>3, <2>1, <2>2 DEF Coupled, Told, Waiting, NoAnswer
    <2>. QED  BY <1>2, <2>7, <2>9, <2>10, <2>11, <2>12 DEF Coupled
  <1>9. CASE ~(ok = 1 /\ r.op = "read")
    <2>1. s2c' = <<>>
      BY <1>1, <1>3, <1>5, <1>7, <1>9 DEF OnItsWay
    <2>2. Ends(IF ok = 1 THEN 0 ELSE -1, <<>>)
      BY <1>3, <1>5, <1>6, <1>9 DEF RecvHeader
    <2>3. \A s \in Sector : acked'[s] = acked[s] \/ acked'[s] = Promised(s)
      BY <1>1, <1>3, <1>5, <2>2 DEF Ends, Promised
    <2>4. \A i \in 1 .. Len(<<>>) : <<>>[i] = image[client.req.first + i - 1]
      OBVIOUS
    <2> DEFINE rc == IF ok = 1 THEN 0 ELSE -1
    <2>5. rc \in {0, -1} /\ (rc = 0 => ok = 1)
      OBVIOUS
    <2>. HIDE DEF rc
    <2>6. Ends(rc, <<>>)
      BY <2>2 DEF rc
    <2>. QED  BY <1>1, <1>3, <1>5, <2>1, <2>3, <2>4, <2>5, <2>6, EndsStep
  <1>. QED  BY <1>8, <1>9

\* A sector of the answer to a READ.
LEMMA RecvPayloadStep ==
  ASSUME LinkTypeOK, LinkTypeOK', Coupled, RecvPayload
  PROVE  Coupled'
  <1> DEFINE x == IF s2c[1].kind = "data" THEN s2c[1].stamp ELSE Junk
             got == Append(client.got, x)
  <1>1. /\ client.phase = "payload" /\ s2c # <<>> /\ s2c' = Tail(s2c)
        /\ UNCHANGED <<c2s, server, image, durable, stamp, timeouts>>
        /\ IF Len(got) < client.req.n
           THEN client' = [client EXCEPT !.got = got] /\ UNCHANGED <<link, answer, acked>>
           ELSE Ends(0, got)
    BY DEF RecvPayload, disk
  <1>2. PICK r \in Request : InStep(r)
    BY DEF Coupled
  <1>3. r = client.req /\ Quiet /\ Arriving(r) /\ Proper(r) /\ Waiting
    BY <1>1, <1>2 DEF InStep, Waiting
  <1>4. /\ Len(s2c) \in Nat \ {0} /\ Len(Tail(s2c)) = Len(s2c) - 1
        /\ \A i \in 1 .. Len(s2c) - 1 : Tail(s2c)[i] = s2c[i + 1]
        /\ (Tail(s2c) = <<>>) <=> (Len(s2c) = 1)
    <2>1. s2c \in Seq(Unit) /\ s2c # <<>>
      BY <1>1 DEF LinkTypeOK
    <2>. QED  BY <2>1, TailOf
  <1>5. r.n \in Nat /\ r.first \in Nat /\ Len(client.got) \in Nat /\ client.got \in Seq(Content)
    BY <1>2, UnitTypes, LenProperties DEF LinkTypeOK
  <1>6. x = image[r.first + Len(client.got)]
    <2>1. s2c[1] = Data(image[r.first + Len(client.got) + 1 - 1])
      BY <1>3, <1>4 DEF Arriving
    <2>2. r.first + Len(client.got) + 1 - 1 = r.first + Len(client.got)
      BY <1>5
    <2>. QED  BY <2>1, <2>2 DEF Data
  <1>7. x \in Content
    <2>1. r.first + Len(client.got) \in Sector
      BY <1>3, <1>5, BlockCallsAssumption DEF Arriving, InRange, Sector
    <2>2. image \in [Sector -> Content]
      BY DEF LinkTypeOK
    <2>. QED  BY <1>6, <2>1, <2>2
  <1>. HIDE DEF x
  <1>8. /\ Len(got) = Len(client.got) + 1
        /\ \A i \in 1 .. Len(client.got) : got[i] = client.got[i]
        /\ got[Len(client.got) + 1] = x
    BY <1>5, <1>7, AppendProperties
  <1>. HIDE DEF got
  <1>9. \A i \in 1 .. Len(got) : got[i] = image[r.first + i - 1]
    <2>1. SUFFICES ASSUME NEW i \in 1 .. Len(got) PROVE got[i] = image[r.first + i - 1]
      OBVIOUS
    <2>2. CASE i \in 1 .. Len(client.got)
      BY <1>3, <1>8, <2>2 DEF Arriving
    <2>3. CASE i = Len(client.got) + 1
      <3>1. r.first + i - 1 = r.first + Len(client.got)
        BY <1>5, <2>3
      <3>. QED  BY <1>6, <1>8, <2>3, <3>1
    <2>. QED  BY <1>5, <1>8, <2>2, <2>3
  <1>10. CASE Len(got) < r.n
    <2>1. client' = [client EXCEPT !.got = got] /\ UNCHANGED <<link, answer, acked>>
      BY <1>1, <1>3, <1>10
    <2>2. client'.phase = "payload" /\ client'.req = r /\ client'.got = got
      BY <1>1, <1>3, <2>1 DEF LinkTypeOK
    <2>3. \A i \in 1 .. Len(s2c') : s2c'[i] = Data(image[r.first + Len(got) + i - 1])
      <3>1. SUFFICES ASSUME NEW i \in 1 .. Len(s2c) - 1
                     PROVE  s2c'[i] = Data(image[r.first + Len(got) + i - 1])
        BY <1>1, <1>4
      <3>2. i + 1 \in 1 .. Len(s2c)
            /\ r.first + Len(client.got) + (i + 1) - 1 = r.first + Len(got) + i - 1
        <4>1. Len(got) = Len(client.got) + 1 /\ Len(s2c) \in Nat
          BY <1>4, <1>8
        <4>2. r.first \in Nat /\ Len(client.got) \in Nat
          BY <1>5
        <4>. QED  BY <4>1, <4>2
      <3>. QED  BY <1>1, <1>3, <1>4, <3>2 DEF Arriving
    <2>4. Arriving(r)'
      <3>1. Len(got) = Len(client.got) + 1 /\ Len(s2c) \in Nat /\ Len(s2c') = Len(s2c) - 1
        BY <1>1, <1>4, <1>8
      <3>2. r.op = "read" /\ InRange(r) /\ Len(client.got) + Len(s2c) <= r.n
        BY <1>3 DEF Arriving
      <3>3. Len(got) + Len(s2c') <= r.n
        BY <1>5, <3>1, <3>2
      <3>. QED  BY <1>1, <1>9, <1>10, <2>2, <2>3, <3>2, <3>3 DEF Arriving, InRange
    <2>5. Quiet' /\ Proper(r)'
      BY <1>1, <1>3, <2>1 DEF Quiet, Proper
    <2>6. InStep(r)'
      BY <1>3, <2>2, <2>4, <2>5 DEF InStep, Waiting, Arriving
    <2>7. \A s \in Sector : Promised(s)' = acked[s] /\ Promised(s) = acked[s]
      BY <1>1, <2>1, <2>2 DEF Promised
    <2>8. InImage' /\ (OnMedium => OnMedium')
      BY <1>1, <2>1, <2>7 DEF Coupled, InImage, OnMedium
    <2>9. Lines'
      BY <1>1, <2>1, <2>2 DEF Coupled, Lines, Quiet
    <2>10. Kept'
      BY <1>1, <2>1, <2>2, <2>8 DEF Coupled, Kept
    <2>11. Told'
      BY <1>3, <2>1, <2>2 DEF Coupled, Told, Waiting, NoAnswer
    <2>. QED  BY <1>2, <2>6, <2>8, <2>9, <2>10, <2>11 DEF Coupled
  <1>11. CASE ~(Len(got) < r.n)
    <2>1. Ends(0, got)
      BY <1>1, <1>3, <1>11
    <2>2. s2c' = <<>>
      <3>1. Len(got) = Len(client.got) + 1 /\ Len(s2c) \in Nat \ {0}
        BY <1>4, <1>8
      <3>2. Len(client.got) + Len(s2c) <= r.n
        BY <1>3 DEF Arriving
      <3>3. r.n \in Nat /\ Len(client.got) \in Nat /\ ~(Len(got) < r.n)
        BY <1>5, <1>11
      <3>4. Len(s2c) = 1
        <4> DEFINE a == Len(client.got)
                   b == Len(s2c)
                   n == r.n
        <4>1. a \in Nat /\ b \in Nat \ {0} /\ n \in Nat /\ a + b <= n /\ ~(a + 1 < n)
          BY <3>1, <3>2, <3>3
        <4>. HIDE DEF a, b, n
        <4>2. b = 1
          BY <4>1
        <4>. QED  BY <4>2 DEF b
      <3>. QED  BY <1>1, <1>4, <3>4
    <2>3. r.op = "read"
      BY <1>3 DEF Arriving
    <2>4. acked' = acked
      BY <1>3, <2>1, <2>3 DEF Ends
    <2>. QED  BY <1>1, <1>3, <1>9, <2>1, <2>2, <2>3, <2>4, EndsStep
  <1>. QED  BY <1>5, <1>8, <1>10, <1>11

\* A receive that fails because the connection is gone.
LEMMA RecvFailsStep ==
  ASSUME LinkTypeOK, LinkTypeOK', Coupled, RecvFails, Untimed'
  PROVE  Coupled'
  <1>1. /\ Waiting /\ s2c = <<>> /\ Ends(-1, <<>>)
        /\ UNCHANGED <<c2s, s2c, server, image, durable, stamp>>
    BY DEF RecvFails, Waiting, disk
  <1>2. link = "down"
    <2>1. ASSUME timeouts' = [timeouts EXCEPT !.recv = @ + 1] PROVE FALSE
      <3>1. timeouts \in [recv : 0 .. RecvTimeouts, send : 0 .. SendTimeouts]
        BY DEF LinkTypeOK
      <3>2. timeouts'.recv = timeouts.recv + 1 /\ timeouts.recv \in Nat
        BY <2>1, <3>1, WrbpAssumption
      <3>. QED  BY <3>2 DEF Untimed
    <2>. QED  BY <2>1 DEF RecvFails
  <1>3. acked' = acked
    BY <1>1 DEF Ends
  <1>. QED  BY <1>1, <1>2, <1>3, EndsStep

\* A send that times out is one of the timeouts the invariant does not speak of.
LEMMA SendTimeoutStep ==
  ASSUME LinkTypeOK, SendTimeout, Untimed'
  PROVE  FALSE
  <1>1. timeouts' = [timeouts EXCEPT !.send = @ + 1]
    BY DEF SendTimeout
  <1>. QED  BY <1>1, WrbpAssumption DEF LinkTypeOK, Untimed

-----------------------------------------------------------------------------
(***************************************************************************)
(* The connection's steps.                                                 *)
(***************************************************************************)
\* A client that stops leaves the server with what it has sent.
LEMMA StopStep ==
  ASSUME LinkTypeOK, LinkTypeOK', Coupled, Stop
  PROVE  Coupled'
  <1>1. /\ client'.phase = "off" /\ answer' = NoAnswer /\ link' # "up" /\ s2c' = <<>>
        /\ UNCHANGED <<c2s, server, image, durable, acked, stamp>>
    BY DEF Stop, disk
  <1>2. PICK r \in Request : InStep(r)
    BY DEF Coupled
  <1>3. InStep(r)'
    <2>1. Proper(r)' /\ (Quiet' \/ Unread(r)' \/ Served(r)')
      BY <1>1, <1>2 DEF InStep, Proper, Quiet, Unread, Served
    <2>. QED  BY <1>1, <2>1 DEF InStep, Waiting
  <1>4. Lines'
    BY <1>1 DEF Coupled, Lines
  <1>5. \A s \in Sector : /\ Promised(s)' = acked[s] /\ acked[s] <= Promised(s)
                          /\ Promised(s) \in Int /\ acked[s] \in Int /\ image[s] \in Int /\ durable[s] \in Int
    BY <1>1, <1>2, PromisedAtLeast, PromisedType DEF Promised
  <1>6. InImage' /\ (OnMedium => OnMedium')
    BY <1>1, <1>5 DEF Coupled, InImage, OnMedium
  <1>7. Kept'
    BY <1>1, <1>6 DEF Coupled, Kept, NoAnswer
  <1>8. Told'
    BY <1>1 DEF Told, Waiting, NoAnswer
  <1>. QED  BY <1>2, <1>3, <1>4, <1>6, <1>7, <1>8 DEF Coupled

\* A connection that breaks cuts what is on its way short; what is left is still a beginning
\* of the request and of its answer.
LEMMA BreakStep ==
  ASSUME LinkTypeOK, LinkTypeOK', Coupled, Break
  PROVE  Coupled'
  <1>1. link' = "down" /\ UNCHANGED <<client, answer, server, image, durable, acked, stamp>>
    BY DEF Break, disk
  <1>2. PICK i \in 0 .. Len(c2s) : c2s' = SubSeq(c2s, 1, i)
    BY DEF Break
  <1>3. PICK j \in 0 .. Len(s2c) : s2c' = SubSeq(s2c, 1, j)
    BY DEF Break
  <1>4. /\ Len(c2s') = i /\ \A k \in 1 .. i : c2s'[k] = c2s[k]
        /\ c2s' # <<>> => c2s # <<>> /\ i > 0
    <2>1. c2s \in Seq(Unit)
      BY DEF LinkTypeOK
    <2>. QED  BY <1>2, <2>1, PrefixOf
  <1>5. /\ Len(s2c') = j /\ \A k \in 1 .. j : s2c'[k] = s2c[k]
        /\ s2c' # <<>> => s2c # <<>> /\ j > 0
    <2>1. s2c \in Seq(Unit)
      BY DEF LinkTypeOK
    <2>. QED  BY <1>3, <2>1, PrefixOf
  <1>6. Len(c2s) \in Nat /\ Len(s2c) \in Nat /\ i \in Nat /\ j \in Nat /\ i <= Len(c2s) /\ j <= Len(s2c)
    <2>1. Len(c2s) \in Nat /\ Len(s2c) \in Nat
      BY LenProperties DEF LinkTypeOK
    <2>. QED  BY <1>2, <1>3, <2>1
  <1>7. s2c' # <<>> => s2c # <<>> /\ s2c'[1] = s2c[1]
    BY <1>5, <1>6
  <1>8. PICK r \in Request : InStep(r)
    BY DEF Coupled
  <1>9. r.n \in Nat /\ Payload(r) \in Nat /\ server.done \in Nat
    BY <1>8, UnitTypes, PayloadType, WrbpAssumption DEF LinkTypeOK
  <1>10. Quiet => Quiet'
    BY <1>1, <1>4 DEF Quiet
  <1>11. Unread(r) => Quiet' \/ Unread(r)'
    <2>1. ASSUME Unread(r), c2s' # <<>> PROVE Unread(r)'
      <3>1. c2s'[1] = Header(r, 1) /\ server'.phase = "head"
        BY <1>1, <1>4, <1>6, <2>1 DEF Unread
      <3>2. Len(c2s') <= 1 + Payload(r)
        BY <1>4, <1>6, <1>9, <2>1 DEF Unread
      <3>3. \A k \in 2 .. Len(c2s') : c2s'[k] = Data(r.stamp)
        BY <1>4, <1>6, <2>1 DEF Unread
      <3>. QED  BY <2>1, <3>1, <3>2, <3>3 DEF Unread
    <2>. QED  BY <1>1, <2>1 DEF Quiet, Unread
  <1>12. Served(r) => Served(r)'
    <2>1. ASSUME Served(r) PROVE Served(r)'
      <3>1. Len(c2s') <= Payload(r) - server.done
        BY <1>4, <1>6, <1>9, <2>1 DEF Served
      <3>2. \A k \in 1 .. Len(c2s') : c2s'[k] = Data(r.stamp)
        BY <1>4, <1>6, <2>1 DEF Served
      <3>. QED  BY <1>1, <2>1, <3>1, <3>2 DEF Served
    <2>. QED  BY <2>1
  <1>13. OnItsWay(r) => OnItsWay(r)'
    <2>1. SUFFICES ASSUME OnItsWay(r), s2c' # <<>> PROVE OnItsWay(r)'
      BY DEF OnItsWay
    <2>2. s2c # <<>> /\ s2c'[1] = s2c[1] /\ j > 0
      BY <1>5, <1>7, <2>1
    <2>3. CASE r.op = "read" /\ s2c[1].ok = 1
      <3>1. Len(s2c') <= 1 + r.n /\ \A k \in 2 .. Len(s2c') : s2c'[k] = Data(image[r.first + k - 2])
        BY <1>5, <1>6, <1>9, <2>1, <2>2, <2>3 DEF OnItsWay
      <3>. QED  BY <1>1, <2>1, <2>2, <2>3, <3>1 DEF OnItsWay
    <2>4. CASE ~(r.op = "read" /\ s2c[1].ok = 1)
      <3>1. Len(s2c') = 1
        BY <1>5, <1>6, <2>1, <2>2, <2>4 DEF OnItsWay
      <3>. QED  BY <1>1, <2>1, <2>2, <2>4, <3>1 DEF OnItsWay
    <2>. QED  BY <2>3, <2>4
  <1>14. Arriving(r) => Arriving(r)'
    <2>1. ASSUME Arriving(r) PROVE Arriving(r)'
      <3>1. Len(client.got) \in Nat
        BY LenProperties DEF LinkTypeOK
      <3>2. Len(client.got) + Len(s2c) <= r.n
        BY <2>1 DEF Arriving
      <3>3. Len(client.got) + Len(s2c') <= r.n
        BY <1>5, <1>6, <1>9, <3>1, <3>2
      <3>4. \A k \in 1 .. Len(s2c') : s2c'[k] = Data(image[r.first + Len(client.got) + k - 1])
        BY <1>5, <1>6, <2>1 DEF Arriving
      <3>. QED  BY <1>1, <2>1, <3>3, <3>4 DEF Arriving, InRange
    <2>. QED  BY <2>1
  <1>15. InStep(r)'
    <2>1. Proper(r)' /\ (Waiting' <=> Waiting)
      BY <1>1, <1>8 DEF InStep, Proper, Waiting
    <2>. QED  BY <1>1, <1>7, <1>8, <1>10, <1>11, <1>12, <1>13, <1>14, <2>1 DEF InStep
  <1>16. Lines'
    BY <1>1, <1>4 DEF Coupled, Lines
  <1>17. \A s \in Sector : /\ Promised(s)' <= Promised(s) /\ Promised(s) \in Int /\ Promised(s)' \in Int
                           /\ image[s] \in Int /\ durable[s] \in Int
    <2>1. SUFFICES ASSUME NEW s \in Sector
                   PROVE  Promised(s)' = Promised(s) \/ Promised(s)' = acked[s]
      BY <1>8, PromisedAtLeast, PromisedType
    <2>. QED  BY <1>1, <1>7 DEF Promised
  <1>18. InImage' /\ (OnMedium => OnMedium')
    BY <1>1, <1>17 DEF Coupled, InImage, OnMedium
  <1>19. Kept'
    BY <1>1, <1>7, <1>18 DEF Coupled, Kept
  <1>20. Told'
    BY <1>1, <1>10 DEF Coupled, Told, Waiting
  <1>. QED  BY <1>8, <1>15, <1>16, <1>18, <1>19, <1>20 DEF Coupled

\* The server's socket notices that the client is gone; and steps that change nothing.
LEMMA NoticeStep ==
  ASSUME LinkTypeOK, Coupled,
         link' = "down" \/ link' = link,
         UNCHANGED <<c2s, s2c, client, answer, server, image, durable, acked, stamp>>
  PROVE  Coupled'
  <1>1. PICK r \in Request : InStep(r)
    BY DEF Coupled
  <1>2. InStep(r)'
    <2>1. Proper(r)' /\ (Waiting' <=> Waiting) /\ (Quiet' <=> Quiet)
      BY <1>1 DEF InStep, Proper, Waiting, Quiet
    <2>2. (Unread(r)' <=> Unread(r)) /\ (Served(r)' <=> Served(r)) /\ (OnItsWay(r)' <=> OnItsWay(r))
          /\ (Arriving(r)' <=> Arriving(r))
      BY DEF Unread, Served, OnItsWay, Arriving
    <2>. QED  BY <1>1, <2>1, <2>2 DEF InStep
  <1>3. Lines'
    BY DEF Coupled, Lines, Quiet
  <1>4. \A s \in Sector : Promised(s)' = Promised(s)
    BY DEF Promised
  <1>5. InImage' /\ (OnMedium => OnMedium')
    BY <1>4 DEF Coupled, InImage, OnMedium
  <1>6. Kept' /\ Told'
    BY <1>5 DEF Coupled, Kept, Told, Waiting, Quiet
  <1>. QED  BY <1>1, <1>2, <1>3, <1>5, <1>6 DEF Coupled

-----------------------------------------------------------------------------
(***************************************************************************)
(* The server's steps.                                                     *)
(***************************************************************************)
\* While the server has not done with a request nothing is on its way back, and at the other
\* end of the connection the client waits for the answer to that request.
LEMMA Busy ==
  ASSUME LinkTypeOK, Coupled, NEW r \in Request, InStep(r), ~Quiet
  PROVE  /\ s2c = <<>> /\ client.phase # "payload"
         /\ link = "up" => client.phase = "answer" /\ Waiting
         /\ Waiting => client.req = r /\ answer = NoAnswer
         /\ ~(answer.op = "read" /\ answer.rc = 0)
  <1>1. s2c = <<>> /\ client.phase # "payload" /\ (Waiting => client.req = r)
    BY DEF InStep
  <1>2. link = "up" => client.phase = "answer"
    BY <1>1 DEF Coupled, Lines, LinkTypeOK
  <1>3. ~(answer.op = "read" /\ answer.rc = 0) /\ (Waiting => answer = NoAnswer)
    BY DEF Coupled, Told
  <1>. QED  BY <1>1, <1>2, <1>3 DEF Waiting

\* The server has done with the request, and the answer is on its way if there is a connection.
LEMMA RequestDone ==
  ASSUME LinkTypeOK, Coupled, NEW r \in Request, InStep(r), ~Quiet,
         c2s' = <<>>, server'.phase # "data", UNCHANGED <<client, answer, acked, stamp>>,
         link' = link \/ link' = "down", link' = "up" => server'.phase # "listen",
         s2c' = <<>> \/ (link = "up" /\ OnItsWay(r)')
  PROVE  InStep(r)' /\ Lines' /\ Told'
  <1>1. Quiet' /\ Proper(r)' /\ (Waiting' <=> Waiting)
    BY DEF Quiet, InStep, Proper, Waiting
  <1>2. InStep(r)'
    <2>1. OnItsWay(r)'
      BY DEF OnItsWay
    <2>2. s2c' # <<>> => Waiting'
      BY <1>1, Busy
    <2>3. Waiting' => r = client'.req /\ r.op # "none"
      BY <1>1 DEF InStep
    <2>4. client'.phase = "answer" => client'.got = <<>>
      BY DEF InStep
    <2>. QED  BY <1>1, <2>1, <2>2, <2>3, <2>4, Busy DEF InStep
  <1>3. Lines'
    BY <1>1, Busy DEF Coupled, Lines
  <1>4. Told'
    BY <1>1, Busy DEF Coupled, Told
  <1>. QED  BY <1>2, <1>3, <1>4

\* A session that ends leaves the medium with all that was promised, unless its flush failed.
LEMMA CloseKept ==
  ASSUME LinkTypeOK, LinkTypeOK', Coupled, NEW orderly, SessionEnd(orderly), InImage',
         \A s \in Sector : Promised(s)' <= Promised(s), UNCHANGED <<client, answer>>,
         s2c' = s2c \/ client.req.op # "flush"
  PROVE  Kept'
  <1>1. PICK done \in FlushOutcomes :
          /\ server' = [server EXCEPT !.phase = "listen", !.req = NoRequest, !.done = 0,
                          !.flushed = IF ~ReadOnly /\ server.writes > 0 THEN done ELSE @]
          /\ IF ~ReadOnly /\ server.writes > 0 THEN FlushImage(done) ELSE UNCHANGED durable
    BY DEF SessionEnd, Closes
  <1>2. /\ server'.flushed = IF ~ReadOnly /\ server.writes > 0 THEN done ELSE server.flushed
        /\ server'.phase = "listen"
    BY <1>1 DEF LinkTypeOK
  <1>3. durable' = durable \/ durable' = image'
    BY <1>1 DEF FlushImage
  <1>4. (OnMedium => OnMedium') /\ (durable' = image' => OnMedium')
    BY <1>3, MediumStays
  <1>5. server'.flushed = 1 => OnMedium'
    <2>1. CASE ~ReadOnly /\ server.writes > 0
      BY <1>1, <1>2, <1>4, <2>1 DEF FlushImage
    <2>2. CASE ReadOnly
      BY <1>4, <2>2 DEF Coupled, Kept
    <2>3. CASE server.writes = 0
      BY <1>2, <1>4, <2>3 DEF Coupled, Kept
    <2>4. server.writes \in {0, 1}
      BY DEF LinkTypeOK
    <2>. QED  BY <2>1, <2>2, <2>3, <2>4
  <1>. QED  BY <1>2, <1>4, <1>5 DEF Coupled, Kept

\* What a session's end changes but the medium.
LEMMA Closed ==
  ASSUME LinkTypeOK, NEW orderly, SessionEnd(orderly)
  PROVE  link' = "down" /\ c2s' = <<>> /\ server'.phase = "listen"
  BY DEF SessionEnd, Closes, LinkTypeOK

\* A header in the stream is that of the request, and nothing follows it unless the request has
\* a payload.
LEMMA HeaderRead ==
  ASSUME LinkTypeOK, Coupled, NEW r \in Request, InStep(r), server.phase = "head", c2s # <<>>
  PROVE  /\ ~Quiet /\ Unread(r)
         /\ c2s[1].kind = "head" /\ c2s[1].op = r.op
         /\ Asked(c2s[1]) = [r EXCEPT !.stamp = 0]
         /\ \A ok : Header(Asked(c2s[1]), ok) = Header(r, ok)
         /\ r.op \notin {"write", "ping"} => Tail(c2s) = <<>>
         /\ Len(Tail(c2s)) <= Payload(r) /\ \A i \in 1 .. Len(Tail(c2s)) : Tail(c2s)[i] = Data(r.stamp)
  <1>1. ~Quiet /\ Unread(r)
    BY DEF Quiet, InStep, Served
  <1>2. c2s[1] = Header(r, 1)
    BY <1>1 DEF Unread
  <1>3. c2s[1].kind = "head" /\ c2s[1].op = r.op /\ c2s[1].first = r.first /\ c2s[1].n = r.n
    BY <1>2 DEF Header
  <1>4. Asked(c2s[1]) = [r EXCEPT !.stamp = 0]
    BY <1>3 DEF Asked, Request
  <1>5. \A ok : Header(Asked(c2s[1]), ok) = Header(r, ok)
    BY <1>3 DEF Asked, Header
  <1>6. /\ Len(c2s) \in Nat \ {0} /\ Len(Tail(c2s)) = Len(c2s) - 1
        /\ \A i \in 1 .. Len(c2s) - 1 : Tail(c2s)[i] = c2s[i + 1]
        /\ (Tail(c2s) = <<>>) <=> (Len(c2s) = 1)
    <2>1. c2s \in Seq(Unit)
      BY DEF LinkTypeOK
    <2>. QED  BY <2>1, TailOf
  <1>7. Payload(r) \in Nat /\ Len(c2s) <= 1 + Payload(r)
        /\ \A i \in 2 .. Len(c2s) : c2s[i] = Data(r.stamp)
    BY <1>1, PayloadType, WrbpAssumption DEF Unread
  <1>8. r.op \notin {"write", "ping"} => Tail(c2s) = <<>>
    <2>1. r.op \notin {"write", "ping"} => Payload(r) = 0
      BY DEF Payload
    <2>. QED  BY <1>6, <1>7, <2>1
  <1>9. \A i \in 1 .. Len(Tail(c2s)) : Tail(c2s)[i] = Data(r.stamp)
    BY <1>6, <1>7
  <1>10. Len(Tail(c2s)) <= Payload(r)
    BY <1>6, <1>7
  <1>. QED  BY <1>1, <1>3, <1>4, <1>5, <1>8, <1>9, <1>10

\* The answer to a request without payload.
LEMMA AnswerAtOnce ==
  ASSUME LinkTypeOK, Coupled, NEW r \in Request, InStep(r), server.phase = "head", c2s # <<>>,
         ServedAtOnce(c2s[1], Asked(c2s[1])), UNCHANGED image
  PROVE  /\ r.op \in {"hello", "read", "flush"}
         /\ durable' = durable \/ durable' = image'
         /\ \E units \in Seq(Unit), ok \in {0, 1} :
              /\ Answers(units) /\ units # <<>> /\ units[1] = Header(r, ok)
              /\ IF r.op = "read" /\ ok = 1
                 THEN /\ InRange(r) /\ Len(units) = 1 + r.n
                      /\ \A i \in 2 .. 1 + r.n : units[i] = Data(image[r.first + i - 2])
                 ELSE Len(units) = 1
              /\ r.op = "flush" /\ StrictFlush /\ ok = 1 => durable' = image' \/ ReadOnly
  <1> DEFINE q == Asked(c2s[1])
  <1>1. c2s[1].op = r.op /\ q = [r EXCEPT !.stamp = 0] /\ \A ok : Header(q, ok) = Header(r, ok)
    BY HeaderRead
  <1>2. q.op = r.op /\ q.n = r.n /\ q.first = r.first
    BY <1>1 DEF Request
  <1>3. (InRange(q) <=> InRange(r)) /\ Sectors(q) = Sectors(r)
    BY <1>2 DEF InRange, Sectors
  <1>4. ServedAtOnce(c2s[1], q)
    OBVIOUS
  <1>. HIDE DEF q
  <1>5. r.op \in {"hello", "read", "flush"}
    BY <1>1, <1>4 DEF ServedAtOnce
  <1>6. durable' = durable \/ durable' = image'
    BY <1>4 DEF ServedAtOnce, FlushImage
  <1>7. \A ok \in {0, 1} : /\ <<Header(r, ok)>> \in Seq(Unit) /\ <<Header(r, ok)>> # <<>>
                           /\ <<Header(r, ok)>>[1] = Header(r, ok) /\ Len(<<Header(r, ok)>>) = 1
    <2>1. \A ok \in {0, 1} : Header(r, ok) \in Unit
      BY UnitTypes
    <2>. QED  BY <2>1
  <1>8. CASE r.op = "hello"
    <2>1. Answers(<<Header(r, 1)>>)
      BY <1>1, <1>4, <1>8 DEF ServedAtOnce
    <2>. QED  BY <1>5, <1>6, <1>7, <1>8, <2>1
  <1>9. CASE r.op = "read" /\ InRange(r) /\ r.n <= MaxSectors
    <2> DEFINE units == <<Header(r, 1)>> \o Sectors(r)
    <2>1. Answers(units)
      BY <1>1, <1>2, <1>3, <1>4, <1>9 DEF ServedAtOnce
    <2>2. /\ Sectors(r) \in Seq(Unit) /\ Len(Sectors(r)) = r.n /\ Header(r, 1) \in Unit
          /\ \A i \in 1 .. r.n : Sectors(r)[i] = Data(image[r.first + i - 1])
      BY <1>9, SectorsOf, UnitTypes DEF LinkTypeOK
    <2>3. /\ units \in Seq(Unit) /\ Len(units) = 1 + r.n /\ units # <<>> /\ units[1] = Header(r, 1)
          /\ \A i \in 2 .. 1 + r.n : units[i] = Sectors(r)[i - 1]
      BY <2>2, ConsOf
    <2>. HIDE DEF units
    <2>4. \A i \in 2 .. 1 + r.n : units[i] = Data(image[r.first + i - 2])
      <3>1. r.n \in Nat /\ r.first \in Nat
        BY UnitTypes
      <3>2. ASSUME NEW i \in 2 .. 1 + r.n PROVE units[i] = Data(image[r.first + i - 2])
        <4>1. i - 1 \in 1 .. r.n /\ r.first + (i - 1) - 1 = r.first + i - 2
          BY <3>1
        <4>. QED  BY <2>2, <2>3, <4>1
      <3>. QED  BY <3>2
    <2>. QED  BY <1>5, <1>6, <1>9, <2>1, <2>3, <2>4
  <1>10. CASE r.op = "read" /\ ~(InRange(r) /\ r.n <= MaxSectors)
    <2>1. Answers(<<Header(r, 0)>>)
      BY <1>1, <1>2, <1>3, <1>4, <1>10 DEF ServedAtOnce
    <2>. QED  BY <1>5, <1>6, <1>7, <1>10, <2>1
  <1>11. CASE r.op = "flush"
    <2>1. PICK ok \in {0, 1} :
            Answers(<<Header(q, ok)>>) /\ (StrictFlush /\ ok = 1 => durable' = image' \/ ReadOnly)
      BY <1>1, <1>4, <1>11 DEF ServedAtOnce, FlushImage
    <2>2. Answers(<<Header(r, ok)>>)
      BY <1>1, <2>1
    <2>. QED  BY <1>5, <1>6, <1>7, <1>11, <2>1, <2>2
  <1>. QED  BY <1>5, <1>8, <1>9, <1>10, <1>11

\* A header is answered at once, or the server goes on to the payload.
LEMMA ServeHeaderStep ==
  ASSUME LinkTypeOK, LinkTypeOK', Coupled, ServeHeader
  PROVE  Coupled'
  <1>1. /\ server.phase = "head" /\ c2s # <<>>
        /\ UNCHANGED <<image, client, answer, acked, stamp>>
    BY ServeHeaderCases
  <1>2. PICK r \in Request : InStep(r)
    BY DEF Coupled
  <1>3. ~Quiet /\ s2c = <<>> /\ (link = "up" => client.phase = "answer" /\ client.req = r)
    BY <1>1, <1>2, HeaderRead, Busy
  <1>4. \A s \in Sector : Promised(s) = acked[s]
    BY <1>3 DEF Promised
  <1>5. CASE ServedAtOnce(c2s[1], Asked(c2s[1]))
    <2>1. /\ r.op \in {"hello", "read", "flush"}
          /\ durable' = durable \/ durable' = image'
      BY <1>1, <1>2, <1>5, AnswerAtOnce
    <2>2. PICK units \in Seq(Unit), ok \in {0, 1} :
              /\ Answers(units) /\ units # <<>> /\ units[1] = Header(r, ok)
              /\ IF r.op = "read" /\ ok = 1
                 THEN /\ InRange(r) /\ Len(units) = 1 + r.n
                      /\ \A i \in 2 .. 1 + r.n : units[i] = Data(image[r.first + i - 2])
                 ELSE Len(units) = 1
              /\ r.op = "flush" /\ StrictFlush /\ ok = 1 => durable' = image' \/ ReadOnly
      BY <1>1, <1>2, <1>5, AnswerAtOnce
    <2>3. /\ s2c' = IF link = "up" THEN units ELSE <<>>
          /\ link' = link /\ server'.phase = "head" /\ server'.writes = server.writes
          /\ server'.flushed = server.flushed
      <3>1. <<>> \o units = units
        BY <2>2, NothingBefore
      <3>. QED  BY <1>3, <2>2, <3>1 DEF Answers, SendsOk, LinkTypeOK
    <2>4. c2s' = <<>>
      BY <1>1, <1>2, <1>5, <2>1, HeaderRead DEF ServedAtOnce
    <2>5. units[1].ok = ok
      BY <2>2 DEF Header
    <2>6. s2c' = <<>> \/ (link = "up" /\ OnItsWay(r)')
      <3>1. ASSUME link = "up" PROVE OnItsWay(r)'
        <4>1. s2c' = units
          BY <2>3, <3>1
        <4>2. CASE r.op = "read" /\ ok = 1
          <5>1. Len(units) = 1 + r.n /\ \A i \in 2 .. Len(units) : units[i] = Data(image'[r.first + i - 2])
            BY <1>1, <2>2, <4>2
          <5>2. Len(units) <= 1 + r.n
            BY <1>2, <5>1, UnitTypes
          <5>. QED  BY <2>2, <2>5, <4>1, <4>2, <5>1, <5>2 DEF OnItsWay, InRange
        <4>3. CASE ~(r.op = "read" /\ ok = 1)
          BY <2>1, <2>2, <2>5, <4>1, <4>3 DEF OnItsWay
        <4>. QED  BY <4>2, <4>3
      <3>. QED  BY <2>3, <3>1
    <2>7. InStep(r)' /\ Lines' /\ Told'
      BY <1>1, <1>2, <1>3, <2>3, <2>4, <2>6, RequestDone
    <2>8. \A s \in Sector : Promised(s)' = acked[s]
      BY <1>1, <1>3, <2>1, <2>3 DEF Promised
    <2>9. InImage'
      BY <1>1, <1>4, <2>8 DEF Coupled, InImage
    <2>10. \A s \in Sector : Promised(s)' <= Promised(s)
      BY <1>4, <2>8, PromisedType
    <2>11. (OnMedium => OnMedium') /\ (durable' = image' => OnMedium')
      BY <2>1, <2>9, <2>10, MediumStays
    <2>12. s2c' # <<>> /\ s2c'[1].ok = 1 => ok = 1 /\ link = "up"
      BY <2>3, <2>5
    <2>13. Kept'
      BY <1>1, <1>3, <2>2, <2>3, <2>11, <2>12 DEF Coupled, Kept
    <2>. QED  BY <1>2, <2>7, <2>9, <2>13 DEF Coupled
  <1>6. CASE /\ c2s[1].op \in {"write", "ping"} /\ c2s' = Tail(c2s)
             /\ server' = [server EXCEPT !.phase = "data", !.req = Asked(c2s[1]), !.done = 0]
             /\ UNCHANGED <<link, s2c, durable>>
    <2>1. /\ r.op \in {"write", "ping"} /\ Asked(c2s[1]) = [r EXCEPT !.stamp = 0]
          /\ Len(c2s') <= Payload(r) /\ \A i \in 1 .. Len(c2s') : c2s'[i] = Data(r.stamp)
      BY <1>1, <1>2, <1>6, HeaderRead
    <2>2. /\ server'.phase = "data" /\ server'.req = [r EXCEPT !.stamp = 0] /\ server'.done = 0
          /\ server'.writes = server.writes /\ server'.flushed = server.flushed
      BY <1>6, <2>1 DEF LinkTypeOK
    <2>3. Payload(r) \in Nat /\ Payload(r) > 0
      <3>1. r.op = "write" => r.n > 0
        BY <1>2 DEF InStep, Proper
      <3>. QED  BY <1>2, <2>1, <3>1, PayloadType, UnitTypes, WrbpAssumption DEF Payload
    <2>4. Served(r)'
      <3>1. Len(c2s') <= Payload(r) - 0 /\ 0 < Payload(r)
        BY <2>1, <2>3
      <3>2. r.first \in Nat
        BY <1>2, UnitTypes
      <3>3. r.first .. r.first + 0 - 1 = {}
        BY <3>2
      <3>. QED  BY <2>1, <2>2, <3>1, <3>3 DEF Served
    <2>5. ~Quiet' /\ (Waiting' <=> Waiting) /\ Proper(r)' /\ s2c' = <<>>
      BY <1>1, <1>2, <1>3, <1>6, <2>2 DEF Quiet, Waiting, InStep, Proper
    <2>6. InStep(r)'
      <3>1. OnItsWay(r)' /\ client'.phase # "payload"
        BY <1>1, <1>2, <1>3, <2>5, Busy DEF OnItsWay
      <3>2. client'.phase = "answer" => client'.got = <<>>
        BY <1>1, <1>2 DEF InStep
      <3>. QED  BY <1>1, <1>2, <2>4, <2>5, <3>1, <3>2 DEF InStep
    <2>7. Lines'
      BY <1>1, <1>3, <1>6, <2>2 DEF Coupled, Lines
    <2>8. \A s \in Sector : Promised(s)' = Promised(s)
      BY <1>1, <1>6 DEF Promised
    <2>9. InImage' /\ (OnMedium => OnMedium')
      BY <1>1, <1>6, <2>8 DEF Coupled, InImage, OnMedium
    <2>10. Kept'
      BY <1>1, <1>6, <2>2, <2>9 DEF Coupled, Kept
    <2>11. Told'
      BY <1>1, <1>2, <1>3, <2>5, Busy DEF Coupled, Told
    <2>. QED  BY <1>2, <2>6, <2>7, <2>9, <2>10, <2>11 DEF Coupled
  <1>. QED  BY <1>5, <1>6, ServeHeaderCases

\* TIME is answered, and the session ends.
LEMMA ServeTimeStep ==
  ASSUME LinkTypeOK, LinkTypeOK', Coupled, ServeTime
  PROVE  Coupled'
  <1>1. /\ server.phase = "head" /\ c2s # <<>> /\ c2s[1].op = "time"
        /\ SendsOk(<<Header(Asked(c2s[1]), 1)>>) /\ SessionEnd(TRUE)
        /\ UNCHANGED <<image, client, answer, acked, stamp>>
    BY DEF ServeTime
  <1>2. PICK r \in Request : InStep(r)
    BY DEF Coupled
  <1>3. /\ ~Quiet /\ s2c = <<>> /\ (link = "up" => client.phase = "answer" /\ client.req = r)
        /\ r.op = "time" /\ Header(Asked(c2s[1]), 1) = Header(r, 1)
    BY <1>1, <1>2, HeaderRead, Busy
  <1>4. link' = "down" /\ c2s' = <<>> /\ server'.phase = "listen"
    BY <1>1, Closed
  <1>5. s2c' = IF link = "up" THEN <<Header(r, 1)>> ELSE <<>>
    <2>1. <<Header(r, 1)>> \in Seq(Unit)
      BY <1>2, UnitTypes
    <2>2. <<>> \o <<Header(r, 1)>> = <<Header(r, 1)>>
      BY <2>1, NothingBefore
    <2>. QED  BY <1>1, <1>3, <2>2 DEF SendsOk
  <1>6. s2c' = <<>> \/ (link = "up" /\ OnItsWay(r)')
    <2>1. ASSUME link = "up" PROVE OnItsWay(r)'
      <3>1. s2c' = <<Header(r, 1)>> /\ s2c'[1] = Header(r, 1) /\ Len(s2c') = 1
        BY <1>5, <2>1
      <3>. QED  BY <1>3, <3>1 DEF OnItsWay
    <2>. QED  BY <1>5, <2>1
  <1>7. InStep(r)' /\ Lines' /\ Told'
    BY <1>1, <1>2, <1>3, <1>4, <1>6, RequestDone
  <1>8. \A s \in Sector : Promised(s)' = acked[s] /\ Promised(s) = acked[s] /\ Promised(s) \in Int
    BY <1>1, <1>3, <1>5, PromisedType DEF Promised
  <1>9. InImage'
    BY <1>1, <1>8 DEF Coupled, InImage
  <1>10. s2c' = s2c \/ client.req.op # "flush"
    BY <1>3, <1>5
  <1>11. \A s \in Sector : Promised(s)' <= Promised(s)
    BY <1>8
  <1>12. Kept'
    BY <1>1, <1>9, <1>10, <1>11, CloseKept
  <1>. QED  BY <1>2, <1>7, <1>9, <1>12 DEF Coupled

\* The client keeps to the protocol: no unit is ever taken for a header that is none.
LEMMA BadMagicStep ==
  ASSUME LinkTypeOK, Coupled, BadMagic
  PROVE  FALSE
  <1>1. PICK r \in Request : InStep(r)
    BY DEF Coupled
  <1>2. server.phase = "head" /\ c2s # <<>> /\ c2s[1].kind = "data"
    BY DEF BadMagic
  <1>. QED  BY <1>1, <1>2, HeaderRead

\* The server gives up a session, wherever it is.
LEMMA ServerRecvFailsStep ==
  ASSUME LinkTypeOK, LinkTypeOK', Coupled, ServerRecvFails
  PROVE  Coupled'
  <1>1. /\ \E orderly \in BOOLEAN : SessionEnd(orderly)
        /\ UNCHANGED <<image, s2c, client, answer, acked, stamp>>
    BY DEF ServerRecvFails
  <1>2. PICK orderly \in BOOLEAN : SessionEnd(orderly)
    BY <1>1
  <1>3. PICK r \in Request : InStep(r)
    BY DEF Coupled
  <1>4. link' = "down" /\ c2s' = <<>> /\ server'.phase = "listen"
    BY <1>2, Closed
  <1>5. InStep(r)' /\ Lines' /\ Told'
    <2>1. CASE Quiet
      <3>1. Quiet' /\ (Waiting' <=> Waiting) /\ Proper(r)'
        BY <1>1, <1>3, <1>4 DEF Quiet, Waiting, InStep, Proper
      <3>2. (OnItsWay(r)' <=> OnItsWay(r)) /\ (Arriving(r)' <=> Arriving(r))
        BY <1>1 DEF OnItsWay, Arriving
      <3>3. InStep(r)'
        BY <1>1, <1>3, <3>1, <3>2 DEF InStep
      <3>. QED  BY <1>1, <1>4, <2>1, <3>1, <3>3 DEF Coupled, Lines, Told
    <2>2. CASE ~Quiet
      <3>1. s2c' = <<>>
        BY <1>1, <1>3, <2>2, Busy
      <3>. QED  BY <1>1, <1>3, <1>4, <2>2, <3>1, RequestDone
    <2>. QED  BY <2>1, <2>2
  <1>6. \A s \in Sector : Promised(s)' = Promised(s) /\ Promised(s) \in Int
    BY <1>1, PromisedType DEF Promised
  <1>7. InImage'
    BY <1>1, <1>6 DEF Coupled, InImage
  <1>8. \A s \in Sector : Promised(s)' <= Promised(s)
    BY <1>6
  <1>9. Kept'
    BY <1>1, <1>2, <1>7, <1>8, CloseKept
  <1>. QED  BY <1>3, <1>5, <1>7, <1>9 DEF Coupled

\* What a chunk of payload does to the image: its part of the request is there, no other sector
\* changes, and a refused request changes none.
LEMMA ChunkWritten ==
  ASSUME LinkTypeOK, LinkTypeOK', NEW r \in Request, InStep(r), Served(r), ServeData
  PROVE  /\ ~Accepted(r) => image' = image
         /\ \A s \in Sector : image'[s] = image[s] \/ (Accepted(r) /\ image'[s] = r.stamp)
         /\ Accepted(r) => \A s \in r.first .. r.first + (server.done + Chunk) - 1 : image'[s] = r.stamp
  <1>1. server.req = [r EXCEPT !.stamp = 0] /\ r.op \in {"write", "ping"} /\ server.phase = "data"
    BY DEF Served
  <1>2. server.req.op = r.op /\ server.req.n = r.n /\ server.req.first = r.first
    BY <1>1 DEF Request
  <1>3. (Accepted(server.req) <=> Accepted(r)) /\ Payload(server.req) = Payload(r)
    BY <1>2 DEF Accepted, InRange, Payload
  <1>4. /\ Chunk \in Nat /\ Chunk <= Payload(r) - server.done /\ Len(c2s) >= Chunk
        /\ Payload(r) \in Nat /\ server.done \in Nat
    <2>1. server.done \in Nat /\ Payload(r) \in Nat
      BY PayloadType, WrbpAssumption DEF LinkTypeOK
    <2>2. Len(c2s) >= Chunk
      BY DEF ServeData
    <2>. QED  BY <1>1, <1>3, <2>1, <2>2, ChunkType
  <1>5. r.first \in Nat /\ r.n \in Nat /\ NbSectors \in Nat
    BY UnitTypes, BlockCallsAssumption
  <1>6. \A i \in 1 .. Chunk : c2s[i].kind = "data" /\ c2s[i].stamp = r.stamp
    <2>1. Len(c2s) \in Nat
      BY LenProperties DEF LinkTypeOK
    <2>2. \A i \in 1 .. Chunk : c2s[i] = Data(r.stamp)
      BY <1>4, <2>1 DEF Served
    <2>. QED  BY <2>2 DEF Data
  <1>7. ~Accepted(r) => image' = image
    BY <1>3 DEF ServeData
  <1>8. ASSUME Accepted(r), NEW s \in Sector
        PROVE  image'[s] = IF Place(s) \in 1 .. Chunk THEN r.stamp ELSE image[s]
    <2>1. image' = [t \in Sector |->
                     IF Place(t) \in 1 .. Chunk
                     THEN IF c2s[Place(t)].kind = "data" THEN c2s[Place(t)].stamp ELSE Junk
                     ELSE image[t]]
      BY <1>3, <1>8 DEF ServeData
    <2>. QED  BY <1>6, <2>1
  <1>9. ASSUME Accepted(r), NEW s \in r.first .. r.first + (server.done + Chunk) - 1
        PROVE  image'[s] = r.stamp
    <2>1. Payload(r) = r.n /\ r.first + r.n <= NbSectors
      BY <1>9 DEF Accepted, InRange, Payload
    <2>2. s \in Sector
      BY <1>4, <1>5, <2>1 DEF Sector
    <2>3. CASE s \in r.first .. r.first + server.done - 1
      <3>1. image[s] = r.stamp
        BY <1>9, <2>3 DEF Served
      <3>. QED  BY <1>8, <1>9, <2>2, <3>1
    <2>4. CASE ~(s \in r.first .. r.first + server.done - 1)
      <3>1. Place(s) = s - r.first - server.done + 1
        BY <1>2 DEF Place
      <3>2. Place(s) \in 1 .. Chunk
        BY <1>4, <1>5, <2>4, <3>1, SMTT(30)
      <3>. QED  BY <1>8, <1>9, <2>2, <3>2
    <2>. QED  BY <2>3, <2>4
  <1>. QED  BY <1>7, <1>8, <1>9

\* A chunk of payload: more of the request, its answer, or the end of the session when there is
\* nobody to answer.
LEMMA ServeDataStep ==
  ASSUME LinkTypeOK, LinkTypeOK', Coupled, ServeData
  PROVE  Coupled'
  <1>1. /\ server.phase = "data" /\ Len(c2s) >= Chunk
        /\ UNCHANGED <<client, answer, acked, stamp>>
    BY DEF ServeData
  <1>2. PICK r \in Request : InStep(r)
    BY DEF Coupled
  <1>3. /\ ~Quiet /\ Served(r)
        /\ s2c = <<>> /\ (link = "up" => client.phase = "answer" /\ client.req = r)
        /\ client.phase # "payload" /\ (Waiting => client.req = r /\ answer = NoAnswer)
        /\ ~(answer.op = "read" /\ answer.rc = 0)
    <2>1. ~Quiet /\ Served(r)
      BY <1>1, <1>2 DEF Quiet, InStep, Unread
    <2>. QED  BY <1>2, <2>1, Busy
  <1>4. /\ server.req.op = r.op /\ server.req.n = r.n /\ server.req.first = r.first
        /\ r.op \in {"write", "ping"} /\ server.req = [r EXCEPT !.stamp = 0]
    BY <1>3 DEF Served, Request
  <1>5. /\ (Accepted(server.req) <=> Accepted(r)) /\ Payload(server.req) = Payload(r)
        /\ \A ok : Header(server.req, ok) = Header(r, ok)
    BY <1>4 DEF Accepted, InRange, Payload, Header
  <1>6. /\ Chunk \in Nat /\ Chunk <= Payload(r) - server.done /\ server.done \in Nat /\ Payload(r) \in Nat
        /\ Last <=> server.done + Chunk = Payload(r)
    <2>1. server.done \in Nat /\ Payload(r) \in Nat
      BY <1>2, PayloadType, WrbpAssumption DEF LinkTypeOK
    <2>. QED  BY <1>1, <1>5, <2>1, ChunkType
  <1>7. /\ ~Accepted(r) => image' = image
        /\ \A s \in Sector : image'[s] = image[s] \/ (Accepted(r) /\ image'[s] = r.stamp)
        /\ Accepted(r) => \A s \in r.first .. r.first + (server.done + Chunk) - 1 : image'[s] = r.stamp
    BY <1>2, <1>3, ChunkWritten
  <1> DEFINE rest == SubSeq(c2s, Chunk + 1, Len(c2s))
  <1>8. /\ Len(rest) <= Payload(r) - (server.done + Chunk) /\ (Last => rest = <<>>)
        /\ \A i \in 1 .. Len(rest) : rest[i] = Data(r.stamp)
    <2>1. c2s \in Seq(Unit) /\ Len(c2s) \in Nat
      BY LenProperties DEF LinkTypeOK
    <2>2. Len(c2s) <= Payload(r) - server.done /\ \A i \in 1 .. Len(c2s) : c2s[i] = Data(r.stamp)
      BY <1>3 DEF Served
    <2>3. Chunk \in 0 .. Len(c2s)
      BY <1>1, <1>6, <2>1
    <2>4. /\ Len(rest) = Len(c2s) - Chunk /\ (rest = <<>> <=> Len(c2s) = Chunk)
          /\ \A i \in 1 .. Len(c2s) - Chunk : rest[i] = c2s[Chunk + i]
      BY <2>1, <2>3, RestOf
    <2>. HIDE DEF rest
    <2>5. Last => rest = <<>>
      BY <1>6, <2>1, <2>2, <2>3, <2>4
    <2>6. \A i \in 1 .. Len(rest) : rest[i] = Data(r.stamp)
      BY <1>6, <2>1, <2>2, <2>3, <2>4
    <2>7. Len(rest) <= Payload(r) - (server.done + Chunk)
      BY <1>6, <2>1, <2>2, <2>4
    <2>. QED  BY <2>5, <2>6, <2>7
  <1>. HIDE DEF rest
  <1>9. /\ \A s \in Sector : /\ Promised(s) = acked[s] /\ acked[s] \in Int /\ image[s] \in Int
                             /\ image[s] >= acked[s] /\ acked[s] <= stamp
        /\ r.stamp \in Int /\ (r.op = "write" => \A s \in Sector : acked[s] <= r.stamp)
    <2>1. \A s \in Sector : Promised(s) = acked[s]
      BY <1>3 DEF Promised
    <2>2. r.stamp \in Int
      <3>1. r.stamp \in Stamp
        BY <1>2, UnitTypes
      <3>. QED  BY <3>1, BlockCallsAssumption DEF Stamp
    <2>3. \A s \in Sector : image[s] >= acked[s] /\ acked[s] <= stamp
      BY <2>1 DEF Coupled, InImage
    <2>4. r.op = "write" => \A s \in Sector : acked[s] <= r.stamp
      BY <1>2 DEF InStep, Proper
    <2>. QED  BY <2>1, <2>2, <2>3, <2>4, PromisedType
  <1>10. \A s \in Sector : image'[s] >= acked[s]
    BY <1>7, <1>9 DEF Accepted
  <1>11. CASE /\ ~Last /\ server' = [server EXCEPT !.done = @ + Chunk]
              /\ c2s' = rest /\ UNCHANGED <<link, s2c, durable>>
    <2>1. /\ server'.phase = "data" /\ server'.req = server.req /\ server'.done = server.done + Chunk
          /\ server'.writes = server.writes /\ server'.flushed = server.flushed
      BY <1>1, <1>11 DEF LinkTypeOK
    <2>2. Served(r)'
      <3>1. server.done + Chunk < Payload(r)
        BY <1>6, <1>11
      <3>. QED  BY <1>4, <1>7, <1>8, <1>11, <2>1, <3>1 DEF Served, Accepted, InRange
    <2>3. s2c' = <<>> /\ ~Quiet' /\ (Waiting' <=> Waiting) /\ Proper(r)'
      BY <1>1, <1>2, <1>3, <1>11, <2>1 DEF Quiet, Waiting, InStep, Proper
    <2>4. InStep(r)'
      <3>1. OnItsWay(r)' /\ client'.phase # "payload"
        BY <1>1, <1>3, <2>3 DEF OnItsWay
      <3>2. client'.phase = "answer" => client'.got = <<>>
        BY <1>1, <1>2 DEF InStep
      <3>. QED  BY <1>1, <1>2, <2>2, <2>3, <3>1, <3>2 DEF InStep
    <2>5. Lines'
      BY <1>1, <1>3, <1>11, <2>1 DEF Coupled, Lines
    <2>6. \A s \in Sector : Promised(s)' = acked[s] /\ Promised(s) = acked[s]
      BY <1>1, <1>9, <2>3 DEF Promised
    <2>7. InImage' /\ (OnMedium => OnMedium')
      BY <1>1, <1>9, <1>10, <1>11, <2>6 DEF InImage, OnMedium
    <2>8. Kept'
      BY <1>1, <1>11, <2>1, <2>3, <2>7 DEF Coupled, Kept
    <2>9. Told'
      BY <1>1, <1>3, <2>3 DEF Coupled, Told
    <2>. QED  BY <1>2, <2>4, <2>5, <2>7, <2>8, <2>9 DEF Coupled
  <1>12. CASE /\ Last /\ c2s' = rest
              /\ SendsOk(<<Header(server.req, IF server.req.op = "ping" \/ Accepted(server.req)
                                              THEN 1 ELSE 0)>>)
              /\ server' = [server EXCEPT !.phase = "head", !.req = NoRequest, !.done = 0,
                              !.writes = IF Accepted(server.req) THEN 1 ELSE @]
              /\ UNCHANGED <<link, durable>>
    <2> DEFINE ok == IF r.op = "ping" \/ Accepted(r) THEN 1 ELSE 0
    <2>1. ok \in {0, 1} /\ (ok = 1 <=> r.op = "ping" \/ Accepted(r))
      OBVIOUS
    <2>2. SendsOk(<<Header(r, ok)>>)
      BY <1>4, <1>5, <1>12
    <2>. HIDE DEF ok
    <2>3. s2c' = IF link = "up" THEN <<Header(r, ok)>> ELSE <<>>
      <3>1. <<Header(r, ok)>> \in Seq(Unit)
        BY <1>2, <2>1, UnitTypes
      <3>2. <<>> \o <<Header(r, ok)>> = <<Header(r, ok)>>
        BY <3>1, NothingBefore
      <3>. QED  BY <1>3, <2>2, <3>2 DEF SendsOk
    <2>4. /\ c2s' = <<>> /\ server'.phase = "head" /\ server'.flushed = server.flushed
          /\ server'.writes = IF Accepted(r) THEN 1 ELSE server.writes
      BY <1>5, <1>8, <1>12 DEF LinkTypeOK
    <2>5. Accepted(r) => \A s \in Span(r) : image'[s] = r.stamp
      <3>1. Accepted(r) => server.done + Chunk = r.n
        BY <1>6, <1>12 DEF Accepted, Payload
      <3>. QED  BY <1>7, <3>1 DEF Span
    <2>6. s2c' = <<>> \/ (link = "up" /\ OnItsWay(r)')
      <3>1. ASSUME link = "up" PROVE OnItsWay(r)'
        <4>1. s2c' = <<Header(r, ok)>> /\ s2c'[1] = Header(r, ok) /\ Len(s2c') = 1
          BY <2>3, <3>1
        <4>2. s2c'[1].ok = ok
          BY <4>1 DEF Header
        <4>. QED  BY <1>4, <2>1, <2>5, <4>1, <4>2 DEF OnItsWay, Accepted, InRange
      <3>. QED  BY <2>3, <3>1
    <2>7. InStep(r)' /\ Lines' /\ Told'
      BY <1>1, <1>2, <1>3, <1>12, <2>4, <2>6, RequestDone
    <2>8. \A s \in Sector : \/ Promised(s)' = acked[s]
                            \/ Accepted(r) /\ s \in Span(r) /\ Promised(s)' = r.stamp /\ link = "up"
      <3>1. s2c' # <<>> => /\ link = "up" /\ s2c'[1].ok = ok
        BY <2>3 DEF Header
      <3>. QED  BY <1>1, <1>3, <2>1, <3>1 DEF Promised
    <2>9. InImage'
      BY <1>1, <1>9, <1>10, <2>5, <2>8 DEF InImage
    <2>10. ~(link = "up" /\ Accepted(r)) => (OnMedium => OnMedium')
      BY <1>9, <1>12, <2>8 DEF OnMedium
    <2>11. s2c' # <<>> => client.req.op # "flush"
      BY <1>3, <1>4, <2>3
    <2>12. Kept'
      <3>1. CASE link = "up" /\ Accepted(r)
        <4>1. ~ReadOnly /\ server'.writes = 1 /\ answer = NoAnswer
          BY <1>3, <2>4, <3>1 DEF Accepted, Waiting
        <4>. QED  BY <1>1, <2>4, <2>11, <4>1 DEF Kept, NoAnswer
      <3>2. CASE ~(link = "up" /\ Accepted(r))
        <4>1. server'.writes = 0 => server.writes = 0
          BY <2>4 DEF LinkTypeOK
        <4>. QED  BY <1>1, <2>4, <2>10, <2>11, <3>2, <4>1 DEF Coupled, Kept
      <3>. QED  BY <3>1, <3>2
    <2>. QED  BY <1>2, <2>7, <2>9, <2>12 DEF Coupled
  <1>13. CASE Last /\ link # "up" /\ SessionEnd(FALSE) /\ UNCHANGED s2c
    <2>1. link' = "down" /\ c2s' = <<>> /\ server'.phase = "listen" /\ s2c' = <<>>
      BY <1>3, <1>13, Closed
    <2>2. InStep(r)' /\ Lines' /\ Told'
      BY <1>1, <1>2, <1>3, <2>1, RequestDone
    <2>3. \A s \in Sector : Promised(s)' = acked[s]
      BY <1>1, <2>1 DEF Promised
    <2>4. InImage'
      BY <1>1, <1>9, <1>10, <2>3 DEF InImage
    <2>5. \A s \in Sector : Promised(s)' <= Promised(s)
      BY <1>9, <2>3
    <2>6. Kept'
      BY <1>1, <1>13, <2>4, <2>5, CloseKept
    <2>. QED  BY <1>2, <2>2, <2>4, <2>6 DEF Coupled
  <1>. QED  BY <1>11, <1>12, <1>13 DEF ServeData, rest

-----------------------------------------------------------------------------
(***************************************************************************)
(* The invariant, and what it gives.                                       *)
(***************************************************************************)
\* Before the first connection nothing is on its way, acknowledged or told.
LEMMA LinkInvInit == Init => LinkInv
  <1>1. SUFFICES ASSUME Init PROVE LinkTypeOK /\ Coupled
    BY DEF LinkInv
  <1>2. LinkTypeOK
    BY <1>1, LinkInitType
  <1>3. NoRequest \in Request
    BY UnitTypes
  <1>4. InStep(NoRequest)
    BY <1>1 DEF Init, InStep, Proper, Quiet, Waiting, NoRequest
  <1>5. Lines /\ Told
    BY <1>1 DEF Init, Lines, Told, Waiting, NoAnswer
  <1>6. \A s \in Sector : Promised(s) = 0
    BY <1>1 DEF Init, Promised
  <1>7. InImage /\ OnMedium
    BY <1>1, <1>6 DEF Init, InImage, OnMedium
  <1>8. Kept
    BY <1>7 DEF Kept
  <1>. QED  BY <1>2, <1>3, <1>4, <1>5, <1>7, <1>8 DEF Coupled

\* Timeouts are counted and never forgotten.
LEMMA StaysTimed ==
  ASSUME LinkTypeOK, LinkTypeOK', [Next]_vars, Untimed'
  PROVE  Untimed
  <1>1. timeouts' = timeouts \/ SendTimeout \/ RecvFails
    BY DEF Next, vars, Connect, Send, SendFails, RecvHeader, RecvPayload, Stop, Break, Notice,
           ServeHeader, ServeTime, BadMagic, ServeData, ServerRecvFails
  <1>2. timeouts \in [recv : 0 .. RecvTimeouts, send : 0 .. SendTimeouts]
    BY DEF LinkTypeOK
  <1>3. timeouts.recv \in Nat /\ timeouts.send \in Nat
    BY <1>2, WrbpAssumption
  <1>4. CASE timeouts' = timeouts
    BY <1>4 DEF Untimed
  <1>5. CASE SendTimeout
    BY <1>5, SendTimeoutStep
  <1>6. CASE RecvFails /\ timeouts' # timeouts
    <2>1. timeouts' = [timeouts EXCEPT !.recv = @ + 1]
      BY <1>6 DEF RecvFails
    <2>2. timeouts'.recv = timeouts.recv + 1
      BY <1>2, <2>1
    <2>. QED  BY <1>3, <2>2 DEF Untimed
  <1>. QED  BY <1>1, <1>4, <1>5, <1>6

\* Every step of client, connection and server keeps them coupled.
LEMMA LinkInvNext == LinkInv /\ [Next]_vars => LinkInv'
  <1>1. SUFFICES ASSUME LinkInv, [Next]_vars, Untimed' PROVE LinkTypeOK' /\ Coupled'
    <2>1. ASSUME LinkInv, [Next]_vars PROVE LinkTypeOK'
      BY <2>1, LinkStepType DEF LinkInv
    <2>. QED  BY <2>1 DEF LinkInv
  <1>2. LinkTypeOK /\ LinkTypeOK'
    BY <1>1, LinkStepType DEF LinkInv
  <1>3. Coupled
    BY <1>1, <1>2, StaysTimed DEF LinkInv
  <1>4. CASE UNCHANGED vars
    BY <1>2, <1>3, <1>4, NoticeStep DEF vars, wire, disk
  <1>5. CASE Next
    <2>1. ASSUME Notice PROVE Coupled'
      BY <1>2, <1>3, <2>1, NoticeStep DEF Notice, disk
    <2>. QED  BY <1>1, <1>2, <1>3, <1>5, <2>1, ConnectStep, SendStep, SendFailsStep, SendTimeoutStep,
              RecvHeaderStep, RecvPayloadStep, RecvFailsStep, StopStep, BreakStep, ServeHeaderStep,
              ServeTimeStep, BadMagicStep, ServeDataStep, ServerRecvFailsStep DEF Next
  <1>. QED  BY <1>1, <1>2, <1>4, <1>5

\* The invariant holds throughout.
LEMMA LinkInvAlways == Spec => []LinkInv
  BY LinkInvInit, LinkInvNext, PTL DEF Spec

\* When netblk_request has returned on a connection that is up, nothing of the request is left
\* in either stream and handle_client waits for a header, also after requests that were refused.
THEOREM StreamsStayInSync == Spec => []InSync
  <1>1. ASSUME LinkInv PROVE InSync
    <2>1. TypeOK
      BY <1>1, TypeOKOf DEF LinkInv
    <2>2. ASSUME Untimed, client.phase = "idle", link = "up"
          PROVE  c2s = <<>> /\ s2c = <<>> /\ server.phase = "head"
      <3>1. Coupled
        BY <1>1, <2>2 DEF LinkInv
      <3>2. Quiet /\ server.phase # "listen"
        BY <2>2, <3>1 DEF Coupled, Lines
      <3>3. s2c = <<>>
        BY <2>2, <3>1 DEF Coupled, InStep, Waiting
      <3>. QED  BY <1>1, <3>2, <3>3 DEF Quiet, LinkInv, LinkTypeOK
    <2>. QED  BY <2>1, <2>2 DEF InSync
  <1>2. LinkInv => InSync
    BY <1>1
  <1>. QED  BY <1>2, LinkInvAlways, PTL

\* A READ that succeeded delivered the sectors of the server's image it asked for.
THEOREM ReadsDeliverImage == Spec => []ReadsImage
  <1>1. LinkInv => ReadsImage
    BY DEF LinkInv, Coupled, Told, ReadsImage
  <1>. QED  BY <1>1, LinkInvAlways, PTL

\* A WRITE that the client was told succeeded is in the image, every sector of it, in chunks of
\* any size and whatever requests were refused before.
THEOREM AckedWritesAreInImage == Spec => []AckedInImage
  <1>1. ASSUME LinkInv PROVE AckedInImage
    <2>1. SUFFICES ASSUME Untimed, NEW s \in Sector PROVE image[s] >= acked[s]
      BY DEF AckedInImage
    <2>2. LinkTypeOK /\ Coupled
      BY <1>1, <2>1 DEF LinkInv
    <2>3. PICK r \in Request : InStep(r)
      BY <2>2 DEF Coupled
    <2>4. image[s] >= Promised(s)
      BY <2>2 DEF Coupled, InImage
    <2>5. Promised(s) >= acked[s]
      BY <2>2, <2>3, PromisedAtLeast
    <2>6. image[s] \in Int /\ Promised(s) \in Int /\ acked[s] \in Int
      BY <2>2, PromisedType
    <2>. QED  BY <2>4, <2>5, <2>6
  <1>2. LinkInv => AckedInImage
    BY <1>1
  <1>. QED  BY <1>2, LinkInvAlways, PTL

\* Every acknowledged WRITE is on the medium when a strict FLUSH has succeeded, and when the
\* server waits for the next calculator after a session whose flush did not fail, wherever that
\* session ended.
THEOREM AckedWritesAreDurable == Spec => []Durable
  <1>1. ASSUME LinkInv PROVE Durable
    <2>1. SUFFICES ASSUME Untimed,
                          \/ StrictFlush /\ answer.op = "flush" /\ answer.rc = 0
                          \/ server.phase = "listen" /\ server.flushed = 1,
                          NEW s \in Sector
                   PROVE  durable[s] >= acked[s]
      BY DEF Durable
    <2>2. LinkTypeOK /\ Coupled
      BY <1>1, <2>1 DEF LinkInv
    <2>3. PICK r \in Request : InStep(r)
      BY <2>2 DEF Coupled
    <2>4. durable[s] >= Promised(s)
      BY <2>1, <2>2 DEF Coupled, Kept, OnMedium
    <2>5. Promised(s) >= acked[s]
      BY <2>2, <2>3, PromisedAtLeast
    <2>6. durable[s] \in Int /\ Promised(s) \in Int /\ acked[s] \in Int
      BY <2>2, PromisedType
    <2>. QED  BY <2>4, <2>5, <2>6
  <1>2. LinkInv => Durable
    BY <1>1
  <1>. QED  BY <1>2, LinkInvAlways, PTL
==============================================================================
