------------------------------- MODULE WrbpLink -------------------------------
(***************************************************************************)
(* The disk protocol of Server mode: netblk_request in the emulator        *)
(* (ide.c) and handle_client in the server (netblock_server.c) over one    *)
(* TCP connection.  The client sends one request at a time and waits for   *)
(* the answer; the server serves one connection at a time.                 *)
(*                                                                         *)
(* The two directions of the connection are sequences of units: a header,  *)
(* or a sector of payload (the telemetry of a PING is one too).  A unit    *)
(* read in the place of another kind is taken for what was expected: as in *)
(* the code nothing but the magic tells them apart.  Contents are stamps,  *)
(* as in BlockCalls.                                                       *)
(***************************************************************************)
EXTENDS BlockCalls, Sequences

CONSTANTS
  MaxSectors,     \* cfg.max_sectors of the server
  LongestRequest, \* sectors of the longest request the client sends
  StrayRequests,  \* the client may ask for sectors beyond the end
  StrictFlush,    \* --strict-flush
  ReadOnly,       \* --readonly
  Keepalive,      \* --keepalive, or timeouts on the server's socket
  FlushMayFail,   \* flush_image may fail
  MaxSessions,    \* bound: connections in a behaviour
  RecvTimeouts,   \* bound: SO_RCVTIMEO expiries at the client
  Backlog,        \* bound: units left over in the streams when a request is sent
  SendTimeouts    \* bound: SO_SNDTIMEO expiries at the client

ASSUME WrbpAssumption ==
  /\ MaxSectors \in Nat \ {0} /\ LongestRequest \in Nat \ {0}
  /\ StrayRequests \in BOOLEAN /\ StrictFlush \in BOOLEAN /\ ReadOnly \in BOOLEAN
  /\ Keepalive \in BOOLEAN /\ FlushMayFail \in BOOLEAN
  /\ MaxSessions \in Nat /\ RecvTimeouts \in Nat /\ SendTimeouts \in Nat
  /\ Backlog \in Nat

VARIABLES
  link,      \* the connection: "up", "down", or "silent" when the peer is gone unnoticed
  c2s, s2c,  \* units on their way to the server and to the client
  client,    \* the client's progress
  answer,    \* what the last request returned
  server,    \* the server's progress
  image,     \* the disk image as the server sees it
  durable,   \* the disk image as it has reached the medium
  acked,     \* per sector the newest write that returned success
  stamp,     \* serial number of the last write
  sessions, timeouts

wire == <<link, c2s, s2c>>
disk == <<image, durable>>
vars == <<wire, client, answer, server, disk, acked, stamp, sessions, timeouts>>

Junk == -1   \* a sector some other unit was written to
Content == Stamp \cup {Junk}

Request == [op : {"hello", "time", "ping", "read", "write", "flush", "none"},
            first : 0 .. NbSectors, n : 0 .. LongestRequest, stamp : Stamp]
NoRequest == [op |-> "none", first |-> 0, n |-> 0, stamp |-> 0]

Header(r, ok) == [kind |-> "head", op |-> r.op, first |-> r.first, n |-> r.n, ok |-> ok, stamp |-> 0]
Data(c)       == [kind |-> "data", op |-> "none", first |-> 0, n |-> 0, ok |-> 0, stamp |-> c]
Unit == [kind : {"head", "data"}, op : {r.op : r \in Request}, first : 0 .. NbSectors,
         n : 0 .. LongestRequest, ok : {0, 1}, stamp : Content]

TypeOK ==
  /\ link \in {"up", "down", "silent"} /\ c2s \in Seq(Unit) /\ s2c \in Seq(Unit)
  /\ client.phase \in {"off", "idle", "answer", "payload"} /\ client.req \in Request
  /\ client.got \in Seq(Content)
  /\ answer.op \in {r.op : r \in Request} /\ answer.rc \in {0, -1}
  /\ server.phase \in {"listen", "head", "data"} /\ server.req \in Request
  /\ server.done \in 0 .. LongestRequest
  /\ server.writes \in {0, 1} /\ server.flushed \in {0, 1}
  /\ image \in [Sector -> Content] /\ durable \in [Sector -> Content]
  /\ acked \in [Sector -> Stamp] /\ stamp \in Stamp
  /\ sessions \in 0 .. MaxSessions
  /\ timeouts.recv \in 0 .. RecvTimeouts /\ timeouts.send \in 0 .. SendTimeouts

NoAnswer == [op |-> "none", rc |-> 0, first |-> 0, data |-> <<>>]

Init ==
  /\ link = "down" /\ c2s = <<>> /\ s2c = <<>>
  /\ client = [phase |-> "off", req |-> NoRequest, got |-> <<>>]
  /\ answer = NoAnswer
  /\ server = [phase |-> "listen", req |-> NoRequest, done |-> 0, writes |-> 0, flushed |-> 1]
  /\ image = [s \in Sector |-> 0] /\ durable = [s \in Sector |-> 0]
  /\ acked = [s \in Sector |-> 0] /\ stamp = 0
  /\ sessions = 0 /\ timeouts = [recv |-> 0, send |-> 0]

Lesser(a, b) == IF a < b THEN a ELSE b

\* Sectors of payload that follow a request's header.
Payload(r) == CASE r.op = "write" -> r.n [] r.op = "ping" -> 1 [] OTHER -> 0

Units(r) == <<Header(r, 1)>> \o [i \in 1 .. Payload(r) |-> Data(r.stamp)]

(***************************************************************************)
(* The client                                                              *)
(***************************************************************************)
\* What the client asks for once it is connected; out is the stamp of a write.
Requests(out) ==
  {r \in Request :
     /\ r.op \in {"ping", "read", "write", "flush"}
     /\ IF r.op \in {"read", "write"}
        THEN r.n > 0 /\ (StrayRequests \/ r.first + r.n <= NbSectors)
        ELSE r.n = 0 /\ r.first = 0
     /\ r.stamp = IF r.op = "write" THEN out ELSE 0}

\* block_device_init_net, and the program that sets the calculator's clock before
\* it: connect, and send the first request.
Connect(op) ==
  /\ client.phase = "off" /\ server.phase = "listen" /\ sessions < MaxSessions
  /\ LET r == [NoRequest EXCEPT !.op = op] IN
     /\ client' = [phase |-> "answer", req |-> r, got |-> <<>>]
     /\ c2s' = Units(r)
  /\ link' = "up" /\ s2c' = <<>>
  /\ server' = [server EXCEPT !.phase = "head", !.writes = 0]
  /\ answer' = NoAnswer
  /\ sessions' = sessions + 1
  /\ UNCHANGED <<disk, acked, stamp, timeouts>>

\* A failed HELLO, and the end of the clock program, close the connection.
PhaseAfter(rc) ==
  IF client.req.op = "time" \/ (client.req.op = "hello" /\ rc # 0) THEN "off" ELSE "idle"

\* netblk_request returns rc, a READ with the sectors in data.
Ends(rc, data) ==
  /\ client' = [phase |-> PhaseAfter(rc), req |-> NoRequest, got |-> <<>>]
  /\ answer' = [op |-> client.req.op, rc |-> rc, first |-> client.req.first, data |-> data]
  /\ acked' = IF rc = 0 /\ client.req.op = "write"
              THEN [s \in Sector |-> IF s \in Span(client.req) THEN client.req.stamp ELSE acked[s]]
              ELSE acked
  /\ link' = IF PhaseAfter(rc) = "off" THEN "down" ELSE link

Stamped(r) == stamp' = IF r.op = "write" THEN stamp + 1 ELSE stamp

Ask(r) ==
  /\ client.phase = "idle"
  /\ Len(c2s) + Len(s2c) <= Backlog
  /\ r.op = "write" => stamp < MaxStamp
  /\ Stamped(r)

\* netblk_send_all of header and payload.
Send ==
  \E r \in Requests(Lesser(stamp + 1, MaxStamp)) :
    /\ Ask(r) /\ link = "up"
    /\ client' = [phase |-> "answer", req |-> r, got |-> <<>>]
    /\ c2s' = c2s \o Units(r)
    /\ answer' = NoAnswer
    /\ UNCHANGED <<link, s2c, server, disk, acked, sessions, timeouts>>

\* A request on a connection that is gone fails at once.
SendFails ==
  \E r \in Requests(Lesser(stamp + 1, MaxStamp)) :
    /\ Ask(r) /\ link = "down"
    /\ answer' = [NoAnswer EXCEPT !.op = r.op, !.rc = -1]
    /\ UNCHANGED <<wire, client, server, disk, acked, sessions, timeouts>>

\* The send times out half way; the connection stays open.
SendTimeout ==
  \E r \in Requests(Lesser(stamp + 1, MaxStamp)) :
    /\ Ask(r) /\ link = "up" /\ timeouts.send < SendTimeouts
    /\ \E sent \in 0 .. Payload(r) : c2s' = c2s \o SubSeq(Units(r), 1, sent)
    /\ timeouts' = [timeouts EXCEPT !.send = @ + 1]
    /\ answer' = [NoAnswer EXCEPT !.op = r.op, !.rc = -1]
    /\ UNCHANGED <<link, s2c, client, server, disk, acked, sessions>>

\* netblk_header_ok: neither the sector nor the count are looked at.
HeaderOk(u) == u.kind = "head" /\ u.op = client.req.op /\ u.ok = 1

\* The answer's header arrives; a READ also has to have the right size.
RecvHeader ==
  /\ client.phase = "answer" /\ s2c # <<>>
  /\ s2c' = Tail(s2c)
  /\ LET u == s2c[1]
         fits == client.req.op = "read" => u.n = client.req.n
     IN \/ /\ HeaderOk(u) /\ fits /\ client.req.op = "read"
           /\ client' = [client EXCEPT !.phase = "payload"]
           /\ UNCHANGED <<link, answer, acked>>
        \/ HeaderOk(u) /\ fits /\ client.req.op # "read" /\ Ends(0, <<>>)
        \/ ~(HeaderOk(u) /\ fits) /\ Ends(-1, <<>>)
  /\ UNCHANGED <<c2s, server, disk, stamp, sessions, timeouts>>

RecvPayload ==
  /\ client.phase = "payload" /\ s2c # <<>>
  /\ s2c' = Tail(s2c)
  /\ LET got == Append(client.got, IF s2c[1].kind = "data" THEN s2c[1].stamp ELSE Junk) IN
     IF Len(got) < client.req.n
     THEN client' = [client EXCEPT !.got = got] /\ UNCHANGED <<link, answer, acked>>
     ELSE Ends(0, got)
  /\ UNCHANGED <<c2s, server, disk, stamp, sessions, timeouts>>

\* recv fails on a closed connection, or after a minute of silence.
RecvFails ==
  /\ client.phase \in {"answer", "payload"} /\ s2c = <<>>
  /\ \/ link = "down" /\ UNCHANGED timeouts
     \/ /\ link = "up" /\ timeouts.recv < RecvTimeouts
        /\ timeouts' = [timeouts EXCEPT !.recv = @ + 1]
  /\ Ends(-1, <<>>)
  /\ UNCHANGED <<c2s, s2c, server, disk, stamp, sessions>>

\* The emulator ends.  The calculator closes the connection, or it is switched off
\* or unplugged and the server hears nothing of it.
Stop ==
  /\ client.phase # "off"
  /\ client' = [phase |-> "off", req |-> NoRequest, got |-> <<>>]
  /\ answer' = NoAnswer
  /\ link' \in IF link = "up" THEN {"down", "silent"} ELSE {link}
  /\ s2c' = <<>>
  /\ UNCHANGED <<c2s, server, disk, acked, stamp, sessions, timeouts>>

\* The connection breaks; what was on its way may or may not still arrive.
Break ==
  /\ link = "up"
  /\ link' = "down"
  /\ \E i \in 0 .. Len(c2s) : c2s' = SubSeq(c2s, 1, i)
  /\ \E i \in 0 .. Len(s2c) : s2c' = SubSeq(s2c, 1, i)
  /\ UNCHANGED <<client, answer, server, disk, acked, stamp, sessions, timeouts>>

\* The server's socket notices that the client is gone.
Notice ==
  /\ link = "silent" /\ Keepalive
  /\ link' = "down"
  /\ UNCHANGED <<c2s, s2c, client, answer, server, disk, acked, stamp, sessions, timeouts>>

(***************************************************************************)
(* The server: handle_client                                               *)
(***************************************************************************)
\* send_all.  On a connection without a peer it seems to succeed and the next
\* receive fails; that it fails itself matters only for a WRITE (ServeData).
SendsOk(units) == s2c' = IF link = "up" THEN s2c \o units ELSE s2c

\* flush_image brings everything written so far to the medium, or fails.
FlushOutcomes    == {1} \cup (IF FlushMayFail THEN {0} ELSE {})
FlushImage(done) == durable' = IF done = 1 THEN image' ELSE durable

\* The label out, and closesocket in main; flushes says whether the image is flushed.
Closes(flushes) ==
  /\ \E done \in FlushOutcomes :
       /\ server' = [server EXCEPT !.phase = "listen", !.req = NoRequest, !.done = 0,
                       !.flushed = IF flushes THEN done ELSE @]
       /\ IF flushes THEN FlushImage(done) ELSE UNCHANGED durable
  /\ link' = "down"
  /\ c2s' = <<>>

\* Mutant: only a session that ended in order is flushed.
SessionEnd_OnlyInOrder(orderly) == Closes(orderly /\ ~ReadOnly /\ server.writes > 0)

\* However the session ends, it is flushed if a WRITE was counted.
SessionEnd(orderly) == Closes(~ReadOnly /\ server.writes > 0)

InRange(r) == r.n > 0 /\ r.first + r.n <= NbSectors

\* The request a header stands for.
Asked(u) == [op |-> u.op, first |-> u.first, n |-> u.n, stamp |-> 0]

\* Mutant: reads go to the file, writes to the mapped view.
Sectors_FromFile(r) == [i \in 1 .. r.n |-> Data(durable[r.first + i - 1])]

\* send_image_exact
Sectors(r) == [i \in 1 .. r.n |-> Data(image[r.first + i - 1])]

FlushStatus(done) == done

\* The loop goes on, after an answer was sent.
Answers(units) ==
  /\ SendsOk(units)
  /\ server' = [server EXCEPT !.phase = "head", !.req = NoRequest, !.done = 0]
  /\ UNCHANGED link

\* A request's header: answered at once when nothing follows it.
ServeHeader ==
  /\ UNCHANGED image
  /\ server.phase = "head" /\ c2s # <<>>
  /\ LET u == c2s[1]
         r == Asked(u)
     IN \/ /\ u.kind = "head" /\ u.op = "hello"
           /\ c2s' = Tail(c2s) /\ Answers(<<Header(r, 1)>>) /\ UNCHANGED durable
        \/ /\ u.kind = "head" /\ u.op = "read"
           /\ c2s' = Tail(c2s) /\ UNCHANGED durable
           /\ IF InRange(r) /\ r.n <= MaxSectors
              THEN Answers(<<Header(r, 1)>> \o Sectors(r))
              ELSE Answers(<<Header(r, 0)>>)
        \/ /\ u.kind = "head" /\ u.op = "flush"
           /\ c2s' = Tail(c2s)
           /\ \/ /\ StrictFlush /\ ~ReadOnly
                 /\ \E done \in FlushOutcomes :
                      FlushImage(done) /\ Answers(<<Header(r, FlushStatus(done))>>)
              \/ ~(StrictFlush /\ ~ReadOnly) /\ Answers(<<Header(r, 1)>>) /\ UNCHANGED durable
        \/ /\ u.kind = "head" /\ u.op \in {"write", "ping"}
           /\ c2s' = Tail(c2s)
           /\ server' = [server EXCEPT !.phase = "data", !.req = r, !.done = 0]
           /\ UNCHANGED <<link, s2c, durable>>
  /\ UNCHANGED <<client, answer, acked, stamp, sessions, timeouts>>

\* TIME is answered and ends the session.
ServeTime ==
  /\ UNCHANGED image
  /\ server.phase = "head" /\ c2s # <<>>
  /\ c2s[1].kind = "head" /\ c2s[1].op = "time"
  /\ SendsOk(<<Header(Asked(c2s[1]), 1)>>)
  /\ SessionEnd(TRUE)
  /\ UNCHANGED <<client, answer, acked, stamp, sessions, timeouts>>

\* Anything else in the place of a header has no magic.
BadMagic ==
  /\ UNCHANGED image
  /\ server.phase = "head" /\ c2s # <<>> /\ c2s[1].kind = "data"
  /\ SessionEnd(FALSE)
  /\ UNCHANGED <<s2c, client, answer, acked, stamp, sessions, timeouts>>

Accepted(r) == r.op = "write" /\ ~ReadOnly /\ InRange(r)

\* Mutant: the payload of a WRITE that is refused is left in the stream.
Chunk_RefusedLeft == IF Accepted(server.req) \/ server.req.op = "ping"
                     THEN Lesser(MaxSectors, Payload(server.req) - server.done) ELSE 0

\* Sectors recv_image_write or recv_discard takes at once.
Chunk == Lesser(MaxSectors, Payload(server.req) - server.done)

Last == server.done + Chunk >= Payload(server.req) \/ Chunk = 0

\* Mutant: every chunk goes to the beginning of the request.
Place_NoAdvance(s) == s - server.req.first + 1

\* The unit of the chunk that goes to sector s.
Place(s) == s - server.req.first - server.done + 1

\* A chunk of payload is written to the image or thrown away; after the last one
\* the request is answered.  A WRITE whose answer cannot be sent is not counted.
ServeData ==
  LET r == server.req IN
  /\ server.phase = "data" /\ Len(c2s) >= Chunk
  /\ image' = IF Accepted(r)
              THEN [s \in Sector |->
                     IF Place(s) \in 1 .. Chunk
                     THEN IF c2s[Place(s)].kind = "data" THEN c2s[Place(s)].stamp ELSE Junk
                     ELSE image[s]]
              ELSE image
  /\ \/ /\ ~Last
        /\ server' = [server EXCEPT !.done = @ + Chunk]
        /\ c2s' = SubSeq(c2s, Chunk + 1, Len(c2s))
        /\ UNCHANGED <<link, s2c, durable>>
     \/ /\ Last
        /\ c2s' = SubSeq(c2s, Chunk + 1, Len(c2s))
        /\ SendsOk(<<Header(r, IF r.op = "ping" \/ Accepted(r) THEN 1 ELSE 0)>>)
        /\ server' = [server EXCEPT !.phase = "head", !.req = NoRequest, !.done = 0,
                        !.writes = IF Accepted(r) THEN 1 ELSE @]
        /\ UNCHANGED <<link, durable>>
     \/ /\ Last /\ link # "up" /\ Accepted(r)
        /\ SessionEnd(FALSE) /\ UNCHANGED s2c
  /\ UNCHANGED <<client, answer, acked, stamp, sessions, timeouts>>

\* Mutant: a failed receive within a payload is tried again.
ServerRecvFails_HeadOnly ==
  /\ UNCHANGED image
  /\ link = "down"
  /\ server.phase = "head" /\ c2s = <<>> /\ SessionEnd(TRUE)
  /\ UNCHANGED <<s2c, client, answer, acked, stamp, sessions, timeouts>>

\* recv_all fails: the client is gone and not enough of its units are left.
ServerRecvFails ==
  /\ UNCHANGED image
  /\ link = "down"
  /\ \/ server.phase = "head" /\ c2s = <<>> /\ SessionEnd(TRUE)
     \/ server.phase = "data" /\ Len(c2s) < Chunk /\ SessionEnd(FALSE)
  /\ UNCHANGED <<s2c, client, answer, acked, stamp, sessions, timeouts>>

Client == Send \/ SendFails \/ SendTimeout \/ RecvHeader \/ RecvPayload \/ RecvFails
Server == ServeHeader \/ ServeTime \/ BadMagic \/ ServeData \/ ServerRecvFails

Next ==
  \/ Connect("hello") \/ Connect("time")
  \/ Send \/ SendFails \/ SendTimeout \/ RecvHeader \/ RecvPayload \/ RecvFails
  \/ Stop \/ Break \/ Notice
  \/ ServeHeader \/ ServeTime \/ BadMagic \/ ServeData \/ ServerRecvFails

Spec == Init /\ [][Next]_vars

\* The server process runs, and TCP reports a lost peer when it is asked to.
ServerFairSpec == Spec /\ WF_vars(Server) /\ WF_vars(Notice)

\* The emulator, too, goes on when it has an answer.
FairSpec == ServerFairSpec /\ WF_vars(Client)

(***************************************************************************)
(* Properties                                                              *)
(***************************************************************************)
Untimed == timeouts.recv = 0 /\ timeouts.send = 0

\* Client and server agree where the next request begins, also after requests
\* that are refused: nothing is left in the stream when netblk_request returns.
InSync ==
  /\ TypeOK
  /\ Untimed /\ client.phase = "idle" /\ link = "up"
       => c2s = <<>> /\ s2c = <<>> /\ server.phase = "head"

\* A READ that succeeds delivers the sectors of the image it asked for.
ReadsImage ==
  Untimed /\ answer.op = "read" /\ answer.rc = 0
    => \A i \in 1 .. Len(answer.data) : answer.data[i] = image[answer.first + i - 1]

\* A WRITE that succeeds is in the image, whole.
AckedInImage == Untimed => \A s \in Sector : image[s] >= acked[s]

\* Two moments at which every acknowledged WRITE is on the medium: a strict FLUSH
\* has succeeded ("Strict flush must report a disk failure, not acknowledge
\* success"), or the server waits for the next calculator, however the last session
\* ended, unless the flush at its end failed (the code behind the out label).
Durable ==
  (/\ Untimed
   /\ \/ StrictFlush /\ answer.op = "flush" /\ answer.rc = 0
      \/ server.phase = "listen" /\ server.flushed = 1)
    => \A s \in Sector : durable[s] >= acked[s]

\* The server waits for the next calculator after one is gone, whatever it was in
\* the middle of.
SessionsEnd == client.phase = "off" ~> server.phase = "listen"

\* "bad magic from client; closing stream for clean reconnect": after it a client
\* that goes on running is connected again.
CleanReconnect ==
  server.phase = "head" /\ c2s # <<>> /\ c2s[1].kind = "data"
    ~> \/ link = "up" /\ c2s # <<>> /\ c2s[1].op = "hello"
       \/ client.phase = "off"
===============================================================================
