-------------------------------- MODULE Mmtls --------------------------------
(***************************************************************************)
(* The mmtls client (mmtls_client.go): one connection from the ClientHello *)
(* to the answer of an application packet.                                 *)
(*                                                                         *)
(* Records travel over a byte stream that the client reads in chunks of any*)
(* size; a record is two units of the stream.  Sealing is symbolic: a      *)
(* record opens under the key and the number it was sealed under.  Keys    *)
(* and verify data are determined by the transcript they are derived from. *)
(* The server is external and honest: it follows the numbering and the     *)
(* derivations of the client, may choose its flight, refuse, or be cut off.*)
(***************************************************************************)
EXTENDS Naturals, Sequences, SequencesExt

CONSTANTS
    Flight,     \* encrypted server flights before Finished: sequences of messages
    Nil         \* no value; the key of plain records

VARIABLES
    mc,         \* the fields of mmtlsClient
    hpc,        \* the client's next step
    srv,        \* the server's side of the connection
    wire,       \* units under way to the client
    up,         \* records under way to the server
    cut,        \* the connection is broken
    fault       \* why the client gave up: none, its peer, or its own reckoning (history)

mmtlsVars == <<mc, hpc, srv, wire, up, cut, fault>>

\* A message: its type, and its tickets or the transcript its verify data is of.
msg(mt, data) == [mt |-> mt, data |-> data]
key(label, side, hash) == [label |-> label, side |-> side, hash |-> hash]
record(ct, k, seq, m) == [ct |-> ct, key |-> k, seq |-> seq, msg |-> m]

\* A ticket, as far as pickAccessPSK tells tickets apart.
Ticket == [type : Nat, alive : BOOLEAN]

\* What a server may send between ServerHello and Finished.
FlightMessage ==
    [mt : {"EncryptedExtensions", "CertVerify"}, data : {Nil}]
        \cup [mt : {"NewSessionTicket"}, data : Seq(Ticket)]

ASSUME FlightAssumption == Flight \subseteq Seq(FlightMessage)

newMmtlsClient ==
    [transcript |-> <<>>, hsHash |-> Nil, hFinal |-> Nil, hCertV |-> Nil, nst |-> <<>>,
     txSeq |-> 0, rxSeq |-> 0, rxbuf |-> <<>>, recq |-> <<>>]

newServer == [st |-> "hello", transcript |-> <<>>, hsHash |-> Nil, hCertV |-> Nil,
              tx |-> 0, rx |-> 0, refused |-> FALSE, broken |-> FALSE]

\* A connection was dialled.
freshConnection ==
    /\ mc' = newMmtlsClient /\ srv' = newServer
    /\ wire' = <<>> /\ up' = <<>> /\ cut' = FALSE /\ fault' = "none"

MmtlsInit ==
    /\ mc = newMmtlsClient /\ srv = newServer
    /\ wire = <<>> /\ up = <<>> /\ cut = FALSE /\ fault = "none"
    /\ hpc = "closed"

ClientLabel == {"closed", "sendHello", "serverHello", "flight", "sendFinished",
                "connected", "sendApp", "answer", "answered", "failed"}
Reading == {"serverHello", "flight", "answer"}
------------------------------------------------------------------------------
(* Sending.                                                                  *)

feed(m, message) == [m EXCEPT !.transcript = Append(@, message)]

\* Mutant: plain records are not counted.
sentUncounted(m, k) == IF k = Nil THEN m ELSE [m EXCEPT !.txSeq = @ + 1]

\* sendPlain and sendEncrypted count the record.
sent(m, k) == [m EXCEPT !.txSeq = @ + 1]

\* The write is taken by the connection.
send(m, ct, k, message, next) ==
    /\ up' = IF cut THEN up ELSE Append(up, record(ct, k, m.txSeq, message))
    /\ mc' = sent(m, k)
    /\ hpc' = next
    /\ UNCHANGED <<srv, wire, cut, fault>>

SendClientHello ==
    /\ hpc = "sendHello"
    /\ LET hello == msg("ClientHello", Nil) IN
       send(feed(mc, hello), "handshake", Nil, hello, "serverHello")

SendClientFinished ==
    /\ hpc = "sendFinished"
    /\ send(mc, "handshake", key("handshake", "client", mc.hsHash),
            msg("Finished", mc.hFinal), "connected")

\* sendApp of the login packet.
SendApp ==
    /\ hpc = "sendApp"
    /\ send(mc, "appData", key("app", "client", mc.hFinal), msg("ManualAuth", Nil), "answer")

fail(why) == hpc' = "failed" /\ fault' = why

\* The write fails.
SendFails ==
    /\ hpc \in {"sendHello", "sendFinished", "sendApp"}
    /\ cut
    /\ fail("peer")
    /\ UNCHANGED <<mc, srv, wire, up, cut>>
------------------------------------------------------------------------------
(* Receiving.                                                                *)

\* Whole records at the head of the buffer: parseRecords stops at a unit that is
\* not where a record can begin.
wholeRecords(buf) ==
    Max({n \in 0..(Len(buf) \div 2) : \A k \in 1..n :
            buf[2 * k - 1].part = "head" /\ buf[2 * k].part = "body"})

\* Mutant: what is left of the buffer after the whole records is dropped.
restDropped(buf) == IF wholeRecords(buf) > 0 THEN <<>> ELSE buf

\* What stays in the buffer.
rest(buf) == SubSeq(buf, 2 * wholeRecords(buf) + 1, Len(buf))

\* One Read of nextRecord, and the parse after it.
Read ==
    /\ hpc \in Reading /\ mc.recq = <<>>
    /\ \E n \in 1..Len(wire) :
          LET buf == mc.rxbuf \o SubSeq(wire, 1, n) IN
          /\ mc' = [mc EXCEPT !.rxbuf = rest(buf),
                              !.recq = [k \in 1..wholeRecords(buf) |-> buf[2 * k].of]]
          /\ wire' = SubSeq(wire, n + 1, Len(wire))
    /\ UNCHANGED <<hpc, srv, up, cut, fault>>

\* Mutant: reads without a deadline.
ReadFailsIfCut ==
    /\ hpc \in Reading /\ mc.recq = <<>> /\ cut /\ wire = <<>>
    /\ fail("peer")
    /\ UNCHANGED <<mc, srv, wire, up, cut>>

\* The read deadline passes, or the connection ends.
ReadFails ==
    /\ hpc \in Reading /\ mc.recq = <<>>
    /\ fail(IF wire # <<>> \/ up # <<>> \/ cut \/ srv.refused THEN "peer" ELSE "own")
    /\ UNCHANGED <<mc, srv, wire, up, cut>>

\* The next record is taken off the queue; nextRecord only hands it out.
taken == [mc EXCEPT !.recq = Tail(@), !.rxSeq = @ + 1]

\* decryptRecordPayload: key, number and content type must be those of sealing.
opens(r, k) == r.key = k /\ r.seq = mc.rxSeq

receiving(l) == hpc = l /\ mc.recq # <<>>

\* The peer is at fault if it refused; any other message it sent is in order.
unexpected == fail(IF srv.refused THEN "peer" ELSE "own") /\ UNCHANGED mc

\* ServerHello, with a key share of the group of the client's key.
RecvServerHello ==
    /\ receiving("serverHello")
    /\ LET m == Head(mc.recq).msg IN
       IF m.mt # "ServerHello" THEN unexpected
       ELSE IF m.data # "P256" THEN fail("peer") /\ UNCHANGED mc
       ELSE LET fed == feed(taken, m) IN
            /\ mc' = [fed EXCEPT !.hsHash = fed.transcript]
            /\ hpc' = "flight"
            /\ UNCHANGED fault
    /\ UNCHANGED <<srv, wire, up, cut>>

\* Mutant: the hash for the PSKs is taken before the message is fed.
certVerifiedEarly(m, message) == [feed(m, message) EXCEPT !.hCertV = m.transcript]

\* CertVerify: its content is not looked at.
certVerified(m, message) ==
    LET fed == feed(m, message) IN [fed EXCEPT !.hCertV = fed.transcript]

\* A message of the flight before Finished; a later ticket message replaces an
\* earlier one.
recvMessage(m, message) ==
    CASE message.mt = "CertVerify" -> certVerified(m, message)
      [] message.mt = "NewSessionTicket" -> [feed(m, message) EXCEPT !.nst = message.data]
      [] OTHER -> feed(m, message)

\* One turn of the loop of recvServerFlight.
RecvFlight ==
    /\ receiving("flight")
    /\ LET r == Head(mc.recq)
           m == r.msg IN
       IF ~opens(r, key("handshake", "server", mc.hsHash)) \/ m.mt = "Alert" THEN unexpected
       ELSE IF m.mt # "Finished" THEN mc' = recvMessage(taken, m) /\ UNCHANGED <<hpc, fault>>
       ELSE IF m.data # mc.transcript THEN fail("own") /\ UNCHANGED mc
       ELSE /\ mc' = [feed(taken, m) EXCEPT !.hFinal = mc.transcript]
            /\ hpc' = "sendFinished"
            /\ UNCHANGED fault
    /\ UNCHANGED <<srv, wire, up, cut>>

\* recvApp.
RecvApp ==
    /\ receiving("answer")
    /\ LET r == Head(mc.recq) IN
       IF opens(r, key("app", "server", mc.hFinal)) /\ r.ct = "appData"
       THEN mc' = taken /\ hpc' = "answered" /\ UNCHANGED fault
       ELSE unexpected
    /\ UNCHANGED <<srv, wire, up, cut>>

ClientStep ==
    \/ SendClientHello \/ SendClientFinished \/ SendFails
    \/ Read \/ ReadFails \/ RecvServerHello \/ RecvFlight \/ RecvApp
------------------------------------------------------------------------------
(* The server and the connection.                                            *)

units(records) == [k \in 1..(2 * Len(records)) |->
    [of |-> records[(k + 1) \div 2], part |-> IF k % 2 = 1 THEN "head" ELSE "body"]]

\* The server sends messages, the first under number srv.tx.
serverSends(ct, k, messages) ==
    wire' = wire \o units([n \in DOMAIN messages |-> record(ct, k, srv.tx + n - 1, messages[n])])

serverReads(st, ct, k) ==
    /\ srv.st = st /\ up # <<>> /\ ~cut
    /\ Head(up).ct = ct /\ Head(up).key = k /\ Head(up).seq = srv.rx
    /\ up' = Tail(up)
    /\ UNCHANGED <<mc, hpc, cut, fault>>

\* The key of the direction the server is in.
serverKey(side) ==
    CASE srv.st = "hello"    -> Nil
      [] srv.st = "finished" -> key("handshake", side, srv.hsHash)
      [] OTHER               -> key("app", side, srv.transcript)

ServerFlight ==
    /\ serverReads("hello", "handshake", Nil)
    /\ \E f \in Flight, group \in {"P256", "other"} :
          LET hello == msg("ServerHello", group)
              hs == <<Head(up).msg, hello>>
              tr == hs \o f
              certs == {n \in DOMAIN f : f[n].mt = "CertVerify"}
              sealed == Append(f, msg("Finished", tr))
              records == <<record("handshake", Nil, 0, hello)>>
                         \o [n \in DOMAIN sealed |->
                                record("handshake", key("handshake", "server", hs), n, sealed[n])]
          IN /\ wire' = wire \o units(records)
             /\ srv' = [srv EXCEPT !.st = "finished", !.transcript = tr, !.hsHash = hs,
                          !.hCertV = IF certs = {} THEN Nil ELSE hs \o SubSeq(f, 1, Max(certs)),
                          !.tx = Len(records), !.rx = 1]

ServerReadsFinished ==
    /\ serverReads("finished", "handshake", serverKey("client"))
    /\ Head(up).msg = msg("Finished", srv.transcript)
    /\ srv' = [srv EXCEPT !.st = "auth", !.rx = @ + 1]
    /\ UNCHANGED wire

ServerAnswers ==
    /\ serverReads("auth", "appData", serverKey("client"))
    /\ serverSends("appData", serverKey("server"), <<msg("Answer", Nil)>>)
    /\ srv' = [srv EXCEPT !.st = "served", !.rx = @ + 1, !.tx = @ + 1]

\* An alert instead of an answer.
ServerRefuses ==
    /\ srv.st \in {"hello", "auth"}
    /\ up # <<>> /\ ~cut
    /\ Head(up).key = serverKey("client") /\ Head(up).seq = srv.rx
    /\ serverSends("alert", serverKey("server"), <<msg("Alert", Nil)>>)
    /\ srv' = [srv EXCEPT !.st = "served", !.refused = TRUE]
    /\ up' = Tail(up)
    /\ UNCHANGED <<mc, hpc, cut, fault>>

\* A record that does not open, or is not the one to come, ends the connection.
ServerRejects ==
    /\ up # <<>> /\ ~cut
    /\ \/ Head(up).key # serverKey("client") \/ Head(up).seq # srv.rx
       \/ srv.st = "finished" /\ Head(up).msg # msg("Finished", srv.transcript)
    /\ srv' = [srv EXCEPT !.broken = TRUE]
    /\ cut' = TRUE
    /\ UNCHANGED <<mc, hpc, wire, up, fault>>

\* The connection breaks; what is under way may still arrive.
Cut ==
    /\ hpc \notin {"closed", "failed"} /\ ~cut
    /\ cut' = TRUE
    /\ up' = <<>>
    /\ UNCHANGED <<mc, hpc, srv, wire, fault>>

ServerStep == ServerFlight \/ ServerReadsFinished \/ ServerAnswers \/ ServerRefuses \/ ServerRejects
------------------------------------------------------------------------------
\* The server takes every record: the client seals each under the key and the
\* number that come next, over the change of keys and in whatever chunks it
\* reads the answers.
RecordsAccepted == ~srv.broken

\* A client gives up because of its peer only: with an honest one the records it
\* cuts out of the stream open, and the Finished it expects is the one it gets.
NeverOwnFault == fault # "own"
=============================================================================
