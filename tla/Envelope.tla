------------------------------ MODULE Envelope -------------------------------
(***************************************************************************)
(* What one call over the short link says, byte for byte: the transfer     *)
(* packet of a request as the client builds it and as the server, which is *)
(* external, reads it by its format; the application data of the answer,   *)
(* and what the client reads in it.                                        *)
(***************************************************************************)
EXTENDS Codec

CONSTANT
    MaxRecord   \* longest payload of a record: 0xffff in the code
ASSUME RecordAssumption == MaxRecord \in Nat

sessDevice == <<77, 65>>
plaintext(c) ==
    CASE c.op = "getCode"  -> buildJSAPIPlaintext(c.session.uin, c.app, jsLoginURL, jsLoginCmdID,
                                  loginReq(c.session.uin, c.app, sessDevice), c.session.hostAppID, sessDevice)
      [] c.op = "getPhone" -> buildPhoneRequest(c.session.uin, c.app, sessDevice)
      [] c.op = "operate"  -> buildOperateRequest(c.session.uin, c.app, c.payload, sessDevice)

envelope(c) == buildTransferPacket(c.session, plaintext(c))

gcmTagLen == 16
early(ct, seq, of, len) == [ct |-> ct, seq |-> seq, of |-> of, len |-> len]

\* The records of a request: the hello is plain, the others are sealed under the
\* early key, each with the number given.
hello(c)      == early("pskHandshake", 0, "ClientHello", 62 + c.session.ticket)
type8         == early("pskHandshake", 1, "type8", 20 + gcmTagLen)
appData(c)    == early("appData", 2, "envelope", Len(envelope(c)) + gcmTagLen)
earlyAlert    == early("alert", 3, "earlyAlert", 7 + gcmTagLen)

\* Mutant: the longest record is refused.
buildRecordBelow(r) == IF r.len < MaxRecord THEN <<r>> ELSE <<>>

\* A record that is too long is an error, which build0RTTRequest does not look at:
\* the request goes without it.
buildRecord(r) == IF r.len <= MaxRecord THEN <<r>> ELSE <<>>

\* Mutant: the number of the record before is used again.
build0RTTRepeated(c) ==
    buildRecord(hello(c)) \o buildRecord(type8)
    \o buildRecord([appData(c) EXCEPT !.seq = 1]) \o buildRecord(earlyAlert)

build0RTTRequest(c) ==
    buildRecord(hello(c)) \o buildRecord(type8) \o buildRecord(appData(c)) \o buildRecord(earlyAlert)

\* Everything the call has to say can be said: its records, and its uin.
fits(c) ==
    /\ \A r \in {hello(c), type8, appData(c), earlyAlert} : r.len <= MaxRecord
    /\ c.session.uin < 2^UinBits
------------------------------------------------------------------------------
(* The server.                                                               *)

\* What it reads in the envelope, by the format: the head and the fields.
readEnvelope[env \in Bytes, key \in Nat] ==
    LET u == unbe(slice(env, 4, 6))
        h == unbe(slice(env, 6 + u, 8 + u))
    IN IF unbe(slice(env, 0, 4)) # Len(env) - 4 THEN {}
       ELSE UNION {UNION {{[head |-> head.ints, fields |-> pbParse[text]]
               : text \in textAt[pkt.body, head.end, key]}
               : head \in decodeWpkgHead[pkt.body]}
               : pkt \in parseShortlink[from(env, 12 + u + h)]}

hasInt(fields, f, n) == \E x \in fieldOf(fields, f) : x.wt = 0 /\ x.int = n

\* It is asked for op by uin on behalf of app.
asks(q, c) ==
    /\ q.head[2] = c.session.uin
    /\ \E info \in bytesOf(q.fields, 1) : hasInt(pbParse[info], 2, c.session.uin)
    /\ bytesOf(q.fields, 6) = {c.app}
    /\ \E op \in {<<"getCode", jsLoginURL, jsLoginCmdID>>, <<"getPhone", phoneURL, phoneCmdID>>,
                  <<"operate", operateURL, operateCmdID>>} :
          op[1] = c.op /\ bytesOf(q.fields, 2) = {op[2]} /\ hasInt(q.fields, 7, op[3])
    /\ \E inner \in bytesOf(q.fields, 5) : \E g \in {pbParse[inner]} :
          bytesOf(g, 2) = {c.app} /\ (c.op = "operate" => bytesOf(g, 3) = {c.payload})

\* What the envelope says is what the client asks.
isRead(c) == \E q \in readEnvelope[envelope(c), c.session.sendKey] : asks(q, c)

\* It counts the records it opens, and executes an envelope that is among them.
accepts(c) ==
    /\ \A k \in DOMAIN build0RTTRequest(c) : build0RTTRequest(c)[k].seq = k - 1
    /\ \E k \in DOMAIN build0RTTRequest(c) : build0RTTRequest(c)[k].of = "envelope"
    /\ isRead(c)

\* The code of an answer: its app and a run of two bytes in turn.
codeOf(c) == c.app \o [k \in 1..24 |-> (c.session.uin + (k % 2)) % 256]

answerText(c) ==
    CASE c.answer.text = "code"  -> pbVar(1, 0) \o pbLen(2, pbLen(3, codeOf(c)))
      [] c.answer.text = "error" -> pbVar(1, 41002) \o pbLen(3, times(101, 9))
      [] c.answer.text = "empty" -> <<>>

\* A block with a match in place of the run; the bytes before it are literals.
matched(c) ==
    LET text == answerText(c)
        lits == SubSeq(text, 1, Len(text) - 21)
    IN <<16 * Len(lits) + 15>> \o lits \o <<2, 0>> \o <<20 - 4 - 15>> \o <<16>> \o <<text[Len(text)]>>

block(c) == IF c.answer.block = "match" THEN matched(c) ELSE lz4AllLiteral(answerText(c))

\* The application data of the answer.
answerData(c) ==
    LET box == aesGCMEncryptLayout(c.session.recvKey, block(c))
        body == c.answer.head \o box
    IN IF c.answer.packet THEN buildShortlink(transferCmd, 1, body) ELSE body
------------------------------------------------------------------------------
(* The client reads the answer.                                              *)

\* Mutant: only the first transcript is tried.
candidatesFirst == {<<"ch", "sh">>} \X {2, 1, 3}

\* The transcripts and the numbers the answer may be sealed with.
candidates == {<<"ch", "sh">>, <<"ch", "type8", "sh">>, <<"ch", "sh", "type8">>} \X {2, 1, 3}

\* What it makes of the application data of a whole response.
parses(c) ==
    IF <<c.answer.transcript, c.answer.seq>> \in candidates
    THEN parseAnswer[answerData(c), c.session.recvKey] ELSE {}

\* A call with the outcome of its bytes.
exchange(c) == [accepted |-> accepts(c), parsed |-> parses(c)] @@ c
==============================================================================
