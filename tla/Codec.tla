-------------------------------- MODULE Codec --------------------------------
(***************************************************************************)
(* The bytes of a mini-program call (ilink.go, bytes.go, the packet of     *)
(* mmtls_protocol.go): protobuf fields, the head of a package, LZ4 blocks, *)
(* the sealed body, the transfer packet, and the way back to the code.     *)
(*                                                                         *)
(* What may fail returns a set: empty for an error, else of one element.   *)
(* A byte is a number; a byte of a sealed text is a negative one, so that  *)
(* a slice opens if it is a whole sealed text under the right key.  Names  *)
(* (URLs, hosts, devices) are cut to a few bytes.  Positions count from 0  *)
(* as in the code.                                                         *)
(***************************************************************************)
EXTENDS Naturals, Integers, Sequences, SequencesExt, FiniteSetsExt, TLC

CONSTANT
    UinBits     \* width of the uin in the session info: 32 in the code
ASSUME UinAssumption == UinBits \in Nat

Bytes == Seq(Int)
slice(data, from, to) == SubSeq(data, from + 1, to)
from(data, i) == SubSeq(data, i + 1, Len(data))
at(data, i) == data[i + 1]
least(a, b) == IF a < b THEN a ELSE b
times(b, n) == [k \in 1..n |-> b]
firstOf(S) == IF S = {} THEN {} ELSE {Min(S)}
concat(seqs) == FoldLeft(LAMBDA acc, s : acc \o s, <<>>, seqs)

\* Big endian, w bytes.
be(n, w) == [k \in 1..w |-> (n \div 256^(w - k)) % 256]
unbe(data) == FoldLeft(LAMBDA acc, b : acc * 256 + b, 0, data)
------------------------------------------------------------------------------
(* Protobuf.                                                                 *)

varint[n \in Nat] == IF n < 128 THEN <<n>> ELSE <<128 + (n % 128)>> \o varint[n \div 128]

\* The first byte without the continuation bit ends the number; ten bytes at most.
readVarint[data \in Bytes, i \in Nat] ==
    LET ends == {j \in i..(least(Len(data), i + 10) - 1) : at(data, j) < 128} IN
    {[end |-> j + 1, n |-> FoldLeft(LAMBDA acc, b : acc * 128 + (b % 128), 0,
                                    Reverse(slice(data, i, j + 1)))] : j \in firstOf(ends)}

\* The tag is one byte: fields up to 15.
pbLen(field, data) == <<8 * field + 2>> \o varint[Len(data)] \o data
pbVar(field, n) == <<8 * field>> \o varint[n]

\* The field at i: its number and wire type, its number or its bytes.
pbField[data \in Bytes, i \in Nat] ==
    UNION {UNION {
        IF tag.n % 8 = 0 THEN {[at |-> i, f |-> tag.n \div 8, wt |-> 0, int |-> val.n, end |-> val.end]}
        ELSE IF tag.n % 8 = 2 /\ val.end + val.n <= Len(data)
        THEN {[at |-> i, f |-> tag.n \div 8, wt |-> 2, end |-> val.end + val.n,
               bytes |-> slice(data, val.end, val.end + val.n)]}
        ELSE {}
        : val \in readVarint[data, tag.end]} : tag \in readVarint[data, i]}

\* Parsing stops at what it cannot read and returns what it has.
pbParse[data \in Bytes] ==
    LET parse[i \in 0..Len(data)] == UNION {{x} \cup parse[x.end] : x \in pbField[data, i]}
    IN parse[0]

\* The last field of a number counts.
fieldOf(fields, f) == {x \in fields : x.f = f /\ \A y \in fields : y.f = f => y.at <= x.at}
bytesOf(fields, f) == {x.bytes : x \in {y \in fieldOf(fields, f) : y.wt = 2}}
------------------------------------------------------------------------------
(* LZ4 blocks.                                                               *)

\* A length of at least 15 goes on in bytes of 255 and a last one.
moreLength(n) == times(255, (n - 15) \div 255) \o <<(n - 15) % 255>>

\* Mutant: the boundary of the short form is off by one.
allLiteralTo15(data) ==
    IF Len(data) <= 15 THEN <<16 * Len(data)>> \o data
    ELSE <<240>> \o moreLength(Len(data)) \o data

lz4AllLiteral(data) ==
    IF Len(data) < 15 THEN <<16 * Len(data)>> \o data
    ELSE <<240>> \o moreLength(Len(data)) \o data

\* The length whose nibble was read before i.
readLength[data \in Bytes, i \in Nat, nibble \in 0..15] ==
    IF nibble < 15 THEN {[n |-> nibble, end |-> i]}
    ELSE {[n |-> 15 + 255 * (j - i) + at(data, j), end |-> j + 1]
             : j \in firstOf({k \in i..(Len(data) - 1) : at(data, k) # 255})}

\* Mutant: a match does not see the bytes it has copied itself.
copyOld(out, off, n) == out \o [k \in 1..n |-> out[Len(out) - off + least(k, off)]]

\* A match copies byte by byte, so one longer than its offset repeats.
copyMatch(out, off, n) == out \o [k \in 1..n |-> out[Len(out) - off + 1 + ((k - 1) % off)]]

\* One token after the other, its literals and the match that follows them; the
\* block ends after the literals of the last.
lz4Tokens[data \in Bytes] ==
    LET block[i \in 0..Len(data)] ==
            IF i = Len(data) THEN {<<>>}
            ELSE UNION {
                LET j == lit.end + lit.n
                    lits == slice(data, lit.end, j)
                    off == at(data, j) + 256 * at(data, j + 1)
                IN IF j > Len(data) THEN {}
                   ELSE IF j = Len(data) THEN {<<[lits |-> lits, off |-> 0, match |-> 0]>>}
                   ELSE IF j + 2 > Len(data) \/ off = 0 THEN {}
                   ELSE UNION {{<<[lits |-> lits, off |-> off, match |-> m.n + 4]>> \o rest : rest \in block[m.end]}
                               : m \in readLength[data, j + 2, at(data, i) % 16]}
                : lit \in readLength[data, i + 1, at(data, i) \div 16]}
    IN block[0]

\* A match begins in what is out already.
expand(outs, t) ==
    {IF t.off = 0 THEN out ELSE copyMatch(out, t.off, t.match)
        : out \in {o \o t.lits : o \in {p \in outs : t.off <= Len(p) + Len(t.lits)}}}

lz4Decompress[data \in Bytes] ==
    UNION {FoldLeft(expand, {<<>>}, tokens) : tokens \in lz4Tokens[data]}
------------------------------------------------------------------------------
(* Sealed texts: the ciphertext, 12 bytes of nonce, 16 of tag.                *)

nonceByte == -999
tagByte(k, n) == -(1000 * (k + 1) + n)

aesGCMEncryptLayout(k, plain) ==
    [i \in DOMAIN plain |-> -(1 + plain[i])] \o times(nonceByte, 12) \o times(tagByte(k, Len(plain)), 16)

aesGCMDecryptLayout[k \in Nat, blob \in Bytes] ==
    LET n == Len(blob) - 28 IN
    IF n >= 0 /\ SubSeq(blob, n + 1, n + 12) = times(nonceByte, 12)
              /\ SubSeq(blob, n + 13, n + 28) = times(tagByte(k, n), 16)
    THEN {[i \in 1..n |-> -blob[i] - 1]}
    ELSE {}
------------------------------------------------------------------------------
(* The head of a package.                                                    *)

inOrder(S) ==
    [k \in 1..Cardinality(S) |-> CHOOSE x \in S : Cardinality({y \in S : y < x}) = k - 1]

\* Mutant: numbers of value 0 are left out, with them the end is lost.
headWithoutZero(ints, byts) ==
    LET ik == inOrder(DOMAIN ints)
        bk == inOrder(DOMAIN byts)
        body == varint[1]
                \o concat([k \in DOMAIN ik |-> varint[ik[k]] \o varint[ints[ik[k]]]])
                \o concat([k \in DOMAIN bk |-> varint[bk[k]] \o varint[Len(byts[bk[k]])] \o byts[bk[k]]])
    IN body \o <<0>> \o varint[Len(body) + 1]

\* Numbers, a zero, byte fields, a zero, and the length of the head.
wpkgHead(ints, byts) ==
    LET ik == inOrder(DOMAIN ints)
        bk == inOrder(DOMAIN byts)
        body == varint[1]
                \o concat([k \in DOMAIN ik |-> varint[ik[k]] \o varint[ints[ik[k]]]])
                \o varint[0]
                \o concat([k \in DOMAIN bk |-> varint[bk[k]] \o varint[Len(byts[bk[k]])] \o byts[bk[k]]])
    IN body \o <<0>> \o varint[Len(body) + 1]

decodeWpkgHead[data \in Bytes] ==
    LET N == 0..Len(data)
        \* Numbers up to the field 0, from position i.
        numbers[i \in N] ==
            UNION {IF fn.n = 0 THEN {[end |-> fn.end, ints |-> <<>>]}
                   ELSE UNION {{[rest EXCEPT !.ints = @ @@ (fn.n :> v.n)] : rest \in numbers[v.end]}
                               : v \in readVarint[data, fn.end]}
                   : fn \in readVarint[data, i]}
        strings[i \in N] ==
            UNION {IF fn.n = 0 THEN {fn.end}
                   ELSE UNION {IF ln.end + ln.n > Len(data) THEN {} ELSE strings[ln.end + ln.n]
                               : ln \in readVarint[data, fn.end]}
                   : fn \in readVarint[data, i]}
        ints == UNION {numbers[ver.end] : ver \in readVarint[data, 0]}
    IN UNION {UNION {{[end |-> size.end, ints |-> int.ints] : size \in readVarint[data, s]}
                     : s \in strings[int.end]} : int \in ints}
------------------------------------------------------------------------------
(* Packets.                                                                  *)

shortlinkMagic == 4368
defaultVer == 1901
transferCmd == 2881

buildShortlink(cmd, seq, body) ==
    be(16 + Len(body), 4) \o be(shortlinkMagic, 2) \o be(defaultVer, 2) \o be(cmd, 4) \o be(seq, 4) \o body

\* Of a total below 16, which the server does not send, the code makes a panic.
parseShortlink[pkt \in Bytes] ==
    IF Len(pkt) < 16 THEN {}
    ELSE IF at(pkt, 0) > 0 \/ unbe(slice(pkt, 0, 4)) > Len(pkt) THEN {}
    ELSE {[cmd |-> unbe(slice(pkt, 8, 12)), body |-> slice(pkt, 16, unbe(slice(pkt, 0, 4)))]}

\* Names of the requests, cut short.
windowsName == <<87, 105>>
unifiedPCWindows == <<85, 110>>
windowsPlugin == <<87, 80>>
sessionKeyLiteral == <<115, 107>>
hostAppIDDefault == <<119, 120>>
ilinkDevice == <<105, 108>>
jsLoginURL == <<47, 106>>
transferURL == <<47, 116>>
transferHost == <<104>>
phoneURL == <<47, 112>>
operateURL == <<47, 111>>
jsLoginCmdID == 1029
phoneCmdID == 1020
operateCmdID == 1133

\* The session info has room for the low bits of a uin; the head takes it whole.
uint32(uin) == uin % 2^UinBits

sessionInfo(uin, win, device) ==
    pbLen(1, sessionKeyLiteral) \o pbVar(2, uin) \o pbLen(3, device)
    \o pbVar(4, 1661404927) \o pbLen(5, win) \o pbVar(6, 0)

\* What the plugin asks the server to pass on: to url, under its command.
buildJSAPIPlaintext(uin, appID, url, cmdID, inner, hostAppID, device) ==
    pbLen(1, sessionInfo(uint32(uin), windowsName, device)) \o pbLen(2, url)
    \o pbLen(3, IF hostAppID = <<>> THEN hostAppIDDefault ELSE hostAppID) \o pbVar(4, 5)
    \o pbLen(5, inner) \o pbLen(6, appID) \o pbVar(7, cmdID) \o pbVar(8, 1610627409)
    \o pbLen(9, windowsPlugin) \o pbVar(10, 573651281)

\* The inner request of GetCode and GetPhoneNumber.
loginReq(uin, appID, device) ==
    pbLen(1, sessionInfo(uint32(uin), unifiedPCWindows, device)) \o pbLen(2, appID)
    \o pbVar(4, 1) \o pbLen(5, <<>>) \o pbLen(6, <<>>) \o pbVar(7, 1)

buildPhoneRequest(uin, appID, device) ==
    buildJSAPIPlaintext(uin, appID, phoneURL, phoneCmdID, loginReq(uin, appID, device), <<>>, device)

\* payload: the JSON of the operation.
buildOperateRequest(uin, appID, payload, device) ==
    buildJSAPIPlaintext(uin, appID, operateURL, operateCmdID,
        pbLen(1, sessionInfo(uint32(uin), unifiedPCWindows, device)) \o pbLen(2, appID)
        \o pbLen(3, payload) \o pbLen(4, <<>>) \o pbVar(5, 0) \o pbVar(6, 0), <<>>, device)

sessionWpkgHead(uin, f9, device) ==
    wpkgHead((1 :> 1) @@ (2 :> uin) @@ (5 :> 524545) @@ (6 :> 11) @@ (10 :> 1) @@ (18 :> 1)
             @@ (20 :> 1504) @@ (22 :> uin) @@ (25 :> 16) @@ (26 :> 4) @@ (28 :> 1) @@ (29 :> 1)
             @@ [k \in {3, 4, 7, 8, 9, 11, 12, 13, 17, 21, 23, 30} |-> 0],
             (14 :> <<>>) @@ (24 :> IF device = <<>> THEN ilinkDevice ELSE device) @@ (27 :> f9))

\* session: the two keys, the uin, f9 and the device of a login.
buildTransferPacket(session, plaintext) ==
    LET enc == aesGCMEncryptLayout(session.sendKey, lz4AllLiteral(plaintext))
        inner == buildShortlink(transferCmd, 0,
                     sessionWpkgHead(session.uin, session.f9, session.device) \o enc)
        env == be(Len(transferURL), 2) \o transferURL \o be(Len(transferHost), 2) \o transferHost
               \o be(Len(inner), 4) \o inner
    IN be(Len(env), 4) \o env
------------------------------------------------------------------------------
(* The way back.                                                             *)

\* The text sealed in body from place off on.
textAt[body \in Bytes, off \in Nat, recvKey \in Nat] ==
    IF Len(body) - off < 29 THEN {}
    ELSE UNION {lz4Decompress[p] : p \in aesGCMDecryptLayout[recvKey, from(body, off)]}

\* After the head if there is one, else at the first of 220 places that opens.
sessionDecrypt[body \in Bytes, recvKey \in Nat] ==
    LET afterHead == UNION {textAt[body, head.end, recvKey] : head \in decodeWpkgHead[body]}
        good == {off \in 0..(least(Len(body), 220) - 1) : textAt[body, off, recvKey] # {}}
    IN IF afterHead # {} THEN afterHead
       ELSE UNION {textAt[body, off, recvKey] : off \in firstOf(good)}

\* The code of a response, empty if there is none.
extractCode[resp \in Bytes] ==
    LET codes == UNION {bytesOf(pbParse[inner], 3) : inner \in bytesOf(pbParse[resp], 2)}
    IN IF codes = {} THEN <<>> ELSE CHOOSE c \in codes : TRUE

\* What the application data of an answer holds: a packet around the body, or
\* the body itself.
parseAnswer[ad \in Bytes, recvKey \in Nat] ==
    LET inPkt == UNION {sessionDecrypt[pkt.body, recvKey] : pkt \in parseShortlink[ad]}
    IN {[code |-> extractCode[r], resp |-> r]
           : r \in IF inPkt # {} THEN inPkt ELSE sessionDecrypt[ad, recvKey]}
=============================================================================
