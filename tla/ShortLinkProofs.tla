--------------------------- MODULE ShortLinkProofs ---------------------------
(***************************************************************************)
(* Proofs about ShortLink: the dialling and the exchange of one call, for  *)
(* every number of targets, every timeout and every sort of call.          *)
(***************************************************************************)
EXTENDS ShortLink, SequenceTheorems, TLAPS

UnitName == {"greeting", "connect", "CONNECT", "request", "method", "granted", "refused", "address",
             "status", "blank", "hello", "hello end", "data", "data end", "alert"}
Unit == [u : UnitName, n : Nat]
Link == [up : Seq(Unit), down : Seq(Unit), c : {"none", "open", "closed"},
         p : {"none", "open", "closed", "reset"}]
TunnelState == [st : {"idle", "dial", "hijack", "relay", "ended"}, upc : {"off", "run", "done"},
                downc : {"off", "run", "done"}]
ServerState == {"waiting", "answered", "broken", "rejected", "refused"}

\* A connection is open at the client.
Dialog == {"method", "reply", "length", "discard", "status"}
Engaged == Dialog \cup {"write", "read", "handed"}

LinksOK == cl \in [Conn -> Link] /\ ds \in [Conn -> Link] /\ tun \in [Conn -> TunnelState]

ShortTypeOK ==
    /\ LinksOK
    /\ call \in Call /\ opc \in Engaged \cup {"next", "connect", "returned"}
    /\ cid \in Nat /\ hop \in {"proxy", "target"} /\ need \in Nat /\ dl \in Nat /\ now \in Nat
    /\ via \in [Conn -> {"none", "target", "socks5", "http-connect"}]
    /\ socks \in [Conn -> {"idle", "greeted", "relay", "ended"}]
    /\ srv \in [Conn -> ServerState]
    /\ target \in Nat /\ target <= targets

\* The way to a target: which connection is dialled, and where to.
Ways ==
    /\ call.kind = "send" => cid <= target
    /\ call.kind = "login" => /\ cid <= 2 /\ (target = 0 => cid = 0)
                              /\ hop = "proxy" => cid = 1
    /\ hop = "proxy" => call.proxy \in {"socks5", "http-connect"}
    /\ call.proxy # "none" /\ hop = "target" /\ cid > 0 => call.kind = "login" /\ cid = 2
    /\ \A i \in Conn : via[i] = "target" /\ call.proxy # "none" => call.kind = "login" /\ i = 2
    /\ opc \in Engaged \cup {"connect"} => cid > 0

\* A connection not dialled yet.
Fresh(i) == /\ via[i] = "none" /\ cl[i] = noConn /\ ds[i] = noConn /\ tun[i] = noTunnel
            /\ srv[i] = "waiting" /\ socks[i] = "idle"

Later == \A i \in Conn : i > cid \/ (i = cid /\ opc = "connect") => Fresh(i)
Earlier == \A i \in Conn : i # cid \/ opc \notin Engaged => cl[i].c # "open"

\* The time a send has used.
InTime ==
    call.kind = "send" =>
        /\ opc = "connect" => dl <= T
        /\ opc \in Dialog => dl <= 2 * T /\ now <= 2 * T
        /\ opc = "write" => now <= 2 * T
        /\ opc = "read" => dl <= 3 * T
        /\ opc # "handed"
        /\ now <= 3 * T

addresses(t) == [n \in DOMAIN Bound[t] |-> unit("address", Bound[t][n])]

\* The dialog with a SOCKS5 proxy.
SocksAt(k, s) ==
    /\ opc = "method" => \/ s = "idle" /\ k.up = <<unit("greeting", 0)>> /\ k.down = <<>>
                         \/ s = "greeted" /\ k.up = <<>> /\ Len(k.down) = 1
    /\ opc = "reply" => \/ s = "greeted" /\ k.up = <<unit("connect", 0)>> /\ k.down = <<>>
                        \/ /\ s = "relay" /\ k.up = <<>>
                           /\ \E t \in DOMAIN Bound : k.down = <<unit("granted", t)>> \o addresses(t)
                        \/ s = "ended" /\ k.up = <<>> /\ k.down = <<unit("refused", 5)>>
    /\ opc = "length" => s = "relay" /\ k.up = <<>> /\ 3 \in DOMAIN Bound /\ k.down = addresses(3)
    /\ opc = "discard" => s = "relay" /\ k.up = <<>> /\ Len(k.down) = need
    /\ s # "relay" => k.p = "open"

\* No end of an answer, before the server has written one.
NoEnd(units) == \A n \in DOMAIN units : units[n].u # "data end"

\* A connection without a tunnel.
Straight(k, i) ==
    /\ tun[i] = noTunnel /\ ds[i] = noConn
    /\ opc # "status"
    /\ via[i] = "socks5" => SocksAt(k, socks[i])
    /\ via[i] = "target" \/ opc \notin Dialog =>
          /\ opc \notin Dialog
          /\ via[i] = "socks5" => socks[i] = "relay"
          /\ opc # "read" => k.up = <<>> /\ k.down = <<>>
          /\ srv[i] = "waiting" => k.down = <<>>
    /\ opc = "read" => /\ k.up \in {<<>>, <<request>>}
                       /\ srv[i] = "waiting" => k.up = <<request>>
                       /\ srv[i] = "answered" => k.down = answer
                       /\ srv[i] # "answered" => NoEnd(k.down)
    /\ srv[i] = "waiting" => k.p = "open"
    /\ opc # "read" => srv[i] \in {"waiting", "broken"}

\* What a CONNECT is answered.
Statuses == {status(407), status(502), status(200)}

\* The tunnel relays: what the server writes reaches the client as it is, until
\* one of the two connections ends.
Relaying(k, d, t, s) ==
    /\ k.p = "open" => t.downc = "run"
    /\ k.p # "open" \/ d.c # "open" => d.p # "open"
    /\ d.p # "open" => s # "waiting"
    /\ opc # "read" => k.up = <<>> /\ d.up = <<>> /\ d.down = <<>>
    /\ opc = "status" => k.down = status(200)
    /\ opc \in {"write", "handed"} => k.down = <<>>
    /\ opc = "read" =>
          /\ k.up \in {<<>>, <<request>>}
          /\ s = "waiting" => /\ k.down = <<>> /\ d.down = <<>>
                              /\ \/ k.up = <<request>> /\ d.up = <<>>
                                 \/ k.up = <<>> /\ d.up = <<request>>
          /\ s = "answered" =>
                /\ k.up = <<>> /\ d.up = <<>>
                /\ k.p = "open" => d.c = "open" /\ k.down \o d.down = answer
                /\ k.p # "open" /\ d.p # "reset" => k.down = answer
          /\ s # "answered" => NoEnd(k.down) /\ NoEnd(d.down)

\* A connection with a tunnel.
Tunnelled(k, i) ==
    LET d == ds[i]
        t == tun[i]
    IN  /\ opc \in {"status", "write", "read", "handed"}
        /\ t.st \in {"idle", "dial"} =>
              /\ opc = "status" /\ d = noConn /\ k.down = <<>> /\ k.p = "open"
              /\ k.up = IF t.st = "idle" THEN <<CONNECT>> ELSE <<>>
        /\ t.st = "hijack" =>
              /\ opc = "status" /\ k.up = <<>> /\ k.down = <<>> /\ k.p = "open"
              /\ d.up = <<>> /\ d.down = <<>> /\ d.c = "open"
              /\ d.p # "open" => srv[i] # "waiting"
        /\ t.st \in {"idle", "dial", "hijack"} => t.upc = "off" /\ t.downc = "off"
        /\ t.st = "relay" => Relaying(k, d, t, srv[i])
        /\ t.st = "ended" =>
              /\ k.p # "open" /\ d.c # "open" /\ t.upc # "run" /\ t.downc # "run"
              /\ opc # "read" => k.up = <<>> /\ d.up = <<>>
              /\ opc = "status" => k.down \in Statuses \cup {<<>>}
              /\ opc \in {"write", "handed"} => k.down = <<>>
              /\ opc = "read" /\ srv[i] # "answered" => NoEnd(k.down)
        /\ opc # "read" => srv[i] \in {"waiting", "broken"}

\* The connection in use.
Using ==
    opc \in Engaged =>
        /\ cl[cid].c = "open"
        /\ via[cid] = (IF hop = "target" THEN "target" ELSE call.proxy)
        /\ opc = "handed" => call.kind = "login"
        /\ IF via[cid] = "http-connect" THEN Tunnelled(cl[cid], cid) ELSE Straight(cl[cid], cid)

\* What a call returns was the whole answer.
Answered ==
    result # {} => /\ opc = "returned" /\ cid \in Conn /\ srv[cid] = "answered"
                   /\ result = useful(call.parsed)

\* The server drops only what it cannot open or read.
NoRejection == call.accepted => \A i \in Conn : srv[i] # "rejected"

WayInv == ShortTypeOK /\ Ways /\ Later /\ Earlier /\ InTime
ShortInv == WayInv /\ Using /\ Answered /\ NoRejection
------------------------------------------------------------------------------
(* Parts of sequences.                                                       *)

LEMMA Part ==
    ASSUME NEW S, NEW s \in Seq(S), NEW m \in Nat, NEW n \in Nat, 1 <= m, n <= Len(s)
    PROVE  /\ SubSeq(s, m, n) \in Seq(S)
           /\ m <= n => Len(SubSeq(s, m, n)) = n - m + 1
           /\ m > n => SubSeq(s, m, n) = <<>>
           /\ \A k \in 1..(n - m + 1) : SubSeq(s, m, n)[k] = s[m + k - 1]
<1>1. \A i \in m..n : s[i] \in S
  <2>1. \A i \in m..n : i \in 1..Len(s)
    OBVIOUS
  <2>. QED  BY <2>1
<1>2. m \in Int /\ n \in Int
  OBVIOUS
<1>. QED  BY <1>1, <1>2, SubSeqProperties, SubSeqEmpty

\* What was cut in two is whole when put together.
LEMMA CutInTwo ==
    ASSUME NEW S, NEW s \in Seq(S), NEW n \in 0..Len(s)
    PROVE  SubSeq(s, 1, n) \o SubSeq(s, n + 1, Len(s)) = s
<1>1. 1 \in 1..(Len(s) + 1) /\ n \in (1 - 1)..Len(s) /\ Len(s) \in n..Len(s)
  OBVIOUS
<1>2. SubSeq(s, 1, n) \o SubSeq(s, n + 1, Len(s)) = SubSeq(s, 1, Len(s))
  BY <1>1, ConcatAdjacentSubSeq
<1>. QED  BY <1>2, SubSeqFull

LEMMA NotEmpty ==
    ASSUME NEW S, NEW s \in Seq(S), Len(s) # 0
    PROVE  s # <<>>
  BY EmptySeq
------------------------------------------------------------------------------
(* Units and the ends of a connection.                                       *)

LEMMA UnitTypes ==
    /\ \A u \in UnitName, n \in Nat : unit(u, n) \in Unit
    /\ \A u, n : unit(u, n).u = u /\ unit(u, n).n = n
  BY DEF unit, Unit

LEMMA NoConnections ==
    /\ noConn \in Link /\ noConn.c = "none" /\ noConn.p = "none" /\ noConn.up = <<>> /\ noConn.down = <<>>
    /\ newConn \in Link /\ newConn.c = "open" /\ newConn.p = "open" /\ newConn.up = <<>> /\ newConn.down = <<>>
    /\ noTunnel \in TunnelState /\ noTunnel.st = "idle" /\ noTunnel.upc = "off" /\ noTunnel.downc = "off"
<1>1. <<>> \in Seq(Unit)
  BY EmptySeq
<1>. QED  BY <1>1 DEF noConn, newConn, noTunnel, Link, TunnelState

LEMMA ClosedByClient ==
    ASSUME NEW k \in Link
    PROVE  /\ closedByClient(k) \in Link /\ closedByClient(k).c = "closed" /\ closedByClient(k).p = k.p
           /\ closedByClient(k).up = k.up /\ closedByClient(k).down = <<>>
<1>1. <<>> \in Seq(Unit)
  BY EmptySeq
<1>. QED  BY <1>1 DEF closedByClient, Link

LEMMA ClosedByPeer ==
    ASSUME NEW k \in Link
    PROVE  /\ closedByPeer(k) \in Link /\ closedByPeer(k).c = k.c /\ closedByPeer(k).p # "open"
           /\ closedByPeer(k).down = k.down
           /\ closedByPeer(k).up = IF k.p = "open" THEN <<>> ELSE k.up
           /\ k.p # "open" => closedByPeer(k).p = k.p
<1>1. <<>> \in Seq(Unit)
  BY EmptySeq
<1>. QED  BY <1>1 DEF closedByPeer, Link

LEMMA WroteDown ==
    ASSUME NEW k \in Link, NEW s \in Seq(Unit)
    PROVE  /\ wroteDown(k, s) \in Link /\ wroteDown(k, s).c = k.c /\ wroteDown(k, s).p = k.p
           /\ wroteDown(k, s).up = k.up
           /\ wroteDown(k, s).down = IF k.c = "open" THEN k.down \o s ELSE k.down
<1>1. k.down \o s \in Seq(Unit)
  BY ConcatProperties DEF Link
<1>. QED  BY <1>1 DEF wroteDown, Link

LEMMA WroteUp ==
    ASSUME NEW k \in Link, NEW s \in Seq(Unit)
    PROVE  /\ wroteUp(k, s) \in Link /\ wroteUp(k, s).c = k.c /\ wroteUp(k, s).p = k.p
           /\ wroteUp(k, s).down = k.down
           /\ wroteUp(k, s).up = IF k.p = "open" THEN k.up \o s ELSE k.up
<1>1. k.up \o s \in Seq(Unit)
  BY ConcatProperties DEF Link
<1>. QED  BY <1>1 DEF wroteUp, Link

LEMMA WithUp ==
    ASSUME NEW k \in Link, NEW s \in Seq(Unit)
    PROVE  /\ [k EXCEPT !.up = s] \in Link /\ [k EXCEPT !.up = s].c = k.c /\ [k EXCEPT !.up = s].p = k.p
           /\ [k EXCEPT !.up = s].down = k.down /\ [k EXCEPT !.up = s].up = s
  BY DEF Link

LEMMA WithDown ==
    ASSUME NEW k \in Link, NEW s \in Seq(Unit)
    PROVE  /\ [k EXCEPT !.down = s] \in Link /\ [k EXCEPT !.down = s].c = k.c
           /\ [k EXCEPT !.down = s].p = k.p
           /\ [k EXCEPT !.down = s].up = k.up /\ [k EXCEPT !.down = s].down = s
  BY DEF Link

LEMMA StatusUnits ==
    ASSUME NEW n \in Nat
    PROVE  /\ status(n) \in Seq(Unit) /\ Len(status(n)) = 2 /\ status(n)[1] = unit("status", n)
           /\ status(n)[2] = blank /\ status(n) # <<>> /\ Head(status(n)) = unit("status", n)
<1>1. unit("status", n) \in Unit /\ blank \in Unit
  BY UnitTypes DEF blank, UnitName
<1>. QED  BY <1>1, EmptySeq DEF status
------------------------------------------------------------------------------
(* Steps on a connection i that are not the client's.                        *)

Kinds == socks \in [Conn -> {"idle", "greeted", "relay", "ended"}] /\ srv \in [Conn -> ServerState]

\* They leave the client, the other connections and the client's end alone.
Elsewhere(i) ==
    /\ LinksOK' /\ Kinds'
    /\ cl'[i].c = cl[i].c
    /\ \A j \in Conn \ {i} : /\ cl'[j] = cl[j] /\ ds'[j] = ds[j] /\ tun'[j] = tun[j]
                             /\ srv'[j] = srv[j] /\ socks'[j] = socks[j]
    /\ UNCHANGED <<call, opc, cid, hop, need, dl, now, via, blame, target, result>>
    /\ ~Fresh(i)
    /\ srv[i] = "answered" => srv'[i] = "answered"
    /\ srv'[i] = "rejected" => srv[i] = "rejected" \/ ~call.accepted

LEMMA AnsweredAndClosed ==
    ASSUME LinksOK, NEW i \in Conn, NEW s \in Seq(Unit), answerAndClose(i, s)
    PROVE  /\ LinksOK' /\ cl'[i].c = cl[i].c /\ cl'[i].p # "open" /\ cl'[i].up = <<>>
           /\ cl'[i].down = IF cl[i].c = "open" THEN cl[i].down \o s ELSE cl[i].down
           /\ tun'[i] = [tun[i] EXCEPT !.st = "ended"] /\ ds' = ds
           /\ \A j \in Conn \ {i} : cl'[j] = cl[j] /\ tun'[j] = tun[j]
<1>. DEFINE a == [cl[i] EXCEPT !.up = <<>>]
            b == wroteDown(a, s)
            e == closedByPeer(b)
            t == [tun[i] EXCEPT !.st = "ended"]
<1>1. cl[i] \in Link /\ tun[i] \in TunnelState /\ <<>> \in Seq(Unit)
  BY EmptySeq DEF LinksOK
<1>2. a \in Link /\ a.c = cl[i].c /\ a.p = cl[i].p /\ a.down = cl[i].down /\ a.up = <<>>
  BY <1>1, WithUp
<1>. HIDE DEF a
<1>3. b \in Link /\ b.c = a.c /\ b.up = a.up
      /\ b.down = IF a.c = "open" THEN a.down \o s ELSE a.down
  BY <1>2, WroteDown
<1>. HIDE DEF b
<1>4. e \in Link /\ e.c = b.c /\ e.p # "open" /\ e.down = b.down /\ e.up = <<>>
  <2>1. e.up = IF b.p = "open" THEN <<>> ELSE b.up
    BY <1>3, ClosedByPeer
  <2>. QED  BY <1>2, <1>3, <2>1, ClosedByPeer
<1>5. t \in TunnelState
  BY <1>1 DEF TunnelState
<1>6. cl' = [cl EXCEPT ![i] = e] /\ tun' = [tun EXCEPT ![i] = t] /\ ds' = ds
  BY DEF answerAndClose, e, b, a, t
<1>. HIDE DEF e, t
<1>7. cl'[i] = e /\ tun'[i] = t /\ LinksOK'
      /\ \A j \in Conn \ {i} : cl'[j] = cl[j] /\ tun'[j] = tun[j]
  BY <1>4, <1>5, <1>6 DEF LinksOK
<1>. QED  BY <1>2, <1>3, <1>4, <1>6, <1>7 DEF t

\* What each step of a tunnel does to its connection.
LEMMA Refused ==
    ASSUME LinksOK, NEW i \in Conn, RefuseUnauthorized(i) \/ TargetRefuses(i) \/ NoRequest(i)
    PROVE  /\ LinksOK' /\ cl'[i].c = cl[i].c /\ cl'[i].p # "open" /\ cl'[i].up = <<>>
           /\ \E s \in Statuses \cup {<<>>} :
                cl'[i].down = IF cl[i].c = "open" THEN cl[i].down \o s ELSE cl[i].down
           /\ NoRequest(i) => cl[i].c = "closed"
           /\ tun'[i] = [tun[i] EXCEPT !.st = "ended"] /\ ds' = ds
           /\ tun[i].st \in {"idle", "dial"}
           /\ cl[i] = noConn => tun[i].st = "dial"
           /\ \A j \in Conn \ {i} : cl'[j] = cl[j] /\ tun'[j] = tun[j]
<1>1. /\ status(407) \in Seq(Unit) /\ status(502) \in Seq(Unit) /\ <<>> \in Seq(Unit)
      /\ status(407) \in Statuses /\ status(502) \in Statuses
  BY StatusUnits, EmptySeq DEF Statuses
<1>2. PICK s \in {status(407), status(502), <<>>} : answerAndClose(i, s)
  BY DEF RefuseUnauthorized, TargetRefuses, NoRequest
<1>3. s \in Seq(Unit) /\ s \in Statuses \cup {<<>>}
  <2>1. s = status(407) \/ s = status(502) \/ s = <<>>
    BY <1>2
  <2>2. CASE s = <<>>
    BY <1>1, <2>2
  <2>3. CASE s = status(407)
    BY <1>1, <2>3
  <2>4. CASE s = status(502)
    BY <1>1, <2>4
  <2>. QED  BY <2>1, <2>2, <2>3, <2>4
<1>4. /\ LinksOK' /\ cl'[i].c = cl[i].c /\ cl'[i].p # "open" /\ cl'[i].up = <<>>
      /\ cl'[i].down = IF cl[i].c = "open" THEN cl[i].down \o s ELSE cl[i].down
      /\ tun'[i] = [tun[i] EXCEPT !.st = "ended"] /\ ds' = ds
      /\ \A j \in Conn \ {i} : cl'[j] = cl[j] /\ tun'[j] = tun[j]
  BY <1>2, <1>3, AnsweredAndClosed
<1>5. tun[i].st \in {"idle", "dial"} /\ (NoRequest(i) => cl[i].c = "closed")
  BY DEF RefuseUnauthorized, TargetRefuses, NoRequest, asked
<1>6. cl[i] = noConn => tun[i].st = "dial"
  BY NoConnections DEF RefuseUnauthorized, TargetRefuses, NoRequest, asked
<1>. QED  BY <1>3, <1>4, <1>5, <1>6

LEMMA RequestServed ==
    ASSUME LinksOK, NEW i \in Conn, ServeConnect(i)
    PROVE  /\ LinksOK' /\ asked(i) /\ cl'[i] = [cl[i] EXCEPT !.up = Tail(cl[i].up)]
           /\ tun'[i] = [tun[i] EXCEPT !.st = "dial"] /\ ds' = ds
           /\ \A j \in Conn \ {i} : cl'[j] = cl[j] /\ tun'[j] = tun[j]
<1>. DEFINE k == [cl[i] EXCEPT !.up = Tail(cl[i].up)]
            t == [tun[i] EXCEPT !.st = "dial"]
<1>1. cl[i] \in Link /\ tun[i] \in TunnelState /\ cl[i].up \in Seq(Unit) /\ cl[i].up # <<>>
  BY DEF LinksOK, Link, ServeConnect, asked
<1>2. Tail(cl[i].up) \in Seq(Unit)
  BY <1>1
<1>3. k \in Link /\ t \in TunnelState
  BY <1>1, <1>2 DEF Link, TunnelState
<1>4. cl' = [cl EXCEPT ![i] = k] /\ tun' = [tun EXCEPT ![i] = t] /\ ds' = ds /\ asked(i)
  BY DEF ServeConnect
<1>. HIDE DEF k, t
<1>5. cl'[i] = k /\ tun'[i] = t /\ LinksOK'
      /\ \A j \in Conn \ {i} : cl'[j] = cl[j] /\ tun'[j] = tun[j]
  BY <1>3, <1>4 DEF LinksOK
<1>. QED  BY <1>4, <1>5 DEF k, t

LEMMA TargetTaken ==
    ASSUME LinksOK, NEW i \in Conn, TargetDialled(i)
    PROVE  /\ LinksOK' /\ tun[i].st = "dial" /\ ds'[i] = newConn
           /\ tun'[i] = [tun[i] EXCEPT !.st = "hijack"] /\ cl' = cl
           /\ \A j \in Conn \ {i} : ds'[j] = ds[j] /\ tun'[j] = tun[j]
<1>. DEFINE t == [tun[i] EXCEPT !.st = "hijack"]
<1>1. tun[i] \in TunnelState /\ t \in TunnelState
  BY DEF LinksOK, TunnelState
<1>2. ds' = [ds EXCEPT ![i] = newConn] /\ tun' = [tun EXCEPT ![i] = t] /\ cl' = cl /\ tun[i].st = "dial"
  BY DEF TargetDialled
<1>. HIDE DEF t
<1>3. ds'[i] = newConn /\ tun'[i] = t /\ LinksOK'
      /\ \A j \in Conn \ {i} : ds'[j] = ds[j] /\ tun'[j] = tun[j]
  BY <1>1, <1>2, NoConnections DEF LinksOK
<1>. QED  BY <1>2, <1>3 DEF t

LEMMA Hijacked ==
    ASSUME LinksOK, NEW i \in Conn, Hijack(i)
    PROVE  /\ LinksOK' /\ tun[i].st = "hijack" /\ cl'[i].c = cl[i].c /\ cl'[i].p = cl[i].p
           /\ cl'[i].up = <<>>
           /\ cl'[i].down = IF cl[i].c = "open" THEN cl[i].down \o status(200) ELSE cl[i].down
           /\ tun'[i] = [st |-> "relay", upc |-> "run", downc |-> "run"] /\ ds' = ds
           /\ \A j \in Conn \ {i} : cl'[j] = cl[j] /\ tun'[j] = tun[j]
<1>. DEFINE a == [cl[i] EXCEPT !.up = <<>>]
            b == wroteDown(a, status(200))
            t == [st |-> "relay", upc |-> "run", downc |-> "run"]
<1>1. cl[i] \in Link /\ <<>> \in Seq(Unit) /\ status(200) \in Seq(Unit) /\ t \in TunnelState
  BY EmptySeq, StatusUnits DEF LinksOK, TunnelState
<1>2. a \in Link /\ a.c = cl[i].c /\ a.p = cl[i].p /\ a.down = cl[i].down /\ a.up = <<>>
  BY <1>1, WithUp
<1>. HIDE DEF a
<1>3. b \in Link /\ b.c = a.c /\ b.p = a.p /\ b.up = a.up
      /\ b.down = IF a.c = "open" THEN a.down \o status(200) ELSE a.down
  BY <1>1, <1>2, WroteDown
<1>4. cl' = [cl EXCEPT ![i] = b] /\ tun' = [tun EXCEPT ![i] = t] /\ ds' = ds /\ tun[i].st = "hijack"
  BY DEF Hijack, a
<1>. HIDE DEF b, t
<1>5. cl'[i] = b /\ tun'[i] = t /\ LinksOK'
      /\ \A j \in Conn \ {i} : cl'[j] = cl[j] /\ tun'[j] = tun[j]
  BY <1>1, <1>3, <1>4 DEF LinksOK
<1>. QED  BY <1>2, <1>3, <1>4, <1>5 DEF t

LEMMA CopiedUp ==
    ASSUME LinksOK, NEW i \in Conn, CopyUp(i)
    PROVE  /\ LinksOK' /\ tun' = tun
           /\ cl'[i] = [cl[i] EXCEPT !.up = <<>>] /\ ds'[i] = [ds[i] EXCEPT !.up = ds[i].up \o cl[i].up]
           /\ \A j \in Conn \ {i} : cl'[j] = cl[j] /\ ds'[j] = ds[j]
           /\ tun[i].upc = "run" /\ cl[i].up # <<>> /\ cl[i].p = "open" /\ ds[i].c = "open" /\ ds[i].p = "open"
<1>. DEFINE k == [cl[i] EXCEPT !.up = <<>>]
            d == [ds[i] EXCEPT !.up = ds[i].up \o cl[i].up]
<1>1. cl[i] \in Link /\ ds[i] \in Link /\ <<>> \in Seq(Unit) /\ ds[i].up \o cl[i].up \in Seq(Unit)
  <2>1. cl[i] \in Link /\ ds[i] \in Link
    BY DEF LinksOK
  <2>2. cl[i].up \in Seq(Unit) /\ ds[i].up \in Seq(Unit)
    BY <2>1 DEF Link
  <2>. QED  BY <2>1, <2>2, ConcatProperties, EmptySeq
<1>2. k \in Link /\ d \in Link
  BY <1>1, WithUp
<1>3. cl' = [cl EXCEPT ![i] = k] /\ ds' = [ds EXCEPT ![i] = d] /\ tun' = tun
  BY DEF CopyUp
<1>. HIDE DEF k, d
<1>4. cl'[i] = k /\ ds'[i] = d /\ LinksOK'
      /\ \A j \in Conn \ {i} : cl'[j] = cl[j] /\ ds'[j] = ds[j]
  BY <1>2, <1>3 DEF LinksOK
<1>. QED  BY <1>3, <1>4 DEF CopyUp, k, d

LEMMA CopiedUpToTheEnd ==
    ASSUME LinksOK, NEW i \in Conn, CopyUpEnds(i)
    PROVE  /\ LinksOK' /\ cl' = cl
           /\ ds'[i] = closedByClient(ds[i]) /\ tun'[i] = [tun[i] EXCEPT !.upc = "done"]
           /\ \A j \in Conn \ {i} : tun'[j] = tun[j] /\ ds'[j] = ds[j]
           /\ tun[i].upc = "run" /\ upEnds(i)
<1>. DEFINE d == closedByClient(ds[i])
            t == [tun[i] EXCEPT !.upc = "done"]
<1>1. ds[i] \in Link /\ tun[i] \in TunnelState
  BY DEF LinksOK
<1>2. d \in Link /\ t \in TunnelState
  BY <1>1, ClosedByClient DEF TunnelState
<1>3. ds' = [ds EXCEPT ![i] = d] /\ tun' = [tun EXCEPT ![i] = t] /\ cl' = cl
  BY DEF CopyUpEnds, afterCopyUp
<1>. HIDE DEF d, t
<1>4. ds'[i] = d /\ tun'[i] = t /\ LinksOK'
      /\ \A j \in Conn \ {i} : tun'[j] = tun[j] /\ ds'[j] = ds[j]
  BY <1>2, <1>3 DEF LinksOK
<1>. QED  BY <1>3, <1>4 DEF CopyUpEnds, d, t

LEMMA CopiedDown ==
    ASSUME LinksOK, NEW i \in Conn, CopyDown(i)
    PROVE  /\ LinksOK' /\ tun' = tun
           /\ \E n \in 1..Len(ds[i].down) :
                /\ cl'[i] = [cl[i] EXCEPT !.down = cl[i].down \o SubSeq(ds[i].down, 1, n)]
                /\ ds'[i] = [ds[i] EXCEPT !.down = SubSeq(ds[i].down, n + 1, Len(ds[i].down))]
           /\ \A j \in Conn \ {i} : cl'[j] = cl[j] /\ ds'[j] = ds[j]
           /\ tun[i].downc = "run" /\ cl[i].c = "open" /\ cl[i].p = "open" /\ ds[i].c = "open"
<1>1. cl[i] \in Link /\ ds[i] \in Link /\ cl[i].down \in Seq(Unit) /\ ds[i].down \in Seq(Unit)
  BY DEF LinksOK, Link
<1>2. PICK n \in 1..Len(ds[i].down) :
        /\ cl' = [cl EXCEPT ![i] = [cl[i] EXCEPT !.down = cl[i].down \o SubSeq(ds[i].down, 1, n)]]
        /\ ds' = [ds EXCEPT ![i] = [ds[i] EXCEPT !.down = SubSeq(ds[i].down, n + 1, Len(ds[i].down))]]
  BY DEF CopyDown
<1>. DEFINE x == SubSeq(ds[i].down, 1, n)
            y == SubSeq(ds[i].down, n + 1, Len(ds[i].down))
            k == [cl[i] EXCEPT !.down = cl[i].down \o x]
            d == [ds[i] EXCEPT !.down = y]
<1>3. x \in Seq(Unit) /\ y \in Seq(Unit)
  <2>1. n \in 1..Len(ds[i].down) /\ Len(ds[i].down) \in Nat
    BY <1>1, <1>2
  <2>2. \A m \in 1..n : m \in 1..Len(ds[i].down)
    BY <2>1
  <2>3. \A m \in (n+1)..Len(ds[i].down) : m \in 1..Len(ds[i].down)
    BY <2>1
  <2>. QED  BY <1>1, <2>1, <2>2, <2>3, SubSeqProperties
<1>4. k \in Link /\ d \in Link
  <2>1. cl[i].down \o x \in Seq(Unit)
    BY <1>1, <1>3, ConcatProperties
  <2>. QED  BY <1>1, <1>3, <2>1, WithDown
<1>5. cl' = [cl EXCEPT ![i] = k] /\ ds' = [ds EXCEPT ![i] = d] /\ n \in 1..Len(ds[i].down)
  BY <1>2
<1>. HIDE DEF k, d
<1>6. cl'[i] = k /\ ds'[i] = d /\ LinksOK'
      /\ \A j \in Conn \ {i} : cl'[j] = cl[j] /\ ds'[j] = ds[j]
  BY <1>4, <1>5 DEF LinksOK, CopyDown
<1>. QED  BY <1>5, <1>6 DEF CopyDown, k, d, x, y

LEMMA CopiedDownToTheEnd ==
    ASSUME LinksOK, NEW i \in Conn, CopyDownEnds(i)
    PROVE  /\ LinksOK' /\ ds' = ds
           /\ cl'[i] = closedByPeer(cl[i]) /\ tun'[i] = [tun[i] EXCEPT !.downc = "done"]
           /\ \A j \in Conn \ {i} : tun'[j] = tun[j] /\ cl'[j] = cl[j]
           /\ tun[i].downc = "run" /\ downEnds(i)
<1>. DEFINE k == closedByPeer(cl[i])
            t == [tun[i] EXCEPT !.downc = "done"]
<1>1. cl[i] \in Link /\ tun[i] \in TunnelState
  BY DEF LinksOK
<1>2. k \in Link /\ t \in TunnelState
  BY <1>1, ClosedByPeer DEF TunnelState
<1>3. cl' = [cl EXCEPT ![i] = k] /\ tun' = [tun EXCEPT ![i] = t] /\ ds' = ds
  BY DEF CopyDownEnds
<1>. HIDE DEF k, t
<1>4. cl'[i] = k /\ tun'[i] = t /\ LinksOK'
      /\ \A j \in Conn \ {i} : tun'[j] = tun[j] /\ cl'[j] = cl[j]
  BY <1>2, <1>3 DEF LinksOK
<1>. QED  BY <1>3, <1>4 DEF CopyDownEnds, k, t

LEMMA Stopped ==
    ASSUME LinksOK, NEW i \in Conn, TunnelStops(i)
    PROVE  /\ LinksOK' /\ cl'[i] = closedByPeer(cl[i])
           /\ ds'[i] = IF ds[i].c = "open" THEN closedByClient(ds[i]) ELSE ds[i]
           /\ tun'[i] = [st |-> "ended", upc |-> "done", downc |-> "done"]
           /\ \A j \in Conn \ {i} : tun'[j] = tun[j] /\ cl'[j] = cl[j] /\ ds'[j] = ds[j]
           /\ tun[i].st \in {"dial", "hijack", "relay"}
<1>. DEFINE k == closedByPeer(cl[i])
            d == IF ds[i].c = "open" THEN closedByClient(ds[i]) ELSE ds[i]
            t == [st |-> "ended", upc |-> "done", downc |-> "done"]
<1>1. cl[i] \in Link /\ ds[i] \in Link
  BY DEF LinksOK
<1>2. k \in Link /\ d \in Link /\ t \in TunnelState
  BY <1>1, ClosedByPeer, ClosedByClient DEF TunnelState
<1>3. cl' = [cl EXCEPT ![i] = k] /\ tun' = [tun EXCEPT ![i] = t] /\ ds' = [ds EXCEPT ![i] = d]
  BY DEF TunnelStops
<1>. HIDE DEF k, d, t
<1>4. cl'[i] = k /\ tun'[i] = t /\ ds'[i] = d /\ LinksOK'
      /\ \A j \in Conn \ {i} : tun'[j] = tun[j] /\ cl'[j] = cl[j] /\ ds'[j] = ds[j]
  BY <1>2, <1>3 DEF LinksOK
<1>. QED  BY <1>4 DEF TunnelStops, k, d, t

LEMMA SocksWrote ==
    ASSUME LinksOK, NEW i \in Conn, NEW s \in Seq(Unit), socksWrites(i, s), cl[i].up # <<>>,
           ds' = ds, tun' = tun
    PROVE  /\ LinksOK' /\ cl'[i].c = cl[i].c /\ cl'[i].p = cl[i].p /\ cl'[i].up = Tail(cl[i].up)
           /\ cl'[i].down = IF cl[i].c = "open" THEN cl[i].down \o s ELSE cl[i].down
           /\ \A j \in Conn \ {i} : cl'[j] = cl[j]
<1>. DEFINE a == [cl[i] EXCEPT !.up = Tail(cl[i].up)]
            b == wroteDown(a, s)
<1>1. cl[i] \in Link /\ Tail(cl[i].up) \in Seq(Unit)
  BY DEF LinksOK, Link
<1>2. a \in Link /\ a.c = cl[i].c /\ a.p = cl[i].p /\ a.down = cl[i].down /\ a.up = Tail(cl[i].up)
  BY <1>1, WithUp
<1>. HIDE DEF a
<1>3. b \in Link /\ b.c = a.c /\ b.p = a.p /\ b.up = a.up
      /\ b.down = IF a.c = "open" THEN a.down \o s ELSE a.down
  BY <1>1, <1>2, WroteDown
<1>4. cl' = [cl EXCEPT ![i] = b]
  BY DEF socksWrites, b, a
<1>. HIDE DEF b
<1>5. cl'[i] = b /\ LinksOK' /\ \A j \in Conn \ {i} : cl'[j] = cl[j]
  BY <1>3, <1>4 DEF LinksOK
<1>. QED  BY <1>2, <1>3, <1>5

LEMMA Granted ==
    ASSUME NEW t \in DOMAIN Bound
    PROVE  /\ addresses(t) \in Seq(Unit) /\ Len(addresses(t)) = Len(Bound[t])
           /\ <<unit("granted", t)>> \o addresses(t) \in Seq(Unit)
           /\ \A n \in 1..Len(Bound[t]) : addresses(t)[n] = unit("address", Bound[t][n])
<1>1. Bound[t] \in Seq(Nat) /\ t \in Nat
  BY BoundAssumption
<1>2. Len(Bound[t]) \in Nat /\ DOMAIN Bound[t] = 1..Len(Bound[t])
      /\ \A n \in 1..Len(Bound[t]) : Bound[t][n] \in Nat
  BY <1>1
<1>3. \A n \in 1..Len(Bound[t]) : unit("address", Bound[t][n]) \in Unit
  BY <1>2, UnitTypes DEF UnitName
<1>4. addresses(t) = [n \in 1..Len(Bound[t]) |-> unit("address", Bound[t][n])]
  BY <1>2 DEF addresses
<1>5. addresses(t) \in Seq(Unit) /\ Len(addresses(t)) = Len(Bound[t])
      /\ \A n \in 1..Len(Bound[t]) : addresses(t)[n] = unit("address", Bound[t][n])
  BY <1>2, <1>3, <1>4
<1>6. unit("granted", t) \in Unit
  BY <1>1, UnitTypes DEF UnitName
<1>. HIDE DEF addresses
<1>7. <<unit("granted", t)>> \in Seq(Unit)
  BY <1>6
<1>. QED  BY <1>5, <1>7, ConcatProperties

\* The SOCKS5 proxy.
LEMMA SocksAnswered ==
    ASSUME LinksOK, Kinds, srv' = srv,
           NEW i \in Conn, SocksMethod(i) \/ SocksGrants(i) \/ SocksRefuses(i)
    PROVE  /\ LinksOK' /\ Kinds' /\ via[i] = "socks5"
           /\ cl[i].up # <<>> /\ cl[i].p = "open"
           /\ cl'[i].c = cl[i].c /\ cl'[i].p = cl[i].p /\ cl'[i].up = Tail(cl[i].up)
           /\ \E s \in Seq(Unit) :
                /\ cl'[i].down = IF cl[i].c = "open" THEN cl[i].down \o s ELSE cl[i].down
                /\ \/ /\ Head(cl[i].up) = unit("greeting", 0) /\ socks'[i] = "greeted" /\ Len(s) = 1
                   \/ /\ Head(cl[i].up) = unit("connect", 0) /\ socks'[i] = "relay"
                      /\ \E t \in DOMAIN Bound : s = <<unit("granted", t)>> \o addresses(t)
                   \/ /\ Head(cl[i].up) = unit("connect", 0) /\ socks'[i] = "ended"
                      /\ s = <<unit("refused", 5)>>
           /\ \A j \in Conn \ {i} : cl'[j] = cl[j] /\ socks'[j] = socks[j]
           /\ ds' = ds /\ tun' = tun
           /\ UNCHANGED <<call, opc, cid, hop, need, dl, now, via, blame>>
<1>1. PICK u \in {"greeting", "connect"}, st \in {"greeted", "relay", "ended"}, s \in Seq(Unit) :
        /\ socksReads(i, u, st) /\ socksWrites(i, s)
        /\ \/ u = "greeting" /\ st = "greeted" /\ Len(s) = 1
           \/ /\ u = "connect" /\ st = "relay"
              /\ \E t \in DOMAIN Bound : s = <<unit("granted", t)>> \o addresses(t)
           \/ u = "connect" /\ st = "ended" /\ s = <<unit("refused", 5)>>
  <2>1. CASE SocksMethod(i)
    <3>1. PICK m \in {0, 255} : socksWrites(i, <<unit("method", m)>>)
      BY <2>1 DEF SocksMethod
    <3>. DEFINE w == <<unit("method", m)>>
    <3>2. m \in Nat /\ unit("method", m) \in Unit
      <4>1. m \in Nat
        BY <3>1
      <4>. QED  BY <4>1, UnitTypes, ZenonT(30) DEF UnitName
    <3>3. w \in Seq(Unit) /\ Len(w) = 1 /\ socksWrites(i, w)
      BY <3>1, <3>2
    <3>4. socksReads(i, "greeting", "greeted")
      BY <2>1 DEF SocksMethod
    <3>. HIDE DEF w
    <3>. QED  BY <3>3, <3>4
  <2>2. CASE SocksGrants(i)
    <3>1. PICK t \in DOMAIN Bound : socksWrites(i, <<unit("granted", t)>> \o addresses(t))
      BY <2>2 DEF SocksGrants, addresses
    <3>2. <<unit("granted", t)>> \o addresses(t) \in Seq(Unit)
      BY Granted
    <3>. QED  BY <2>2, <3>1, <3>2 DEF SocksGrants
  <2>3. CASE SocksRefuses(i)
    <3>1. unit("refused", 5) \in Unit
      BY UnitTypes DEF UnitName
    <3>2. <<unit("refused", 5)>> \in Seq(Unit)
      BY <3>1
    <3>. QED  BY <2>3, <3>2 DEF SocksRefuses
  <2>. QED  BY <2>1, <2>2, <2>3
<1>2. /\ via[i] = "socks5" /\ cl[i].up # <<>> /\ cl[i].p = "open" /\ Head(cl[i].up) = unit(u, 0)
      /\ ds' = ds /\ tun' = tun /\ socks' = [socks EXCEPT ![i] = st]
      /\ UNCHANGED <<call, opc, cid, hop, need, dl, now, via, blame>>
  BY <1>1 DEF socksReads
<1>3. /\ LinksOK' /\ cl'[i].c = cl[i].c /\ cl'[i].p = cl[i].p /\ cl'[i].up = Tail(cl[i].up)
      /\ cl'[i].down = IF cl[i].c = "open" THEN cl[i].down \o s ELSE cl[i].down
      /\ \A j \in Conn \ {i} : cl'[j] = cl[j]
  BY <1>1, <1>2, SocksWrote
<1>4. socks' \in [Conn -> {"idle", "greeted", "relay", "ended"}] /\ socks'[i] = st
      /\ \A j \in Conn \ {i} : socks'[j] = socks[j]
  BY <1>1, <1>2 DEF Kinds
<1>5. \/ Head(cl[i].up) = unit("greeting", 0) /\ socks'[i] = "greeted" /\ Len(s) = 1
      \/ /\ Head(cl[i].up) = unit("connect", 0) /\ socks'[i] = "relay"
         /\ \E t \in DOMAIN Bound : s = <<unit("granted", t)>> \o addresses(t)
      \/ Head(cl[i].up) = unit("connect", 0) /\ socks'[i] = "ended" /\ s = <<unit("refused", 5)>>
  BY <1>1, <1>2, <1>4
<1>6. Kinds'
  BY <1>2, <1>4 DEF Kinds
<1>. QED  BY <1>2, <1>3, <1>4, <1>5, <1>6

\* The server.
LEMMA AnswerParts ==
    /\ answer \in Seq(Unit) /\ Len(answer) = 4 /\ answer # <<>>
    /\ \A n \in 0..4 : SubSeq(answer, 1, n) \in Seq(Unit)
    /\ \A n \in 0..3 : NoEnd(SubSeq(answer, 1, n))
    /\ SubSeq(answer, 1, 4) = answer
    /\ answer[1].u = "hello" /\ answer[2].u = "hello end" /\ answer[3].u = "data" /\ answer[4].u = "data end"
<1>1. /\ answer[1] = unit("hello", 0) /\ answer[2] = unit("hello end", 0)
      /\ answer[3] = unit("data", 0) /\ answer[4] = unit("data end", 0)
  <2>. DEFINE names == <<"hello", "hello end", "data", "data end">>
  <2>1. names[1] = "hello" /\ names[2] = "hello end" /\ names[3] = "data" /\ names[4] = "data end"
    OBVIOUS
  <2>2. answer = [k \in 1..4 |-> unit(names[k], 0)]
    BY DEF answer
  <2>. HIDE DEF names
  <2>3. 1 \in 1..4 /\ 2 \in 1..4 /\ 3 \in 1..4 /\ 4 \in 1..4
    OBVIOUS
  <2>. QED  BY <2>1, <2>2, <2>3
<1>2. /\ answer[1] \in Unit /\ answer[2] \in Unit /\ answer[3] \in Unit /\ answer[4] \in Unit
      /\ answer[1].u = "hello" /\ answer[2].u = "hello end" /\ answer[3].u = "data" /\ answer[4].u = "data end"
  BY <1>1, UnitTypes DEF UnitName
<1>3. \A n \in 1..4 : n = 1 \/ n = 2 \/ n = 3 \/ n = 4
  OBVIOUS
<1>4. DOMAIN answer = 1..4 /\ answer = [n \in 1..4 |-> answer[n]]
  BY DEF answer
<1>. HIDE DEF answer
<1>5. answer \in Seq(Unit) /\ Len(answer) = 4
  <2>1. \A n \in 1..4 : answer[n] \in Unit
    BY <1>2, <1>3
  <2>. DEFINE f == [n \in 1..4 |-> answer[n]]
  <2>2. f \in Seq(Unit) /\ Len(f) = 4
    BY <2>1
  <2>. QED  BY <1>4, <2>2
<1>6. ASSUME NEW n \in 0..4  PROVE SubSeq(answer, 1, n) \in Seq(Unit) /\ Len(SubSeq(answer, 1, n)) = n
                                   /\ \A m \in 1..n : SubSeq(answer, 1, n)[m] = answer[m]
  <2>1. /\ SubSeq(answer, 1, n) \in Seq(Unit)
        /\ 1 <= n => Len(SubSeq(answer, 1, n)) = n - 1 + 1
        /\ 1 > n => SubSeq(answer, 1, n) = <<>>
        /\ \A k \in 1..(n - 1 + 1) : SubSeq(answer, 1, n)[k] = answer[1 + k - 1]
    <3>1. 1 \in Nat /\ n \in Nat /\ 1 <= 1 /\ n <= Len(answer)
      BY <1>5
    <3>. QED  BY <1>5, <3>1, Part, Zenon
  <2>. DEFINE x == SubSeq(answer, 1, n)
  <2>. HIDE DEF x
  <2>2. x \in Seq(Unit) /\ (1 <= n => Len(x) = n) /\ (1 > n => x = <<>>)
        /\ \A k \in 1..n : x[k] = answer[k]
    BY <2>1 DEF x
  <2>3. Len(x) = n
    BY <2>2, EmptySeq
  <2>. QED  BY <2>2, <2>3 DEF x
<1>7. ASSUME NEW n \in 0..3  PROVE NoEnd(SubSeq(answer, 1, n))
  <2>. DEFINE x == SubSeq(answer, 1, n)
  <2>1. x \in Seq(Unit) /\ Len(x) = n /\ \A m \in 1..n : x[m] = answer[m]
    BY <1>6
  <2>2. DOMAIN x = 1..n
    BY <2>1
  <2>3. \A m \in 1..n : m = 1 \/ m = 2 \/ m = 3
    OBVIOUS
  <2>4. \A m \in 1..n : x[m].u # "data end"
    BY <1>2, <2>1, <2>3
  <2>. QED  BY <2>2, <2>4 DEF NoEnd
<1>8. SubSeq(answer, 1, 4) = answer
  <2>. DEFINE x == SubSeq(answer, 1, 4)
  <2>1. 4 \in 0..4
    OBVIOUS
  <2>2. x \in Seq(Unit) /\ Len(x) = 4 /\ \A m \in 1..4 : x[m] = answer[m]
    BY <1>6, <2>1
  <2>. HIDE DEF x
  <2>3. x = answer
    BY <1>5, <2>2, SeqEqual
  <2>. QED  BY <2>3 DEF x
<1>9. answer # <<>>
  <2>1. Len(answer) # 0
    BY <1>5
  <2>. QED  BY <1>5, <2>1, NotEmpty, Zenon
<1>. QED  BY <1>2, <1>5, <1>6, <1>7, <1>8, <1>9

\* The stream of the server, before and after.
Served(k, k1, s, s1) ==
    \/ /\ k.up # <<>> /\ Head(k.up) = request /\ k1.up = Tail(k.up) /\ k1.p = "open"
       /\ s = "waiting"
       /\ \E units \in Seq(Unit) :
            /\ k1.down = IF k.c = "open" THEN k.down \o units ELSE k.down
            /\ \/ s1 = "answered" /\ units = answer
               \/ /\ s1 \in {"broken", "rejected", "refused"} /\ NoEnd(units)
                  /\ s1 = "rejected" => ~call.accepted
    \/ /\ k1.up = <<>> /\ k1.p \in {"closed", "reset"} /\ k1.down = k.down
       /\ k.c # "none" /\ s1 = IF s = "waiting" THEN "broken" ELSE s

LEMMA ServerTurned ==
    ASSUME LinksOK, Kinds, NEW i \in Conn, ServerAnswers(i) \/ ServerRefuses(i) \/ ServerCloses(i)
    PROVE  /\ reached(i) /\ link(i).p = "open"
           /\ srv' \in [Conn -> ServerState] /\ \A j \in Conn \ {i} : srv'[j] = srv[j]
           /\ \E k \in Link : /\ setLink(i, k) /\ k.c = link(i).c
                              /\ Served(link(i), k, srv[i], srv'[i])
           /\ UNCHANGED <<tun, authUser, dialVars, target, result>>
<1>. DEFINE a == [link(i) EXCEPT !.up = Tail(link(i).up)]
<1>1. link(i) \in Link
  BY DEF link, LinksOK
<1>2. ASSUME serverHas(i)
      PROVE  /\ reached(i) /\ link(i).p = "open" /\ srv[i] = "waiting"
             /\ link(i).up # <<>> /\ Head(link(i).up) = request
             /\ a \in Link /\ a.c = link(i).c /\ a.p = "open" /\ a.down = link(i).down
             /\ a.up = Tail(link(i).up)
  <2>1. link(i).up \in Seq(Unit) /\ link(i).up # <<>> /\ link(i).p = "open"
    BY <1>1, <1>2 DEF Link, serverHas
  <2>2. Tail(link(i).up) \in Seq(Unit)
    BY <2>1
  <2>. QED  BY <1>1, <1>2, <2>1, <2>2, WithUp DEF serverHas
<1>3. CASE ServerAnswers(i)
  <2>1. serverHas(i)
    BY <1>3 DEF ServerAnswers
  <2>2. PICK n \in 0..4 :
          /\ setLink(i, wroteDown(a, SubSeq(answer, 1, n)))
          /\ serverTurns(i, IF ~call.accepted THEN "rejected"
                            ELSE IF n = 4 THEN "answered" ELSE "broken")
          /\ ~call.accepted => n = 0
    <3>1. Len(answer) = 4
      BY AnswerParts
    <3>2. \E n \in IF call.accepted THEN 0..4 ELSE {0} :
            /\ setLink(i, wroteDown(a, SubSeq(answer, 1, n)))
            /\ serverTurns(i, IF ~call.accepted THEN "rejected"
                              ELSE IF n = 4 THEN "answered" ELSE "broken")
      BY <1>3, <3>1 DEF ServerAnswers
    <3>. QED  BY <3>2
  <2>. DEFINE s1 == IF ~call.accepted THEN "rejected" ELSE IF n = 4 THEN "answered" ELSE "broken"
              units == SubSeq(answer, 1, n)
              k == wroteDown(a, units)
  <2>3. units \in Seq(Unit) /\ s1 \in ServerState
    BY <2>2, AnswerParts DEF ServerState
  <2>4. \/ s1 = "answered" /\ units = answer
        \/ /\ s1 \in {"broken", "rejected", "refused"} /\ NoEnd(units)
           /\ s1 = "rejected" => ~call.accepted
    <3>1. n = 4 \/ n \in 0..3
      BY <2>2
    <3>2. CASE n = 4
      <4>1. units = answer
        BY <3>2, AnswerParts
      <4>2. s1 = "answered"
        BY <2>2, <3>2
      <4>. QED  BY <4>1, <4>2
    <3>3. CASE n \in 0..3
      <4>1. NoEnd(units)
        BY <3>3, AnswerParts
      <4>2. s1 \in {"broken", "rejected", "refused"} /\ (s1 = "rejected" => ~call.accepted)
        BY <3>3
      <4>. QED  BY <4>1, <4>2
    <3>. QED  BY <3>1, <3>2, <3>3
  <2>5. /\ serverTurns(i, s1) /\ setLink(i, k)
    BY <2>2
  <2>. HIDE DEF units, s1, a
  <2>6. /\ k \in Link /\ k.c = a.c /\ k.p = a.p /\ k.up = a.up
        /\ k.down = IF a.c = "open" THEN a.down \o units ELSE a.down
    BY <1>2, <2>1, <2>3, WroteDown
  <2>7. /\ srv' \in [Conn -> ServerState] /\ srv'[i] = s1 /\ \A j \in Conn \ {i} : srv'[j] = srv[j]
        /\ UNCHANGED <<tun, authUser, dialVars, target, result>>
    BY <2>3, <2>5 DEF serverTurns, Kinds
  <2>. HIDE DEF k
  <2>8. Served(link(i), k, srv[i], srv'[i])
    BY <1>2, <2>1, <2>3, <2>4, <2>6, <2>7 DEF Served
  <2>. QED  BY <1>2, <2>1, <2>5, <2>6, <2>7, <2>8
<1>4. CASE ServerRefuses(i)
  <2>. DEFINE units == <<unit("alert", 0)>>
              k == wroteDown(a, units)
  <2>1. serverHas(i) /\ setLink(i, k) /\ serverTurns(i, "refused")
    BY <1>4 DEF ServerRefuses
  <2>2. unit("alert", 0) \in Unit /\ unit("alert", 0).u = "alert"
    BY UnitTypes DEF UnitName
  <2>3. units \in Seq(Unit) /\ Len(units) = 1 /\ units[1] = unit("alert", 0)
    BY <2>2
  <2>. HIDE DEF units, a
  <2>4. NoEnd(units)
    <3>1. DOMAIN units = 1..1
      BY <2>3
    <3>2. \A n \in 1..1 : n = 1
      OBVIOUS
    <3>. QED  BY <2>2, <2>3, <3>1, <3>2 DEF NoEnd
  <2>5. /\ k \in Link /\ k.c = a.c /\ k.p = a.p /\ k.up = a.up
        /\ k.down = IF a.c = "open" THEN a.down \o units ELSE a.down
    BY <1>2, <2>1, <2>3, WroteDown
  <2>6. /\ srv' \in [Conn -> ServerState] /\ srv'[i] = "refused" /\ \A j \in Conn \ {i} : srv'[j] = srv[j]
        /\ UNCHANGED <<tun, authUser, dialVars, target, result>>
    BY <2>1 DEF serverTurns, Kinds, ServerState
  <2>. HIDE DEF k
  <2>7. Served(link(i), k, srv[i], srv'[i])
    BY <1>2, <2>1, <2>3, <2>4, <2>5, <2>6 DEF Served
  <2>. QED  BY <1>2, <2>1, <2>5, <2>6, <2>7
<1>5. CASE ServerCloses(i)
  <2>1. PICK end \in {"closed", "reset"} : setLink(i, [link(i) EXCEPT !.p = end, !.up = <<>>])
    BY <1>5 DEF ServerCloses
  <2>. DEFINE k == [link(i) EXCEPT !.p = end, !.up = <<>>]
              s1 == IF srv[i] = "waiting" THEN "broken" ELSE srv[i]
  <2>2. /\ k \in Link /\ k.c = link(i).c /\ k.p \in {"closed", "reset"} /\ k.up = <<>>
        /\ k.down = link(i).down
    BY <1>1, <2>1, EmptySeq DEF Link
  <2>3. s1 \in ServerState /\ serverTurns(i, s1) /\ reached(i) /\ link(i).p = "open" /\ link(i).c # "none"
    BY <1>5 DEF ServerCloses, Kinds, ServerState
  <2>. HIDE DEF s1
  <2>4. /\ srv' \in [Conn -> ServerState] /\ srv'[i] = s1 /\ \A j \in Conn \ {i} : srv'[j] = srv[j]
        /\ UNCHANGED <<tun, authUser, dialVars, target, result>>
    BY <2>3 DEF serverTurns, Kinds
  <2>5. setLink(i, k)
    BY <2>1
  <2>. HIDE DEF k
  <2>6. Served(link(i), k, srv[i], srv'[i])
    BY <2>2, <2>3, <2>4 DEF Served, s1
  <2>. QED  BY <2>2, <2>3, <2>4, <2>5, <2>6
<1>. QED  BY <1>3, <1>4, <1>5

Environment(i) ==
    \/ RefuseUnauthorized(i) \/ ServeConnect(i) \/ TargetDialled(i) \/ TargetRefuses(i)
    \/ Hijack(i) \/ NoRequest(i)
    \/ CopyUp(i) \/ CopyUpEnds(i) \/ CopyDown(i) \/ CopyDownEnds(i) \/ TunnelStops(i)

LEMMA FreshConnection ==
    ASSUME NEW i \in Conn, Fresh(i)
    PROVE  /\ cl[i].up = <<>> /\ cl[i].c = "none" /\ tun[i].st = "idle" /\ tun[i].upc = "off"
           /\ tun[i].downc = "off" /\ ~reached(i) /\ via[i] = "none"
  BY NoConnections DEF Fresh, reached, viaTunnel

LEMMA TunnelsElsewhere ==
    ASSUME LinksOK, Kinds, NEW i \in Conn, Environment(i), UNCHANGED <<dialVars, ownVars>>
    PROVE  Elsewhere(i)
<1>1. Kinds' /\ UNCHANGED <<call, opc, cid, hop, need, dl, now, via, blame, target, result, srv, socks>>
  BY DEF Kinds, dialVars, ownVars
<1>2. ~Fresh(i)
  <2>1. asked(i) \/ tun[i].st # "idle" \/ cl[i].c = "closed" \/ tun[i].upc = "run" \/ tun[i].downc = "run"
    BY DEF Environment, RefuseUnauthorized, ServeConnect, TargetDialled, TargetRefuses, Hijack, NoRequest,
           CopyUp, CopyUpEnds, CopyDown, CopyDownEnds, TunnelStops
  <2>. QED  BY <2>1, FreshConnection DEF asked
<1>3. /\ LinksOK' /\ cl'[i].c = cl[i].c
      /\ \A j \in Conn \ {i} : cl'[j] = cl[j] /\ ds'[j] = ds[j] /\ tun'[j] = tun[j]
  <2>0. cl[i] \in Link
    BY DEF LinksOK
  <2>1. CASE RefuseUnauthorized(i) \/ TargetRefuses(i) \/ NoRequest(i)
    BY <2>1, Refused
  <2>2. CASE ServeConnect(i)
    BY <2>0, <2>2, RequestServed DEF Link
  <2>3. CASE TargetDialled(i)
    BY <2>3, TargetTaken
  <2>4. CASE Hijack(i)
    BY <2>4, Hijacked
  <2>5. CASE CopyUp(i)
    BY <2>0, <2>5, CopiedUp DEF Link
  <2>6. CASE CopyUpEnds(i)
    BY <2>6, CopiedUpToTheEnd
  <2>7. CASE CopyDown(i)
    BY <2>0, <2>7, CopiedDown DEF Link
  <2>8. CASE CopyDownEnds(i)
    BY <2>0, <2>8, CopiedDownToTheEnd, ClosedByPeer
  <2>9. CASE TunnelStops(i)
    BY <2>0, <2>9, Stopped, ClosedByPeer
  <2>. QED  BY <2>1, <2>2, <2>3, <2>4, <2>5, <2>6, <2>7, <2>8, <2>9 DEF Environment
<1>. QED  BY <1>1, <1>2, <1>3 DEF Elsewhere

LEMMA SocksElsewhere ==
    ASSUME LinksOK, Kinds, NEW i \in Conn, SocksMethod(i) \/ SocksGrants(i) \/ SocksRefuses(i),
           UNCHANGED ownVars
    PROVE  Elsewhere(i)
<1>1. srv' = srv /\ target' = target /\ result' = result
  BY DEF ownVars
<1>2. /\ LinksOK' /\ Kinds' /\ via[i] = "socks5" /\ cl'[i].c = cl[i].c
      /\ \A j \in Conn \ {i} : cl'[j] = cl[j] /\ socks'[j] = socks[j]
      /\ ds' = ds /\ tun' = tun
      /\ UNCHANGED <<call, opc, cid, hop, need, dl, now, via, blame>>
  BY <1>1, SocksAnswered
<1>3. ~Fresh(i)
  BY <1>2, FreshConnection
<1>. QED  BY <1>1, <1>2, <1>3 DEF Elsewhere

LEMMA ServerElsewhere ==
    ASSUME LinksOK, Kinds, NEW i \in Conn, ServerAnswers(i) \/ ServerRefuses(i) \/ ServerCloses(i)
    PROVE  Elsewhere(i)
<1>1. PICK k \in Link : setLink(i, k) /\ k.c = link(i).c /\ Served(link(i), k, srv[i], srv'[i])
  BY ServerTurned
<1>2. /\ reached(i) /\ srv' \in [Conn -> ServerState] /\ \A j \in Conn \ {i} : srv'[j] = srv[j]
      /\ UNCHANGED <<tun, authUser, dialVars, target, result>>
  BY ServerTurned
<1>3. Kinds' /\ UNCHANGED <<tun, call, opc, cid, hop, need, dl, now, via, blame, target, result, socks>>
  BY <1>2 DEF Kinds, dialVars
<1>4. /\ LinksOK' /\ cl'[i].c = cl[i].c
      /\ \A j \in Conn \ {i} : cl'[j] = cl[j] /\ ds'[j] = ds[j]
  BY <1>1, <1>3 DEF LinksOK, setLink, link
<1>5. ~Fresh(i)
  BY <1>2, FreshConnection
<1>6. /\ srv[i] = "answered" => srv'[i] = "answered"
      /\ srv'[i] = "rejected" => srv[i] = "rejected" \/ ~call.accepted
  BY <1>1 DEF Served
<1>. QED  BY <1>2, <1>3, <1>4, <1>5, <1>6 DEF Elsewhere
------------------------------------------------------------------------------
(* The client's way from target to target, and its time.                     *)

LEMMA WayElsewhere ==
    ASSUME WayInv, NEW i \in Conn, Elsewhere(i)
    PROVE  WayInv'
<1>1. UNCHANGED <<call, opc, cid, hop, need, dl, now, via, target>>
  BY DEF Elsewhere
<1>2. ShortTypeOK'
  BY <1>1 DEF WayInv, ShortTypeOK, Elsewhere, Kinds, targets
<1>3. Ways' /\ InTime'
  BY <1>1 DEF WayInv, Ways, InTime
<1>4. Later'
  <2>1. ASSUME NEW j \in Conn, j > cid \/ (j = cid /\ opc = "connect")  PROVE Fresh(j)'
    <3>1. Fresh(j) /\ j # i
      BY <2>1 DEF WayInv, Later, Elsewhere
    <3>. QED  BY <1>1, <3>1 DEF Fresh, Elsewhere
  <2>. QED  BY <1>1, <2>1 DEF Later
<1>5. Earlier'
  <2>1. \A j \in Conn : cl'[j].c = cl[j].c
    BY DEF Elsewhere
  <2>. QED  BY <1>1, <2>1 DEF WayInv, Earlier
<1>. QED  BY <1>2, <1>3, <1>4, <1>5 DEF WayInv

LEMMA OwnConnection ==
    ASSUME WayInv, opc \in Engaged \cup {"connect"}
    PROVE  cid \in Conn /\ cl[cid] \in Link /\ cl[cid].up \in Seq(Unit) /\ cl[cid].down \in Seq(Unit)
<1>1. cid \in Nat /\ cid > 0 /\ target \in Nat /\ call.kind \in {"send", "login"} /\ LinksOK
  BY KindAssumption DEF WayInv, ShortTypeOK, Ways
<1>2. CASE call.kind = "send"
  <2>1. target <= MaxTargets /\ cid <= target
    BY <1>2 DEF WayInv, ShortTypeOK, Ways, targets
  <2>2. cid \in 1..MaxTargets
    BY <1>1, <2>1, MaxTargetsAssumption
  <2>. QED  BY <1>1, <2>2, ConnAssumption DEF LinksOK, Link
<1>3. CASE call.kind = "login"
  <2>1. cid <= 2
    BY <1>3 DEF WayInv, Ways
  <2>2. cid \in {1, 2}
    BY <1>1, <2>1
  <2>. QED  BY <1>1, <2>2, ConnAssumption DEF LinksOK, Link
<1>. QED  BY <1>1, <1>2, <1>3

LEMMA Limits ==
    ASSUME now \in Nat
    PROVE  limit(now) \in Nat /\ (call.kind = "send" => limit(now) <= T)
  BY TAssumption DEF limit, earlier

\* The client turns to a new connection, or to its next target, and has none open.
LEMMA WayNextDial ==
    ASSUME WayInv, cl' \in [Conn -> Link],
           \A j \in Conn : cl'[j].c # "open" /\ (j > cid => cl'[j] = cl[j]),
           \/ connectTo("target") \/ connectTo("proxy")
           \/ opc' \in {"next", "returned"} /\ UNCHANGED <<cid, hop, dl>>,
           UNCHANGED <<ds, tun, call, need, now, via, socks, srv>>,
           target' \in Nat, target' <= targets, target <= target',
           opc' = "connect" /\ call.kind = "send" => cid + 1 <= target',
           opc' = "connect" /\ call.kind = "login" => (cid = 0 /\ target' # 0) \/ (cid = 1 /\ hop' = "target"),
           opc' = "connect" /\ hop' = "proxy" => call.proxy \in {"socks5", "http-connect"},
           opc' = "connect" /\ hop' = "target" /\ call.proxy # "none" => call.kind = "login" /\ cid = 1
    PROVE  WayInv'
<1>1. /\ now \in Nat /\ cid \in Nat /\ call \in Call /\ call.kind \in {"send", "login"} /\ target \in Nat
  BY KindAssumption DEF WayInv, ShortTypeOK
<1>2. \/ opc' = "connect" /\ hop' \in {"proxy", "target"} /\ cid' = cid + 1 /\ dl' = limit(now)
      \/ opc' \in {"next", "returned"} /\ UNCHANGED <<cid, hop, dl>>
  BY DEF connectTo
<1>3. targets' = targets
  BY DEF targets
<1>4. ShortTypeOK'
  <2>1. LinksOK'
    BY DEF WayInv, ShortTypeOK, LinksOK
  <2>2. cid' \in Nat /\ hop' \in {"proxy", "target"} /\ dl' \in Nat
        /\ opc' \in Engaged \cup {"next", "connect", "returned"}
    BY <1>1, <1>2, Limits DEF WayInv, ShortTypeOK
  <2>. QED  BY <1>3, <2>1, <2>2 DEF WayInv, ShortTypeOK
<1>5. opc' \notin Engaged
  BY <1>2 DEF Engaged, Dialog
<1>6. Ways'
  <2>1. call.kind = "send" => cid' <= target'
    <3>1. call.kind = "send" => cid <= target
      BY DEF WayInv, Ways
    <3>. QED  BY <1>1, <1>2, <3>1
  <2>2. call.kind = "login" => /\ cid' <= 2 /\ (target' = 0 => cid' = 0)
                               /\ hop' = "proxy" => cid' = 1
    <3>1. call.kind = "login" => cid <= 2 /\ (target = 0 => cid = 0) /\ (hop = "proxy" => cid = 1)
      BY DEF WayInv, Ways
    <3>. QED  BY <1>1, <1>2, <3>1
  <2>3. hop' = "proxy" => call.proxy \in {"socks5", "http-connect"}
    BY <1>2 DEF WayInv, Ways
  <2>4. call.proxy # "none" /\ hop' = "target" /\ cid' > 0 => call.kind = "login" /\ cid' = 2
    BY <1>1, <1>2 DEF WayInv, Ways
  <2>5. opc' \in Engaged \cup {"connect"} => cid' > 0
    BY <1>1, <1>2, <1>5
  <2>. QED  BY <2>1, <2>2, <2>3, <2>4, <2>5 DEF WayInv, Ways
<1>7. Later'
  <2>1. ASSUME NEW j \in Conn, j > cid' \/ (j = cid' /\ opc' = "connect")  PROVE Fresh(j)'
    <3>1. j \in Nat /\ j > cid
      BY <1>1, <1>2, <2>1, ConnAssumption
    <3>. QED  BY <3>1 DEF WayInv, Later, Fresh
  <2>. QED  BY <2>1 DEF Later
<1>8. Earlier'
  BY DEF Earlier
<1>9. InTime'
  <2>1. opc' = "connect" /\ call.kind = "send" => dl' <= T
    BY <1>1, <1>2, Limits
  <2>2. call.kind = "send" => now <= 3 * T
    BY DEF WayInv, InTime
  <2>3. opc' \notin Dialog /\ opc' \notin {"write", "read", "handed"}
    BY <1>2 DEF Dialog
  <2>. QED  BY <2>1, <2>2, <2>3 DEF InTime
<1>. QED  BY <1>4, <1>6, <1>7, <1>8, <1>9 DEF WayInv

\* The client goes on with its connection, or with time.
LEMMA WayGoesOn ==
    ASSUME WayInv, opc \in Engaged \cup {"connect"}, opc' \in Engaged,
           NEW k \in Link, cl' = [cl EXCEPT ![cid] = k],
           UNCHANGED <<ds, tun, call, cid, hop, now, socks, srv, target>>,
           need' \in Nat, dl' \in Nat,
           via' = via \/ via' = [via EXCEPT ![cid] = IF hop = "target" THEN "target" ELSE call.proxy],
           call.kind = "send" =>
               /\ opc' \in Dialog => dl' <= 2 * T /\ now <= 2 * T
               /\ opc' = "write" => now <= 2 * T
               /\ opc' = "read" => dl' <= 3 * T
               /\ opc' # "handed"
    PROVE  WayInv'
<1>1. /\ cid \in Conn /\ now \in Nat /\ cid \in Nat /\ call \in Call /\ call.kind \in {"send", "login"}
      /\ via \in [Conn -> {"none", "target", "socks5", "http-connect"}] /\ targets' = targets
      /\ cid > 0
  BY OwnConnection, KindAssumption DEF WayInv, ShortTypeOK, Ways, targets
<1>2. LinksOK'
  BY DEF WayInv, ShortTypeOK, LinksOK
<1>3. via' \in [Conn -> {"none", "target", "socks5", "http-connect"}]
      /\ \A j \in Conn \ {cid} : via'[j] = via[j] /\ cl'[j] = cl[j]
      /\ \/ via'[cid] = via[cid]
         \/ via'[cid] = IF hop = "target" THEN "target" ELSE call.proxy
  BY <1>1 DEF WayInv, ShortTypeOK, Ways
<1>4. ShortTypeOK'
  BY <1>1, <1>2, <1>3 DEF WayInv, ShortTypeOK
<1>5. Ways'
  <2>1. ASSUME NEW i \in Conn, via'[i] = "target", call.proxy # "none"
        PROVE  call.kind = "login" /\ i = 2
    <3>1. CASE via'[i] = via[i]
      BY <2>1, <3>1 DEF WayInv, Ways
    <3>2. CASE i = cid /\ via'[cid] = IF hop = "target" THEN "target" ELSE call.proxy
      <4>1. hop = "target"
        BY <2>1, <3>2 DEF WayInv, Ways, ShortTypeOK
      <4>. QED  BY <1>1, <2>1, <3>2, <4>1 DEF WayInv, Ways
    <3>. QED  BY <1>3, <3>1, <3>2
  <2>. QED  BY <1>1, <2>1 DEF WayInv, Ways
<1>6. Later'
  <2>1. ASSUME NEW j \in Conn, j > cid' \/ (j = cid' /\ opc' = "connect")  PROVE Fresh(j)'
    <3>1. j \in Nat /\ j > cid
      BY <1>1, <2>1, ConnAssumption DEF Engaged, Dialog
    <3>. QED  BY <1>1, <1>3, <3>1 DEF WayInv, Later, Fresh
  <2>. QED  BY <2>1 DEF Later
<1>7. Earlier'
  BY <1>3 DEF WayInv, Earlier
<1>8. InTime'
  <2>1. call.kind = "send" => now <= 3 * T /\ opc' # "connect"
    BY DEF WayInv, InTime, Engaged, Dialog
  <2>. QED  BY <2>1 DEF InTime
<1>. QED  BY <1>4, <1>5, <1>6, <1>7, <1>8 DEF WayInv

\* The next dial after one that failed.
LEMMA FailedDial ==
    ASSUME WayInv, opc \in Engaged \cup {"connect"}, opc # "handed", viaProxyFails
    PROVE  /\ \/ connectTo("target")
              \/ opc' \in {"next", "returned"} /\ UNCHANGED <<cid, hop, dl>>
           /\ opc' = "connect" => call.kind = "login" /\ cid = 1 /\ hop' = "target"
<1>1. CASE hop = "proxy" /\ fallbackDirect(call)
  <2>1. connectTo("target")
    BY <1>1 DEF viaProxyFails
  <2>2. call.kind = "login" /\ cid = 1
    BY <1>1 DEF WayInv, Ways, fallbackDirect
  <2>. QED  BY <2>1, <2>2 DEF connectTo
<1>2. CASE ~(hop = "proxy" /\ fallbackDirect(call))
  BY <1>2 DEF viaProxyFails, dialFails
<1>. QED  BY <1>1, <1>2

LEMMA WayConnectFails ==
    ASSUME WayInv, ConnectFails, UNCHANGED ownVars
    PROVE  WayInv'
<1>1. opc = "connect" /\ viaProxyFails /\ cl' = cl /\ target' = target /\ srv' = srv
      /\ UNCHANGED <<ds, tun, call, need, now, via, socks>>
  BY DEF ConnectFails, tunnelVars, ownVars
<1>2. /\ \/ connectTo("target")
         \/ opc' \in {"next", "returned"} /\ UNCHANGED <<cid, hop, dl>>
      /\ opc' = "connect" => call.kind = "login" /\ cid = 1 /\ hop' = "target"
  BY <1>1, FailedDial
<1>3. \A j \in Conn : cl'[j].c # "open" /\ (j > cid => cl'[j] = cl[j])
  BY <1>1 DEF WayInv, Earlier, Engaged, Dialog
<1>4. target' \in Nat /\ target' <= targets /\ target <= target' /\ cl' \in [Conn -> Link]
  BY <1>1 DEF WayInv, ShortTypeOK, LinksOK
<1>. QED  BY <1>1, <1>2, <1>3, <1>4, WayNextDial

LEMMA WayDialogFails ==
    ASSUME WayInv, opc \in Dialog, NEW b, dialogFails(b), UNCHANGED ownVars
    PROVE  WayInv'
<1>0. opc \in Engaged /\ opc # "handed" /\ cid \in Conn /\ cl[cid] \in Link
  BY OwnConnection DEF Engaged, Dialog
<1>1. viaProxyFails /\ cl' = [cl EXCEPT ![cid] = closedByClient(cl[cid])] /\ target' = target /\ srv' = srv
      /\ UNCHANGED <<ds, tun, call, need, now, via, socks>>
  BY DEF dialogFails, dialogClosed, ownVars
<1>2. /\ \/ connectTo("target")
         \/ opc' \in {"next", "returned"} /\ UNCHANGED <<cid, hop, dl>>
      /\ opc' = "connect" => call.kind = "login" /\ cid = 1 /\ hop' = "target"
  BY <1>0, <1>1, FailedDial
<1>3. cl' \in [Conn -> Link] /\ cl'[cid].c = "closed" /\ \A j \in Conn \ {cid} : cl'[j] = cl[j]
  BY <1>0, <1>1, ClosedByClient DEF WayInv, ShortTypeOK, LinksOK
<1>4. \A j \in Conn : cl'[j].c # "open" /\ (j > cid => cl'[j] = cl[j])
  <2>1. \A j \in Conn : j > cid => j # cid
    BY <1>0, ConnAssumption
  <2>. QED  BY <1>0, <1>3, <2>1 DEF WayInv, Earlier
<1>5. target' \in Nat /\ target' <= targets /\ target <= target'
  BY <1>1 DEF WayInv, ShortTypeOK
<1>. QED  BY <1>1, <1>2, <1>3, <1>4, <1>5, WayNextDial

LEMMA WayExchangeEnds ==
    ASSUME WayInv, opc \in {"read", "handed"}, NEW b, NEW res, NEW n \in {"next", "returned"},
           exchangeEnds(n, b, res)
    PROVE  WayInv'
<1>0. opc \in Engaged /\ cid \in Conn /\ cl[cid] \in Link
  BY OwnConnection DEF Engaged, Dialog
<1>1. cl' = [cl EXCEPT ![cid] = closedByClient(cl[cid])] /\ target' = target /\ srv' = srv
      /\ UNCHANGED <<ds, tun, call, need, now, via, socks>> /\ opc' = n
      /\ UNCHANGED <<cid, hop, dl>>
  BY DEF exchangeEnds
<1>3. cl' \in [Conn -> Link] /\ cl'[cid].c = "closed" /\ \A j \in Conn \ {cid} : cl'[j] = cl[j]
  BY <1>0, <1>1, ClosedByClient DEF WayInv, ShortTypeOK, LinksOK
<1>4. \A j \in Conn : cl'[j].c # "open" /\ (j > cid => cl'[j] = cl[j])
  <2>1. \A j \in Conn : j > cid => j # cid
    BY <1>0, ConnAssumption
  <2>. QED  BY <1>0, <1>3, <2>1 DEF WayInv, Earlier
<1>5. target' \in Nat /\ target' <= targets /\ target <= target'
  BY <1>1 DEF WayInv, ShortTypeOK
<1>. QED  BY <1>1, <1>3, <1>4, <1>5, WayNextDial

LEMMA WayNextTarget ==
    ASSUME WayInv, NextTarget \/ AllFailed
    PROVE  WayInv'
<1>1. /\ opc = "next" /\ cl' = cl /\ srv' = srv
      /\ UNCHANGED <<ds, tun, call, need, now, via, socks>>
  BY DEF NextTarget, AllFailed, tunnelVars, ownVars
<1>2. \A j \in Conn : cl'[j].c # "open" /\ (j > cid => cl'[j] = cl[j])
  BY <1>1 DEF WayInv, Earlier, Engaged, Dialog
<1>3. /\ cl' \in [Conn -> Link] /\ target \in Nat /\ target <= targets
      /\ call.kind \in {"send", "login"} /\ call.proxy \in {"none", "socks5", "http-connect", "invalid"}
      /\ cid \in Nat
  BY <1>1, KindAssumption DEF WayInv, ShortTypeOK, LinksOK
<1>4. CASE NextTarget /\ opc' = "connect"
  <2>1. target' = target + 1 /\ target < targets /\ dialTCP
    BY <1>4 DEF NextTarget
  <2>2. /\ call.proxy # "invalid" /\ connectTo(IF call.proxy = "none" THEN "target" ELSE "proxy")
    BY <1>1, <1>4, <2>1 DEF dialTCP, parseTCPProxy
  <2>3. hop' = IF call.proxy = "none" THEN "target" ELSE "proxy"
    BY <2>2 DEF connectTo
  <2>4. targets \in Nat /\ (call.kind = "login" => targets = 1)
    BY <1>3, MaxTargetsAssumption DEF targets
  <2>5. call.kind = "send" => cid + 1 <= target'
    BY <1>3, <2>1 DEF WayInv, Ways
  <2>6. call.kind = "login" => cid = 0 /\ target' # 0
    BY <1>3, <2>1, <2>4 DEF WayInv, Ways
  <2>7. target' \in Nat /\ target' <= targets /\ target <= target'
    BY <1>3, <2>1, <2>4
  <2>8. connectTo("target") \/ connectTo("proxy")
    BY <2>2
  <2>. QED  BY <1>1, <1>2, <1>3, <2>2, <2>3, <2>5, <2>6, <2>7, <2>8, WayNextDial
<1>5. CASE NextTarget /\ opc' # "connect"
  <2>1. target' = target + 1 /\ target < targets /\ UNCHANGED <<opc, cid, hop, dl>>
    BY <1>5 DEF NextTarget, dialTCP, connectTo
  <2>2. targets \in Nat
    BY <1>3, MaxTargetsAssumption DEF targets
  <2>3. target' \in Nat /\ target' <= targets /\ target <= target'
    BY <1>3, <2>1, <2>2
  <2>4. opc' \in {"next", "returned"}
    BY <1>1, <2>1
  <2>. QED  BY <1>1, <1>2, <1>3, <1>5, <2>1, <2>3, <2>4, WayNextDial
<1>6. CASE AllFailed
  <2>1. opc' = "returned" /\ UNCHANGED <<cid, hop, dl, target>>
    BY <1>6 DEF AllFailed, ownVars
  <2>. QED  BY <1>1, <1>2, <1>3, <2>1, WayNextDial
<1>. QED  BY <1>4, <1>5, <1>6

LEMMA WayConnect ==
    ASSUME WayInv, Connect, UNCHANGED ownVars
    PROVE  WayInv'
<1>1. /\ opc = "connect" /\ now <= dl /\ target' = target /\ srv' = srv
      /\ UNCHANGED <<ds, tun, call, cid, hop, need, now, socks>>
  BY DEF Connect, ownVars
<1>2. cid \in Conn /\ now \in Nat /\ dl \in Nat /\ need \in Nat /\ T \in Nat
      /\ call.kind \in {"send", "login"}
  BY <1>1, OwnConnection, KindAssumption, TAssumption DEF WayInv, ShortTypeOK
<1>3. call.kind = "send" => dl <= T
  BY <1>1 DEF WayInv, InTime
<1>4. CASE hop = "target"
  <2>1. /\ cl' = [cl EXCEPT ![cid] = newConn] /\ via' = [via EXCEPT ![cid] = "target"]
        /\ opc' = dialled(call) /\ dl' = dl
    BY <1>4 DEF Connect
  <2>2. opc' \in {"write", "handed"} /\ (call.kind = "send" => opc' = "write" /\ now <= 2 * T)
    BY <1>1, <1>2, <1>3, <2>1 DEF dialled
  <2>3. opc' \in Engaged /\ opc' \notin Dialog /\ opc' # "read"
    BY <2>2 DEF Engaged, Dialog
  <2>. QED  BY <1>1, <1>2, <1>4, <2>1, <2>2, <2>3, NoConnections, WayGoesOn
<1>5. CASE hop # "target"
  <2>. DEFINE w == <<IF call.proxy = "socks5" THEN unit("greeting", 0) ELSE CONNECT>>
              k == wroteUp(newConn, w)
  <2>1. /\ cl' = [cl EXCEPT ![cid] = k] /\ via' = [via EXCEPT ![cid] = call.proxy]
        /\ opc' \in {"method", "status"} /\ dl' = now + T
    BY <1>5 DEF Connect
  <2>2. unit("greeting", 0) \in Unit /\ CONNECT \in Unit
    BY UnitTypes DEF UnitName, CONNECT
  <2>3. w \in Seq(Unit)
    BY <2>2
  <2>4. k \in Link
    BY <2>3, NoConnections, WroteUp
  <2>5. opc' \in Engaged /\ opc' \notin {"write", "read", "handed"} /\ dl' \in Nat
        /\ (call.kind = "send" => dl' <= 2 * T /\ now <= 2 * T)
    BY <1>1, <1>2, <1>3, <2>1 DEF Engaged, Dialog
  <2>. HIDE DEF k
  <2>. QED  BY <1>1, <1>2, <1>5, <2>1, <2>4, <2>5, WayGoesOn
<1>. QED  BY <1>4, <1>5

LEMMA WayWriteRequest ==
    ASSUME WayInv, WriteRequest
    PROVE  WayInv'
<1>1. /\ opc = "write" /\ cl' = [cl EXCEPT ![cid] = wroteUp(cl[cid], <<request>>)]
      /\ dl' = now + T /\ opc' = "read" /\ target' = target /\ srv' = srv
      /\ UNCHANGED <<ds, tun, call, cid, hop, need, now, via, socks>>
  BY DEF WriteRequest, ownVars
<1>2. cid \in Conn /\ now \in Nat /\ need \in Nat /\ T \in Nat /\ cl[cid] \in Link
  BY <1>1, OwnConnection, TAssumption DEF WayInv, ShortTypeOK, Engaged
<1>3. call.kind = "send" => now <= 2 * T
  BY <1>1 DEF WayInv, InTime
<1>4. request \in Unit
  BY UnitTypes DEF UnitName, request
<1>5. <<request>> \in Seq(Unit)
  BY <1>4
<1>6. wroteUp(cl[cid], <<request>>) \in Link
  BY <1>2, <1>5, WroteUp
<1>7. opc' \in Engaged /\ opc' \notin Dialog /\ opc \in Engaged
      /\ dl' \in Nat /\ (call.kind = "send" => dl' <= 3 * T)
  BY <1>1, <1>2, <1>3 DEF Engaged, Dialog
<1>. QED  BY <1>1, <1>2, <1>6, <1>7, WayGoesOn

\* A step of a dialog that succeeds: the client reads on, or has its connection.
LEMMA WayDialog ==
    ASSUME WayInv, opc \in Dialog, opc' \in Dialog \cup {dialled(call)},
           NEW k \in Link, cl' = [cl EXCEPT ![cid] = k], need' \in Nat,
           UNCHANGED <<ds, tun, call, cid, hop, dl, now, via, socks, ownVars>>
    PROVE  WayInv'
<1>1. call.kind \in {"send", "login"} /\ dl \in Nat /\ now \in Nat
  BY KindAssumption DEF WayInv, ShortTypeOK
<1>2. opc \in Engaged /\ opc' \in Engaged /\ opc' # "read"
      /\ (call.kind = "send" => opc' # "handed")
  BY <1>1 DEF Engaged, Dialog, dialled
<1>3. call.kind = "send" => dl <= 2 * T /\ now <= 2 * T
  BY DEF WayInv, InTime
<1>4. UNCHANGED <<ds, tun, call, cid, hop, dl, now, via, socks, srv, target>>
  BY DEF ownVars
<1>. QED  BY <1>1, <1>2, <1>3, <1>4, WayGoesOn

LEMMA FirstUnit ==
    ASSUME NEW s \in Seq(Unit), s # <<>>
    PROVE  /\ Head(s) \in Unit /\ Head(s).u \in UnitName /\ Head(s).n \in Nat /\ Head(s) = s[1]
           /\ Tail(s) \in Seq(Unit) /\ Len(s) \in Nat /\ 1 <= Len(s)
<1>1. Len(s) \in Nat /\ 1 <= Len(s) /\ Head(s) = s[1] /\ Tail(s) \in Seq(Unit)
  OBVIOUS
<1>2. s[1] \in Unit
  BY <1>1
<1>. QED  BY <1>1, <1>2 DEF Unit

LEMMA NothingLeft ==
    ASSUME NEW s \in Seq(Unit)
    PROVE  SubSeq(s, Len(s) + 1, Len(s)) = <<>>
<1>1. Len(s) + 1 \in Int /\ Len(s) \in Int /\ Len(s) < Len(s) + 1
  OBVIOUS
<1>. QED  BY <1>1, SubSeqEmpty, Zenon

LEMMA Dropped ==
    ASSUME NEW k \in Link, NEW n \in Nat, n <= Len(k.down)
    PROVE  LET d == [k EXCEPT !.down = SubSeq(k.down, n + 1, Len(k.down))]
           IN  /\ d \in Link /\ d.c = k.c /\ d.p = k.p /\ d.up = k.up
               /\ d.down = SubSeq(k.down, n + 1, Len(k.down))
<1>1. k.down \in Seq(Unit)
  BY DEF Link
<1>2. n + 1 \in Nat /\ Len(k.down) \in Nat /\ 1 <= n + 1 /\ Len(k.down) <= Len(k.down)
  BY <1>1
<1>3. SubSeq(k.down, n + 1, Len(k.down)) \in Seq(Unit)
  BY <1>1, <1>2, Part, Zenon
<1>. QED  BY <1>3, WithDown

\* A step of a dialog that succeeds leaves k of the connection.
Progress(k) ==
    /\ k \in Link /\ cl' = [cl EXCEPT ![cid] = k] /\ k.c = cl[cid].c /\ k.p = cl[cid].p
    /\ UNCHANGED <<ds, tun, authUser, call, cid, hop, dl, now, via, socks, blame>>
    /\ need' \in Nat
    /\ \/ /\ opc = "method" /\ down # <<>> /\ Head(down) = unit("method", 0)
          /\ opc' = "reply" /\ k.down = Tail(down)
          /\ k.up = IF cl[cid].p = "open" THEN cl[cid].up \o <<unit("connect", 0)>> ELSE cl[cid].up
       \/ /\ opc = "reply" /\ down # <<>> /\ Head(down).u = "granted"
          /\ k.up = cl[cid].up /\ k.down = SubSeq(down, 2, Len(down))
          /\ \/ Head(down).n = 3 /\ opc' = "length"
             \/ Head(down).n \in {1, 4} /\ opc' = "discard" /\ need' = addressBytes(Head(down).n)
       \/ /\ opc = "length" /\ down # <<>> /\ opc' = "discard" /\ need' = Head(down).n + 2
          /\ k.up = cl[cid].up /\ k.down = SubSeq(down, 2, Len(down))
       \/ /\ opc = "discard" /\ need <= Len(down) /\ opc' = dialled(call)
          /\ k.up = cl[cid].up /\ k.down = SubSeq(down, need + 1, Len(down))
       \/ /\ opc = "status" /\ down # <<>> /\ Head(down).n \in 200..299 /\ opc' = dialled(call)
          /\ k.up = cl[cid].up /\ k.down = <<>>

LEMMA DialogProceeds ==
    ASSUME WayInv, Method \/ Reply \/ NameLength \/ Discard \/ Status
    PROVE  opc \in Dialog /\ (dialogFails("peer") \/ \E k : Progress(k))
<1>1. opc \in Dialog /\ opc \in Engaged
  BY DEF Method, Reply, NameLength, Discard, Status, Dialog, Engaged
<1>2. /\ cid \in Conn /\ cl[cid] \in Link /\ down \in Seq(Unit) /\ need \in Nat /\ cl \in [Conn -> Link]
      /\ down = cl[cid].down /\ Len(down) \in Nat
  BY <1>1, OwnConnection DEF down, WayInv, ShortTypeOK, LinksOK
<1>3. down # <<>> => /\ Head(down) \in Unit /\ Head(down).n \in Nat /\ Tail(down) \in Seq(Unit)
                     /\ Len(down) \in Nat /\ 1 <= Len(down)
  BY <1>2, FirstUnit
<1>4. ASSUME NEW n \in Nat, n <= Len(down), drop(n)
      PROVE  \E k \in Link : /\ cl' = [cl EXCEPT ![cid] = k] /\ k.c = cl[cid].c /\ k.p = cl[cid].p
                             /\ k.up = cl[cid].up /\ k.down = SubSeq(down, n + 1, Len(down))
  <2>. DEFINE k == [cl[cid] EXCEPT !.down = SubSeq(cl[cid].down, n + 1, Len(cl[cid].down))]
  <2>1. k \in Link /\ k.c = cl[cid].c /\ k.p = cl[cid].p /\ k.up = cl[cid].up
        /\ k.down = SubSeq(down, n + 1, Len(down))
    BY <1>2, <1>4, Dropped, ZenonT(30)
  <2>2. cl' = [cl EXCEPT ![cid] = k]
    BY <1>4 DEF drop
  <2>. HIDE DEF k
  <2>. QED  BY <2>1, <2>2
<1>5. CASE Method
  <2>1. opc = "method" /\ down # <<>>
    BY <1>5 DEF Method
  <2>2. CASE Head(down) = unit("method", 0)
    <3>. DEFINE a == [cl[cid] EXCEPT !.down = Tail(cl[cid].down)]
                k == wroteUp(a, <<unit("connect", 0)>>)
    <3>1. cl' = [cl EXCEPT ![cid] = k] /\ opc' = "reply" /\ need' = need
          /\ UNCHANGED <<ds, tun, authUser, call, cid, hop, dl, now, via, socks, blame>>
      BY <1>5, <2>2 DEF Method, goOn
    <3>2. a \in Link /\ a.c = cl[cid].c /\ a.p = cl[cid].p /\ a.up = cl[cid].up /\ a.down = Tail(down)
      BY <1>2, <1>3, <2>1, WithDown, SMTT(30)
    <3>3. unit("connect", 0) \in Unit
      BY UnitTypes DEF UnitName
    <3>4. <<unit("connect", 0)>> \in Seq(Unit)
      BY <3>3
    <3>. HIDE DEF a
    <3>5. k \in Link /\ k.c = a.c /\ k.p = a.p /\ k.down = a.down
          /\ k.up = IF a.p = "open" THEN a.up \o <<unit("connect", 0)>> ELSE a.up
      BY <3>2, <3>4, WroteUp
    <3>. HIDE DEF k
    <3>6. Progress(k)
      BY <1>2, <2>1, <2>2, <3>1, <3>2, <3>5 DEF Progress
    <3>. QED  BY <1>1, <3>6
  <2>3. CASE Head(down) # unit("method", 0)
    BY <1>1, <1>5, <2>3 DEF Method
  <2>. QED  BY <2>2, <2>3
<1>6. CASE Reply
  <2>1. opc = "reply" /\ down # <<>>
    BY <1>6 DEF Reply
  <2>2. CASE Head(down).u = "granted" /\ Head(down).n \in {1, 3, 4}
    <3>1. drop(1) /\ need' = (IF Head(down).n = 3 THEN 0 ELSE addressBytes(Head(down).n))
          /\ goOn(IF Head(down).n = 3 THEN "length" ELSE "discard")
      BY <1>6, <2>2 DEF Reply
    <3>2. PICK k \in Link : /\ cl' = [cl EXCEPT ![cid] = k] /\ k.c = cl[cid].c /\ k.p = cl[cid].p
                            /\ k.up = cl[cid].up /\ k.down = SubSeq(down, 1 + 1, Len(down))
      BY <1>3, <1>4, <2>1, <3>1
    <3>3. need' \in Nat /\ 1 + 1 = 2
      BY <3>1 DEF addressBytes
    <3>4. Progress(k)
      BY <2>1, <2>2, <3>1, <3>2, <3>3 DEF Progress, goOn
    <3>. QED  BY <1>1, <3>4
  <2>3. CASE ~(Head(down).u = "granted" /\ Head(down).n \in {1, 3, 4})
    BY <1>1, <1>6, <2>3 DEF Reply
  <2>. QED  BY <2>2, <2>3
<1>7. CASE NameLength
  <2>1. opc = "length" /\ down # <<>> /\ need' = Head(down).n + 2 /\ drop(1) /\ goOn("discard")
    BY <1>7 DEF NameLength
  <2>2. PICK k \in Link : /\ cl' = [cl EXCEPT ![cid] = k] /\ k.c = cl[cid].c /\ k.p = cl[cid].p
                          /\ k.up = cl[cid].up /\ k.down = SubSeq(down, 1 + 1, Len(down))
    BY <1>3, <1>4, <2>1
  <2>3. need' \in Nat /\ 1 + 1 = 2
    BY <1>3, <2>1
  <2>4. Progress(k)
    BY <2>1, <2>2, <2>3 DEF Progress, goOn
  <2>. QED  BY <1>1, <2>4
<1>8. CASE Discard
  <2>1. opc = "discard" /\ need <= Len(down) /\ drop(need) /\ goOn(dialled(call)) /\ need' = need
    BY <1>2, <1>8 DEF Discard
  <2>2. PICK k \in Link : /\ cl' = [cl EXCEPT ![cid] = k] /\ k.c = cl[cid].c /\ k.p = cl[cid].p
                          /\ k.up = cl[cid].up /\ k.down = SubSeq(down, need + 1, Len(down))
    BY <1>2, <1>4, <2>1
  <2>3. Progress(k)
    BY <1>2, <2>1, <2>2 DEF Progress, goOn
  <2>. QED  BY <1>1, <2>3
<1>9. CASE Status
  <2>1. opc = "status" /\ down # <<>>
    <3>1. PICK n \in DOMAIN down : down[n] = blank
      BY <1>9 DEF Status
    <3>2. DOMAIN <<>> = {}
      OBVIOUS
    <3>. QED  BY <1>9, <3>1, <3>2 DEF Status
  <2>2. CASE Head(down).n \in 200..299
    <3>1. drop(Len(down)) /\ goOn(dialled(call)) /\ need' = need
      BY <1>9, <2>2 DEF Status
    <3>0. PICK n \in Nat : n = Len(down) /\ n <= Len(down)
      BY <1>2
    <3>2. PICK k \in Link : /\ cl' = [cl EXCEPT ![cid] = k] /\ k.c = cl[cid].c /\ k.p = cl[cid].p
                            /\ k.up = cl[cid].up /\ k.down = SubSeq(down, n + 1, Len(down))
      BY <1>4, <3>0, <3>1
    <3>3. SubSeq(down, n + 1, Len(down)) = <<>>
      <4>1. SubSeq(down, Len(down) + 1, Len(down)) = <<>>
        BY <1>2, NothingLeft
      <4>. QED  BY <3>0, <4>1
    <3>4. Progress(k)
      BY <1>2, <2>1, <2>2, <3>1, <3>2, <3>3 DEF Progress, goOn
    <3>. QED  BY <1>1, <3>4
  <2>3. CASE Head(down).n \notin 200..299
    BY <1>1, <1>9, <2>3 DEF Status
  <2>. QED  BY <2>2, <2>3
<1>. QED  BY <1>5, <1>6, <1>7, <1>8, <1>9

LEMMA WayDialogs ==
    ASSUME WayInv, DialStep, UNCHANGED ownVars
    PROVE  WayInv'
<1>1. CASE Connect
  BY <1>1, WayConnect
<1>2. CASE ConnectFails
  BY <1>2, WayConnectFails
<1>3. CASE DialogFails
  <2>1. opc \in Dialog
    BY <1>3 DEF DialogFails, Dialling, Dialog
  <2>. QED  BY <1>3, <2>1, WayDialogFails DEF DialogFails
<1>4. CASE Method \/ Reply \/ NameLength \/ Discard \/ Status
  <2>1. opc \in Dialog /\ (dialogFails("peer") \/ \E k : Progress(k))
    BY <1>4, DialogProceeds
  <2>2. ASSUME NEW k, Progress(k)  PROVE WayInv'
    <3>1. /\ k \in Link /\ cl' = [cl EXCEPT ![cid] = k] /\ need' \in Nat
          /\ UNCHANGED <<ds, tun, call, cid, hop, dl, now, via, socks, ownVars>>
      BY <2>2 DEF Progress
    <3>2. opc' \in Dialog \cup {dialled(call)}
      BY <2>2 DEF Progress, Dialog
    <3>. QED  BY <2>1, <3>1, <3>2, WayDialog
  <2>. QED  BY <2>1, <2>2, WayDialogFails
<1>. QED  BY <1>1, <1>2, <1>3, <1>4 DEF DialStep

LEMMA WayTick ==
    ASSUME WayInv, Tick
    PROVE  WayInv'
<1>1. /\ opc \in Dialling \cup {"read"} /\ now < dl /\ now' = now + 1
      /\ UNCHANGED <<cl, ds, tun, call, opc, cid, hop, need, dl, via, socks, target, srv>>
  BY DEF Tick, tunnelVars, ownVars
<1>2. now \in Nat /\ dl \in Nat /\ T \in Nat
  BY TAssumption DEF WayInv, ShortTypeOK
<1>3. ShortTypeOK'
  BY <1>1, <1>2 DEF WayInv, ShortTypeOK, LinksOK, targets
<1>4. Ways' /\ Later' /\ Earlier'
  BY <1>1 DEF WayInv, Ways, Later, Earlier, Fresh
<1>5. InTime'
  <2>1. CASE call.kind = "send"
    <3>1. /\ opc = "connect" => dl <= T
          /\ opc \in Dialog => dl <= 2 * T
          /\ opc = "read" => dl <= 3 * T
          /\ opc # "handed"
      BY <2>1 DEF WayInv, InTime
    <3>2. opc = "connect" \/ opc \in Dialog \/ opc = "read"
      BY <1>1 DEF Dialling, Dialog
    <3>3. now' <= dl
      BY <1>1, <1>2
    <3>4. now' <= 3 * T /\ (opc \in Dialog => now' <= 2 * T)
      BY <1>1, <1>2, <3>1, <3>2, <3>3
    <3>5. opc # "write"
      BY <1>1 DEF Dialling
    <3>. QED  BY <1>1, <2>1, <3>1, <3>4, <3>5 DEF InTime
  <2>2. CASE call.kind # "send"
    BY <1>1, <2>2 DEF InTime
  <2>. QED  BY <2>1, <2>2
<1>. QED  BY <1>3, <1>4, <1>5 DEF WayInv

LEMMA WayInit ==
    ASSUME ShortInit
    PROVE  WayInv
<1>1. /\ cl = [i \in Conn |-> noConn] /\ ds = [i \in Conn |-> noConn] /\ tun = [i \in Conn |-> noTunnel]
      /\ cid = 0 /\ hop = "target" /\ need = 0 /\ dl = 0 /\ now = 0
      /\ via = [i \in Conn |-> "none"] /\ socks = [i \in Conn |-> "idle"]
      /\ call \in Call /\ opc = "next" /\ target = 0 /\ srv = [i \in Conn |-> "waiting"]
  BY DEF ShortInit, TunnelInit, DialInit
<1>2. ShortTypeOK
  <2>1. LinksOK
    BY <1>1, NoConnections DEF LinksOK
  <2>2. target <= targets
    BY <1>1, MaxTargetsAssumption DEF targets
  <2>. QED  BY <1>1, <2>1, <2>2 DEF ShortTypeOK, ServerState
<1>3. opc \notin Engaged \cup {"connect"} /\ opc \notin Dialog /\ opc \notin {"write", "read", "handed"}
  BY <1>1 DEF Engaged, Dialog
<1>4. Ways
  BY <1>1, <1>3 DEF Ways
<1>5. Later /\ Earlier
  BY <1>1, NoConnections DEF Later, Earlier, Fresh
<1>6. InTime
  BY <1>1, <1>3, TAssumption DEF InTime
<1>. QED  BY <1>2, <1>4, <1>5, <1>6 DEF WayInv

\* Who acts in a step.
LEMMA Actors ==
    ASSUME LinksOK, Kinds, ShortNext
    PROVE  \/ NextTarget \/ AllFailed \/ WriteRequest \/ ReadAnswer \/ ReadFails \/ TakenOver
           \/ DialStep /\ UNCHANGED ownVars
           \/ Tick
           \/ \E i \in Conn : Elsewhere(i) /\
                \/ Environment(i) /\ UNCHANGED <<dialVars, ownVars>>
                \/ (SocksMethod(i) \/ SocksGrants(i) \/ SocksRefuses(i)) /\ UNCHANGED ownVars
                \/ ServerAnswers(i) \/ ServerRefuses(i) \/ ServerCloses(i)
           \/ UNCHANGED shortVars
<1>1. ASSUME Tunnels \/ ProxyStops  PROVE \E i \in Conn : Environment(i) /\ UNCHANGED <<dialVars, ownVars>>
  BY <1>1 DEF Tunnels, ProxyStops, TunnelStep, Environment
<1>2. ASSUME Socks
      PROVE  \E i \in Conn : (SocksMethod(i) \/ SocksGrants(i) \/ SocksRefuses(i)) /\ UNCHANGED ownVars
  BY <1>2 DEF Socks, SocksStep
<1>3. ASSUME ServerStep
      PROVE  \E i \in Conn : ServerAnswers(i) \/ ServerRefuses(i) \/ ServerCloses(i)
  BY <1>3 DEF ServerStep
<1>4. CASE Tunnels \/ ProxyStops
  <2>1. PICK i \in Conn : Environment(i) /\ UNCHANGED <<dialVars, ownVars>>
    BY <1>1, <1>4
  <2>. QED  BY <2>1, TunnelsElsewhere
<1>5. CASE Socks
  <2>1. PICK i \in Conn : (SocksMethod(i) \/ SocksGrants(i) \/ SocksRefuses(i)) /\ UNCHANGED ownVars
    BY <1>2, <1>5
  <2>. QED  BY <2>1, SocksElsewhere
<1>6. CASE ServerStep
  <2>1. PICK i \in Conn : ServerAnswers(i) \/ ServerRefuses(i) \/ ServerCloses(i)
    BY <1>3, <1>6
  <2>. QED  BY <2>1, ServerElsewhere
<1>7. CASE ShortStep \/ Dials \/ Tick \/ Returned
  BY <1>7 DEF ShortStep, Dials, Returned
<1>. QED  BY <1>4, <1>5, <1>6, <1>7 DEF ShortNext

LEMMA WayUnchanged ==
    ASSUME WayInv, UNCHANGED shortVars
    PROVE  WayInv'
<1>1. UNCHANGED <<cl, ds, tun, call, opc, cid, hop, need, dl, now, via, socks, target, srv>>
  BY DEF shortVars, tunnelVars, dialVars
<1>. QED  BY <1>1 DEF WayInv, ShortTypeOK, LinksOK, Ways, Later, Earlier, InTime, Fresh, targets

LEMMA WayNext ==
    ASSUME WayInv, [ShortNext]_shortVars
    PROVE  WayInv'
<1>1. LinksOK /\ Kinds
  BY DEF WayInv, ShortTypeOK, Kinds
<1>2. CASE \E i \in Conn : Elsewhere(i)
  BY <1>2, WayElsewhere
<1>3. CASE NextTarget \/ AllFailed
  BY <1>3, WayNextTarget
<1>4. CASE WriteRequest
  BY <1>4, WayWriteRequest
<1>5. CASE ReadAnswer \/ ReadFails \/ TakenOver
  <2>1. opc \in {"read", "handed"} /\ \E b, res : \E n \in {"next", "returned"} : exchangeEnds(n, b, res)
    <3>. DEFINE found == useful(parse0RTTResponse(down))
                blames == IF srv[cid] = "rejected" \/ answerCame THEN "own" ELSE "peer"
    <3>1. CASE ReadAnswer
      <4>1. opc = "read" /\ IF found # {} THEN exchangeEnds("returned", blame, found)
                            ELSE exchangeEnds("next", blames, {})
        BY <3>1 DEF ReadAnswer
      <4>. HIDE DEF found, blames
      <4>. QED  BY <4>1
    <3>2. CASE ReadFails
      <4>. DEFINE lost == IF requestLost THEN "own" ELSE "peer"
      <4>1. opc = "read" /\ exchangeEnds("next", lost, {})
        BY <3>2 DEF ReadFails
      <4>. HIDE DEF lost
      <4>. QED  BY <4>1
    <3>3. CASE TakenOver
      <4>. DEFINE clean == IF down = <<>> THEN blame ELSE "own"
      <4>1. opc = "handed" /\ exchangeEnds("returned", clean, {})
        BY <3>3 DEF TakenOver
      <4>. HIDE DEF clean
      <4>. QED  BY <4>1
    <3>. QED  BY <1>5, <3>1, <3>2, <3>3
  <2>. QED  BY <2>1, WayExchangeEnds
<1>6. CASE DialStep /\ UNCHANGED ownVars
  BY <1>6, WayDialogs
<1>7. CASE Tick
  BY <1>7, WayTick
<1>8. CASE UNCHANGED shortVars
  BY <1>8, WayUnchanged
<1>9. CASE ShortNext
  BY <1>1, <1>2, <1>3, <1>4, <1>5, <1>6, <1>7, <1>8, <1>9, Actors
<1>. QED  BY <1>8, <1>9

LEMMA WayAlways == ShortSpec => []WayInv
<1>1. ShortInit => WayInv
  BY WayInit
<1>2. WayInv /\ [ShortNext]_shortVars => WayInv'
  BY WayNext
<1>. QED  BY <1>1, <1>2, PTL DEF ShortSpec

\* A session made for a proxy is never sent directly, and a login goes out
\* directly only after its proxy has failed, with nothing left open there
\* (dialViaProxy's fallback in transport.go, directFallback in shortlink.go).
THEOREM SendsOnlyTheAllowedWay == ShortSpec => []EgressAllowed
<1>1. WayInv => EgressAllowed
  <2>. SUFFICES ASSUME WayInv, NEW i \in Conn, via[i] = "target", call.proxy # "none"
                PROVE  call.kind = "login" /\ i > 1 /\ cl[i - 1].c # "open"
    BY DEF EgressAllowed
  <2>1. call.kind = "login" /\ i = 2 /\ cid <= 2 /\ cid \in Nat /\ {1, 2} \subseteq Conn
    BY ConnAssumption DEF WayInv, ShortTypeOK, Ways
  <2>2. cid = 2 /\ 1 \in Conn
    <3>1. ~(i > cid)
      BY FreshConnection DEF WayInv, Later
    <3>. QED  BY <2>1, <3>1
  <2>3. cl[1].c # "open"
    BY <2>2 DEF WayInv, Earlier
  <2>4. i - 1 = 1 /\ i > 1
    BY <2>1
  <2>. QED  BY <2>1, <2>3, <2>4
<1>. QED  BY <1>1, WayAlways, PTL

\* A send is through within three timeouts, however many targets it tries: its
\* context ends the dials, and each dialog and exchange has a deadline
\* (ShortlinkTimeout in shortlink.go, SetDeadline in transport.go).
THEOREM SlotIsGivenBack == ShortSpec => []EndsInTime
<1>1. WayInv => EndsInTime
  BY DEF WayInv, InTime, EndsInTime
<1>. QED  BY <1>1, WayAlways, PTL
------------------------------------------------------------------------------
(* The connection in use.                                                    *)

LEMMA Singles ==
    ASSUME NEW x
    PROVE  <<x>> # <<>> /\ Head(<<x>>) = x /\ Tail(<<x>>) = <<>> /\ Len(<<x>>) = 1
<1>1. Len(<<x>>) = 1 /\ Len(<<>>) = 0 /\ Head(<<x>>) = x
  OBVIOUS
<1>2. Tail(<<x>>) = <<>>
  <2>1. <<x>> \in Seq({x})
    OBVIOUS
  <2>2. Tail(<<x>>) \in Seq({x}) /\ Len(Tail(<<x>>)) = 0
    BY <1>1, <2>1
  <2>. QED  BY <2>2, EmptySeq
<1>. QED  BY <1>1, <1>2

LEMMA Distinct ==
    /\ request # CONNECT /\ request # unit("greeting", 0) /\ request # unit("connect", 0)
    /\ CONNECT # unit("greeting", 0) /\ CONNECT # unit("connect", 0)
    /\ unit("greeting", 0) # unit("connect", 0)
<1>1. /\ request.u = "request" /\ CONNECT.u = "CONNECT" /\ unit("greeting", 0).u = "greeting"
      /\ unit("connect", 0).u = "connect"
  BY UnitTypes DEF request, CONNECT
<1>. QED  BY <1>1

LEMMA NoEnds ==
    /\ NoEnd(<<>>)
    /\ \A s \in Seq(Unit), t \in Seq(Unit) : NoEnd(s) /\ NoEnd(t) => NoEnd(s \o t)
    /\ \A s \in Seq(Unit), t \in Seq(Unit) : NoEnd(s \o t) => NoEnd(s) /\ NoEnd(t)
<1>1. NoEnd(<<>>)
  <2>1. DOMAIN <<>> = {}
    OBVIOUS
  <2>. QED  BY <2>1 DEF NoEnd
<1>. SUFFICES ASSUME NEW s \in Seq(Unit), NEW t \in Seq(Unit)
              PROVE  NoEnd(s \o t) <=> NoEnd(s) /\ NoEnd(t)
  BY <1>1
<1>. DEFINE m == Len(s)
            n == Len(t)
            w == s \o t
<1>2. m \in Nat /\ n \in Nat /\ DOMAIN s = 1..m /\ DOMAIN t = 1..n
  OBVIOUS
<1>3. w \in Seq(Unit) /\ Len(w) = m + n /\ \A i \in 1..(m + n) : w[i] = IF i <= m THEN s[i] ELSE t[i - m]
  BY ConcatProperties
<1>4. DOMAIN w = 1..(m + n)
  BY <1>2, <1>3
<1>. HIDE DEF m, n, w
<1>5. ASSUME NoEnd(s), NoEnd(t)  PROVE NoEnd(w)
  <2>1. ASSUME NEW i \in 1..(m + n)  PROVE w[i].u # "data end"
    <3>1. CASE i <= m
      <4>1. i \in 1..m
        BY <1>2, <3>1
      <4>. QED  BY <1>2, <1>3, <1>5, <3>1, <4>1 DEF NoEnd
    <3>2. CASE ~(i <= m)
      <4>1. i - m \in 1..n
        BY <1>2, <3>2
      <4>. QED  BY <1>2, <1>3, <1>5, <3>2, <4>1 DEF NoEnd
    <3>. QED  BY <3>1, <3>2
  <2>. QED  BY <1>4, <2>1 DEF NoEnd
<1>6. ASSUME NoEnd(w)  PROVE NoEnd(s) /\ NoEnd(t)
  <2>1. ASSUME NEW i \in 1..m  PROVE s[i].u # "data end"
    <3>1. i \in 1..(m + n) /\ i <= m
      BY <1>2
    <3>. QED  BY <1>3, <1>4, <1>6, <3>1 DEF NoEnd
  <2>2. ASSUME NEW i \in 1..n  PROVE t[i].u # "data end"
    <3>1. PICK j \in 1..(m + n) : ~(j <= m) /\ j - m = i
      <4>1. m + i \in 1..(m + n) /\ ~(m + i <= m) /\ (m + i) - m = i
        BY <1>2
      <4>. QED  BY <4>1
    <3>2. w[j] = t[i]
      <4>1. w[j] = IF j <= m THEN s[j] ELSE t[j - m]
        BY <1>3, <3>1
      <4>. QED  BY <3>1, <4>1
    <3>3. w[j].u # "data end"
      BY <1>4, <1>6, <3>1 DEF NoEnd
    <3>. QED  BY <3>2, <3>3
  <2>. QED  BY <1>2, <2>1, <2>2 DEF NoEnd
<1>. QED  BY <1>5, <1>6 DEF w

LEMMA InUse ==
    ASSUME WayInv, Using, opc \in Engaged
    PROVE  /\ cid \in Conn /\ cl[cid] \in Link /\ ds[cid] \in Link /\ tun[cid] \in TunnelState
           /\ cl[cid].up \in Seq(Unit) /\ cl[cid].down \in Seq(Unit)
           /\ ds[cid].up \in Seq(Unit) /\ ds[cid].down \in Seq(Unit)
           /\ srv[cid] \in ServerState /\ socks[cid] \in {"idle", "greeted", "relay", "ended"}
           /\ cl[cid].c = "open" /\ via[cid] \in {"target", "socks5", "http-connect"}
           /\ via[cid] = "target" \/ via[cid] = "socks5" => Straight(cl[cid], cid)
           /\ via[cid] = "http-connect" => Tunnelled(cl[cid], cid)
<1>1. cid \in Conn
  BY OwnConnection
<1>2. LinksOK /\ srv[cid] \in ServerState /\ socks[cid] \in {"idle", "greeted", "relay", "ended"}
  BY <1>1 DEF WayInv, ShortTypeOK
<1>3. cl[cid] \in Link /\ ds[cid] \in Link /\ tun[cid] \in TunnelState
  BY <1>1, <1>2 DEF LinksOK
<1>4. via[cid] \in {"target", "socks5", "http-connect"}
  BY DEF WayInv, Ways, Using, ShortTypeOK
<1>. QED  BY <1>1, <1>2, <1>3, <1>4 DEF Using, Link

LEMMA UsingElsewhere ==
    ASSUME WayInv, Using, NEW i \in Conn, Elsewhere(i), i # cid \/ opc \notin Engaged
    PROVE  Using'
<1>1. UNCHANGED <<call, opc, cid, hop, need, via>>
  BY DEF Elsewhere
<1>2. CASE opc \notin Engaged
  BY <1>1, <1>2 DEF Using
<1>3. CASE opc \in Engaged /\ i # cid
  <2>1. cid \in Conn
    BY <1>3, OwnConnection
  <2>2. cl'[cid] = cl[cid] /\ ds'[cid] = ds[cid] /\ tun'[cid] = tun[cid] /\ srv'[cid] = srv[cid]
        /\ socks'[cid] = socks[cid]
    BY <1>3, <2>1 DEF Elsewhere
  <2>3. Straight(cl[cid], cid) => Straight(cl[cid], cid)'
    <3>1. SocksAt(cl[cid], socks[cid])' <=> SocksAt(cl[cid], socks[cid])
      BY <1>1, <2>2 DEF SocksAt
    <3>. QED  BY <1>1, <2>2, <3>1 DEF Straight
  <2>4. Tunnelled(cl[cid], cid) => Tunnelled(cl[cid], cid)'
    <3>1. Relaying(cl[cid], ds[cid], tun[cid], srv[cid])' <=> Relaying(cl[cid], ds[cid], tun[cid], srv[cid])
      <4>. DEFINE k == cl[cid]
                  d == ds[cid]
                  t == tun[cid]
                  s == srv[cid]
      <4>1. k' = k /\ d' = d /\ t' = t /\ s' = s /\ opc' = opc
        BY <1>1, <2>2
      <4>. HIDE DEF k, d, t, s
      <4>2. Relaying(k, d, t, s)' <=> Relaying(k, d, t, s)
        BY <4>1 DEF Relaying
      <4>. QED  BY <4>2 DEF k, d, t, s
    <3>. QED  BY <1>1, <2>2, <3>1 DEF Tunnelled
  <2>. QED  BY <1>1, <1>3, <2>2, <2>3, <2>4 DEF Using
<1>. QED  BY <1>2, <1>3

\* A tunnel has nothing to do for a connection that is not one to it.
LEMMA StraightIsNoTunnels ==
    ASSUME WayInv, Using, opc \in Engaged, via[cid] # "http-connect"
    PROVE  ~Environment(cid)
<1>1. /\ cl[cid].c = "open" /\ via[cid] \in {"target", "socks5"} /\ Straight(cl[cid], cid)
  BY InUse
<1>2. tun[cid].st = "idle" /\ tun[cid].upc = "off" /\ tun[cid].downc = "off"
  BY <1>1, NoConnections DEF Straight
<1>3. ~asked(cid)
  <2>1. \/ cl[cid].up = <<>> \/ cl[cid].up = <<request>> \/ cl[cid].up = <<unit("greeting", 0)>>
        \/ cl[cid].up = <<unit("connect", 0)>>
    <3>1. CASE opc \in Dialog
      BY <1>1, <3>1 DEF Straight, SocksAt, Dialog
    <3>2. CASE opc \notin Dialog
      BY <1>1, <3>2 DEF Straight
    <3>. QED  BY <3>1, <3>2
  <2>2. cl[cid].up # <<>> => Head(cl[cid].up) # CONNECT
    BY <2>1, Singles, Distinct
  <2>. QED  BY <2>2 DEF asked
<1>. QED  BY <1>1, <1>2, <1>3 DEF Environment, RefuseUnauthorized, ServeConnect, TargetDialled, TargetRefuses,
       Hijack, NoRequest, CopyUp, CopyUpEnds, CopyDown, CopyDownEnds, TunnelStops

LEMMA UsingSocks ==
    ASSUME WayInv, Using, opc \in Engaged, UNCHANGED ownVars,
           SocksMethod(cid) \/ SocksGrants(cid) \/ SocksRefuses(cid)
    PROVE  Using'
<1>0. cid \in Conn /\ LinksOK /\ Kinds /\ srv' = srv
  BY OwnConnection DEF WayInv, ShortTypeOK, Kinds, ownVars
<1>1. /\ cl[cid].c = "open" /\ via[cid] = "socks5" /\ Straight(cl[cid], cid)
      /\ cl[cid].up # <<>> /\ cl[cid].p = "open"
      /\ cl'[cid].c = cl[cid].c /\ cl'[cid].p = cl[cid].p /\ cl'[cid].up = Tail(cl[cid].up)
      /\ ds' = ds /\ tun' = tun
      /\ UNCHANGED <<call, opc, cid, hop, need, via>>
  BY <1>0, InUse, SocksAnswered
<1>2. PICK s \in Seq(Unit) :
        /\ cl'[cid].down = IF cl[cid].c = "open" THEN cl[cid].down \o s ELSE cl[cid].down
        /\ \/ /\ Head(cl[cid].up) = unit("greeting", 0) /\ socks'[cid] = "greeted" /\ Len(s) = 1
           \/ /\ Head(cl[cid].up) = unit("connect", 0) /\ socks'[cid] = "relay"
              /\ \E t \in DOMAIN Bound : s = <<unit("granted", t)>> \o addresses(t)
           \/ /\ Head(cl[cid].up) = unit("connect", 0) /\ socks'[cid] = "ended"
              /\ s = <<unit("refused", 5)>>
  BY <1>0, SocksAnswered
<1>3. /\ opc \in {"method", "reply"} /\ cl[cid].down = <<>>
      /\ opc = "method" => cl[cid].up = <<unit("greeting", 0)>>
      /\ opc = "reply" => cl[cid].up = <<unit("connect", 0)>>
  <2>1. CASE opc \in Dialog
    BY <1>1, <2>1 DEF Straight, SocksAt, Dialog
  <2>2. CASE opc \notin Dialog
    <3>1. cl[cid].up = <<>> \/ cl[cid].up = <<request>>
      BY <1>1, <2>2 DEF Straight
    <3>. QED  BY <1>1, <1>2, <3>1, Singles, Distinct
  <2>. QED  BY <2>1, <2>2
<1>4. cl'[cid].down = s /\ cl'[cid].up = <<>>
  <2>1. <<>> \o s = s
    BY <1>2, ConcatEmptySeq
  <2>2. cl[cid].up = <<unit("greeting", 0)>> \/ cl[cid].up = <<unit("connect", 0)>>
    BY <1>3
  <2>. QED  BY <1>1, <1>2, <1>3, <2>1, <2>2, Singles
<1>5. SocksAt(cl[cid], socks[cid])'
  <2>1. CASE opc = "method"
    <3>1. Head(cl[cid].up) = unit("greeting", 0)
      BY <1>3, <2>1, Singles
    <3>2. socks'[cid] = "greeted" /\ Len(s) = 1
      BY <1>2, <3>1, Distinct
    <3>. QED  BY <1>1, <1>4, <2>1, <3>2 DEF SocksAt
  <2>2. CASE opc = "reply"
    <3>1. Head(cl[cid].up) = unit("connect", 0)
      BY <1>3, <2>2, Singles
    <3>2. \/ socks'[cid] = "relay" /\ \E t \in DOMAIN Bound : s = <<unit("granted", t)>> \o addresses(t)
          \/ socks'[cid] = "ended" /\ s = <<unit("refused", 5)>>
      BY <1>2, <3>1, Distinct
    <3>. QED  BY <1>1, <1>4, <2>2, <3>2 DEF SocksAt
  <2>. QED  BY <1>3, <2>1, <2>2
<1>6. opc \in Dialog
  BY <1>3 DEF Dialog
<1>7. Straight(cl[cid], cid)'
  BY <1>0, <1>1, <1>3, <1>5, <1>6 DEF Straight
<1>. QED  BY <1>1, <1>7 DEF Using

LEMMA UsingServerDirect ==
    ASSUME WayInv, Using, opc \in Engaged, via[cid] # "http-connect",
           ServerAnswers(cid) \/ ServerRefuses(cid) \/ ServerCloses(cid)
    PROVE  Using'
<1>0. cid \in Conn /\ LinksOK /\ Kinds
  BY OwnConnection DEF WayInv, ShortTypeOK, Kinds
<1>1. /\ cl[cid].c = "open" /\ via[cid] \in {"target", "socks5"} /\ Straight(cl[cid], cid)
      /\ link(cid) = cl[cid] /\ ~viaTunnel(cid) /\ cl[cid].down \in Seq(Unit) /\ srv[cid] \in ServerState
  BY InUse DEF link, viaTunnel
<1>2. /\ reached(cid) /\ cl[cid].p = "open"
      /\ UNCHANGED <<tun, call, opc, cid, hop, need, via, socks>>
  BY <1>0, <1>1, ServerTurned DEF dialVars
<1>3. PICK k \in Link : setLink(cid, k) /\ k.c = cl[cid].c /\ Served(cl[cid], k, srv[cid], srv'[cid])
  BY <1>0, <1>1, ServerTurned
<1>4. cl'[cid] = k /\ ds' = ds
  BY <1>0, <1>1, <1>3 DEF setLink, LinksOK
<1>5. via[cid] = "socks5" => socks[cid] = "relay"
  BY <1>2 DEF reached, viaTunnel
<1>6. CASE /\ cl[cid].up # <<>> /\ Head(cl[cid].up) = request /\ k.up = Tail(cl[cid].up) /\ k.p = "open"
           /\ srv[cid] = "waiting"
  <2>1. PICK units \in Seq(Unit) :
          /\ k.down = IF cl[cid].c = "open" THEN cl[cid].down \o units ELSE cl[cid].down
          /\ \/ srv'[cid] = "answered" /\ units = answer
             \/ srv'[cid] \in {"broken", "rejected", "refused"} /\ NoEnd(units)
    BY <1>3, <1>6 DEF Served
  <2>2. opc = "read"
    BY <1>1, <1>5, <1>6 DEF Straight, SocksAt, Engaged, Dialog
  <2>3. cl[cid].up = <<request>> /\ cl[cid].down = <<>>
    BY <1>1, <1>6, <2>2 DEF Straight, Dialog
  <2>4. k.up = <<>> /\ k.down = units
    BY <1>1, <1>6, <2>1, <2>3, Singles, ConcatEmptySeq
  <2>5. Straight(cl[cid], cid)'
    <3>1. /\ opc' = "read" /\ opc' \notin Dialog /\ tun'[cid] = noTunnel /\ ds'[cid] = noConn
          /\ via'[cid] = "socks5" => socks'[cid] = "relay"
      BY <1>1, <1>2, <1>4, <1>5, <2>2 DEF Straight, Dialog
    <3>2. /\ cl'[cid].up = <<>> /\ cl'[cid].p = "open" /\ srv'[cid] # "waiting"
          /\ srv'[cid] = "answered" => cl'[cid].down = answer
          /\ srv'[cid] # "answered" => NoEnd(cl'[cid].down)
      BY <1>4, <1>6, <2>1, <2>4
    <3>. QED  BY <1>2, <3>1, <3>2 DEF Straight, SocksAt, Dialog
  <2>. QED  BY <1>1, <1>2, <1>3, <1>4, <2>2, <2>5 DEF Using
<1>7. CASE /\ k.up = <<>> /\ k.p \in {"closed", "reset"} /\ k.down = cl[cid].down
           /\ srv'[cid] = IF srv[cid] = "waiting" THEN "broken" ELSE srv[cid]
  <2>1. srv'[cid] # "waiting"
    BY <1>7
  <2>2. CASE opc \in Dialog
    <3>1. via[cid] = "socks5" /\ SocksAt(cl[cid], socks[cid]) /\ opc # "read" /\ srv[cid] \in {"waiting", "broken"}
      BY <1>1, <2>2 DEF Straight, Dialog
    <3>2. SocksAt(cl[cid], socks[cid])'
      BY <1>2, <1>4, <1>5, <1>7, <3>1, Singles DEF SocksAt
    <3>3. Straight(cl[cid], cid)'
      BY <1>1, <1>2, <1>4, <1>7, <2>1, <2>2, <3>1, <3>2 DEF Straight
    <3>. QED  BY <1>1, <1>2, <1>3, <1>4, <2>2, <3>1, <3>3 DEF Using, Engaged
  <2>3. CASE opc = "read"
    <3>1. srv'[cid] = "answered" => k.down = answer
      BY <1>1, <1>7, <2>3 DEF Straight
    <3>2. srv'[cid] # "answered" => NoEnd(k.down)
      BY <1>1, <1>7, <2>3 DEF Straight
    <3>3. Straight(cl[cid], cid)'
      <4>1. /\ opc' = "read" /\ opc' \notin Dialog /\ tun'[cid] = noTunnel /\ ds'[cid] = noConn
            /\ via'[cid] = "socks5" => socks'[cid] = "relay"
        BY <1>1, <1>2, <1>4, <1>5, <2>3 DEF Straight, Dialog
      <4>2. /\ cl'[cid].up = <<>> /\ srv'[cid] # "waiting"
            /\ srv'[cid] = "answered" => cl'[cid].down = answer
            /\ srv'[cid] # "answered" => NoEnd(cl'[cid].down)
        BY <1>4, <1>7, <2>1, <3>1, <3>2
      <4>. QED  BY <1>2, <4>1, <4>2 DEF Straight, SocksAt, Dialog
    <3>. QED  BY <1>1, <1>2, <1>3, <1>4, <2>3, <3>3 DEF Using
  <2>4. CASE opc \notin Dialog /\ opc # "read"
    <3>1. Straight(cl[cid], cid)'
      <4>1. /\ opc' = opc /\ tun'[cid] = noTunnel /\ ds'[cid] = noConn /\ opc \notin {"status", "read"}
            /\ via'[cid] = "socks5" => socks'[cid] = "relay"
            /\ cl[cid].down = <<>> /\ srv[cid] \in {"waiting", "broken"}
        BY <1>1, <1>2, <1>4, <1>5, <2>4 DEF Straight, Dialog
      <4>2. /\ cl'[cid].up = <<>> /\ cl'[cid].down = <<>> /\ srv'[cid] = "broken"
        BY <1>4, <1>7, <4>1
      <4>3. via'[cid] = "socks5" => SocksAt(cl[cid], socks[cid])'
        BY <1>2, <2>4, <4>1 DEF SocksAt, Dialog
      <4>. QED  BY <1>2, <2>4, <4>1, <4>2, <4>3 DEF Straight
    <3>. QED  BY <1>1, <1>2, <1>3, <1>4, <2>4, <3>1 DEF Using
  <2>. QED  BY <2>2, <2>3, <2>4
<1>. QED  BY <1>3, <1>6, <1>7 DEF Served

LEMMA TunnelStates ==
    ASSUME WayInv, Using, opc \in Engaged, via[cid] = "http-connect"
    PROVE  /\ tun[cid].upc = "run" \/ tun[cid].downc = "run" => tun[cid].st = "relay"
           /\ tun[cid].st \in {"idle", "dial"} => cl[cid].down = <<>> /\ cl[cid].p = "open" /\ ds[cid] = noConn
           /\ tun[cid].st = "relay" => Relaying(cl[cid], ds[cid], tun[cid], srv[cid])
           /\ tun[cid].st \in {"idle", "dial", "hijack", "relay", "ended"}
           /\ Tunnelled(cl[cid], cid) /\ cl[cid].c = "open" /\ cid \in Conn /\ LinksOK /\ Kinds
<1>1. Tunnelled(cl[cid], cid) /\ cl[cid].c = "open" /\ cid \in Conn /\ LinksOK /\ Kinds
      /\ tun[cid] \in TunnelState
  BY InUse DEF WayInv, ShortTypeOK, Kinds
<1>2. tun[cid].st \in {"idle", "dial", "hijack", "relay", "ended"}
  BY <1>1 DEF TunnelState
<1>. QED  BY <1>1, <1>2 DEF Tunnelled

LEMMA StatusesTyped ==
    ASSUME NEW s \in Statuses \cup {<<>>}
    PROVE  s \in Seq(Unit)
<1>1. s = status(407) \/ s = status(502) \/ s = status(200) \/ s = <<>>
  BY DEF Statuses
<1>2. CASE s = <<>>
  BY <1>2, EmptySeq
<1>3. CASE s = status(407)
  BY <1>3, StatusUnits
<1>4. CASE s = status(502)
  BY <1>4, StatusUnits
<1>5. CASE s = status(200)
  BY <1>5, StatusUnits
<1>. QED  BY <1>1, <1>2, <1>3, <1>4, <1>5

\* The steps before the tunnel relays.
LEMMA TunnelBegins ==
    ASSUME WayInv, Using, opc \in Engaged, via[cid] = "http-connect", UNCHANGED <<dialVars, ownVars>>,
           \/ RefuseUnauthorized(cid) \/ TargetRefuses(cid) \/ NoRequest(cid)
           \/ ServeConnect(cid) \/ TargetDialled(cid) \/ Hijack(cid)
    PROVE  Tunnelled(cl[cid], cid)'
<1>1. /\ Tunnelled(cl[cid], cid) /\ cl[cid].c = "open" /\ cid \in Conn /\ LinksOK
      /\ tun[cid].st \in {"idle", "dial"} => cl[cid].down = <<>> /\ cl[cid].p = "open" /\ ds[cid] = noConn
      /\ tun[cid] \in TunnelState /\ cl[cid] \in Link
  BY TunnelStates, InUse
<1>2. opc' = opc /\ cid' = cid /\ srv' = srv
  BY DEF dialVars, ownVars
<1>3. CASE RefuseUnauthorized(cid) \/ TargetRefuses(cid) \/ NoRequest(cid)
  <2>1. /\ cl'[cid].p # "open" /\ cl'[cid].up = <<>> /\ ~NoRequest(cid)
        /\ tun'[cid] = [tun[cid] EXCEPT !.st = "ended"] /\ ds' = ds
        /\ tun[cid].st \in {"idle", "dial"}
    BY <1>1, <1>3, Refused
  <2>2. PICK s \in Statuses \cup {<<>>} : cl'[cid].down = cl[cid].down \o s
    BY <1>1, <1>3, Refused
  <2>3. cl'[cid].down \in Statuses \cup {<<>>}
    <3>1. s \in Seq(Unit)
      BY <2>2, StatusesTyped
    <3>. QED  BY <1>1, <2>1, <2>2, <3>1, ConcatEmptySeq
  <2>4. /\ tun'[cid].st = "ended" /\ tun'[cid].upc = "off" /\ tun'[cid].downc = "off"
    BY <1>1, <2>1 DEF TunnelState, Tunnelled
  <2>5. opc = "status" /\ srv[cid] \in {"waiting", "broken"} /\ ds[cid] = noConn
    BY <1>1, <2>1 DEF Tunnelled
  <2>. QED  BY <1>2, <2>1, <2>3, <2>4, <2>5, NoConnections DEF Tunnelled
<1>4. CASE ServeConnect(cid)
  <2>1. /\ asked(cid) /\ cl'[cid] = [cl[cid] EXCEPT !.up = Tail(cl[cid].up)]
        /\ tun'[cid] = [tun[cid] EXCEPT !.st = "dial"] /\ ds' = ds
    BY <1>1, <1>4, RequestServed
  <2>2. tun[cid].st = "idle" /\ cl[cid].up = <<CONNECT>>
    BY <1>1, <2>1 DEF asked, Tunnelled
  <2>3. /\ cl'[cid].up = <<>> /\ cl'[cid].down = cl[cid].down /\ cl'[cid].p = cl[cid].p
        /\ tun'[cid].st = "dial" /\ tun'[cid].upc = tun[cid].upc /\ tun'[cid].downc = tun[cid].downc
    BY <1>1, <2>1, <2>2, Singles DEF Link, TunnelState
  <2>. QED  BY <1>1, <1>2, <2>1, <2>2, <2>3 DEF Tunnelled
<1>5. CASE TargetDialled(cid)
  <2>1. /\ tun[cid].st = "dial" /\ ds'[cid] = newConn
        /\ tun'[cid] = [tun[cid] EXCEPT !.st = "hijack"] /\ cl' = cl
    BY <1>1, <1>5, TargetTaken
  <2>2. tun'[cid].st = "hijack" /\ tun'[cid].upc = tun[cid].upc /\ tun'[cid].downc = tun[cid].downc
    BY <1>1, <2>1 DEF TunnelState
  <2>. QED  BY <1>1, <1>2, <2>1, <2>2, NoConnections DEF Tunnelled
<1>6. CASE Hijack(cid)
  <2>1. /\ tun[cid].st = "hijack" /\ cl'[cid].p = cl[cid].p /\ cl'[cid].up = <<>>
        /\ cl'[cid].down = cl[cid].down \o status(200)
        /\ tun'[cid] = [st |-> "relay", upc |-> "run", downc |-> "run"] /\ ds' = ds
    BY <1>1, <1>6, Hijacked
  <2>2. /\ opc = "status" /\ cl[cid].down = <<>> /\ cl[cid].p = "open" /\ ds[cid].up = <<>>
        /\ ds[cid].down = <<>> /\ ds[cid].c = "open" /\ (ds[cid].p # "open" => srv[cid] # "waiting")
        /\ srv[cid] \in {"waiting", "broken"}
    BY <1>1, <2>1 DEF Tunnelled
  <2>3. cl'[cid].down = status(200)
    BY <2>1, <2>2, StatusUnits, ConcatEmptySeq
  <2>4. Relaying(cl[cid], ds[cid], tun[cid], srv[cid])'
    BY <1>2, <2>1, <2>2, <2>3 DEF Relaying
  <2>5. tun'[cid].st = "relay"
    BY <2>1
  <2>. QED  BY <1>2, <2>2, <2>4, <2>5 DEF Tunnelled
<1>. QED  BY <1>3, <1>4, <1>5, <1>6

\* The steps of a tunnel that relays.
LEMMA TunnelCopiesUp ==
    ASSUME WayInv, Using, opc \in Engaged, via[cid] = "http-connect", UNCHANGED <<dialVars, ownVars>>,
           CopyUp(cid)
    PROVE  Tunnelled(cl[cid], cid)'
<1>1. /\ Tunnelled(cl[cid], cid) /\ cl[cid].c = "open" /\ cid \in Conn /\ LinksOK
      /\ cl[cid] \in Link /\ ds[cid] \in Link
  BY TunnelStates, InUse
<1>2. opc' = opc /\ cid' = cid /\ srv' = srv
  BY DEF dialVars, ownVars
<1>3. /\ tun' = tun
      /\ cl'[cid] = [cl[cid] EXCEPT !.up = <<>>] /\ ds'[cid] = [ds[cid] EXCEPT !.up = ds[cid].up \o cl[cid].up]
      /\ tun[cid].upc = "run" /\ cl[cid].up # <<>> /\ cl[cid].p = "open" /\ ds[cid].c = "open" /\ ds[cid].p = "open"
  BY <1>1, CopiedUp
<1>4. tun[cid].st = "relay" /\ Relaying(cl[cid], ds[cid], tun[cid], srv[cid])
  BY <1>3, TunnelStates
<1>5. opc = "read" /\ cl[cid].up = <<request>> /\ srv[cid] # "answered"
      /\ (srv[cid] = "waiting" => ds[cid].up = <<>>)
  BY <1>3, <1>4, Singles DEF Relaying
<1>6. /\ cl'[cid].up = <<>> /\ cl'[cid].down = cl[cid].down /\ cl'[cid].p = cl[cid].p
      /\ ds'[cid].up = ds[cid].up \o <<request>> /\ ds'[cid].down = ds[cid].down /\ ds'[cid].p = ds[cid].p
      /\ ds'[cid].c = ds[cid].c
  BY <1>1, <1>3, <1>5 DEF Link
<1>7. srv[cid] = "waiting" => ds'[cid].up = <<request>>
  <2>1. request \in Unit
    BY UnitTypes DEF request, UnitName
  <2>2. <<request>> \in Seq(Unit)
    BY <2>1
  <2>3. <<>> \o <<request>> = <<request>>
    BY <2>2, ConcatEmptySeq
  <2>. QED  BY <1>5, <1>6, <2>3
<1>8. Relaying(cl[cid], ds[cid], tun[cid], srv[cid])'
  BY <1>2, <1>3, <1>4, <1>5, <1>6, <1>7 DEF Relaying
<1>. QED  BY <1>1, <1>2, <1>3, <1>4, <1>5, <1>8 DEF Tunnelled

LEMMA TunnelEndsUp ==
    ASSUME WayInv, Using, opc \in Engaged, via[cid] = "http-connect", UNCHANGED <<dialVars, ownVars>>,
           CopyUpEnds(cid)
    PROVE  Tunnelled(cl[cid], cid)'
<1>1. /\ Tunnelled(cl[cid], cid) /\ cl[cid].c = "open" /\ cid \in Conn /\ LinksOK
      /\ ds[cid] \in Link /\ tun[cid] \in TunnelState
  BY TunnelStates, InUse
<1>2. opc' = opc /\ cid' = cid /\ srv' = srv
  BY DEF dialVars, ownVars
<1>3. /\ cl' = cl
      /\ ds'[cid] = closedByClient(ds[cid]) /\ tun'[cid] = [tun[cid] EXCEPT !.upc = "done"]
      /\ tun[cid].upc = "run" /\ upEnds(cid)
  BY <1>1, CopiedUpToTheEnd
<1>4. tun[cid].st = "relay" /\ Relaying(cl[cid], ds[cid], tun[cid], srv[cid])
  BY <1>3, TunnelStates
<1>5. \/ cl[cid].p # "open"
      \/ cl[cid].up # <<>> /\ ds[cid].p # "open"
  BY <1>1, <1>3 DEF upEnds
<1>6. ds[cid].p # "open" /\ srv[cid] # "waiting" /\ (srv[cid] = "answered" /\ opc = "read" => cl[cid].p # "open")
  BY <1>4, <1>5 DEF Relaying
<1>7. /\ ds'[cid].up = ds[cid].up /\ ds'[cid].down = <<>> /\ ds'[cid].p = ds[cid].p /\ ds'[cid].c = "closed"
      /\ tun'[cid].st = tun[cid].st /\ tun'[cid].downc = tun[cid].downc
  BY <1>1, <1>3, ClosedByClient DEF TunnelState
<1>8. Relaying(cl[cid], ds[cid], tun[cid], srv[cid])'
  BY <1>2, <1>3, <1>4, <1>6, <1>7, NoEnds DEF Relaying
<1>9. opc \in {"status", "write", "read", "handed"} /\ (opc # "read" => srv[cid] \in {"waiting", "broken"})
  BY <1>1 DEF Tunnelled
<1>. QED  BY <1>2, <1>4, <1>7, <1>8, <1>9 DEF Tunnelled

LEMMA TunnelCopiesDown ==
    ASSUME WayInv, Using, opc \in Engaged, via[cid] = "http-connect", UNCHANGED <<dialVars, ownVars>>,
           CopyDown(cid)
    PROVE  Tunnelled(cl[cid], cid)'
<1>1. /\ Tunnelled(cl[cid], cid) /\ cl[cid].c = "open" /\ cid \in Conn /\ LinksOK
      /\ cl[cid] \in Link /\ ds[cid] \in Link
      /\ cl[cid].down \in Seq(Unit) /\ ds[cid].down \in Seq(Unit)
  BY TunnelStates, InUse
<1>2. opc' = opc /\ cid' = cid /\ srv' = srv
  BY DEF dialVars, ownVars
<1>3. /\ tun' = tun /\ tun[cid].downc = "run" /\ cl[cid].p = "open" /\ ds[cid].c = "open"
  BY <1>1, CopiedDown
<1>4. PICK n \in 1..Len(ds[cid].down) :
        /\ cl'[cid] = [cl[cid] EXCEPT !.down = cl[cid].down \o SubSeq(ds[cid].down, 1, n)]
        /\ ds'[cid] = [ds[cid] EXCEPT !.down = SubSeq(ds[cid].down, n + 1, Len(ds[cid].down))]
  BY <1>1, CopiedDown
<1>. DEFINE a == cl[cid].down
            b == ds[cid].down
            x == SubSeq(b, 1, n)
            y == SubSeq(b, n + 1, Len(b))
<1>5. b # <<>> /\ n \in Nat /\ n \in 0..Len(b)
  <2>1. Len(b) # 0 /\ n \in Nat /\ n \in 0..Len(b)
    BY <1>1, <1>4
  <2>. QED  BY <2>1
<1>6. tun[cid].st = "relay" /\ Relaying(cl[cid], ds[cid], tun[cid], srv[cid])
  BY <1>3, TunnelStates
<1>7. opc = "read" /\ srv[cid] # "waiting"
  BY <1>1, <1>5, <1>6 DEF Relaying, Tunnelled
<1>8. x \in Seq(Unit) /\ y \in Seq(Unit) /\ x \o y = b
  <2>1. /\ 1 \in Nat /\ 1 <= 1 /\ n <= Len(b) /\ n + 1 \in Nat /\ 1 <= n + 1 /\ Len(b) \in Nat /\ Len(b) <= Len(b)
    BY <1>1, <1>5
  <2>2. x \in Seq(Unit)
    BY <1>1, <1>5, <2>1, Part, Zenon
  <2>3. y \in Seq(Unit)
    BY <1>1, <2>1, Part, Zenon
  <2>4. x \o y = b
    BY <1>1, <1>5, CutInTwo, Zenon
  <2>. QED  BY <2>2, <2>3, <2>4
<1>. HIDE DEF x, y
<1>9. (a \o x) \o y = a \o b
  <2>1. (a \o x) \o y = a \o (x \o y)
    <3>1. a \in Seq(Unit) /\ x \in Seq(Unit) /\ y \in Seq(Unit)
      BY <1>1, <1>8
    <3>. HIDE DEF a
    <3>. QED  BY <3>1, ConcatAssociative
  <2>. QED  BY <1>8, <2>1
<1>10. NoEnd(a) /\ NoEnd(b) => NoEnd(a \o x) /\ NoEnd(y)
  BY <1>1, <1>8, NoEnds
<1>11. /\ cl'[cid].up = cl[cid].up /\ cl'[cid].down = a \o x /\ cl'[cid].p = cl[cid].p
       /\ ds'[cid].up = ds[cid].up /\ ds'[cid].down = y /\ ds'[cid].p = ds[cid].p /\ ds'[cid].c = ds[cid].c
  BY <1>1, <1>4 DEF Link, x, y
<1>12. Relaying(cl[cid], ds[cid], tun[cid], srv[cid])'
  <2>1. srv[cid] = "answered" => a \o b = answer
    BY <1>3, <1>6, <1>7 DEF Relaying
  <2>2. srv[cid] # "answered" => NoEnd(a) /\ NoEnd(b)
    BY <1>6, <1>7 DEF Relaying
  <2>. HIDE DEF a, b
  <2>3. /\ srv'[cid] = "answered" => cl'[cid].down \o ds'[cid].down = answer
        /\ srv'[cid] # "answered" => NoEnd(cl'[cid].down) /\ NoEnd(ds'[cid].down)
    BY <1>2, <1>9, <1>10, <1>11, <2>1, <2>2
  <2>. QED  BY <1>2, <1>3, <1>6, <1>7, <1>11, <2>3, ZenonT(30) DEF Relaying
<1>. QED  BY <1>2, <1>3, <1>6, <1>7, <1>12 DEF Tunnelled

LEMMA TunnelEndsDown ==
    ASSUME WayInv, Using, opc \in Engaged, via[cid] = "http-connect", UNCHANGED <<dialVars, ownVars>>,
           CopyDownEnds(cid)
    PROVE  Tunnelled(cl[cid], cid)'
<1>1. /\ Tunnelled(cl[cid], cid) /\ cl[cid].c = "open" /\ cid \in Conn /\ LinksOK
      /\ cl[cid] \in Link /\ tun[cid] \in TunnelState /\ cl[cid].down \in Seq(Unit)
  BY TunnelStates, InUse
<1>2. opc' = opc /\ cid' = cid /\ srv' = srv
  BY DEF dialVars, ownVars
<1>3. /\ ds' = ds
      /\ cl'[cid] = closedByPeer(cl[cid]) /\ tun'[cid] = [tun[cid] EXCEPT !.downc = "done"]
      /\ tun[cid].downc = "run" /\ downEnds(cid)
  BY <1>1, CopiedDownToTheEnd
<1>4. tun[cid].st = "relay" /\ Relaying(cl[cid], ds[cid], tun[cid], srv[cid])
  BY <1>3, TunnelStates
<1>5. /\ cl'[cid].p # "open" /\ cl'[cid].down = cl[cid].down
      /\ cl'[cid].up = IF cl[cid].p = "open" THEN <<>> ELSE cl[cid].up
      /\ tun'[cid].st = "relay"
  BY <1>1, <1>3, <1>4, ClosedByPeer DEF TunnelState
<1>6. ds[cid].p # "open"
  BY <1>1, <1>3, <1>4 DEF downEnds, Relaying
<1>7. opc = "read" /\ srv[cid] = "answered" /\ ds[cid].p # "reset" => cl[cid].down = answer
  <2>1. CASE cl[cid].p # "open"
    BY <1>4, <2>1 DEF Relaying
  <2>2. CASE cl[cid].p = "open" /\ opc = "read" /\ srv[cid] = "answered" /\ ds[cid].p # "reset"
    <3>1. ds[cid].c = "open" /\ cl[cid].down \o ds[cid].down = answer
      BY <1>4, <2>2 DEF Relaying
    <3>2. ds[cid].down = <<>>
      BY <1>1, <1>3, <2>2, <3>1 DEF downEnds
    <3>. QED  BY <1>1, <3>1, <3>2, ConcatEmptySeq
  <2>. QED  BY <2>1, <2>2
<1>8. Relaying(cl[cid], ds[cid], tun[cid], srv[cid])'
  <2>1. srv[cid] # "waiting"
    BY <1>4, <1>6 DEF Relaying
  <2>. QED  BY <1>2, <1>3, <1>4, <1>5, <1>6, <1>7, <2>1 DEF Relaying
<1>9. opc \in {"status", "write", "read", "handed"} /\ (opc # "read" => srv[cid] \in {"waiting", "broken"})
  BY <1>1 DEF Tunnelled
<1>. QED  BY <1>2, <1>5, <1>8, <1>9 DEF Tunnelled

LEMMA TunnelIsStopped ==
    ASSUME WayInv, Using, opc \in Engaged, via[cid] = "http-connect", UNCHANGED <<dialVars, ownVars>>,
           TunnelStops(cid)
    PROVE  Tunnelled(cl[cid], cid)'
<1>1. /\ Tunnelled(cl[cid], cid) /\ cl[cid].c = "open" /\ cid \in Conn /\ LinksOK
      /\ cl[cid] \in Link /\ ds[cid] \in Link
      /\ tun[cid].st \in {"idle", "dial"} => cl[cid].down = <<>> /\ cl[cid].p = "open" /\ ds[cid] = noConn
  BY TunnelStates, InUse
<1>2. opc' = opc /\ cid' = cid /\ srv' = srv
  BY DEF dialVars, ownVars
<1>3. /\ cl'[cid] = closedByPeer(cl[cid])
      /\ ds'[cid] = IF ds[cid].c = "open" THEN closedByClient(ds[cid]) ELSE ds[cid]
      /\ tun'[cid] = [st |-> "ended", upc |-> "done", downc |-> "done"]
      /\ tun[cid].st \in {"dial", "hijack", "relay"}
  BY <1>1, Stopped
<1>4. /\ cl'[cid].p # "open" /\ cl'[cid].down = cl[cid].down
      /\ cl'[cid].up = IF cl[cid].p = "open" THEN <<>> ELSE cl[cid].up
      /\ ds'[cid].c # "open" /\ ds'[cid].up = ds[cid].up
      /\ tun'[cid].st = "ended" /\ tun'[cid].upc = "done" /\ tun'[cid].downc = "done"
  BY <1>1, <1>3, ClosedByPeer, ClosedByClient
<1>5. /\ opc # "read" => cl[cid].up = <<>> /\ ds[cid].up = <<>>
      /\ opc = "status" => cl[cid].down \in Statuses \cup {<<>>}
      /\ opc \in {"write", "handed"} => cl[cid].down = <<>>
      /\ opc = "read" /\ srv[cid] # "answered" => NoEnd(cl[cid].down)
  <2>1. CASE tun[cid].st \in {"dial", "hijack"}
    BY <1>1, <2>1, NoConnections DEF Tunnelled
  <2>2. CASE tun[cid].st = "relay"
    <3>1. Relaying(cl[cid], ds[cid], tun[cid], srv[cid])
      BY <2>2, TunnelStates
    <3>2. opc = "status" => cl[cid].down \in Statuses
      BY <3>1 DEF Relaying, Statuses
    <3>. QED  BY <3>1, <3>2 DEF Relaying
  <2>. QED  BY <1>3, <2>1, <2>2
<1>6. opc \in {"status", "write", "read", "handed"} /\ (opc # "read" => srv[cid] \in {"waiting", "broken"})
  BY <1>1 DEF Tunnelled
<1>. QED  BY <1>2, <1>4, <1>5, <1>6 DEF Tunnelled

LEMMA UsingTunnel ==
    ASSUME WayInv, Using, opc \in Engaged, UNCHANGED <<dialVars, ownVars>>, Environment(cid)
    PROVE  Using'
<1>1. via[cid] = "http-connect"
  BY StraightIsNoTunnels
<1>2. Tunnelled(cl[cid], cid)'
  BY <1>1, TunnelBegins, TunnelCopiesUp, TunnelEndsUp, TunnelCopiesDown, TunnelEndsDown, TunnelIsStopped
     DEF Environment
<1>3. UNCHANGED <<opc, cid, via, hop, call>>
  BY DEF dialVars
<1>4. cid \in Conn /\ LinksOK /\ Kinds /\ cl[cid].c = "open"
  BY <1>1, TunnelStates
<1>5. cl'[cid].c = "open"
  BY <1>4, TunnelsElsewhere DEF Elsewhere
<1>. QED  BY <1>1, <1>2, <1>3, <1>5 DEF Using

LEMMA UsingServerTunnel ==
    ASSUME WayInv, Using, opc \in Engaged, via[cid] = "http-connect",
           ServerAnswers(cid) \/ ServerRefuses(cid) \/ ServerCloses(cid)
    PROVE  Using'
<1>1. /\ Tunnelled(cl[cid], cid) /\ cl[cid].c = "open" /\ cid \in Conn /\ LinksOK /\ Kinds
      /\ link(cid) = ds[cid] /\ viaTunnel(cid) /\ ds[cid].down \in Seq(Unit)
      /\ tun[cid].st \in {"idle", "dial", "hijack", "relay", "ended"}
      /\ tun[cid].st \in {"idle", "dial"} => ds[cid] = noConn
  BY TunnelStates, InUse DEF link, viaTunnel
<1>2. /\ ds[cid].p = "open" /\ UNCHANGED <<tun, call, opc, cid, hop, via>>
  BY <1>1, ServerTurned DEF dialVars
<1>3. PICK k \in Link : setLink(cid, k) /\ k.c = ds[cid].c /\ Served(ds[cid], k, srv[cid], srv'[cid])
  BY <1>1, ServerTurned
<1>4. ds'[cid] = k /\ cl' = cl
  BY <1>1, <1>3 DEF setLink, LinksOK
<1>5. tun[cid].st \in {"hijack", "relay", "ended"}
  BY <1>1, <1>2, NoConnections
<1>6. Tunnelled(cl[cid], cid)'
  <2>1. CASE /\ ds[cid].up # <<>> /\ Head(ds[cid].up) = request /\ k.up = Tail(ds[cid].up) /\ k.p = "open"
             /\ srv[cid] = "waiting"
    <3>1. PICK units \in Seq(Unit) :
            /\ k.down = IF ds[cid].c = "open" THEN ds[cid].down \o units ELSE ds[cid].down
            /\ \/ srv'[cid] = "answered" /\ units = answer
               \/ srv'[cid] \in {"broken", "rejected", "refused"} /\ NoEnd(units)
      BY <1>3, <2>1 DEF Served
    <3>2. CASE tun[cid].st = "hijack"
      BY <1>1, <2>1, <3>2 DEF Tunnelled
    <3>3. CASE tun[cid].st = "relay"
      <4>1. Relaying(cl[cid], ds[cid], tun[cid], srv[cid])
        BY <3>3, TunnelStates
      <4>2. /\ opc = "read" /\ cl[cid].down = <<>> /\ ds[cid].down = <<>> /\ cl[cid].up = <<>>
            /\ ds[cid].up = <<request>>
        BY <1>1, <2>1, <4>1 DEF Relaying, Tunnelled
      <4>3. cl[cid].p = "open" /\ ds[cid].c = "open"
        BY <1>2, <4>1 DEF Relaying
      <4>4. k.up = <<>> /\ k.down = units /\ <<>> \o units = units
        BY <2>1, <3>1, <4>2, <4>3, Singles, ConcatEmptySeq
      <4>5. Relaying(cl[cid], ds[cid], tun[cid], srv[cid])'
        BY <1>2, <1>3, <1>4, <2>1, <3>1, <4>1, <4>2, <4>3, <4>4, NoEnds DEF Relaying
      <4>. QED  BY <1>2, <1>4, <3>3, <4>2, <4>5 DEF Tunnelled
    <3>4. CASE tun[cid].st = "ended"
      <4>1. opc = "read" /\ cl[cid].p # "open" /\ ds[cid].c # "open" /\ tun[cid].upc # "run" /\ tun[cid].downc # "run"
            /\ NoEnd(cl[cid].down)
        BY <1>1, <2>1, <3>4 DEF Tunnelled
      <4>. QED  BY <1>2, <1>3, <1>4, <3>4, <4>1 DEF Tunnelled
    <3>. QED  BY <1>5, <3>2, <3>3, <3>4
  <2>2. CASE /\ k.up = <<>> /\ k.p \in {"closed", "reset"} /\ k.down = ds[cid].down
             /\ srv'[cid] = IF srv[cid] = "waiting" THEN "broken" ELSE srv[cid]
    <3>1. /\ srv'[cid] # "waiting" /\ (srv[cid] \in {"waiting", "broken"} => srv'[cid] = "broken")
          /\ (srv'[cid] = "answered" <=> srv[cid] = "answered")
      BY <2>2
    <3>2. CASE tun[cid].st = "hijack"
      BY <1>1, <1>2, <1>3, <1>4, <2>2, <3>1, <3>2 DEF Tunnelled
    <3>3. CASE tun[cid].st = "relay"
      <4>1. Relaying(cl[cid], ds[cid], tun[cid], srv[cid])
        BY <3>3, TunnelStates
      <4>2. cl[cid].p = "open" /\ ds[cid].c = "open"
        BY <1>2, <4>1 DEF Relaying
      <4>3. Relaying(cl[cid], ds[cid], tun[cid], srv[cid])'
        BY <1>2, <1>3, <1>4, <2>2, <3>1, <4>1, <4>2, NoEnds, ZenonT(30) DEF Relaying
      <4>4. opc \in {"status", "write", "read", "handed"} /\ (opc # "read" => srv'[cid] = "broken")
        BY <1>1, <3>1 DEF Tunnelled
      <4>. QED  BY <1>2, <1>4, <3>3, <4>3, <4>4 DEF Tunnelled
    <3>4. CASE tun[cid].st = "ended"
      BY <1>1, <1>2, <1>3, <1>4, <2>2, <3>1, <3>4 DEF Tunnelled
    <3>. QED  BY <1>5, <3>2, <3>3, <3>4
  <2>. QED  BY <1>3, <2>1, <2>2 DEF Served
<1>7. cl'[cid].c = "open" /\ via'[cid] = (IF hop = "target" THEN "target" ELSE call.proxy)
      /\ (opc = "handed" => call.kind = "login")
  BY <1>1, <1>2, <1>4 DEF Using
<1>. QED  BY <1>2, <1>6, <1>7 DEF Using

\* The client's steps.
LEMMA UsingConnect ==
    ASSUME WayInv, Connect, UNCHANGED ownVars
    PROVE  Using'
<1>1. opc = "connect" /\ srv' = srv /\ UNCHANGED <<ds, tun, call, cid, hop, need, now, socks>>
  BY DEF Connect, ownVars
<1>2. cid \in Conn /\ call.kind \in {"send", "login"} /\ LinksOK
      /\ via \in [Conn -> {"none", "target", "socks5", "http-connect"}]
  BY <1>1, OwnConnection, KindAssumption DEF WayInv, ShortTypeOK
<1>3. ds[cid] = noConn /\ tun[cid] = noTunnel /\ srv[cid] = "waiting" /\ socks[cid] = "idle"
  BY <1>1, <1>2 DEF WayInv, Later, Fresh
<1>4. CASE hop = "target"
  <2>1. cl'[cid] = newConn /\ via'[cid] = "target" /\ opc' = dialled(call)
    BY <1>2, <1>4 DEF Connect, LinksOK
  <2>2. opc' \in {"write", "handed"} /\ (opc' = "handed" => call.kind = "login")
    BY <1>2, <2>1 DEF dialled
  <2>3. Straight(cl[cid], cid)'
    BY <1>1, <1>3, <2>1, <2>2, NoConnections DEF Straight, Dialog
  <2>. QED  BY <1>1, <1>4, <2>1, <2>2, <2>3, NoConnections DEF Using
<1>5. CASE hop # "target"
  <2>1. hop = "proxy" /\ call.proxy \in {"socks5", "http-connect"}
    BY <1>5 DEF WayInv, ShortTypeOK, Ways
  <2>. DEFINE w == <<IF call.proxy = "socks5" THEN unit("greeting", 0) ELSE CONNECT>>
              k == wroteUp(newConn, w)
  <2>2. cl'[cid] = k /\ via'[cid] = call.proxy
        /\ opc' = IF call.proxy = "socks5" THEN "method" ELSE "status"
    BY <1>2, <1>5 DEF Connect, LinksOK
  <2>3. w \in Seq(Unit)
    <3>1. unit("greeting", 0) \in Unit /\ CONNECT \in Unit
      BY UnitTypes DEF UnitName, CONNECT
    <3>. QED  BY <3>1
  <2>4. k.c = "open" /\ k.p = "open" /\ k.up = w /\ k.down = <<>>
    <3>1. newConn \in Link /\ newConn.c = "open" /\ newConn.p = "open" /\ newConn.up = <<>>
          /\ newConn.down = <<>>
      BY NoConnections
    <3>2. <<>> \o w = w
      BY <2>3, ConcatEmptySeq
    <3>. HIDE DEF w
    <3>3. /\ wroteUp(newConn, w).c = newConn.c /\ wroteUp(newConn, w).p = newConn.p
          /\ wroteUp(newConn, w).down = newConn.down
          /\ wroteUp(newConn, w).up = IF newConn.p = "open" THEN newConn.up \o w ELSE newConn.up
      BY <2>3, <3>1, WroteUp
    <3>. QED  BY <3>1, <3>2, <3>3
  <2>. HIDE DEF k
  <2>5. CASE call.proxy = "socks5"
    <3>1. opc' = "method" /\ via'[cid] = "socks5" /\ k.up = <<unit("greeting", 0)>>
      BY <2>2, <2>4, <2>5
    <3>2. SocksAt(cl[cid], socks[cid])'
      BY <1>1, <1>3, <2>2, <2>4, <3>1 DEF SocksAt
    <3>3. Straight(cl[cid], cid)'
      BY <1>1, <1>3, <2>2, <2>4, <3>1, <3>2 DEF Straight, Dialog
    <3>. QED  BY <1>1, <2>1, <2>2, <2>4, <3>1, <3>3 DEF Using
  <2>6. CASE call.proxy = "http-connect"
    <3>1. opc' = "status" /\ via'[cid] = "http-connect" /\ k.up = <<CONNECT>>
      BY <2>2, <2>4, <2>6
    <3>2. Tunnelled(cl[cid], cid)'
      BY <1>1, <1>3, <2>2, <2>4, <3>1, NoConnections DEF Tunnelled
    <3>. QED  BY <1>1, <2>1, <2>2, <2>4, <3>1, <3>2 DEF Using
  <2>. QED  BY <2>1, <2>5, <2>6
<1>. QED  BY <1>4, <1>5

LEMMA UsingWriteRequest ==
    ASSUME WayInv, Using, WriteRequest
    PROVE  Using'
<1>. DEFINE k == wroteUp(cl[cid], <<request>>)
<1>1. /\ opc = "write" /\ cl' = [cl EXCEPT ![cid] = k] /\ opc' = "read" /\ srv' = srv
      /\ UNCHANGED <<ds, tun, call, cid, hop, need, via, socks>>
  BY DEF WriteRequest, ownVars
<1>2. /\ cid \in Conn /\ cl[cid] \in Link /\ cl[cid].c = "open" /\ via[cid] \in {"target", "socks5", "http-connect"}
      /\ via[cid] = "target" \/ via[cid] = "socks5" => Straight(cl[cid], cid)
      /\ via[cid] = "http-connect" => Tunnelled(cl[cid], cid)
      /\ LinksOK /\ tun[cid] \in TunnelState
  BY <1>1, InUse DEF Engaged, WayInv, ShortTypeOK
<1>3. <<request>> \in Seq(Unit)
  <2>1. request \in Unit
    BY UnitTypes DEF UnitName, request
  <2>. QED  BY <2>1
<1>4. k.c = "open" /\ k.p = cl[cid].p /\ k.down = cl[cid].down
      /\ k.up = IF cl[cid].p = "open" THEN cl[cid].up \o <<request>> ELSE cl[cid].up
  BY <1>2, <1>3, WroteUp
<1>5. cl'[cid] = k /\ <<>> \o <<request>> = <<request>>
  BY <1>1, <1>2, <1>3, ConcatEmptySeq DEF LinksOK
<1>. HIDE DEF k
<1>6. CASE via[cid] = "target" \/ via[cid] = "socks5"
  <2>1. /\ cl[cid].up = <<>> /\ cl[cid].down = <<>> /\ srv[cid] \in {"waiting", "broken"}
        /\ tun[cid] = noTunnel /\ ds[cid] = noConn /\ (srv[cid] = "waiting" => cl[cid].p = "open")
        /\ via[cid] = "socks5" => socks[cid] = "relay"
    BY <1>1, <1>2, <1>6 DEF Straight, Dialog
  <2>2. k.up = (IF cl[cid].p = "open" THEN <<request>> ELSE <<>>) /\ k.down = <<>>
    BY <1>4, <1>5, <2>1
  <2>3. SocksAt(cl[cid], socks[cid])' \/ via[cid] = "target"
    BY <1>1, <1>6, <2>1 DEF SocksAt
  <2>4. Straight(cl[cid], cid)'
    BY <1>1, <1>4, <1>5, <1>6, <2>1, <2>2, <2>3, NoEnds DEF Straight, Dialog
  <2>. QED  BY <1>1, <1>4, <1>5, <1>6, <2>4 DEF Using, Engaged
<1>7. CASE via[cid] = "http-connect"
  <2>1. tun[cid].st \in {"relay", "ended"} /\ srv[cid] \in {"waiting", "broken"}
    BY <1>1, <1>2, <1>7 DEF Tunnelled, TunnelState
  <2>2. CASE tun[cid].st = "relay"
    <3>1. Relaying(cl[cid], ds[cid], tun[cid], srv[cid])
      BY <1>2, <1>7, <2>2 DEF Tunnelled
    <3>2. /\ cl[cid].up = <<>> /\ ds[cid].up = <<>> /\ ds[cid].down = <<>> /\ cl[cid].down = <<>>
          /\ srv[cid] = "waiting" => cl[cid].p = "open"
      BY <1>1, <3>1 DEF Relaying
    <3>3. k.up = (IF cl[cid].p = "open" THEN <<request>> ELSE <<>>) /\ k.down = <<>>
      BY <1>4, <1>5, <3>2
    <3>4. Relaying(cl[cid], ds[cid], tun[cid], srv[cid])'
      BY <1>1, <1>4, <1>5, <2>1, <3>1, <3>2, <3>3, NoEnds DEF Relaying
    <3>5. Tunnelled(cl[cid], cid)'
      BY <1>1, <2>2, <3>4 DEF Tunnelled
    <3>. QED  BY <1>1, <1>4, <1>5, <1>7, <3>5 DEF Using, Engaged
  <2>3. CASE tun[cid].st = "ended"
    <3>1. /\ cl[cid].p # "open" /\ ds[cid].c # "open" /\ tun[cid].upc # "run" /\ tun[cid].downc # "run"
          /\ cl[cid].down = <<>>
      BY <1>1, <1>2, <1>7, <2>3 DEF Tunnelled
    <3>2. Tunnelled(cl[cid], cid)'
      BY <1>1, <1>4, <1>5, <2>1, <2>3, <3>1, NoEnds DEF Tunnelled
    <3>. QED  BY <1>1, <1>4, <1>5, <1>7, <3>2 DEF Using, Engaged
  <2>. QED  BY <2>1, <2>2, <2>3
<1>. QED  BY <1>2, <1>6, <1>7

\* What is left when the first unit is taken.
LEMMA AfterFirst ==
    ASSUME NEW s \in Seq(Unit), s # <<>>
    PROVE  SubSeq(s, 2, Len(s)) \in Seq(Unit) /\ Len(SubSeq(s, 2, Len(s))) = Len(s) - 1
<1>. DEFINE n == Len(s)
            y == SubSeq(s, 2, n)
<1>1. n \in Nat /\ 1 <= n
  BY FirstUnit
<1>2. 2 \in Nat /\ n \in Nat /\ 1 <= 2 /\ n <= Len(s)
  BY <1>1
<1>3. /\ y \in Seq(Unit)
      /\ 2 <= n => Len(y) = n - 2 + 1
      /\ 2 > n => y = <<>>
  <2>. HIDE DEF n
  <2>. QED  BY <1>2, Part, ZenonT(30)
<1>. HIDE DEF y, n
<1>4. Len(y) = n - 1
  BY <1>1, <1>3, EmptySeq
<1>. QED  BY <1>3, <1>4 DEF y, n

LEMMA FirstTaken ==
    ASSUME NEW x \in Unit, NEW s \in Seq(Unit)
    PROVE  LET w == <<x>> \o s
           IN  w # <<>> /\ Head(w) = x /\ SubSeq(w, 2, Len(w)) = s
<1>. DEFINE w == <<x>> \o s
            n == Len(s)
            y == SubSeq(w, 2, Len(w))
<1>1. <<x>> \in Seq(Unit) /\ Len(<<x>>) = 1 /\ <<x>>[1] = x
  OBVIOUS
<1>2. w \in Seq(Unit) /\ Len(w) = 1 + n
      /\ \A i \in 1..(1 + n) : w[i] = IF i <= 1 THEN <<x>>[i] ELSE s[i - 1]
  BY <1>1, ConcatProperties
<1>3. n \in Nat /\ n = Len(s)
  OBVIOUS
<1>. HIDE DEF w, n
<1>4. w[1] = x
  <2>1. 1 \in 1..(1 + n) /\ 1 <= 1
    BY <1>3
  <2>. QED  BY <1>1, <1>2, <2>1
<1>5. w # <<>> /\ Head(w) = x
  <2>1. Len(w) # 0
    BY <1>2, <1>3
  <2>2. w # <<>>
    BY <1>2, <2>1, NotEmpty, Zenon
  <2>. QED  BY <1>2, <1>4, <2>2
<1>6. y \in Seq(Unit) /\ Len(y) = n
  BY <1>2, <1>3, <1>5, AfterFirst
<1>7. \A k \in 1..(Len(w) - 2 + 1) : y[k] = w[2 + k - 1]
  <2>1. 2 \in Nat /\ Len(w) \in Nat /\ 1 <= 2 /\ Len(w) <= Len(w)
    BY <1>2, <1>3
  <2>. QED  BY <1>2, <2>1, Part, ZenonT(30)
<1>. HIDE DEF y
<1>8. \A k \in 1..n : y[k] = s[k]
  <2>. TAKE k \in 1..n
  <2>1. k \in 1..(Len(w) - 2 + 1) /\ 2 + k - 1 = k + 1 /\ k + 1 \in 1..(1 + n) /\ ~(k + 1 <= 1)
        /\ (k + 1) - 1 = k
    BY <1>2, <1>3
  <2>2. y[k] = w[k + 1]
    BY <1>7, <2>1
  <2>3. w[k + 1] = s[(k + 1) - 1]
    BY <1>2, <2>1
  <2>. QED  BY <2>1, <2>2, <2>3
<1>9. y = s
  BY <1>3, <1>6, <1>8, SeqEqual
<1>. QED  BY <1>5, <1>9 DEF y, w

\* What a step of the dialog with a SOCKS5 proxy leads to.
SocksProceeds ==
    \/ SocksAt(cl[cid], socks[cid])' /\ opc' \in {"reply", "length", "discard"}
    \/ opc' = dialled(call) /\ socks'[cid] = "relay" /\ cl'[cid].up = <<>> /\ cl'[cid].down = <<>>

\* A dialog with a SOCKS5 proxy that goes on.
LEMMA UsingSocksProgress ==
    ASSUME WayInv, Using, opc \in Dialog, via[cid] # "http-connect", NEW k, Progress(k),
           UNCHANGED ownVars
    PROVE  Using'
<1>1. /\ cid \in Conn /\ cl[cid] \in Link /\ cl[cid].c = "open" /\ cl[cid].down \in Seq(Unit)
      /\ via[cid] \in {"target", "socks5"} /\ Straight(cl[cid], cid) /\ LinksOK
      /\ call.kind \in {"send", "login"}
  BY InUse, KindAssumption DEF Engaged, WayInv, ShortTypeOK
<1>2. /\ k \in Link /\ cl'[cid] = k /\ k.c = cl[cid].c /\ k.p = cl[cid].p /\ down = cl[cid].down
      /\ UNCHANGED <<ds, tun, call, cid, hop, via, socks, srv>>
  BY <1>1 DEF Progress, LinksOK, down, ownVars
<1>3. /\ via[cid] = "socks5" /\ SocksAt(cl[cid], socks[cid]) /\ opc # "status" /\ opc # "read"
      /\ tun[cid] = noTunnel /\ ds[cid] = noConn /\ (srv[cid] = "waiting" => k.p = "open")
      /\ srv[cid] \in {"waiting", "broken"}
  BY <1>1, <1>2 DEF Straight, Dialog
<1>4. ASSUME opc = "method"  PROVE SocksProceeds
  <2>1. /\ down # <<>> /\ opc' = "reply" /\ k.down = Tail(down)
        /\ k.up = IF cl[cid].p = "open" THEN cl[cid].up \o <<unit("connect", 0)>> ELSE cl[cid].up
    BY <1>4 DEF Progress
  <2>2. socks[cid] = "greeted" /\ cl[cid].up = <<>> /\ Len(down) = 1 /\ cl[cid].p = "open"
    BY <1>2, <1>3, <1>4, <2>1 DEF SocksAt
  <2>3. Tail(down) = <<>>
    <3>1. Tail(down) \in Seq(Unit) /\ Len(Tail(down)) = 0
      BY <1>1, <1>2, <2>1, <2>2
    <3>. QED  BY <3>1, EmptySeq
  <2>4. k.up = <<unit("connect", 0)>>
    <3>1. unit("connect", 0) \in Unit
      BY UnitTypes DEF UnitName
    <3>2. <<unit("connect", 0)>> \in Seq(Unit)
      BY <3>1
    <3>3. <<>> \o <<unit("connect", 0)>> = <<unit("connect", 0)>>
      BY <3>2, ConcatEmptySeq
    <3>. QED  BY <2>1, <2>2, <3>3
  <2>. QED  BY <1>2, <2>1, <2>2, <2>3, <2>4 DEF SocksAt, SocksProceeds
<1>5. ASSUME opc = "reply"  PROVE SocksProceeds
  <2>1. /\ down # <<>> /\ Head(down).u = "granted" /\ k.up = cl[cid].up
        /\ k.down = SubSeq(down, 2, Len(down))
        /\ \/ Head(down).n = 3 /\ opc' = "length"
           \/ Head(down).n \in {1, 4} /\ opc' = "discard" /\ need' = addressBytes(Head(down).n)
    BY <1>5 DEF Progress
  <2>2. unit("refused", 5).u = "refused" /\ Head(<<unit("refused", 5)>>) = unit("refused", 5)
    BY UnitTypes, Singles
  <2>3. socks[cid] = "relay" /\ cl[cid].up = <<>>
        /\ \E t \in DOMAIN Bound : down = <<unit("granted", t)>> \o addresses(t)
    BY <1>2, <1>3, <1>5, <2>1, <2>2 DEF SocksAt
  <2>4. PICK t \in DOMAIN Bound : down = <<unit("granted", t)>> \o addresses(t)
    BY <2>3
  <2>5. /\ t \in Nat /\ addresses(t) \in Seq(Unit) /\ Len(addresses(t)) = Len(Bound[t])
        /\ t = 1 => Len(Bound[t]) = 6
        /\ t = 4 => Len(Bound[t]) = 18
    BY <2>4, BoundAssumption, Granted
  <2>6. unit("granted", t) \in Unit /\ unit("granted", t).n = t
    BY <2>5, UnitTypes DEF UnitName
  <2>7. Head(down).n = t /\ k.down = addresses(t)
    <3>. DEFINE x == unit("granted", t)
                w == addresses(t)
    <3>1. x \in Unit /\ w \in Seq(Unit) /\ down = <<x>> \o w
      BY <2>4, <2>5, <2>6
    <3>. HIDE DEF x, w
    <3>2. Head(down) = x /\ SubSeq(down, 2, Len(down)) = w
      BY <3>1, FirstTaken
    <3>. QED  BY <2>1, <2>6, <3>2 DEF x, w
  <2>8. CASE Head(down).n = 3 /\ opc' = "length"
    <3>1. 3 \in DOMAIN Bound /\ k.down = addresses(3) /\ k.up = <<>>
      BY <2>1, <2>3, <2>4, <2>7, <2>8
    <3>. QED  BY <1>2, <2>3, <2>8, <3>1 DEF SocksAt, SocksProceeds
  <2>9. CASE Head(down).n \in {1, 4} /\ opc' = "discard" /\ need' = addressBytes(Head(down).n)
    <3>1. t \in {1, 4} /\ need' = IF t = 1 THEN 6 ELSE 18
      BY <2>7, <2>9 DEF addressBytes
    <3>2. Len(k.down) = need' /\ k.up = <<>>
      BY <2>1, <2>3, <2>5, <2>7, <3>1
    <3>. QED  BY <1>2, <2>3, <2>9, <3>2 DEF SocksAt, SocksProceeds
  <2>. QED  BY <2>1, <2>8, <2>9
<1>6. ASSUME opc = "length"  PROVE SocksProceeds
  <2>1. /\ down # <<>> /\ opc' = "discard" /\ need' = Head(down).n + 2
        /\ k.up = cl[cid].up /\ k.down = SubSeq(down, 2, Len(down))
    BY <1>6 DEF Progress
  <2>2. socks[cid] = "relay" /\ cl[cid].up = <<>> /\ 3 \in DOMAIN Bound /\ down = addresses(3)
    BY <1>2, <1>3, <1>6 DEF SocksAt
  <2>3. /\ Bound[3] \in Seq(Nat) /\ Len(Bound[3]) \in Nat /\ Len(Bound[3]) > 0 /\ Len(Bound[3]) = Bound[3][1] + 3
        /\ Len(down) = Len(Bound[3]) /\ (\A n \in 1..Len(Bound[3]) : down[n] = unit("address", Bound[3][n]))
    BY <2>2, BoundAssumption, Granted
  <2>4. Head(down) = down[1] /\ down[1].n = Bound[3][1] /\ Bound[3][1] \in Nat
    <3>1. 1 \in 1..Len(Bound[3])
      BY <2>3
    <3>2. down[1] = unit("address", Bound[3][1]) /\ Bound[3][1] \in Nat
      BY <2>3, <3>1
    <3>. QED  BY <1>1, <1>2, <2>1, <3>2, FirstUnit, UnitTypes
  <2>5. Len(k.down) = Len(down) - 1
    BY <1>1, <1>2, <2>1, AfterFirst
  <2>6. Len(k.down) = need'
    <3>. DEFINE b == Bound[3][1]
                n == Len(down)
    <3>1. b \in Nat /\ n = b + 3 /\ need' = b + 2 /\ Len(k.down) = n - 1
      BY <2>1, <2>3, <2>4, <2>5
    <3>. HIDE DEF b, n
    <3>. QED  BY <3>1
  <2>. QED  BY <1>2, <2>1, <2>2, <2>6 DEF SocksAt, SocksProceeds
<1>7. ASSUME opc = "discard"  PROVE SocksProceeds
  <2>1. need <= Len(down) /\ opc' = dialled(call) /\ k.up = cl[cid].up
        /\ k.down = SubSeq(down, need + 1, Len(down))
    BY <1>7 DEF Progress
  <2>2. socks[cid] = "relay" /\ cl[cid].up = <<>> /\ Len(down) = need
    BY <1>2, <1>3, <1>7 DEF SocksAt
  <2>3. k.down = <<>>
    BY <1>1, <1>2, <2>1, <2>2, NothingLeft
  <2>. QED  BY <1>2, <2>1, <2>2, <2>3 DEF SocksProceeds
<1>8. SocksProceeds
  BY <1>3, <1>4, <1>5, <1>6, <1>7 DEF Dialog
<1>9. Straight(cl[cid], cid)' /\ opc' \in Engaged /\ (opc' = "handed" => call.kind = "login")
  <2>1. CASE SocksAt(cl[cid], socks[cid])' /\ opc' \in {"reply", "length", "discard"}
    <3>1. SocksAt(cl[cid], socks[cid])' /\ opc' \in Dialog /\ opc' \notin {"status", "read", "handed"}
      BY <2>1 DEF Dialog
    <3>. QED  BY <1>2, <1>3, <3>1 DEF Straight, Engaged
  <2>2. CASE opc' = dialled(call) /\ socks'[cid] = "relay" /\ cl'[cid].up = <<>> /\ cl'[cid].down = <<>>
    <3>1. opc' \in {"write", "handed"} /\ (opc' = "handed" => call.kind = "login")
      BY <1>1, <2>2 DEF dialled
    <3>2. SocksAt(cl[cid], socks[cid])'
      BY <1>2, <2>2, <3>1 DEF SocksAt
    <3>. QED  BY <1>2, <1>3, <2>2, <3>1, <3>2 DEF Straight, Engaged, Dialog
  <2>. QED  BY <1>8, <2>1, <2>2 DEF SocksProceeds
<1>10. via[cid] = (IF hop = "target" THEN "target" ELSE call.proxy)
  BY DEF Using, Engaged
<1>. QED  BY <1>1, <1>2, <1>3, <1>9, <1>10 DEF Using

\* A CONNECT that is granted.
LEMMA UsingTunnelProgress ==
    ASSUME WayInv, Using, opc \in Dialog, via[cid] = "http-connect", NEW k, Progress(k),
           UNCHANGED ownVars
    PROVE  Using'
<1>1. /\ cid \in Conn /\ cl[cid] \in Link /\ cl[cid].c = "open" /\ cl[cid].down \in Seq(Unit)
      /\ Tunnelled(cl[cid], cid) /\ LinksOK /\ call.kind \in {"send", "login"} /\ tun[cid] \in TunnelState
  BY InUse, KindAssumption DEF Engaged, WayInv, ShortTypeOK
<1>2. /\ k \in Link /\ cl'[cid] = k /\ k.c = cl[cid].c /\ k.p = cl[cid].p /\ down = cl[cid].down
      /\ UNCHANGED <<ds, tun, call, cid, hop, via, socks, srv>>
  BY <1>1 DEF Progress, LinksOK, down, ownVars
<1>3. opc = "status"
  BY <1>1 DEF Tunnelled, Dialog
<1>4. down # <<>> /\ opc' = dialled(call) /\ k.up = cl[cid].up /\ k.down = <<>>
  BY <1>3 DEF Progress
<1>5. opc' \in {"write", "handed"} /\ (opc' = "handed" => call.kind = "login")
  BY <1>1, <1>4 DEF dialled
<1>6. tun[cid].st \in {"relay", "ended"}
  BY <1>1, <1>2, <1>4 DEF Tunnelled, TunnelState
<1>7. Tunnelled(cl[cid], cid)'
  <2>1. srv[cid] \in {"waiting", "broken"}
    BY <1>1, <1>3 DEF Tunnelled
  <2>2. CASE tun[cid].st = "relay"
    <3>1. Relaying(cl[cid], ds[cid], tun[cid], srv[cid])
      BY <1>1, <2>2 DEF Tunnelled
    <3>2. Relaying(cl[cid], ds[cid], tun[cid], srv[cid])'
      BY <1>2, <1>3, <1>4, <1>5, <3>1 DEF Relaying
    <3>. QED  BY <1>2, <1>5, <2>1, <2>2, <3>2 DEF Tunnelled
  <2>3. CASE tun[cid].st = "ended"
    BY <1>1, <1>2, <1>3, <1>4, <1>5, <2>1, <2>3 DEF Tunnelled
  <2>. QED  BY <1>6, <2>2, <2>3
<1>8. via[cid] = (IF hop = "target" THEN "target" ELSE call.proxy)
  BY DEF Using, Engaged
<1>. QED  BY <1>1, <1>2, <1>5, <1>7, <1>8 DEF Using

\* Nothing of the connection in use changes.
LEMMA UsingUnchanged ==
    ASSUME Using, UNCHANGED <<cl, ds, tun, call, opc, cid, hop, need, via, socks, srv>>
    PROVE  Using'
<1>1. SocksAt(cl[cid], socks[cid])' <=> SocksAt(cl[cid], socks[cid])
  BY DEF SocksAt
<1>2. Relaying(cl[cid], ds[cid], tun[cid], srv[cid])' <=> Relaying(cl[cid], ds[cid], tun[cid], srv[cid])
  <2>. DEFINE k == cl[cid]
              d == ds[cid]
              t == tun[cid]
              s == srv[cid]
  <2>1. k' = k /\ d' = d /\ t' = t /\ s' = s /\ opc' = opc
    OBVIOUS
  <2>. HIDE DEF k, d, t, s
  <2>2. Relaying(k, d, t, s)' <=> Relaying(k, d, t, s)
    BY <2>1 DEF Relaying
  <2>. QED  BY <2>2 DEF k, d, t, s
<1>3. Straight(cl[cid], cid)' <=> Straight(cl[cid], cid)
  BY <1>1 DEF Straight
<1>4. Tunnelled(cl[cid], cid)' <=> Tunnelled(cl[cid], cid)
  BY <1>2 DEF Tunnelled
<1>. QED  BY <1>3, <1>4 DEF Using

\* A failure, or an exchange that ends, leaves no connection in use.
LEMMA FailsToNothing ==
    /\ \A b : dialogFails(b) => opc' \in {"next", "connect"}
    /\ ConnectFails => opc' \in {"next", "connect"}
    /\ NextTarget \/ AllFailed => opc' \in {"next", "connect", "returned"}
    /\ ReadAnswer => opc' \in {"next", "returned"}
    /\ ReadFails => opc' = "next"
    /\ TakenOver => opc' = "returned"
<1>1. viaProxyFails => opc' \in {"next", "connect"}
  BY DEF viaProxyFails, dialFails, connectTo
<1>2. NextTarget \/ AllFailed => opc' \in {"next", "connect", "returned"}
  BY DEF NextTarget, AllFailed, dialTCP, connectTo
<1>3. ReadAnswer => opc' \in {"next", "returned"}
  <2>. DEFINE found == useful(parse0RTTResponse(down))
              blames == IF srv[cid] = "rejected" \/ answerCame THEN "own" ELSE "peer"
  <2>1. ReadAnswer => IF found # {} THEN exchangeEnds("returned", blame, found)
                                    ELSE exchangeEnds("next", blames, {})
    BY DEF ReadAnswer
  <2>. HIDE DEF found, blames
  <2>. QED  BY <2>1 DEF exchangeEnds
<1>. QED  BY <1>1, <1>2, <1>3 DEF dialogFails, ConnectFails, ReadFails, TakenOver, exchangeEnds

LEMMA UsingDial ==
    ASSUME WayInv, Using, DialStep, UNCHANGED ownVars
    PROVE  Using'
<1>1. CASE Connect
  BY <1>1, UsingConnect
<1>2. CASE ConnectFails \/ DialogFails
  <2>1. opc' \notin Engaged
    BY <1>2, FailsToNothing DEF DialogFails, Engaged, Dialog
  <2>. QED  BY <2>1 DEF Using
<1>3. CASE Method \/ Reply \/ NameLength \/ Discard \/ Status
  <2>1. opc \in Dialog /\ (dialogFails("peer") \/ \E k : Progress(k))
    BY <1>3, DialogProceeds
  <2>2. CASE dialogFails("peer")
    <3>1. opc' \notin Engaged
      BY <2>2, FailsToNothing DEF Engaged, Dialog
    <3>. QED  BY <3>1 DEF Using
  <2>3. ASSUME NEW k, Progress(k)  PROVE Using'
    BY <2>1, <2>3, UsingSocksProgress, UsingTunnelProgress
  <2>. QED  BY <2>1, <2>2, <2>3
<1>. QED  BY <1>1, <1>2, <1>3 DEF DialStep

LEMMA UsingNext ==
    ASSUME WayInv, Using, [ShortNext]_shortVars
    PROVE  Using'
<1>1. LinksOK /\ Kinds
  BY DEF WayInv, ShortTypeOK, Kinds
<1>2. CASE NextTarget \/ AllFailed \/ ReadAnswer \/ ReadFails \/ TakenOver
  <2>1. opc' \notin Engaged
    BY <1>2, FailsToNothing DEF Engaged, Dialog
  <2>. QED  BY <2>1 DEF Using
<1>3. CASE WriteRequest
  BY <1>3, UsingWriteRequest
<1>4. CASE DialStep /\ UNCHANGED ownVars
  BY <1>4, UsingDial
<1>5. CASE Tick
  <2>1. UNCHANGED <<cl, ds, tun, call, opc, cid, hop, need, via, socks, srv>>
    BY <1>5 DEF Tick, tunnelVars, ownVars
  <2>. QED  BY <2>1, UsingUnchanged
<1>6. ASSUME NEW i \in Conn, Elsewhere(i),
             \/ Environment(i) /\ UNCHANGED <<dialVars, ownVars>>
             \/ (SocksMethod(i) \/ SocksGrants(i) \/ SocksRefuses(i)) /\ UNCHANGED ownVars
             \/ ServerAnswers(i) \/ ServerRefuses(i) \/ ServerCloses(i)
      PROVE  Using'
  <2>1. CASE i # cid \/ opc \notin Engaged
    BY <1>6, <2>1, UsingElsewhere
  <2>2. CASE i = cid /\ opc \in Engaged
    BY <1>6, <2>2, UsingTunnel, UsingSocks, UsingServerDirect, UsingServerTunnel
  <2>. QED  BY <2>1, <2>2
<1>7. CASE UNCHANGED shortVars
  <2>1. UNCHANGED <<cl, ds, tun, call, opc, cid, hop, need, via, socks, srv>>
    BY <1>7 DEF shortVars, tunnelVars, dialVars
  <2>. QED  BY <2>1, UsingUnchanged
<1>8. CASE ShortNext
  BY <1>1, <1>2, <1>3, <1>4, <1>5, <1>6, <1>7, <1>8, Actors
<1>. QED  BY <1>7, <1>8

LEMMA Following ==
    ASSUME NEW s \in Seq(Unit), NEW n \in 1..(Len(s) - 1)
    PROVE  n + 1 \in DOMAIN s
<1>. DEFINE m == Len(s)
<1>1. m \in Nat /\ DOMAIN s = 1..m /\ n \in 1..(m - 1)
  OBVIOUS
<1>. HIDE DEF m
<1>. QED  BY <1>1

\* The answer the client has read to the end is the server's, whole.
LEMMA WholeIsAnswered ==
    ASSUME WayInv, Using, opc = "read", whole(down, "data", "data end")
    PROVE  cid \in Conn /\ srv[cid] = "answered"
<1>1. /\ cid \in Conn /\ down = cl[cid].down /\ down \in Seq(Unit) /\ tun[cid] \in TunnelState
      /\ via[cid] \in {"target", "socks5", "http-connect"}
      /\ via[cid] = "target" \/ via[cid] = "socks5" => Straight(cl[cid], cid)
      /\ via[cid] = "http-connect" => Tunnelled(cl[cid], cid)
  BY InUse DEF Engaged, down
<1>2. ~NoEnd(down)
  <2>1. PICK n \in 1..(Len(down) - 1) : down[n].u = "data" /\ down[n + 1].u = "data end"
    BY DEF whole
  <2>2. n + 1 \in DOMAIN down
    BY <1>1, <2>1, Following
  <2>. QED  BY <2>1, <2>2 DEF NoEnd
<1>3. CASE via[cid] \in {"target", "socks5"}
  BY <1>1, <1>2, <1>3 DEF Straight
<1>4. CASE via[cid] = "http-connect"
  <2>1. Tunnelled(cl[cid], cid) /\ tun[cid].st \in {"relay", "ended"}
    BY <1>1, <1>4 DEF Tunnelled, TunnelState
  <2>. QED  BY <1>1, <1>2, <2>1 DEF Tunnelled, Relaying
<1>. QED  BY <1>1, <1>3, <1>4

LEMMA AnsweredNext ==
    ASSUME WayInv, Using, Answered, [ShortNext]_shortVars
    PROVE  Answered'
<1>1. LinksOK /\ Kinds
  BY DEF WayInv, ShortTypeOK, Kinds
<1>2. CASE ReadAnswer
  <2>. DEFINE found == useful(parse0RTTResponse(down))
              blames == IF srv[cid] = "rejected" \/ answerCame THEN "own" ELSE "peer"
  <2>1. opc = "read" /\ IF found # {} THEN exchangeEnds("returned", blame, found)
                        ELSE exchangeEnds("next", blames, {})
    BY <1>2 DEF ReadAnswer
  <2>2. CASE found = {}
    <3>1. result' = {}
      <4>. HIDE DEF found, blames
      <4>. QED  BY <2>1, <2>2 DEF exchangeEnds
    <3>. QED  BY <3>1 DEF Answered
  <2>3. CASE found # {}
    <3>1. result' = found /\ opc' = "returned" /\ UNCHANGED <<cid, srv, call>>
      <4>. HIDE DEF found, blames
      <4>. QED  BY <2>1, <2>3 DEF exchangeEnds
    <3>2. whole(down, "data", "data end") /\ parse0RTTResponse(down) = call.parsed
      BY <2>3 DEF parse0RTTResponse, useful
    <3>3. cid \in Conn /\ srv[cid] = "answered"
      BY <2>1, <3>2, WholeIsAnswered
    <3>. QED  BY <3>1, <3>2, <3>3 DEF Answered, useful
  <2>. QED  BY <2>2, <2>3
<1>3. CASE ReadFails \/ TakenOver
  <2>1. result' = {}
    BY <1>3 DEF ReadFails, TakenOver, exchangeEnds
  <2>. QED  BY <2>1 DEF Answered
<1>4. CASE NextTarget \/ AllFailed \/ WriteRequest \/ (DialStep /\ UNCHANGED ownVars) \/ Tick
  <2>1. result' = result /\ opc # "returned"
    BY <1>4 DEF NextTarget, AllFailed, WriteRequest, ownVars, Tick, Dialling, DialStep, Connect, ConnectFails,
       Method, Reply, NameLength, Discard, Status, DialogFails
  <2>. QED  BY <2>1 DEF Answered
<1>5. CASE \E i \in Conn : Elsewhere(i)
  <2>1. PICK i \in Conn : Elsewhere(i)
    BY <1>5
  <2>2. UNCHANGED <<opc, cid, call, result>>
        /\ (cid \in Conn /\ srv[cid] = "answered" => srv'[cid] = "answered")
    BY <2>1 DEF Elsewhere
  <2>. QED  BY <2>2 DEF Answered, useful
<1>6. CASE UNCHANGED shortVars
  BY <1>6 DEF Answered, shortVars, dialVars, useful
<1>7. CASE ShortNext
  BY <1>1, <1>2, <1>3, <1>4, <1>5, <1>6, <1>7, Actors
<1>. QED  BY <1>6, <1>7

LEMMA NoRejectionNext ==
    ASSUME WayInv, NoRejection, [ShortNext]_shortVars
    PROVE  NoRejection'
<1>1. LinksOK /\ Kinds
  BY DEF WayInv, ShortTypeOK, Kinds
<1>2. CASE srv' = srv /\ call' = call
  BY <1>2 DEF NoRejection
<1>3. CASE \E i \in Conn : Elsewhere(i)
  <2>1. PICK i \in Conn : Elsewhere(i)
    BY <1>3
  <2>2. call' = call /\ \A j \in Conn : srv'[j] = "rejected" => srv[j] = "rejected" \/ ~call.accepted
    BY <2>1 DEF Elsewhere
  <2>. QED  BY <2>2 DEF NoRejection
<1>4. CASE UNCHANGED shortVars
  BY <1>2, <1>4 DEF shortVars, dialVars
<1>5. ASSUME NextTarget \/ AllFailed \/ WriteRequest \/ ReadFails \/ TakenOver \/ ReadAnswer
             \/ (DialStep /\ UNCHANGED ownVars) \/ Tick
      PROVE  srv' = srv /\ call' = call
  <2>1. CASE ReadAnswer
    <3>. DEFINE found == useful(parse0RTTResponse(down))
                blames == IF srv[cid] = "rejected" \/ answerCame THEN "own" ELSE "peer"
    <3>1. IF found # {} THEN exchangeEnds("returned", blame, found)
                        ELSE exchangeEnds("next", blames, {})
      BY <2>1 DEF ReadAnswer
    <3>. HIDE DEF found, blames
    <3>. QED  BY <3>1 DEF exchangeEnds
  <2>2. CASE DialStep /\ UNCHANGED ownVars
    <3>1. srv' = srv
      BY <2>2 DEF ownVars
    <3>. QED  BY <2>2, <3>1 DEF DialStep, Connect, ConnectFails, Method, Reply, NameLength, Discard, Status,
                DialogFails, dialogFails, goOn
  <2>3. CASE NextTarget \/ AllFailed \/ WriteRequest \/ ReadFails \/ TakenOver \/ Tick
    BY <2>3 DEF NextTarget, AllFailed, WriteRequest, ReadFails, TakenOver, Tick, ownVars, exchangeEnds
  <2>. QED  BY <1>5, <2>1, <2>2, <2>3
<1>6. CASE ShortNext
  BY <1>1, <1>2, <1>3, <1>4, <1>5, <1>6, Actors
<1>. QED  BY <1>4, <1>6

LEMMA ShortAlways == ShortSpec => []ShortInv
<1>1. ShortInit => ShortInv
  <2>1. ASSUME ShortInit  PROVE ShortInv
    <3>1. WayInv
      BY <2>1, WayInit
    <3>2. Using /\ Answered
      BY <2>1 DEF ShortInit, Using, Answered, Engaged, Dialog
    <3>3. NoRejection
      BY <2>1 DEF ShortInit, NoRejection
    <3>. QED  BY <3>1, <3>2, <3>3 DEF ShortInv
  <2>. QED  BY <2>1
<1>2. ShortInv /\ [ShortNext]_shortVars => ShortInv'
  BY WayNext, UsingNext, AnsweredNext, NoRejectionNext DEF ShortInv
<1>. QED  BY <1>1, <1>2, PTL DEF ShortSpec
------------------------------------------------------------------------------
(* What the codec is trusted for: over recursive definitions on bytes, TLC   *)
(* evaluates it for the calls of its instance.                               *)

\* What the client finds in the answer to a call is what the answer says.
CodecReadsRightly ==
    \A c \in Call : \A r \in useful(c.parsed) :
        /\ r.resp = answerText(c)
        /\ r.code = IF c.answer.text = "code" THEN codeOf(c) ELSE <<>>

\* The server can read what the envelope of a call that fits says, and the client
\* an answer that says anything.
CodecIsRead ==
    \A c \in Call : /\ fits(c) => isRead(c)
                    /\ c.answer.text # "empty" => useful(c.parsed) # {}

\* What sendEnvelope returns is the answer the server gave on the connection in
\* use, whole: half an answer, or the answer of a stream that broke off, is never
\* taken for it, on every way (ReadAll and parse0RTTResponse in shortlink.go).
THEOREM NoHalfAnswer ==
    ASSUME CodecReadsRightly
    PROVE  ShortSpec => []CodeIsTheAnswers
<1>1. ShortInv => CodeIsTheAnswers
  <2>. SUFFICES ASSUME ShortInv, NEW r \in result  PROVE
                  /\ srv[cid] = "answered"
                  /\ r.resp = answerText(call)
                  /\ r.code = IF call.answer.text = "code" THEN codeOf(call) ELSE <<>>
    BY DEF CodeIsTheAnswers
  <2>1. call \in Call /\ srv[cid] = "answered" /\ r \in useful(call.parsed)
    BY DEF ShortInv, WayInv, ShortTypeOK, Answered
  <2>. QED  BY <2>1 DEF CodecReadsRightly
<1>. QED  BY <1>1, ShortAlways, PTL

\* A dialog that is given up is one the proxy has left.
LEMMA DialogIsOwed ==
    ASSUME WayInv, Using, DialogFails
    PROVE  dialogFails("peer")
<1>1. opc \in Dialog /\ dialogFails(IF proxyOwes THEN "peer" ELSE "own")
  BY DEF DialogFails, Dialling, Dialog
<1>2. /\ cid \in Conn /\ down = cl[cid].down /\ down \in Seq(Unit)
      /\ via[cid] \in {"target", "socks5", "http-connect"} /\ tun[cid] \in TunnelState
      /\ via[cid] = "target" \/ via[cid] = "socks5" => Straight(cl[cid], cid)
      /\ via[cid] = "http-connect" => Tunnelled(cl[cid], cid)
  BY <1>1, InUse DEF Engaged, down
<1>3. CASE cl[cid].p # "open"
  BY <1>1, <1>3 DEF proxyOwes
<1>4. CASE cl[cid].p = "open" /\ via[cid] = "http-connect"
  <2>1. opc = "status" /\ Tunnelled(cl[cid], cid)
    BY <1>1, <1>2, <1>4 DEF Tunnelled, Dialog
  <2>2. tun[cid].st = "relay" => down # <<>>
    BY <1>2, <2>1, StatusUnits DEF Tunnelled, Relaying
  <2>3. tun[cid].st # "ended"
    BY <1>4, <2>1 DEF Tunnelled
  <2>. QED  BY <1>1, <1>2, <2>1, <2>2, <2>3 DEF proxyOwes, TunnelState
<1>5. CASE cl[cid].p = "open" /\ via[cid] # "http-connect"
  <2>1. opc # "status" /\ SocksAt(cl[cid], socks[cid])
    BY <1>1, <1>2, <1>5 DEF Straight
  <2>2. CASE opc = "method"
    <3>1. socks[cid] = "idle" \/ Len(down) = 1
      BY <1>2, <2>1, <2>2 DEF SocksAt
    <3>2. Len(down) = 1 => down # <<>>
      <4>1. Len(<<>>) # 1
        OBVIOUS
      <4>. QED  BY <4>1
    <3>. QED  BY <1>1, <2>2, <3>1, <3>2 DEF proxyOwes
  <2>3. CASE opc = "reply"
    <3>1. \A t \in DOMAIN Bound : <<unit("granted", t)>> \o addresses(t) # <<>>
      <4>. TAKE t \in DOMAIN Bound
      <4>. DEFINE x == unit("granted", t)
                  w == addresses(t)
      <4>1. x \in Unit /\ w \in Seq(Unit)
        BY BoundAssumption, Granted, UnitTypes DEF UnitName
      <4>. HIDE DEF x, w
      <4>2. <<x>> \o w # <<>>
        BY <4>1, FirstTaken
      <4>. QED  BY <4>2 DEF x, w
    <3>2. socks[cid] = "greeted" \/ down # <<>>
      BY <1>2, <2>1, <2>3, <3>1, Singles DEF SocksAt
    <3>. QED  BY <1>1, <2>3, <3>2 DEF proxyOwes
  <2>4. CASE opc = "length"
    <3>1. 3 \in DOMAIN Bound /\ down = addresses(3)
      BY <1>2, <2>1, <2>4 DEF SocksAt
    <3>2. Len(down) > 0
      BY <3>1, BoundAssumption, Granted
    <3>3. down # <<>>
      BY <1>2, <3>2
    <3>. QED  BY <1>1, <2>4, <3>3 DEF proxyOwes
  <2>5. CASE opc = "discard"
    <3>1. Len(down) = need /\ need \in Nat
      BY <1>2, <2>1, <2>5 DEF SocksAt, WayInv, ShortTypeOK
    <3>2. Len(down) >= need
      BY <3>1
    <3>. QED  BY <1>1, <2>5, <3>2 DEF proxyOwes
  <2>. QED  BY <1>1, <2>1, <2>2, <2>3, <2>4, <2>5 DEF Dialog
<1>. QED  BY <1>3, <1>4, <1>5

\* The whole answer parses to what its bytes do.
LEMMA AnswerIsParsed ==
    parse0RTTResponse(answer) = call.parsed
<1>1. Len(answer) - 1 = 3 /\ 1 \in 1..3 /\ 3 \in 1..3 /\ 1 + 1 = 2 /\ 3 + 1 = 4
  <2>. DEFINE n == Len(answer)
  <2>1. n = 4
    BY AnswerParts
  <2>. HIDE DEF n
  <2>2. n - 1 = 3 /\ 1 \in 1..3 /\ 3 \in 1..3 /\ 1 + 1 = 2 /\ 3 + 1 = 4
    BY <2>1
  <2>. QED  BY <2>2 DEF n
<1>2. whole(answer, "hello", "hello end")
  BY <1>1, AnswerParts DEF whole
<1>3. whole(answer, "data", "data end")
  BY <1>1, AnswerParts DEF whole
<1>. QED  BY <1>2, <1>3 DEF parse0RTTResponse

\* An answer that came is read.
LEMMA AnswerIsRead ==
    ASSUME WayInv, Using, CodecIsRead, ReadAnswer, answerCame
    PROVE  useful(parse0RTTResponse(down)) # {}
<1>1. /\ opc = "read" /\ cl[cid].p = "closed" /\ srv[cid] = "answered" /\ call.answer.text # "empty"
      /\ viaTunnel(cid) => ds[cid].p # "reset" /\ tun[cid].st # "ended"
  BY DEF ReadAnswer, answerCame
<1>2. /\ cid \in Conn /\ down = cl[cid].down /\ tun[cid] \in TunnelState
      /\ via[cid] \in {"target", "socks5", "http-connect"} /\ call \in Call
      /\ via[cid] = "target" \/ via[cid] = "socks5" => Straight(cl[cid], cid)
      /\ via[cid] = "http-connect" => Tunnelled(cl[cid], cid)
  BY <1>1, InUse DEF Engaged, down, WayInv, ShortTypeOK
<1>3. down = answer
  <2>1. CASE via[cid] # "http-connect"
    BY <1>1, <1>2, <2>1 DEF Straight
  <2>2. CASE via[cid] = "http-connect"
    <3>1. tun[cid].st = "relay" /\ ds[cid].p # "reset"
      BY <1>1, <1>2, <2>2 DEF Tunnelled, TunnelState, viaTunnel
    <3>. QED  BY <1>1, <1>2, <2>2, <3>1 DEF Tunnelled, Relaying
  <2>. QED  BY <2>1, <2>2
<1>4. useful(call.parsed) # {}
  BY <1>1, <1>2 DEF CodecIsRead
<1>. QED  BY <1>3, <1>4, AnswerIsParsed

\* A request that was sent is underway until the server has it or something ends.
LEMMA NoRequestIsLost ==
    ASSUME WayInv, Using, opc = "read"
    PROVE  ~requestLost
<1>1. /\ cid \in Conn /\ via[cid] \in {"target", "socks5", "http-connect"}
      /\ via[cid] = "target" \/ via[cid] = "socks5" => Straight(cl[cid], cid)
      /\ via[cid] = "http-connect" => Tunnelled(cl[cid], cid)
  BY InUse DEF Engaged
<1>2. <<request>> # <<>>
  BY Singles
<1>3. CASE via[cid] # "http-connect"
  BY <1>1, <1>2, <1>3 DEF Straight, requestLost
<1>4. CASE via[cid] = "http-connect"
  BY <1>1, <1>2, <1>4 DEF Tunnelled, Relaying, requestLost, viaTunnel
<1>. QED  BY <1>3, <1>4

\* A connection that is handed over begins with the server's first byte.
LEMMA HandedOverClean ==
    ASSUME WayInv, Using, opc = "handed"
    PROVE  down = <<>>
<1>1. /\ via[cid] \in {"target", "socks5", "http-connect"} /\ tun[cid] \in TunnelState
      /\ via[cid] = "target" \/ via[cid] = "socks5" => Straight(cl[cid], cid)
      /\ via[cid] = "http-connect" => Tunnelled(cl[cid], cid)
  BY InUse DEF Engaged
<1>2. CASE via[cid] # "http-connect"
  BY <1>1, <1>2 DEF Straight, down, Dialog
<1>3. CASE via[cid] = "http-connect"
  <2>1. tun[cid].st \in {"relay", "ended"}
    BY <1>1, <1>3 DEF Tunnelled, TunnelState
  <2>. QED  BY <1>1, <1>3, <2>1 DEF Tunnelled, Relaying, down
<1>. QED  BY <1>2, <1>3

LEMMA FourInTurn ==
    ASSUME NEW w, NEW x, NEW y, NEW z
    PROVE  <<w>> \o <<x>> \o <<y>> \o <<z>> = <<w, x, y, z>>
<1>. DEFINE S == {w, x, y, z}
<1>1. w \in S /\ x \in S /\ y \in S /\ z \in S
  OBVIOUS
<1>. HIDE DEF S
<1>2. /\ <<w>> \in Seq(S) /\ <<x>> \in Seq(S) /\ <<y>> \in Seq(S) /\ <<z>> \in Seq(S)
      /\ <<w, x>> \in Seq(S) /\ <<w, x, y>> \in Seq(S) /\ <<w, x, y, z>> \in Seq(S)
  BY <1>1
<1>3. <<w>> \o <<x>> = <<w, x>>
  <2>. DEFINE s == <<w>> \o <<x>>
  <2>1. s \in Seq(S) /\ Len(s) = 2 /\ s[1] = w /\ s[2] = x
    BY <1>2, ConcatProperties
  <2>. HIDE DEF s
  <2>2. Len(<<w, x>>) = 2 /\ <<w, x>>[1] = w /\ <<w, x>>[2] = x
    OBVIOUS
  <2>3. \A i \in 1..Len(s) : s[i] = <<w, x>>[i]
    BY <2>1, <2>2
  <2>4. s = <<w, x>>
    BY <1>2, <2>1, <2>2, <2>3, SeqEqual
  <2>. QED  BY <2>4 DEF s
<1>4. <<w, x>> \o <<y>> = <<w, x, y>>
  <2>. DEFINE s == <<w, x>> \o <<y>>
  <2>1. s \in Seq(S) /\ Len(s) = 3 /\ s[1] = w /\ s[2] = x /\ s[3] = y
    BY <1>2, ConcatProperties
  <2>. HIDE DEF s
  <2>2. Len(<<w, x, y>>) = 3 /\ <<w, x, y>>[1] = w /\ <<w, x, y>>[2] = x /\ <<w, x, y>>[3] = y
    OBVIOUS
  <2>3. \A i \in 1..Len(s) : s[i] = <<w, x, y>>[i]
    BY <2>1, <2>2
  <2>4. s = <<w, x, y>>
    BY <1>2, <2>1, <2>2, <2>3, SeqEqual
  <2>. QED  BY <2>4 DEF s
<1>5. <<w, x, y>> \o <<z>> = <<w, x, y, z>>
  <2>. DEFINE s == <<w, x, y>> \o <<z>>
  <2>1. s \in Seq(S) /\ Len(s) = 4 /\ s[1] = w /\ s[2] = x /\ s[3] = y /\ s[4] = z
    BY <1>2, ConcatProperties
  <2>. HIDE DEF s
  <2>2. Len(<<w, x, y, z>>) = 4 /\ <<w, x, y, z>>[1] = w /\ <<w, x, y, z>>[2] = x /\ <<w, x, y, z>>[3] = y /\ <<w, x, y, z>>[4] = z
    OBVIOUS
  <2>3. \A i \in 1..Len(s) : s[i] = <<w, x, y, z>>[i]
    BY <2>1, <2>2
  <2>4. s = <<w, x, y, z>>
    BY <1>2, <2>1, <2>2, <2>3, SeqEqual
  <2>. QED  BY <2>4 DEF s
<1>. QED  BY <1>3, <1>4, <1>5

\* No record of a call that fits is left out, and each has the number at which
\* the server opens it.
LEMMA RequestIsWhole ==
    ASSUME NEW c, fits(c)
    PROVE  build0RTTRequest(c) = <<hello(c), type8, appData(c), earlyAlert>>
<1>. DEFINE R == {hello(c), type8, appData(c), earlyAlert}
<1>1. \A r \in R : buildRecord(r) = <<r>>
  BY DEF fits, buildRecord
<1>. HIDE DEF R
<1>2. <<hello(c)>> \o <<type8>> \o <<appData(c)>> \o <<earlyAlert>>
        = <<hello(c), type8, appData(c), earlyAlert>>
  BY FourInTurn
<1>3. hello(c) \in R /\ type8 \in R /\ appData(c) \in R /\ earlyAlert \in R
  BY DEF R
<1>. QED  BY <1>1, <1>2, <1>3 DEF build0RTTRequest

\* The server opens the request of a call that fits.
LEMMA FittingIsAccepted ==
    ASSUME CodecIsRead, NEW c \in Call, fits(c)
    PROVE  c.accepted
<1>. DEFINE w == hello(c)
            x == type8
            y == appData(c)
            z == earlyAlert
            req == <<w, x, y, z>>
<1>1. w.seq = 0 /\ x.seq = 1 /\ y.seq = 2 /\ z.seq = 3 /\ y.of = "envelope"
  BY DEF hello, type8, appData, earlyAlert, early
<1>2. build0RTTRequest(c) = req
  BY RequestIsWhole
<1>. HIDE DEF w, x, y, z
<1>3. DOMAIN req = 1..4 /\ req[1] = w /\ req[2] = x /\ req[3] = y /\ req[4] = z
  OBVIOUS
<1>. HIDE DEF req
<1>4. \A k \in DOMAIN req : req[k].seq = k - 1
  BY <1>1, <1>3
<1>5. \E k \in DOMAIN req : req[k].of = "envelope"
  BY <1>1, <1>3
<1>6. isRead(c) /\ c.accepted = accepts(c)
  BY CallAssumption DEF CodecIsRead
<1>. QED  BY <1>2, <1>4, <1>5, <1>6 DEF accepts

\* A call keeps what it was called with.
LEMMA CallStays ==
    ASSUME WayInv, [ShortNext]_shortVars
    PROVE  call' = call
<1>1. LinksOK /\ Kinds
  BY DEF WayInv, ShortTypeOK, Kinds
<1>2. CASE UNCHANGED shortVars
  BY <1>2 DEF shortVars, dialVars
<1>3. CASE ReadAnswer
  <2>. DEFINE found == useful(parse0RTTResponse(down))
              blames == IF srv[cid] = "rejected" \/ answerCame THEN "own" ELSE "peer"
  <2>1. IF found # {} THEN exchangeEnds("returned", blame, found)
                      ELSE exchangeEnds("next", blames, {})
    BY <1>3 DEF ReadAnswer
  <2>. HIDE DEF found, blames
  <2>. QED  BY <2>1 DEF exchangeEnds
<1>4. CASE DialStep /\ UNCHANGED ownVars
  BY <1>4 DEF DialStep, Connect, ConnectFails, Method, Reply, NameLength, Discard, Status,
     DialogFails, dialogFails, goOn
<1>5. CASE NextTarget \/ AllFailed \/ WriteRequest \/ ReadFails \/ TakenOver \/ Tick
  BY <1>5 DEF NextTarget, AllFailed, WriteRequest, ReadFails, TakenOver, Tick, ownVars, exchangeEnds
<1>6. CASE \E i \in Conn : Elsewhere(i)
  BY <1>6 DEF Elsewhere
<1>7. CASE ShortNext
  BY <1>1, <1>2, <1>3, <1>4, <1>5, <1>6, <1>7, Actors
<1>. QED  BY <1>2, <1>7

LEMMA BlameNext ==
    ASSUME CodecIsRead, ShortInv, FailsByOthersOnly, [ShortNext]_shortVars
    PROVE  FailsByOthersOnly'
<1>0. call' = call /\ call \in Call
  BY CallStays DEF ShortInv, WayInv, ShortTypeOK
<1>. SUFFICES ASSUME fits(call)  PROVE blame' # "own"
  BY <1>0 DEF FailsByOthersOnly
<1>1. /\ LinksOK /\ Kinds /\ WayInv /\ Using /\ NoRejection /\ blame # "own" /\ call.accepted
  <2>1. call.accepted
    BY <1>0, FittingIsAccepted
  <2>. QED  BY <2>1 DEF ShortInv, WayInv, ShortTypeOK, Kinds, FailsByOthersOnly
<1>2. worse("peer") = "peer" /\ worse(blame) = blame
  BY <1>1 DEF worse
<1>3. CASE blame' = blame
  BY <1>1, <1>3
<1>4. CASE ReadAnswer
  <2>. DEFINE found == useful(parse0RTTResponse(down))
              own == srv[cid] = "rejected" \/ answerCame
  <2>1. opc = "read" /\ IF found # {} THEN exchangeEnds("returned", blame, found)
                        ELSE exchangeEnds("next", IF own THEN "own" ELSE "peer", {})
    BY <1>4 DEF ReadAnswer
  <2>2. found = {} => ~own
    <3>1. cid \in Conn
      BY <1>1, <2>1, InUse DEF Engaged
    <3>2. srv[cid] # "rejected"
      BY <1>1, <3>1 DEF NoRejection
    <3>. QED  BY <1>1, <1>4, <3>2, AnswerIsRead
  <2>. HIDE DEF found, own
  <2>3. blame' = worse(blame) \/ blame' = worse("peer")
    BY <2>1, <2>2 DEF exchangeEnds
  <2>. QED  BY <1>1, <1>2, <2>3
<1>5. CASE ReadFails
  <2>1. opc = "read" /\ blame' = worse(IF requestLost THEN "own" ELSE "peer")
    BY <1>5 DEF ReadFails, exchangeEnds
  <2>. QED  BY <1>1, <1>2, <2>1, NoRequestIsLost
<1>6. CASE TakenOver
  <2>1. opc = "handed" /\ blame' = worse(IF down = <<>> THEN blame ELSE "own")
    BY <1>6 DEF TakenOver, exchangeEnds
  <2>. QED  BY <1>1, <1>2, <2>1, HandedOverClean
<1>7. CASE DialStep
  <2>1. CASE Connect
    BY <1>3, <2>1 DEF Connect
  <2>2. CASE ConnectFails
    BY <1>2, <2>2 DEF ConnectFails
  <2>3. ASSUME dialogFails("peer")  PROVE blame' # "own"
    BY <1>2, <2>3 DEF dialogFails
  <2>4. CASE DialogFails
    BY <1>1, <2>3, <2>4, DialogIsOwed
  <2>5. CASE Method \/ Reply \/ NameLength \/ Discard \/ Status
    <3>1. dialogFails("peer") \/ \E k : Progress(k)
      BY <1>1, <2>5, DialogProceeds
    <3>. QED  BY <1>3, <2>3, <3>1 DEF Progress
  <2>. QED  BY <1>7, <2>1, <2>2, <2>4, <2>5 DEF DialStep
<1>8. CASE NextTarget \/ AllFailed \/ WriteRequest \/ Tick
  BY <1>3, <1>8 DEF NextTarget, AllFailed, WriteRequest, Tick
<1>9. CASE \E i \in Conn : Elsewhere(i)
  BY <1>3, <1>9 DEF Elsewhere
<1>10. CASE UNCHANGED shortVars
  BY <1>3, <1>10 DEF shortVars, dialVars
<1>11. CASE ShortNext
  BY <1>1, <1>4, <1>5, <1>6, <1>7, <1>8, <1>9, <1>10, <1>11, Actors
<1>. QED  BY <1>10, <1>11

\* When both ends read each other's bytes, a call that fits fails only by somebody
\* else's doing: its request goes with all its records under the numbers the server
\* counts, the dialogs take what the proxy sent and nothing of what follows, no
\* request is lost on its way, and an answer that came is read (transport.go,
\* shortlink.go, handleConnect in yyb-proxy).
THEOREM OthersAreToBlame ==
    ASSUME CodecIsRead
    PROVE  ShortSpec => []FailsByOthersOnly
<1>1. ShortInit => FailsByOthersOnly
  BY DEF ShortInit, DialInit, FailsByOthersOnly
<1>2. ShortInv /\ FailsByOthersOnly /\ [ShortNext]_shortVars => FailsByOthersOnly'
  BY BlameNext
<1>. QED  BY <1>1, <1>2, ShortAlways, PTL DEF ShortSpec
=============================================================================
