-------------------------------- MODULE Dial ---------------------------------
(***************************************************************************)
(* Dialling (transport.go): directly, through a SOCKS5 proxy or through a  *)
(* CONNECT tunnel, with the fallback to a direct connection.               *)
(*                                                                         *)
(* Time passes in ticks; a wait that has a deadline ends in its tick.  The *)
(* SOCKS5 proxy is external: it answers the dialog, or not, and then takes *)
(* part no more.                                                           *)
(***************************************************************************)
EXTENDS Tunnel

CONSTANTS
    T,          \* the timeout of a dial, a dialog and an exchange (ShortlinkTimeout)
    MaxTime,    \* bound: ticks
    Bound       \* address bytes of a SOCKS5 reply, by type: sequences of numbers

ASSUME TAssumption == T \in Nat

\* An address of four bytes, of a name or of sixteen bytes, and its port.
ASSUME BoundAssumption ==
    /\ DOMAIN Bound \subseteq Nat
    /\ \A t \in DOMAIN Bound :
          /\ Bound[t] \in Seq(Nat)
          /\ t = 1 => Len(Bound[t]) = 6
          /\ t = 3 => Len(Bound[t]) > 0 /\ Len(Bound[t]) = Bound[t][1] + 3
          /\ t = 4 => Len(Bound[t]) = 18

VARIABLES
    call,       \* what is asked for: constant
    opc,        \* the client's next step
    cid,        \* the connection being dialled or used
    hop,        \* dialling the "proxy" or the "target"
    need,       \* bytes of the SOCKS5 reply still to be discarded
    dl,         \* deadline of the present wait
    now,
    via,        \* how each connection was dialled (history)
    socks,      \* the SOCKS5 proxy's side of each connection
    blame       \* whose fault the failures so far are (history)

dialVars == <<call, opc, cid, hop, need, dl, now, via, socks, blame>>

Dialling == {"connect", "method", "reply", "length", "discard", "status"}

DialInit ==
    /\ cid = 0 /\ hop = "target" /\ need = 0 /\ dl = 0 /\ now = 0
    /\ via = [i \in Conn |-> "none"] /\ socks = [i \in Conn |-> "idle"]
    /\ blame = "none"

worse(b) == IF blame = "own" THEN "own" ELSE b
earlier(a, b) == IF a < b THEN a ELSE b
down == cl[cid].down
drop(n) == cl' = [cl EXCEPT ![cid].down = SubSeq(@, n + 1, Len(@))]
------------------------------------------------------------------------------
(* Connecting.                                                               *)

\* Mutant: sending is given the configured fallback as it is.
sendFallbackAsConfigured(c) == TRUE

\* The configured fallback is on; sendEnvelope takes it from sessions of a proxy.
fallbackDirect(c) == c.kind = "login" \/ c.proxy = "none"

\* Mutant: the dial does not see the context.
limitWithoutContext(t) == t + T

\* The context of a send ends T after its start, that of a login later.
limit(t) == IF call.kind = "send" THEN earlier(t + T, T) ELSE t + T

\* A dial of a new connection.
connectTo(h) ==
    /\ hop' = h /\ opc' = "connect"
    /\ cid' = cid + 1
    /\ dl' = limit(now)

\* Other schemes, and values without host or port, are refused.
parseTCPProxy(value) == value # "invalid"

dialTCP ==
    IF parseTCPProxy(call.proxy)
    THEN connectTo(IF call.proxy = "none" THEN "target" ELSE "proxy")
    ELSE UNCHANGED <<opc, cid, hop, dl>>

\* dialTCP fails: its caller goes on to its next target.
dialFails == opc' = "next" /\ UNCHANGED <<cid, hop, dl>>

\* dialViaProxy failed.
viaProxyFails ==
    IF hop = "proxy" /\ fallbackDirect(call) THEN connectTo("target") ELSE dialFails

\* The connection is the caller's, without a deadline.
dialled(c) == IF c.kind = "send" THEN "write" ELSE "handed"

Connect ==
    /\ opc = "connect" /\ now <= dl
    /\ IF hop = "target"
       THEN /\ cl' = [cl EXCEPT ![cid] = newConn]
            /\ via' = [via EXCEPT ![cid] = "target"]
            /\ opc' = dialled(call) /\ UNCHANGED dl
       ELSE /\ cl' = [cl EXCEPT ![cid] = wroteUp(newConn,
                        <<IF call.proxy = "socks5" THEN unit("greeting", 0) ELSE CONNECT>>)]
            /\ via' = [via EXCEPT ![cid] = call.proxy]
            /\ opc' = IF call.proxy = "socks5" THEN "method" ELSE "status"
            /\ dl' = now + T
    /\ UNCHANGED <<ds, tun, authUser, call, cid, hop, need, now, socks, blame>>

\* Refused, unreachable, too late, or the caller's context is done.
ConnectFails ==
    /\ opc = "connect"
    /\ viaProxyFails
    /\ blame' = worse("peer")
    /\ UNCHANGED <<tunnelVars, call, need, now, via, socks>>
------------------------------------------------------------------------------
(* The dialogs with a proxy.                                                 *)

\* Mutant: a dialog that fails leaves its connection open.
dialogLeftOpen(k) == k

dialogClosed(k) == closedByClient(k)

dialogFails(b) ==
    /\ cl' = [cl EXCEPT ![cid] = dialogClosed(@)]
    /\ viaProxyFails
    /\ blame' = worse(b)
    /\ UNCHANGED <<ds, tun, authUser, call, need, now, via, socks>>

goOn(next) ==
    /\ opc' = next
    /\ UNCHANGED <<ds, tun, authUser, call, cid, hop, dl, now, via, socks, blame>>

\* The choice of "no authentication" is answered by the request.
Method ==
    /\ opc = "method" /\ down # <<>>
    /\ IF Head(down) = unit("method", 0)
       THEN /\ cl' = [cl EXCEPT ![cid] = wroteUp([cl[cid] EXCEPT !.down = Tail(@)], <<unit("connect", 0)>>)]
            /\ goOn("reply") /\ UNCHANGED need
       ELSE dialogFails("peer")

\* Mutant: an IPv6 address is taken for an IPv4 one.
addressBytesOf4(t) == 6

\* An address and its port; a name is preceded by its length.
addressBytes(t) == IF t = 1 THEN 6 ELSE 18

Reply ==
    /\ opc = "reply" /\ down # <<>>
    /\ IF Head(down).u # "granted" \/ Head(down).n \notin {1, 3, 4} THEN dialogFails("peer")
       ELSE /\ drop(1)
            /\ need' = IF Head(down).n = 3 THEN 0 ELSE addressBytes(Head(down).n)
            /\ goOn(IF Head(down).n = 3 THEN "length" ELSE "discard")

NameLength ==
    /\ opc = "length" /\ down # <<>>
    /\ need' = Head(down).n + 2
    /\ drop(1)
    /\ goOn("discard")

Discard ==
    /\ opc = "discard" /\ Len(down) >= need
    /\ drop(need)
    /\ goOn(dialled(call)) /\ UNCHANGED need

\* The reader takes what there is, also what follows the empty line.
Status ==
    /\ opc = "status" /\ \E k \in DOMAIN down : down[k] = blank
    /\ IF Head(down).n \in 200..299
       THEN drop(Len(down)) /\ goOn(dialled(call)) /\ UNCHANGED need
       ELSE dialogFails("peer")

\* Somebody else has yet to do his part of the dialog.
proxyOwes ==
    \/ cl[cid].p # "open"
    \/ opc = "status" /\ (tun[cid].st \in {"idle", "dial", "hijack"} \/ down # <<>>)
    \/ opc \in {"method", "reply", "length"} /\ (socks[cid] \in {"idle", "greeted"} \/ down # <<>>)
    \/ opc = "discard" /\ Len(down) >= need

\* The deadline of the dialog passes, or the proxy has closed.
DialogFails ==
    /\ opc \in Dialling \ {"connect"}
    /\ now = dl \/ cl[cid].p = "reset" \/ (cl[cid].p = "closed" /\ Len(down) <= need)
    /\ dialogFails(IF proxyOwes THEN "peer" ELSE "own")

DialStep ==
    \/ Connect \/ ConnectFails
    \/ Method \/ Reply \/ NameLength \/ Discard \/ Status \/ DialogFails
------------------------------------------------------------------------------
(* The SOCKS5 proxy.                                                         *)

socksReads(i, u, st) ==
    /\ via[i] = "socks5" /\ cl[i].up # <<>> /\ Head(cl[i].up) = unit(u, 0)
    /\ cl[i].p = "open"
    /\ socks' = [socks EXCEPT ![i] = st]
    /\ UNCHANGED <<ds, tun, authUser, call, opc, cid, hop, need, dl, now, via, blame>>

socksWrites(i, units) ==
    cl' = [cl EXCEPT ![i] = wroteDown([cl[i] EXCEPT !.up = Tail(@)], units)]

SocksMethod(i) ==
    /\ socksReads(i, "greeting", "greeted")
    /\ \E m \in {0, 255} : socksWrites(i, <<unit("method", m)>>)

SocksGrants(i) ==
    /\ socksReads(i, "connect", "relay")
    /\ \E t \in DOMAIN Bound :
          socksWrites(i, <<unit("granted", t)>> \o [k \in DOMAIN Bound[t] |-> unit("address", Bound[t][k])])

SocksRefuses(i) ==
    /\ socksReads(i, "connect", "ended")
    /\ socksWrites(i, <<unit("refused", 5)>>)

SocksStep == \E i \in Conn : SocksMethod(i) \/ SocksGrants(i) \/ SocksRefuses(i)
==============================================================================
