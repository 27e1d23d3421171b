------------------------------- MODULE Tunnel --------------------------------
(***************************************************************************)
(* yyb-proxy (src/yyb-proxy/main.go): a CONNECT request becomes a tunnel   *)
(* between the client's connection and one to the target, with a goroutine *)
(* that copies in each direction.                                          *)
(*                                                                         *)
(* A connection has a queue of units for each direction and the state of   *)
(* its two ends.  What was sent before a close is still read; a reset may  *)
(* be noticed before what was sent.                                        *)
(***************************************************************************)
EXTENDS Naturals, Sequences

CONSTANTS
    Conn        \* the connections a client dials: numbers from 1

VARIABLES
    cl,         \* connections of the client
    ds,         \* connections of the tunnels to their targets
    tun,        \* handlers of the proxy and their copying goroutines
    authUser    \* PROXY_USER is set

tunnelVars == <<cl, ds, tun, authUser>>

noConn == [up |-> <<>>, down |-> <<>>, c |-> "none", p |-> "none"]
newConn == [up |-> <<>>, down |-> <<>>, c |-> "open", p |-> "open"]
noTunnel == [st |-> "idle", upc |-> "off", downc |-> "off"]

TunnelInit ==
    /\ cl = [i \in Conn |-> noConn] /\ ds = [i \in Conn |-> noConn]
    /\ tun = [i \in Conn |-> noTunnel]
    /\ authUser \in BOOLEAN

\* A unit of a stream: what it is, and a number if it carries one.
unit(u, n) == [u |-> u, n |-> n]
CONNECT == unit("CONNECT", 0)
blank == unit("blank", 0)
status(n) == <<unit("status", n), blank>>
------------------------------------------------------------------------------
(* The two ends of a connection.                                             *)

\* Close by the end that dialled; what it has not read is lost.
closedByClient(k) == [k EXCEPT !.c = "closed", !.down = <<>>]

\* Close by the other end: a reset if it leaves something unread.
closedByPeer(k) ==
    IF k.p # "open" THEN k
    ELSE [k EXCEPT !.p = IF k.up = <<>> THEN "closed" ELSE "reset", !.up = <<>>]

\* Writes: to an end that is gone they are lost.
wroteDown(k, units) == IF k.c = "open" THEN [k EXCEPT !.down = @ \o units] ELSE k
wroteUp(k, units) == IF k.p = "open" THEN [k EXCEPT !.up = @ \o units] ELSE k
------------------------------------------------------------------------------
(* handleConnect.                                                            *)

asked(i) == tun[i].st = "idle" /\ cl[i].up # <<>> /\ Head(cl[i].up) = CONNECT

\* The handler returns and the server closes, as the request asks it to.
answerAndClose(i, units) ==
    /\ cl' = [cl EXCEPT ![i] = closedByPeer(wroteDown([@ EXCEPT !.up = <<>>], units))]
    /\ tun' = [tun EXCEPT ![i].st = "ended"]
    /\ UNCHANGED <<ds, authUser>>

\* The clients of this repository send no credentials.
RefuseUnauthorized(i) ==
    /\ asked(i) /\ authUser
    /\ answerAndClose(i, status(407))

ServeConnect(i) ==
    /\ asked(i) /\ ~authUser
    /\ cl' = [cl EXCEPT ![i].up = Tail(@)]
    /\ tun' = [tun EXCEPT ![i].st = "dial"]
    /\ UNCHANGED <<ds, authUser>>

\* net.Dial, without a limit of its own.
TargetDialled(i) ==
    /\ tun[i].st = "dial"
    /\ ds' = [ds EXCEPT ![i] = newConn]
    /\ tun' = [tun EXCEPT ![i].st = "hijack"]
    /\ UNCHANGED <<cl, authUser>>

TargetRefuses(i) ==
    /\ tun[i].st = "dial"
    /\ answerAndClose(i, status(502))

\* What the server had read ahead stays in the buffer that is thrown away.
Hijack(i) ==
    /\ tun[i].st = "hijack"
    /\ cl' = [cl EXCEPT ![i] = wroteDown([@ EXCEPT !.up = <<>>], status(200))]
    /\ tun' = [tun EXCEPT ![i] = [st |-> "relay", upc |-> "run", downc |-> "run"]]
    /\ UNCHANGED <<ds, authUser>>

\* A connection that ends before its request.
NoRequest(i) ==
    /\ tun[i].st = "idle" /\ cl[i].c = "closed" /\ cl[i].up = <<>>
    /\ answerAndClose(i, <<>>)
------------------------------------------------------------------------------
(* The copying goroutines.                                                   *)

CopyUp(i) ==
    /\ tun[i].upc = "run" /\ cl[i].up # <<>>
    /\ cl[i].p = "open" /\ ds[i].c = "open" /\ ds[i].p = "open"
    /\ ds' = [ds EXCEPT ![i].up = @ \o cl[i].up]
    /\ cl' = [cl EXCEPT ![i].up = <<>>]
    /\ UNCHANGED <<tun, authUser>>

\* The client's stream ends, a write fails, or the other goroutine has closed.
upEnds(i) ==
    \/ cl[i].c = "closed" /\ cl[i].up = <<>>
    \/ cl[i].p # "open"
    \/ cl[i].up # <<>> /\ ds[i].p # "open"

\* Mutant: the target's connection stays open.
afterCopyUpOpen(k) == k

\* destConn.Close after io.Copy.
afterCopyUp(k) == closedByClient(k)

CopyUpEnds(i) ==
    /\ tun[i].upc = "run" /\ upEnds(i)
    /\ ds' = [ds EXCEPT ![i] = afterCopyUp(@)]
    /\ tun' = [tun EXCEPT ![i].upc = "done"]
    /\ UNCHANGED <<cl, authUser>>

\* Any number of units at a time.
CopyDown(i) ==
    /\ tun[i].downc = "run" /\ ds[i].c = "open"
    /\ cl[i].c = "open" /\ cl[i].p = "open"
    /\ \E n \in 1..Len(ds[i].down) :
          /\ cl' = [cl EXCEPT ![i].down = @ \o SubSeq(ds[i].down, 1, n)]
          /\ ds' = [ds EXCEPT ![i].down = SubSeq(@, n + 1, Len(@))]
    /\ UNCHANGED <<tun, authUser>>

\* Mutant: the end of the stream is taken before the rest of it.
downEndsEarly(i) ==
    \/ ds[i].p # "open" \/ ds[i].c = "closed"
    \/ ds[i].down # <<>> /\ (cl[i].c = "closed" \/ cl[i].p # "open")

downEnds(i) ==
    \/ ds[i].p = "closed" /\ ds[i].down = <<>>
    \/ ds[i].p = "reset"
    \/ ds[i].c = "closed"
    \/ ds[i].down # <<>> /\ (cl[i].c = "closed" \/ cl[i].p # "open")

\* clientConn.Close after io.Copy, however the copy ended.
CopyDownEnds(i) ==
    /\ tun[i].downc = "run" /\ downEnds(i)
    /\ cl' = [cl EXCEPT ![i] = closedByPeer(@)]
    /\ tun' = [tun EXCEPT ![i].downc = "done"]
    /\ UNCHANGED <<ds, authUser>>

TunnelStep ==
    \E i \in Conn :
        \/ RefuseUnauthorized(i) \/ ServeConnect(i) \/ TargetDialled(i) \/ TargetRefuses(i)
        \/ Hijack(i) \/ NoRequest(i)
        \/ CopyUp(i) \/ CopyUpEnds(i) \/ CopyDown(i) \/ CopyDownEnds(i)

\* The proxy is stopped: its connections end.
TunnelStops(i) ==
    /\ tun[i].st \in {"dial", "hijack", "relay"}
    /\ cl' = [cl EXCEPT ![i] = closedByPeer(@)]
    /\ ds' = [ds EXCEPT ![i] = IF @.c = "open" THEN closedByClient(@) ELSE @]
    /\ tun' = [tun EXCEPT ![i] = [st |-> "ended", upc |-> "done", downc |-> "done"]]
    /\ UNCHANGED authUser

\* Nothing of connection i is left in the proxy.
tunnelOver(i) ==
    \/ tun[i].st \in {"idle", "ended"}
    \/ tun[i].upc = "done" /\ tun[i].downc = "done"
=============================================================================
