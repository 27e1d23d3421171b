------------------------------ MODULE ShortLink ------------------------------
(***************************************************************************)
(* One call over the short link (sendEnvelope, shortlink.go): target after *)
(* target a connection is dialled, the request of early data is written,   *)
(* the answer is read to the end of the stream and parsed.                 *)
(*                                                                         *)
(* The server is external: it opens what a client sealed as the client     *)
(* expects it to, reads the envelope by its format, and seals its answer   *)
(* in one of the ways the client tries.  A login uses the same dialling    *)
(* and takes the connection over.                                          *)
(***************************************************************************)
EXTENDS Dial, Envelope

CONSTANTS
    Call,       \* calls: [kind, proxy, op, session, app, payload, answer], and the
                \* outcome of their bytes: [accepted, parsed]
    MaxTargets  \* targets of a session

\* The bytes of a call do not depend on the way they go.
ASSUME CallAssumption ==
    \A c \in Call : c.accepted = accepts(c) /\ c.parsed = parses(c)
ASSUME KindAssumption ==
    \A c \in Call : /\ c.kind \in {"send", "login"}
                    /\ c.proxy \in {"none", "socks5", "http-connect", "invalid"}
ASSUME MaxTargetsAssumption == MaxTargets \in Nat

\* A connection for every target of a send, and two for the target of a login.
ASSUME ConnAssumption ==
    Conn \subseteq Nat \ {0} /\ {1, 2} \subseteq Conn /\ 1..MaxTargets \subseteq Conn

VARIABLES
    target,     \* targets tried
    srv,        \* the server's side of each connection
    result      \* what sendEnvelope returns: one answer, or none

shortVars == <<tunnelVars, dialVars, target, srv, result>>
ownVars == <<target, srv, result>>

ShortInit ==
    /\ TunnelInit /\ DialInit
    /\ call \in Call
    /\ opc = "next" /\ target = 0
    /\ srv = [i \in Conn |-> "waiting"]
    /\ result = {}

targets == IF call.kind = "send" THEN MaxTargets ELSE 1
request == unit("request", 0)
------------------------------------------------------------------------------
(* The server.                                                               *)

\* The response: two records, each of two units; the HTTP head goes with the first.
answer == [k \in 1..4 |-> unit(<<"hello", "hello end", "data", "data end">>[k], 0)]

viaTunnel(i) == via[i] = "http-connect"
\* The stream of a proxied connection is the target's once the proxy relays.
reached(i) == via[i] = "target" \/ viaTunnel(i) \/ (via[i] = "socks5" /\ socks[i] = "relay")
link(i) == IF viaTunnel(i) THEN ds[i] ELSE cl[i]
setLink(i, k) ==
    IF viaTunnel(i) THEN ds' = [ds EXCEPT ![i] = k] /\ UNCHANGED cl
                    ELSE cl' = [cl EXCEPT ![i] = k] /\ UNCHANGED ds

serverTurns(i, st) ==
    /\ srv' = [srv EXCEPT ![i] = st]
    /\ UNCHANGED <<tun, authUser, dialVars, target, result>>

serverHas(i) ==
    /\ reached(i) /\ link(i).p = "open" /\ srv[i] = "waiting"
    /\ link(i).up # <<>> /\ Head(link(i).up) = request

\* It executes the request and writes the answer, or breaks off in it; what it
\* cannot open or read it drops.
ServerAnswers(i) ==
    /\ serverHas(i)
    /\ \E n \in IF call.accepted THEN 0..Len(answer) ELSE {0} :
          /\ setLink(i, wroteDown([link(i) EXCEPT !.up = Tail(@)], SubSeq(answer, 1, n)))
          /\ serverTurns(i, IF ~call.accepted THEN "rejected"
                            ELSE IF n = Len(answer) THEN "answered" ELSE "broken")

\* An alert or a page instead of the answer.
ServerRefuses(i) ==
    /\ serverHas(i)
    /\ setLink(i, wroteDown([link(i) EXCEPT !.up = Tail(@)], <<unit("alert", 0)>>))
    /\ serverTurns(i, "refused")

\* The server closes, as the request asks, or the connection breaks.
ServerCloses(i) ==
    /\ reached(i) /\ link(i).c # "none" /\ link(i).p = "open"
    /\ \E end \in {"closed", "reset"} : setLink(i, [link(i) EXCEPT !.p = end, !.up = <<>>])
    /\ serverTurns(i, IF srv[i] = "waiting" THEN "broken" ELSE srv[i])

ServerStep ==
    \E i \in Conn : ServerAnswers(i) \/ ServerRefuses(i) \/ ServerCloses(i)
------------------------------------------------------------------------------
(* The client.                                                               *)

\* send0RTT turns to its next target; each request has its own random.
NextTarget ==
    /\ opc = "next" /\ target < targets
    /\ target' = target + 1
    /\ dialTCP
    /\ UNCHANGED <<tunnelVars, call, need, now, via, socks, blame, srv, result>>

\* All targets failed.
AllFailed ==
    /\ opc = "next" /\ target = targets
    /\ opc' = "returned"
    /\ UNCHANGED <<tunnelVars, call, cid, hop, need, dl, now, via, socks, blame, ownVars>>

WriteRequest ==
    /\ opc = "write"
    /\ cl' = [cl EXCEPT ![cid] = wroteUp(@, <<request>>)]
    /\ dl' = now + T
    /\ opc' = "read"
    /\ UNCHANGED <<ds, tun, authUser, call, cid, hop, need, now, via, socks, blame, ownVars>>

\* Mutant: half a record is taken for a whole one.
wholeAtStart(units, u, end) == \E k \in DOMAIN units : units[k].u = u

\* A whole record of the response.
whole(units, u, end) ==
    \E k \in 1..(Len(units) - 1) : units[k].u = u /\ units[k + 1].u = end

\* parse0RTTResponse.
parse0RTTResponse(units) ==
    IF whole(units, "hello", "hello end") /\ whole(units, "data", "data end")
    THEN call.parsed ELSE {}

\* An answer that holds nothing counts as a failure.
useful(results) == {r \in results : r.code # <<>> \/ r.resp # <<>>}

exchangeEnds(next, b, res) ==
    /\ cl' = [cl EXCEPT ![cid] = closedByClient(@)]
    /\ opc' = next
    /\ blame' = worse(b)
    /\ result' = res
    /\ UNCHANGED <<ds, tun, authUser, call, cid, hop, need, dl, now, via, socks, target, srv>>

\* The server answered, and the proxy had the whole of it: it ends the client's
\* stream in the same way when the target's breaks.
answerCame ==
    /\ srv[cid] = "answered" /\ call.answer.text # "empty"
    /\ viaTunnel(cid) => ds[cid].p # "reset" /\ tun[cid].st # "ended"

\* ReadAll ends with the stream, wherever in the answer that is.
ReadAnswer ==
    /\ opc = "read" /\ cl[cid].p = "closed"
    /\ \E found \in {useful(parse0RTTResponse(down))} :
          IF found # {} THEN exchangeEnds("returned", blame, found)
          ELSE exchangeEnds("next", IF srv[cid] = "rejected" \/ answerCame THEN "own" ELSE "peer", {})

\* The request is lost without anybody else's doing.
requestLost ==
    /\ srv[cid] = "waiting" /\ cl[cid].up = <<>> /\ ds[cid].up = <<>>
    /\ cl[cid].p = "open" /\ (viaTunnel(cid) => ds[cid].p = "open" /\ tun[cid].st = "relay")

\* The deadline passes, or the stream ends with an error.
ReadFails ==
    /\ opc = "read" /\ (now = dl \/ cl[cid].p = "reset")
    /\ exchangeEnds("next", IF requestLost THEN "own" ELSE "peer", {})

\* A login has its connection: mmtls begins with a clean stream, and closes it
\* in the end.
TakenOver ==
    /\ opc = "handed"
    /\ exchangeEnds("returned", IF down = <<>> THEN blame ELSE "own", {})

ShortStep == NextTarget \/ AllFailed \/ WriteRequest \/ ReadAnswer \/ ReadFails \/ TakenOver

Tick ==
    /\ opc \in Dialling \cup {"read"} /\ now < dl /\ now < MaxTime
    /\ now' = now + 1
    /\ UNCHANGED <<tunnelVars, call, opc, cid, hop, need, dl, via, socks, blame, ownVars>>

Dials == DialStep /\ UNCHANGED ownVars
Socks == SocksStep /\ UNCHANGED ownVars
Tunnels == TunnelStep /\ UNCHANGED <<dialVars, ownVars>>
ProxyStops == (\E i \in Conn : TunnelStops(i)) /\ UNCHANGED <<dialVars, ownVars>>

Returned == opc = "returned" /\ UNCHANGED shortVars

ShortNext ==
    \/ ShortStep \/ Dials \/ Tick
    \/ Socks \/ Tunnels \/ ProxyStops \/ ServerStep \/ Returned

\* The client's steps, time, and those of the tunnel, whose dial the operating
\* system ends; never the server's, nor the SOCKS5 proxy's.
ShortSpec ==
    /\ ShortInit /\ [][ShortNext]_shortVars
    /\ WF_shortVars(ShortStep) /\ WF_shortVars(Dials) /\ WF_shortVars(Tick)
    /\ WF_shortVars(Tunnels)
------------------------------------------------------------------------------
(* What a call promises.                                                     *)

\* A call that succeeds returns what the server answered to this request, code
\* and text, whatever way it was packed and sealed: never a part of it, and
\* nothing when the answer broke off.
CodeIsTheAnswers ==
    \A r \in result :
        /\ srv[cid] = "answered"
        /\ r.resp = answerText(call)
        /\ r.code = IF call.answer.text = "code" THEN codeOf(call) ELSE <<>>

\* A call fails, and a request is executed again at the next target, only when
\* somebody else failed: the server, a proxy, a connection, or time.  This asks
\* of the call that it fits: nothing limits the payload of an operation, and one
\* too long for a record goes to every target without its data.
FailsByOthersOnly == blame = "own" => ~fits(call)

\* A session made for a proxy is never sent directly; a login goes out directly
\* only when its proxy has failed, and has left nothing open there.
EgressAllowed ==
    \A i \in Conn : (via[i] = "target" /\ call.proxy # "none") =>
        /\ call.kind = "login"
        /\ i > 1 /\ cl[i - 1].c # "open"

\* A send gives its slot back within three timeouts, however many targets it
\* tries: the dial ends with the context, the dialog with the proxy and the
\* exchange have one timeout each.
EndsInTime == call.kind = "send" => now <= 3 * T

\* When the client is through, its tunnels end: both goroutines, also when the
\* target never closes.
TunnelsEnd == (opc = "returned") ~> (\A i \in Conn : tunnelOver(i))
==============================================================================
