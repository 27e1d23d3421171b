-------------------------------- MODULE Login --------------------------------
(***************************************************************************)
(* Pool.loginAndSession: the login targets from HTTPDNS, the attempt on    *)
(* each of them over an mmtls connection, and the session that is made of  *)
(* the first one that works.  One login in full detail; another login only *)
(* through its DNS lookup, which shares the cache.                         *)
(***************************************************************************)
EXTENDS HttpDns, Mmtls

CONSTANTS Long, Short   \* the lookups of the login

ASSUME LookupAssumption == Long \in Lookup /\ Short \in Lookup

VARIABLES
    lpc,        \* the next step of loginAndSession
    targets,    \* longlink targets still to try
    open,       \* open connections, by the target's place in the list
    deferred,   \* connections whose close is deferred
    tried,      \* targets tried so far
    session,    \* the WmpfSession returned, or nil
    left        \* the context of the login has ended

loginVars == <<dnsVars, mmtlsVars, lpc, targets, open, deferred, tried, session, left>>
ownVars == <<lpc, targets, open, deferred, tried, session, left>>

LoginLabel == {"lookup", "loop", "dial", "handshake", "auth", "parse", "short", "returned"}

LoginInit ==
    /\ DnsInit /\ MmtlsInit
    /\ lpc = "lookup" /\ targets = <<>> /\ open = {} /\ deferred = {} /\ tried = 0
    /\ session = None /\ left = FALSE

loginAt(l) == lpc' = l

\* The deferred calls close connections.
return == loginAt("returned") /\ open' = open \ deferred
------------------------------------------------------------------------------
\* getDNSParsed for the longlink targets.  (With an empty loginBuffer the login
\* ends before.)
LookupLong ==
    /\ lpc = "lookup"
    /\ Begin(Long)
    /\ UNCHANGED <<mmtlsVars, ownVars>>

GotTargets ==
    /\ lpc = "lookup" /\ dpc[Long] = "returned"
    /\ targets' = longTargets(Long)
    /\ loginAt("loop")
    /\ UNCHANGED <<dnsVars, mmtlsVars, open, deferred, tried, session, left>>

LookupFailed ==
    /\ lpc = "lookup" /\ dpc[Long] = "failed"
    /\ return
    /\ UNCHANGED <<dnsVars, mmtlsVars, targets, deferred, tried, session, left>>

\* The loop ends without a session.
NoTargetLeft ==
    /\ lpc = "loop" /\ targets = <<>>
    /\ return
    /\ UNCHANGED <<dnsVars, mmtlsVars, targets, deferred, tried, session, left>>

next == targets' = Tail(targets) /\ tried' = tried + 1

\* dialTCP uses the context of the login.
Dial ==
    /\ lpc = "loop" /\ targets # <<>> /\ ~left
    /\ next
    /\ open' = open \cup {tried + 1}
    /\ freshConnection /\ hpc' = "sendHello"
    /\ loginAt("handshake")
    /\ UNCHANGED <<dnsVars, deferred, session, left>>

DialFails ==
    /\ lpc = "loop" /\ targets # <<>>
    /\ next
    /\ UNCHANGED <<dnsVars, mmtlsVars, lpc, open, deferred, session, left>>

\* Mutant: a failed handshake leaves its connection open for good.
closedNot == open

\* connectMmtls closes the connection of a failed handshake.
closed == open \ {tried}

HandshakeFailed ==
    /\ lpc = "handshake" /\ hpc = "failed"
    /\ open' = closed
    /\ loginAt("loop")
    /\ UNCHANGED <<dnsVars, mmtlsVars, targets, deferred, tried, session, left>>

Connected ==
    /\ lpc = "handshake" /\ hpc = "connected"
    /\ hpc' = "sendApp"
    /\ deferred' = deferred \cup {tried}
    /\ loginAt("auth")
    /\ UNCHANGED <<dnsVars, mc, srv, wire, up, cut, fault, targets, open, tried, session, left>>

\* The login packet; a failure to send it, and to get its answer, turns to the
\* next target and leaves the connection to the deferred close.
Authenticate ==
    /\ lpc = "auth"
    /\ SendApp
    /\ UNCHANGED <<dnsVars, ownVars>>

\* A loginBuffer that cannot be parsed ends the login.
BadLoginBuffer ==
    /\ lpc = "auth" /\ hpc = "sendApp"
    /\ return
    /\ UNCHANGED <<dnsVars, mmtlsVars, targets, deferred, tried, session, left>>

AuthFailed ==
    /\ lpc = "auth" /\ hpc = "failed"
    /\ loginAt("loop")
    /\ UNCHANGED <<dnsVars, mmtlsVars, targets, open, deferred, tried, session, left>>

\* Another command, or parseLoginResponse or extractSession fails.
AnswerUseless ==
    /\ lpc = "auth" /\ hpc = "answered"
    /\ loginAt("loop")
    /\ UNCHANGED <<dnsVars, mmtlsVars, targets, open, deferred, tried, session, left>>

\* pickAccessPSK looks for the first of these.
accessTickets == {n \in DOMAIN mc.nst : mc.nst[n].type = 1 /\ mc.nst[n].alive}

\* extractPSKs and pickAccessPSK.
pskAvailable == mc.hCertV # Nil /\ accessTickets # {}

TakePSK ==
    /\ lpc = "auth" /\ hpc = "answered"
    /\ IF pskAvailable
       THEN /\ session' = [psk |-> [ticket |-> mc.nst[Min(accessTickets)], hash |-> mc.hCertV],
                           shortlinks |-> <<>>]
            /\ loginAt("short")
       ELSE loginAt("loop") /\ UNCHANGED session
    /\ UNCHANGED <<dnsVars, mmtlsVars, targets, open, deferred, tried, left>>

\* getShortlinkTargets: failure or not, there are targets.
LookupShort ==
    /\ lpc = "short"
    /\ Begin(Short)
    /\ UNCHANGED <<mmtlsVars, ownVars>>

LoginSucceeds ==
    /\ lpc = "short" /\ dpc[Short] \in {"returned", "failed"}
    /\ session' = [session EXCEPT !.shortlinks = shortTargets(Short)]
    /\ return
    /\ UNCHANGED <<dnsVars, mmtlsVars, targets, deferred, tried, left>>
------------------------------------------------------------------------------
\* Once the context has ended no host is dialled any more.
OwnLookup ==
    /\ \E l \in {Long, Short} : ReadCache(l) \/ (~left /\ Ask(l)) \/ Answered(l) \/ Unanswered(l)
    /\ UNCHANGED <<mmtlsVars, ownVars>>

Rival ==
    /\ \E l \in Lookup \ {Long, Short} : Begin(l) \/ DnsStep(l)
    /\ UNCHANGED <<mmtlsVars, ownVars>>

Connection == lpc \in {"handshake", "auth"} /\ ClientStep /\ UNCHANGED <<dnsVars, ownVars>>

Peer == ServerStep /\ UNCHANGED <<dnsVars, ownVars>>

Break == Cut /\ UNCHANGED <<dnsVars, ownVars>>

ContextEnds ==
    /\ ~left /\ lpc # "returned"
    /\ left' = TRUE
    /\ UNCHANGED <<dnsVars, mmtlsVars, lpc, targets, open, deferred, tried, session>>

Time == Tick /\ UNCHANGED <<mmtlsVars, ownVars>>

LoginStep ==
    \/ LookupLong \/ GotTargets \/ LookupFailed \/ NoTargetLeft
    \/ Dial \/ DialFails \/ HandshakeFailed \/ Connected \/ Authenticate \/ BadLoginBuffer
    \/ AuthFailed \/ AnswerUseless \/ TakePSK \/ LookupShort \/ LoginSucceeds

Returned == lpc = "returned" /\ UNCHANGED loginVars

LoginNext ==
    \/ LoginStep \/ OwnLookup \/ Rival \/ Connection \/ Peer \/ Break
    \/ ContextEnds \/ Time \/ Returned

\* Every wait of the login ends: lookups, dials, writes and reads have deadlines.
LoginSpec ==
    /\ LoginInit /\ [][LoginNext]_loginVars
    /\ WF_loginVars(LoginStep) /\ WF_loginVars(OwnLookup) /\ WF_loginVars(Connection)
------------------------------------------------------------------------------
(* What a login promises.                                                    *)

LoginTypeOK ==
    /\ DnsTypeOK
    /\ hpc \in ClientLabel
    /\ lpc \in LoginLabel
    /\ tried \in 0..MaxTargets /\ Len(targets) + tried <= MaxTargets
    /\ open \subseteq 1..tried
    /\ deferred \subseteq open \/ lpc = "returned"
    /\ lpc \in {"auth", "short"} => tried \in deferred
    /\ mc.txSeq <= 3 /\ mc.rxSeq <= srv.tx

\* The session of a login is one the server can serve: it has taken the login
\* packet on the same connection, the ticket is a live access ticket, and both
\* sides derive the same key for it.
SessionIsUsable ==
    session # None =>
        /\ srv.st = "served" /\ ~srv.refused
        /\ session.psk.ticket.type = 1 /\ session.psk.ticket.alive
        /\ session.psk.hash = srv.hCertV
        /\ lpc = "returned" => session.shortlinks # <<>>

\* A login leaves no connection open, at whichever step and target it failed.
ConnectionsClosed == lpc = "returned" => open = {}

\* A login ends, whichever of its targets refuse it, break off or fall silent; a
\* peer that sends a byte now and then, for ever, is not among them.
LoginReturns == <>(lpc = "returned")
=============================================================================
