------------------------------- MODULE HttpDns -------------------------------
(***************************************************************************)
(* HTTPDNS: getDNSParsed with its cache, shared by all logins, and what    *)
(* getLonglinkTargets, orderLonglinkTargets and getShortlinkTargets make of*)
(* an answer.  The service is asked under two addresses in turn and gives  *)
(* any of Answer, or nothing of use.                                       *)
(***************************************************************************)
EXTENDS Integers, Sequences, SequencesExt

CONSTANTS
    Lookup,     \* calls of getDNSParsed, each made once
    Answer,     \* answers: [long, short], the targets they list per domain
    CacheTTL,   \* Config.DNSCacheTTL, in ticks (0 turns the cache off)
    MaxTime,    \* bound: ticks of the clock
    MaxTargets, \* the longlink targets a login tries at most
    None        \* no entry, no answer

Target == [ip : Nat, port : Nat]

ASSUME AnswerAssumption == Answer \subseteq [long : Seq(Target), short : Seq(Target)]
ASSUME MaxTimeAssumption == MaxTime \in Nat
ASSUME CacheTTLAssumption == CacheTTL \in Nat
ASSUME MaxTargetsAssumption == MaxTargets \in Nat \ {0}

VARIABLES
    time,       \* the clock
    dnsCache,   \* the entry, or None
    dpc,        \* per lookup, its next step
    now,        \* per lookup, the local variable of getDNSParsed
    parsed      \* per lookup, what it returned: the answer, with when it was asked for

dnsVars == <<time, dnsCache, dpc, now, parsed>>

Parsed == [answer : Answer, asked : 0..MaxTime]
Entry == [expiresAt : 0..(MaxTime + CacheTTL), parsed : Parsed]
DnsLabel == {"idle", "cache", "host", "asked", "backup", "askedBackup", "returned", "failed"}

DnsInit ==
    /\ time = 0 /\ dnsCache = None
    /\ dpc = [l \in Lookup |-> "idle"]
    /\ now = [l \in Lookup |-> 0]
    /\ parsed = [l \in Lookup |-> None]

dnsAt(l, label) == dpc' = [dpc EXCEPT ![l] = label]

Begin(l) ==
    /\ dpc[l] = "idle"
    /\ now' = [now EXCEPT ![l] = time]
    /\ dnsAt(l, IF CacheTTL > 0 THEN "cache" ELSE "host")
    /\ UNCHANGED <<time, dnsCache, parsed>>

\* Under the cache's mutex.
ReadCache(l) ==
    /\ dpc[l] = "cache"
    /\ IF dnsCache # None /\ dnsCache.expiresAt > now[l]
       THEN parsed' = [parsed EXCEPT ![l] = dnsCache.parsed] /\ dnsAt(l, "returned")
       ELSE dnsAt(l, "host") /\ UNCHANGED parsed
    /\ UNCHANGED <<time, dnsCache, now>>

\* Mutant: the answer is dated from its arrival.
entryFromArrival(l, p) == [expiresAt |-> time + CacheTTL, parsed |-> p]

\* The entry a lookup writes: its age counts from the start of the lookup.
entry(l, p) == [expiresAt |-> now[l] + CacheTTL, parsed |-> p]

\* dialDirect and the request; only the dialling uses the caller's context.
Ask(l) ==
    /\ dpc[l] \in {"host", "backup"}
    /\ dnsAt(l, IF dpc[l] = "host" THEN "asked" ELSE "askedBackup")
    /\ UNCHANGED <<time, dnsCache, now, parsed>>

\* One of the hosts answers; an answer without a domain is an answer.
Answered(l) ==
    /\ dpc[l] \in {"asked", "askedBackup"}
    /\ \E a \in Answer :
          LET p == [answer |-> a, asked |-> now[l]] IN
          /\ parsed' = [parsed EXCEPT ![l] = p]
          /\ dnsCache' = IF CacheTTL > 0 THEN entry(l, p) ELSE dnsCache
    /\ dnsAt(l, "returned")
    /\ UNCHANGED <<time, now>>

\* No connection, no answer in time, another status than 200, no domain list.
Unanswered(l) ==
    /\ dpc[l] \in {"host", "asked", "backup", "askedBackup"}
    /\ dnsAt(l, IF dpc[l] \in {"host", "asked"} THEN "backup" ELSE "failed")
    /\ UNCHANGED <<time, dnsCache, now, parsed>>

Tick ==
    /\ time < MaxTime
    /\ time' = time + 1
    /\ UNCHANGED <<dnsCache, dpc, now, parsed>>

DnsStep(l) == ReadCache(l) \/ Ask(l) \/ Answered(l) \/ Unanswered(l)
------------------------------------------------------------------------------
(* Targets.                                                                  *)

FallbackTarget == [ip |-> 0, port |-> 80]

\* Place of a port among 8080, 80, 443 and 5000; 0 for any other.
rank(port) == SelectInSeq(<<8080, 80, 443, 5000>>, LAMBDA p : p = port)

\* The places in ts, by IP, places of one IP as they come.
byIP(ts, places) ==
    LET order == SetToSortSeq(places, LAMBDA i, j : \/ ts[i].ip < ts[j].ip
                                                    \/ ts[i].ip = ts[j].ip /\ i < j)
    IN [n \in DOMAIN order |-> ts[order[n]]]

\* As many as a login tries.
limited(ts) == SubSeq(ts, 1, IF Len(ts) > MaxTargets THEN MaxTargets ELSE Len(ts))

\* One target per IP, with its most preferred port; all of them as they are when
\* no port is a preferred one.
orderLonglinkTargets(ts) ==
    LET known == {i \in DOMAIN ts : rank(ts[i].port) > 0}
        best == {i \in known : \A j \in known : ts[j].ip = ts[i].ip =>
                    \/ rank(ts[i].port) < rank(ts[j].port)
                    \/ ts[i].port = ts[j].port /\ i <= j}
    IN limited(byIP(ts, IF best = {} THEN DOMAIN ts ELSE best))

longTargets(l) == orderLonglinkTargets(parsed[l].answer.long)

\* The targets on port 80, one per IP, or the built-in one.
shortTargets(l) ==
    LET ts == IF parsed[l] = None THEN <<>> ELSE parsed[l].answer.short
        first == {i \in DOMAIN ts : ts[i].port = 80 /\ \A j \in 1..(i - 1) : ts[j] # ts[i]}
        place(n) == CHOOSE i \in first : Cardinality({j \in first : j <= i}) = n
    IN IF first = {} THEN <<FallbackTarget>>
       ELSE [n \in 1..Cardinality(first) |-> ts[place(n)]]
------------------------------------------------------------------------------
DnsTypeOK ==
    /\ time \in 0..MaxTime
    /\ dnsCache \in Entry \cup {None}
    /\ dpc \in [Lookup -> DnsLabel]
    /\ now \in [Lookup -> 0..MaxTime]
    /\ \A l \in Lookup : parsed[l] \in Parsed \cup {None}
    /\ \A l \in Lookup : parsed[l] # None <=> dpc[l] = "returned"

\* However lookups overtake each other, none returns an answer that was asked
\* for CacheTTL or more before it began.
AnswersAreFresh ==
    \A l \in Lookup : parsed[l] # None =>
        parsed[l].asked = now[l] \/ now[l] < parsed[l].asked + CacheTTL
=============================================================================
