----------------------------- MODULE SessionPool -----------------------------
(***************************************************************************)
(* The mmtls session pool: Pool.run and everything it calls that changes   *)
(* state, over the accounts and sessions tables of the store.              *)
(*                                                                         *)
(* A request r is one goroutine inside Pool.run.  Every database statement *)
(* is one step (the store opens a single connection, so statements are     *)
(* serialised), every network exchange is a start and an outcome, and      *)
(* every place where the goroutine may wait (the per-key mutex, the two    *)
(* channel semaphores) is a step of its own.  The deferred release and     *)
(* unlock at the end of Pool.state happen with the step that returns.      *)
(***************************************************************************)
EXTENDS Naturals, FiniteSets

CONSTANTS
    Request,        \* goroutines that call the pool
    Account,        \* account ids ever present in the accounts table
    Proxy,          \* non-empty proxy URLs
    Direct,         \* the empty proxy string: no proxy
    DefaultProxy,   \* Config.TCPProxy
    FallbackDirect, \* Config.TCPProxyFallbackDirect
    LoginSlots,     \* Config.MaxLoginConcurrency
    ShortlinkSlots, \* Config.MaxShortlinkConcurrency
    MaxCalls,       \* bound: calls of Pool.run per request
    None            \* no session, no lock owner, no path

Via == Proxy \cup {Direct}
Key == Account \X Via

\* WmpfSession.  owner, call and proxy identify the login that produced it (a
\* call logs in at most once per proxy); proxy is also its TCPProxy field.
Session == [owner : Request, call : 1..MaxCalls, proxy : Via]

ASSUME PoolAssumption ==
    /\ Direct \notin Proxy
    /\ DefaultProxy \in Via
    /\ FallbackDirect \in BOOLEAN
    /\ LoginSlots \in Nat \ {0}
    /\ ShortlinkSlots \in Nat \ {0}
    /\ MaxCalls \in Nat
    /\ IsFiniteSet(Request)
    /\ None \notin Request \cup Session \cup Via \cup Account

VARIABLES
    accounts,   \* ids in the accounts table
    known,      \* accounts whose uin column is set
    sessions,   \* the sessions table: per key its session_blob, or None
    live,       \* keys whose row has expires_at > now
    lockOwner,  \* per key, who holds the mutex of Pool.locks
    loginUsed,  \* len(Pool.loginSem)
    shortUsed,  \* len(Pool.shortlinkSem)
    pc,         \* per request, the statement it executes next
    acct,       \* per request, accountID
    via,        \* per request, the tcpProxy argument of the current Pool.state
    held,       \* per request, the local variable st
    path,       \* per request, the way its current exchange leaves the machine
    cancelled,  \* requests whose context is done
    calls       \* per request, how often it called Pool.run

tables == <<accounts, known, sessions, live>>
limits == <<lockOwner, loginUsed, shortUsed>>
frames == <<acct, via, held, path, calls>>
vars == <<tables, limits, pc, frames, cancelled>>

\* Pool.state past its second lookup: the request has to log in.
Loading == {"account", "loginSem", "login", "uin", "put"}
\* Pool.state between lock.Lock() and the deferred unlock.
Locked == {"recheck"} \cup Loading
LoginHeld == {"login", "uin", "put"}
Label == {"idle", "lookup", "lock", "shortSem", "send", "invalidate", "done", "failed"}
            \cup Locked

keyOf(r) == <<acct[r], via[r]>>

Init ==
    /\ accounts = Account
    /\ known = {}
    /\ sessions = [k \in Key |-> None]
    /\ live = {}
    /\ lockOwner = [k \in Key |-> None]
    /\ loginUsed = 0
    /\ shortUsed = 0
    /\ pc = [r \in Request |-> "idle"]
    /\ acct = [r \in Request |-> None]
    /\ via = [r \in Request |-> Direct]
    /\ held = [r \in Request |-> None]
    /\ path = [r \in Request |-> None]
    /\ cancelled = {}
    /\ calls = [r \in Request |-> 0]
------------------------------------------------------------------------------
(* The ways a connection asked to use proxy x may leave the machine: dialTCP *)
(* dials directly without a proxy, and also when the proxy cannot be used    *)
(* and the caller allows the fallback.                                       *)
dialTCP(x, fallback) == IF x # Direct /\ fallback THEN {x, Direct} ELSE {x}

\* Mutant: the fallback flag as configured, whatever the session.
sendFallbackAsConfigured(s) == FallbackDirect

\* The fallback sendEnvelope allows: none for a session that has a proxy.
sendFallback(s) == FallbackDirect /\ s.proxy = Direct

effectiveProxy(x) == IF x # Direct THEN x ELSE DefaultProxy

Goto(r, l) == pc' = [pc EXCEPT ![r] = l]

unlock(r) == lockOwner' = [lockOwner EXCEPT ![keyOf(r)] = None]

\* Mutant: the slot is given back although it was never acquired.
leaveStateReleasingAlways(r) ==
    /\ unlock(r)
    /\ loginUsed' = loginUsed - 1
    /\ UNCHANGED shortUsed

\* Mutant: the slot of a login is not given back.
leaveStateKeepingSlot(r) == unlock(r) /\ UNCHANGED <<loginUsed, shortUsed>>

\* The deferred calls of Pool.state: give back what the request holds.
leaveState(r) ==
    /\ unlock(r)
    /\ loginUsed' = IF pc[r] \in LoginHeld THEN loginUsed - 1 ELSE loginUsed
    /\ UNCHANGED shortUsed

\* Pool.state returned an error to Pool.run: a proxied run turns to the direct
\* connection, a direct one fails.
stateFails(r) ==
    /\ IF via[r] # Direct /\ FallbackDirect
       THEN /\ Goto(r, "lookup")
            /\ via' = [via EXCEPT ![r] = Direct]
       ELSE Goto(r, "failed") /\ UNCHANGED via
    /\ held' = [held EXCEPT ![r] = None]
    /\ path' = [path EXCEPT ![r] = None]
    /\ UNCHANGED <<tables, acct, calls, cancelled>>

\* Mutant: every failed op is invalidated and repeated, a direct one too.
opFailsAndRepeats(r) ==
    /\ Goto(r, "invalidate")
    /\ held' = [held EXCEPT ![r] = None]

\* op returned an error to Pool.run: a proxied run first drops the session it used.
opFails(r) ==
    /\ Goto(r, IF via[r] # Direct /\ FallbackDirect THEN "invalidate" ELSE "failed")
    /\ held' = [held EXCEPT ![r] = None]

\* Pool.state returned session s: op waits for the shortlink semaphore.
useSession(r, s) ==
    /\ Goto(r, "shortSem")
    /\ held' = [held EXCEPT ![r] = s]
------------------------------------------------------------------------------
\* The entry of Pool.run, under a context that is (still) the caller's.
run(r, a, x) ==
    /\ pc[r] \in {"idle", "done", "failed"}
    /\ calls[r] < MaxCalls
    /\ Goto(r, "lookup")
    /\ acct' = [acct EXCEPT ![r] = a]
    /\ via' = [via EXCEPT ![r] = effectiveProxy(x)]
    /\ held' = [held EXCEPT ![r] = None]
    /\ calls' = [calls EXCEPT ![r] = @ + 1]
    /\ UNCHANGED <<tables, limits, path>>

\* GetCode, GetPhoneNumber and OperateWXData for a new HTTP request.
Call(r, a, x) ==
    /\ run(r, a, x)
    /\ cancelled' = cancelled \ {r}

\* The first GetSession of Pool.state, outside the lock.
Lookup(r) ==
    /\ pc[r] = "lookup"
    /\ \/ /\ r \in cancelled
          /\ stateFails(r)
       \/ /\ r \notin cancelled
          /\ IF keyOf(r) \in live
             THEN useSession(r, sessions[keyOf(r)])
             ELSE Goto(r, "lock") /\ UNCHANGED held
          /\ UNCHANGED <<tables, acct, via, path, calls, cancelled>>
    /\ UNCHANGED limits

\* Mutant: nobody waits, as with a new mutex per call.
LockWithoutWaiting(r) ==
    /\ pc[r] = "lock"
    /\ lockOwner' = [lockOwner EXCEPT ![keyOf(r)] = r]
    /\ Goto(r, "recheck")
    /\ UNCHANGED <<tables, loginUsed, shortUsed, frames, cancelled>>

\* lock.Lock(): waits whatever happens to the context.
Lock(r) ==
    /\ pc[r] = "lock"
    /\ lockOwner[keyOf(r)] = None
    /\ lockOwner' = [lockOwner EXCEPT ![keyOf(r)] = r]
    /\ Goto(r, "recheck")
    /\ UNCHANGED <<tables, loginUsed, shortUsed, frames, cancelled>>

\* Mutant: no second lookup once the lock is held.
RecheckSkipped(r) ==
    /\ pc[r] = "recheck"
    /\ Goto(r, "account")
    /\ UNCHANGED <<tables, limits, frames, cancelled>>

\* The second GetSession, under the lock.
Recheck(r) ==
    /\ pc[r] = "recheck"
    /\ \/ /\ r \in cancelled
          /\ stateFails(r)
          /\ leaveState(r)
       \/ /\ r \notin cancelled
          /\ IF keyOf(r) \in live
             THEN useSession(r, sessions[keyOf(r)]) /\ leaveState(r)
             ELSE Goto(r, "account") /\ UNCHANGED <<held, limits>>
          /\ UNCHANGED <<tables, acct, via, path, calls, cancelled>>

\* GetAccount: sql.ErrNoRows when the account was deleted meanwhile.
LoadAccount(r) ==
    /\ pc[r] = "account"
    /\ IF r \in cancelled \/ acct[r] \notin accounts
       THEN stateFails(r) /\ leaveState(r)
       ELSE /\ Goto(r, "loginSem")
            /\ UNCHANGED <<tables, limits, frames, cancelled>>

\* acquire(ctx, loginSem): a slot, with which loginAndSession starts to dial
\* its targets, or the end of the context.
AcquireLogin(r) ==
    /\ pc[r] = "loginSem"
    /\ loginUsed < LoginSlots
    /\ loginUsed' = loginUsed + 1
    /\ \E way \in dialTCP(via[r], FallbackDirect) : path' = [path EXCEPT ![r] = way]
    /\ Goto(r, "login")
    /\ UNCHANGED <<tables, lockOwner, shortUsed, acct, via, held, calls, cancelled>>

\* Mutant: the lock is kept when the wait for a login slot is given up.
AbandonLoginKeepingLock(r) ==
    /\ pc[r] = "loginSem"
    /\ r \in cancelled
    /\ stateFails(r)
    /\ UNCHANGED limits

AbandonLogin(r) ==
    /\ pc[r] = "loginSem"
    /\ r \in cancelled
    /\ stateFails(r)
    /\ leaveState(r)

\* loginAndSession, over the network: any of its targets answers ...
LoginSucceeds(r) ==
    /\ pc[r] = "login"
    /\ held' = [held EXCEPT ![r] = [owner |-> r, call |-> calls[r], proxy |-> via[r]]]
    /\ path' = [path EXCEPT ![r] = None]
    /\ Goto(r, "uin")
    /\ UNCHANGED <<tables, limits, acct, via, calls, cancelled>>

\* ... or none does: no targets, all of them failed, timeout, context done.
LoginFails(r) ==
    /\ pc[r] = "login"
    /\ stateFails(r)
    /\ leaveState(r)

\* SetAccountUIN: its error is dropped, and it updates no row of a deleted account.
RecordUIN(r) ==
    /\ pc[r] = "uin"
    /\ known' = IF r \in cancelled \/ acct[r] \notin accounts
                THEN known ELSE known \cup {acct[r]}
    /\ Goto(r, "put")
    /\ UNCHANGED <<accounts, sessions, live, limits, frames, cancelled>>

\* Mutant: no foreign key on sessions.wechat_account_id.
SaveSessionUnreferenced(r) ==
    /\ pc[r] = "put"
    /\ IF r \in cancelled
       THEN stateFails(r)
       ELSE /\ sessions' = [sessions EXCEPT ![keyOf(r)] = held[r]]
            /\ live' = live \cup {keyOf(r)}
            /\ Goto(r, "shortSem")
            /\ UNCHANGED <<accounts, known, frames, cancelled>>
    /\ leaveState(r)

\* PutSession, an upsert on (wechat_account_id, tcp_proxy): the foreign key
\* refuses a row whose account is gone.
SaveSession(r) ==
    /\ pc[r] = "put"
    /\ IF r \in cancelled \/ acct[r] \notin accounts
       THEN stateFails(r)
       ELSE /\ sessions' = [sessions EXCEPT ![keyOf(r)] = held[r]]
            /\ live' = live \cup {keyOf(r)}
            /\ Goto(r, "shortSem")
            /\ UNCHANGED <<accounts, known, frames, cancelled>>
    /\ leaveState(r)

\* sendEnvelope: acquire(ctx, shortlinkSem), then the dial of send0RTT.
AcquireShortlink(r) ==
    /\ pc[r] = "shortSem"
    /\ shortUsed < ShortlinkSlots
    /\ shortUsed' = shortUsed + 1
    /\ \E way \in dialTCP(held[r].proxy, sendFallback(held[r])) :
          path' = [path EXCEPT ![r] = way]
    /\ Goto(r, "send")
    /\ UNCHANGED <<tables, lockOwner, loginUsed, acct, via, held, calls, cancelled>>

AbandonSend(r) ==
    /\ pc[r] = "shortSem"
    /\ r \in cancelled
    /\ opFails(r)
    /\ UNCHANGED <<tables, limits, acct, via, path, calls, cancelled>>

\* Mutant: the shortlink slot is not given back.
endSendKeepingSlot(r) ==
    /\ pc[r] = "send"
    /\ path' = [path EXCEPT ![r] = None]
    /\ UNCHANGED <<tables, limits, acct, via, calls, cancelled>>

endSend(r) ==
    /\ pc[r] = "send"
    /\ shortUsed' = shortUsed - 1
    /\ path' = [path EXCEPT ![r] = None]
    /\ UNCHANGED <<tables, lockOwner, loginUsed, acct, via, calls, cancelled>>

SendSucceeds(r) ==
    /\ endSend(r)
    /\ Goto(r, "done")
    /\ held' = [held EXCEPT ![r] = None]

SendFails(r) ==
    /\ endSend(r)
    /\ opFails(r)

\* Pool.Invalidate after a failed proxied op, then the direct attempt.  It
\* deletes by key: whatever row the key has by now.
Invalidate(r) ==
    /\ pc[r] = "invalidate"
    /\ IF r \in cancelled
       THEN UNCHANGED <<sessions, live>>
       ELSE /\ sessions' = [sessions EXCEPT ![keyOf(r)] = None]
            /\ live' = live \ {keyOf(r)}
    /\ via' = [via EXCEPT ![r] = Direct]
    /\ Goto(r, "lookup")
    /\ UNCHANGED <<accounts, known, limits, acct, held, path, calls, cancelled>>
------------------------------------------------------------------------------
(* What the rest of the program and the world do to the pool's state.        *)

\* The HTTP client goes away, or the caller's deadline passes.
Cancel(r) ==
    /\ pc[r] \notin {"idle", "done", "failed"}
    /\ cancelled' = cancelled \cup {r}
    /\ UNCHANGED <<tables, limits, pc, frames>>

\* expires_at (sessionExpiresAt: the TTL or the PSK's lifetime) is reached.
Expire(k) ==
    /\ k \in live
    /\ live' = live \ {k}
    /\ UNCHANGED <<accounts, known, sessions, limits, pc, frames, cancelled>>

\* DB.InvalidateSession, called outside the pool (invokeWXApp).
InvalidateSession(k) ==
    /\ sessions[k] # None
    /\ sessions' = [sessions EXCEPT ![k] = None]
    /\ live' = live \ {k}
    /\ UNCHANGED <<accounts, known, limits, pc, frames, cancelled>>

\* DB.DeleteAccount; the rows of sessions go with it (ON DELETE CASCADE), and
\* ids are never reused (AUTOINCREMENT).
DeleteAccount(a) ==
    /\ a \in accounts
    /\ accounts' = accounts \ {a}
    /\ known' = known \ {a}
    /\ sessions' = [k \in Key |-> IF k[1] = a THEN None ELSE sessions[k]]
    /\ live' = {k \in live : k[1] # a}
    /\ UNCHANGED <<limits, pc, frames, cancelled>>

\* The process dies and starts again: the database stays, everything else goes.
Restart ==
    /\ \E r \in Request : pc[r] \notin {"idle", "done", "failed"}
    /\ lockOwner' = [k \in Key |-> None]
    /\ loginUsed' = 0
    /\ shortUsed' = 0
    /\ pc' = [r \in Request |-> "idle"]
    /\ acct' = [r \in Request |-> None]
    /\ via' = [r \in Request |-> Direct]
    /\ held' = [r \in Request |-> None]
    /\ path' = [r \in Request |-> None]
    /\ cancelled' = {}
    /\ UNCHANGED <<tables, calls>>
------------------------------------------------------------------------------
\* Everything a request does once called.
Step(r) ==
    \/ Lookup(r) \/ Lock(r) \/ Recheck(r) \/ LoadAccount(r)
    \/ AcquireLogin(r) \/ AbandonLogin(r) \/ LoginSucceeds(r) \/ LoginFails(r)
    \/ RecordUIN(r) \/ SaveSession(r)
    \/ AcquireShortlink(r) \/ AbandonSend(r) \/ SendSucceeds(r) \/ SendFails(r)
    \/ Invalidate(r)

Environment ==
    \/ \E r \in Request : Cancel(r)
    \/ \E k \in Key : Expire(k) \/ InvalidateSession(k)
    \/ \E a \in Account : DeleteAccount(a)
    \/ Restart

\* All calls of the instance have returned.
AllReturned ==
    /\ \A r \in Request : pc[r] \in {"idle", "done", "failed"} /\ calls[r] = MaxCalls
    /\ UNCHANGED vars

Next ==
    \/ \E r \in Request : Step(r) \/ \E a \in Account, x \in Via : Call(r, a, x)
    \/ Environment
    \/ AllReturned

Spec == Init /\ [][Next]_vars

\* A goroutine that can run does run; waiting for the network ends by a
\* deadline; Go's mutexes and channels pass on to those who wait.
Fairness == \A r \in Request : WF_vars(Step(r))

FairSpec == Spec /\ Fairness
------------------------------------------------------------------------------
(* Properties.                                                               *)

TypeOK ==
    /\ accounts \subseteq Account
    /\ known \subseteq Account
    /\ sessions \in [Key -> Session \cup {None}]
    /\ live \subseteq Key
    /\ lockOwner \in [Key -> Request \cup {None}]
    /\ loginUsed \in Nat
    /\ shortUsed \in Nat
    /\ pc \in [Request -> Label]
    /\ acct \in [Request -> Account \cup {None}]
    /\ via \in [Request -> Via]
    /\ held \in [Request -> Session \cup {None}]
    /\ path \in [Request -> Via \cup {None}]
    /\ cancelled \subseteq Request
    /\ calls \in [Request -> 0..MaxCalls]

\* A request holds the mutex of its key exactly while it is between lock.Lock()
\* and the return of Pool.state: no error path, no cancellation and no switch
\* to the direct attempt keeps it or gives back somebody else's.
LockDiscipline ==
    \A r \in Request, k \in Key :
        lockOwner[k] = r <=> pc[r] \in Locked /\ keyOf(r) = k

\* While a request is on its way to log in for a key, the table has no valid
\* row for that key: concurrent first calls of an account log in once, and no
\* login is spent on a session that is already there.
SingleFlight ==
    \A r \in Request : pc[r] \in Loading => keyOf(r) \notin live

\* Each semaphore counts exactly the requests that are inside what it guards,
\* never more than its capacity: a release lost on an error path would block
\* every later login or call, a doubled one would lift the limit.
SlotsMatchHolders ==
    /\ loginUsed = Cardinality({r \in Request : pc[r] \in LoginHeld})
    /\ shortUsed = Cardinality({r \in Request : pc[r] = "send"})
    /\ loginUsed <= LoginSlots
    /\ shortUsed <= ShortlinkSlots

\* A deleted account has no session rows and gets none, also from a login that
\* was under way when it was deleted; a valid row is a row; and an account
\* with a session has its uin on record (ResolveAccount looks it up there).
SessionsBelongToAccounts ==
    /\ \A k \in Key : sessions[k] # None => k[1] \in accounts /\ k[1] \in known
    /\ \A k \in live : sessions[k] # None

\* A session is stored under the proxy it was made for, is used by calls for
\* that proxy, and its requests leave by that proxy alone: the fallback to a
\* direct connection never carries a proxied session's traffic.
ProxyIsolation ==
    /\ \A k \in Key : sessions[k] # None => sessions[k].proxy = k[2]
    /\ \A r \in Request : held[r] # None => held[r].proxy = via[r]
    /\ \A r \in Request : pc[r] = "send" => path[r] = held[r].proxy

\* What docs/docs/LOGIN_AND_SESSION.md says in 6.4, sessions isolated by network
\* egress: the login of a session cached for a proxy leaves by that proxy.  The
\* code lets it fall back to a direct connection and caches it all the same.
LoginLeavesByProxy ==
    \A r \in Request : pc[r] = "login" => path[r] = via[r]

\* The refinement mapping: the session a lookup returns, and who logs in.
Usable == [k \in Key |-> IF k \in live THEN sessions[k] ELSE None]
LoadingBy ==
    [k \in Key |-> IF lockOwner[k] # None /\ pc[lockOwner[k]] \in Loading
                   THEN lockOwner[k] ELSE None]

Cache == INSTANCE SessionCache WITH
    Loader <- Request, Nothing <- None, cached <- Usable, loading <- LoadingBy

\* The pool implements the abstract single-flight cache: expiry, invalidation,
\* deletion, cancellation and the two attempts of a call never replace a valid
\* session, publish somebody else's or let two logins for a key overlap.
RefinesCache == Cache!Spec

\* Every call returns: no wait on a mutex, a semaphore or the network, whatever
\* other requests, expiry, deletion and cancellation do, is forever ("idle": the
\* process was restarted under it).
EveryCallReturns ==
    \A r \in Request : pc[r] = "lookup" ~> pc[r] \in {"idle", "done", "failed"}
=============================================================================
