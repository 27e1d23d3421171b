------------------------------ MODULE WxappCall ------------------------------
(***************************************************************************)
(* App.invokeWXApp over the session pool: what every wxapp endpoint does   *)
(* for one HTTP request.  It runs the pool up to twice, with a refresh of  *)
(* the account's credentials between the two, and removes the session the  *)
(* first run failed with.  The refresh itself is module Renewal; here it   *)
(* succeeds or fails, and leaves the account's status.                     *)
(***************************************************************************)
EXTENDS SessionPool

CONSTANTS
    MaxTargets      \* bound: shortlink targets of a session

\* One invocation runs the pool at most twice; a session has a target at least.
ASSUME WxAssumption == MaxCalls >= 2 /\ MaxTargets \in Nat \ {0}

VARIABLES
    stage,      \* per request, where invokeWXApp stands
    target,     \* per request, its arguments acc.ID and proxy
    status,     \* per account, its status column
    failed,     \* per request, the sessions its sends failed on (history)
    exchanges   \* per request, how often it turned to a target (history)

wxVars == <<vars, stage, target, status, failed, exchanges>>

Stage == {"idle", "peek", "first", "drop", "refresh", "reload", "second",
          "answered", "error", "expired"}
Resting == {"idle", "answered", "error", "expired"}
Inside == {"first", "second"}

proxyOf(r) == target[r][2]

WxInit ==
    /\ Init
    /\ stage = [r \in Request |-> "idle"]
    /\ target = [r \in Request |-> None]
    /\ status = [a \in Account |-> "alive"]
    /\ failed = [r \in Request |-> {}]
    /\ exchanges = [r \in Request |-> 0]

Enter(r, s) == stage' = [stage EXCEPT ![r] = s]
------------------------------------------------------------------------------
\* Mutant: the arguments in the wrong order.
InvokeSwapped(r, a, x) ==
    /\ stage[r] = "idle"
    /\ Enter(r, "peek")
    /\ target' = [target EXCEPT ![r] = <<effectiveProxy(x), a>>]
    /\ UNCHANGED <<vars, status, failed, exchanges>>

\* A handler resolved the account and its proxy: callWXApp and its siblings.
Invoke(r, a, x) ==
    /\ stage[r] = "idle"
    /\ Enter(r, "peek")
    /\ target' = [target EXCEPT ![r] = <<a, effectiveProxy(x)>>]
    /\ UNCHANGED <<vars, status, failed, exchanges>>

\* GetSession decides whether the call is tried before the refresh.
Peek(r) ==
    /\ stage[r] = "peek"
    /\ IF r \notin cancelled /\ target[r] \in live
       THEN /\ Enter(r, "first")
            /\ run(r, target[r][1], proxyOf(r))
            /\ UNCHANGED cancelled
       ELSE Enter(r, "refresh") /\ UNCHANGED vars
    /\ UNCHANGED <<target, status, failed, exchanges>>

FirstReturns(r) ==
    /\ stage[r] = "first"
    /\ \/ pc[r] = "done" /\ Enter(r, "answered")
       \/ pc[r] = "failed" /\ Enter(r, "drop")
    /\ UNCHANGED <<vars, target, status, failed, exchanges>>

\* Mutant: the failed session stays in the table.
DropNothing(r) ==
    /\ stage[r] = "drop"
    /\ Enter(r, "refresh")
    /\ UNCHANGED <<vars, target, status, failed, exchanges>>

\* InvalidateSession on the key of the call, whatever session failed.
Drop(r) ==
    /\ stage[r] = "drop"
    /\ IF r \in cancelled
       THEN UNCHANGED <<sessions, live>>
       ELSE /\ sessions' = [sessions EXCEPT ![target[r]] = None]
            /\ live' = live \ {target[r]}
    /\ Enter(r, "refresh")
    /\ UNCHANGED <<accounts, known, limits, pc, frames, cancelled>>
    /\ UNCHANGED <<target, status, failed, exchanges>>

\* refreshLiveness: under a context that is done its HTTP calls and its
\* status update fail, all of them.
RefreshSucceeds(r) ==
    /\ stage[r] = "refresh"
    /\ r \notin cancelled
    /\ status' = IF target[r][1] \in accounts
                 THEN [status EXCEPT ![target[r][1]] = "alive"] ELSE status
    /\ Enter(r, "reload")
    /\ UNCHANGED <<vars, target, failed, exchanges>>

\* Mutant: the status is written under a context of its own.
RefreshFailsDetached(r) ==
    /\ stage[r] = "refresh"
    /\ status' = IF target[r][1] \in accounts
                 THEN [status EXCEPT ![target[r][1]] = "expired"] ELSE status
    /\ Enter(r, "expired")
    /\ UNCHANGED <<vars, target, failed, exchanges>>

RefreshFails(r) ==
    /\ stage[r] = "refresh"
    /\ status' = IF target[r][1] \in accounts /\ r \notin cancelled
                 THEN [status EXCEPT ![target[r][1]] = "expired"] ELSE status
    /\ Enter(r, "expired")
    /\ UNCHANGED <<vars, target, failed, exchanges>>

\* GetAccount (its failure keeps the old record) and the second run.
Retry(r) ==
    /\ stage[r] = "reload"
    /\ Enter(r, "second")
    /\ run(r, target[r][1], proxyOf(r))
    /\ UNCHANGED <<cancelled, target, status, failed, exchanges>>

SecondReturns(r) ==
    /\ stage[r] = "second"
    /\ \/ pc[r] = "done" /\ Enter(r, "answered")
       \/ pc[r] = "failed" /\ Enter(r, "error")
    /\ UNCHANGED <<vars, target, status, failed, exchanges>>

\* Mutant: a failed send turns to the first target once more.
offeredAgain(r) ==
    IF pc[r] # "send" THEN {0}
    ELSE IF pc'[r] = "done" THEN 1..MaxTargets
    ELSE {MaxTargets + 1}

\* The targets a step of the pool hands the envelope to.  send0RTT turns to one
\* target of the session after the other while answers are lost or are not
\* application data: a send that succeeds has turned to some of them and one that
\* fails to all.  A send that fails before its first target counts as the latter.
offered(r) ==
    IF pc[r] # "send" THEN {0}
    ELSE IF pc'[r] = "done" THEN 1..MaxTargets
    ELSE {MaxTargets}

\* A step of the pool inside one of the two runs, and what it adds to the history.
InPool(r) ==
    /\ stage[r] \in Inside
    /\ Step(r)
    /\ failed' = IF pc[r] = "send" /\ pc'[r] # "done"
                 THEN [failed EXCEPT ![r] = @ \cup {held[r]}] ELSE failed
    /\ \E n \in offered(r) : exchanges' = [exchanges EXCEPT ![r] = @ + n]
    /\ UNCHANGED <<stage, target, status>>

\* The client of an unanswered call goes away.
ClientLeaves(r) ==
    /\ stage[r] \notin Resting
    /\ cancelled' = cancelled \cup {r}
    /\ UNCHANGED <<tables, limits, pc, frames, stage, target, status, failed, exchanges>>

World ==
    /\ \/ \E k \in Key : Expire(k)
       \/ \E a \in Account : DeleteAccount(a)
    /\ UNCHANGED <<stage, target, status, failed, exchanges>>
------------------------------------------------------------------------------
WxStep(r) ==
    \/ Peek(r) \/ FirstReturns(r) \/ Drop(r)
    \/ RefreshSucceeds(r) \/ RefreshFails(r)
    \/ Retry(r) \/ SecondReturns(r) \/ InPool(r)

\* Every call of the instance is over.
AllAnswered == (\A r \in Request : stage[r] \in Resting \ {"idle"}) /\ UNCHANGED wxVars

WxNext ==
    \/ \E r \in Request :
          WxStep(r) \/ ClientLeaves(r) \/ \E a \in Account, x \in Via : Invoke(r, a, x)
    \/ World
    \/ AllAnswered

WxSpec == WxInit /\ [][WxNext]_wxVars /\ \A r \in Request : WF_wxVars(WxStep(r))
------------------------------------------------------------------------------
(* Properties.                                                               *)

WxTypeOK ==
    /\ TypeOK
    /\ stage \in [Request -> Stage]
    /\ target \in [Request -> Key \cup {None}]
    /\ status \in [Account -> {"alive", "expired"}]
    /\ failed \in [Request -> SUBSET Session]
    /\ exchanges \in [Request -> Nat]

\* What docs/docs/LOGIN_AND_SESSION.md says in 7.1: a failed call invalidates
\* the session, logs in again and then runs once more.  So no exchange of a
\* call goes over a session that failed it before.  The code does not keep it
\* for a call with a proxy: the session its direct attempt failed on stays.
RetryUsesFreshSession ==
    \A r \in Request : pc[r] = "send" => held[r] \notin failed[r]

\* The part of it that the code does: a session cached under the call's own
\* proxy is never used again by a call it failed, whatever other calls for the
\* key store, invalidate or fail on meanwhile.
OwnSessionNotReused ==
    \A r \in Request :
        pc[r] = "send" /\ held[r].proxy = proxyOf(r) => held[r] \notin failed[r]

\* One HTTP request turns to a target at most once per target of the session,
\* per proxy that a run of the pool tries and per run: two runs with one attempt
\* each if the call goes directly, with two if it has a proxy.  Every target may
\* have executed the operation upstream although its answer was lost, so this
\* bounds how often a wxapp operation is executed.
BoundedRepeats ==
    \A r \in Request : target[r] # None =>
        exchanges[r] <= MaxTargets * (IF proxyOf(r) = Direct THEN 2 ELSE 4)

\* Once its client is gone, a call writes nothing: it neither removes or stores
\* a session nor marks the account expired because its own refresh was cut off.
CancelledWritesNothing ==
    [][\A r \in cancelled :
          pc'[r] # pc[r] \/ stage'[r] # stage[r] => UNCHANGED <<tables, status>>]_wxVars

\* Every invocation is answered.
EveryInvocationAnswered ==
    \A r \in Request : stage[r] = "peek" ~> stage[r] \in Resting \ {"idle"}
=============================================================================
