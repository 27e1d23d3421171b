------------------------------- MODULE Renewal -------------------------------
(***************************************************************************)
(* Renewal of the accounts' credentials: App.refreshLiveness, called by    *)
(* HTTP handlers and by the scheduler's passes, over the accounts table.   *)
(*                                                                         *)
(* A worker reads an account record first and works on that snapshot: it   *)
(* offers the refresh token of the snapshot upstream, fetches a login      *)
(* buffer with the answer, and writes credentials and status by account id *)
(* whatever the row holds by then.  Upstream may rotate the refresh token; *)
(* it accepts the one it issued last.  Credentials are told apart by the   *)
(* refresh token in them, numbered in order of issue; the login buffer is  *)
(* stored with them, and the profile columns are left out.                 *)
(*                                                                         *)
(* The clock counts the scheduler's passes, one per renewInterval.         *)
(***************************************************************************)
EXTENDS Naturals

CONSTANTS
    Account,        \* account ids
    Handler,        \* HTTP requests that refresh an account
    Scheduler,      \* the renewLoop goroutine
    MaxToken,       \* bound: refresh tokens issued per account
    MaxPasses,      \* bound: passes of the scheduler
    RenewMaxRetries,\* renewMaxRetries
    ExpiredRetry,   \* expiredRetry, in whole renewIntervals
    None            \* no row, no account

Worker == Handler \cup {Scheduler}

\* 0 stands for NULL credentials: rows older than the credentials column.
Token == 0..MaxToken
Status == {"alive", "expired", "unknown"}
Row == [cred : Token, status : Status, disabled : BOOLEAN, checked : 0..MaxPasses]
Listed == [id : Account, cred : Token]

ASSUME RenewalAssumption ==
    /\ Scheduler \notin Handler
    /\ MaxToken \in Nat
    /\ MaxPasses \in Nat \ {0}
    /\ RenewMaxRetries \in Nat \ {0}
    /\ ExpiredRetry \in Nat
    /\ None \notin Row \cup Account

VARIABLES
    row,        \* the accounts table: per id its row, or None
    accepted,   \* per account, the refresh token upstream accepts
    issued,     \* per account, how many upstream has issued
    clock,      \* the pass that is under way or was last
    wpc,        \* per worker, its next statement
    target,     \* per worker, acc.ID
    snap,       \* per worker, the token in acc.Credentials
    got,        \* per worker, the token RefreshCredentials returned
    dead,       \* workers whose context is done
    attempt,    \* renewAccount's attempt, from 1
    alive,      \* runRenew: accounts it has still to renew ...
    revive,     \* ... and recently expired ones it has still to try
    reviving,   \* the account being renewed is one of revive (history)
    expiredAt,  \* per account, the clock when it became expired (history)
    disabledAt, \* per account, the clock when it was last disabled (history)
    spoilt      \* accounts whose stored token may have been lost (history)

world == <<accepted, issued, clock>>
workers == <<wpc, target, snap, got, dead>>
pass == <<attempt, alive, revive, reviving>>
history == <<expiredAt, disabledAt, spoilt>>
renewVars == <<row, world, workers, pass, history>>

Busy == {"listAlive", "listExpired", "next", "exchange", "fetch", "storeCredential",
         "storeAlive", "markExpired", "markUnknown", "renewed", "failed"}
\* A worker has a token from upstream that it has not stored yet.
Holding == {"fetch", "storeCredential"}

RenewInit ==
    /\ row \in [Account -> {None,
                  [cred |-> 0, status |-> "unknown", disabled |-> FALSE, checked |-> 0]}]
    /\ accepted = [a \in Account |-> 0]
    /\ issued = [a \in Account |-> 0]
    /\ clock = 1
    /\ wpc = [w \in Worker |-> IF w = Scheduler THEN "listAlive" ELSE "idle"]
    /\ target = [w \in Worker |-> None]
    /\ snap = [w \in Worker |-> 0]
    /\ got = [w \in Worker |-> 0]
    /\ dead = {}
    /\ attempt = 0
    /\ alive = {}
    /\ revive = {}
    /\ reviving = FALSE
    /\ expiredAt = [a \in Account |-> 0]
    /\ disabledAt = [a \in Account |-> 0]
    /\ spoilt = {}
------------------------------------------------------------------------------
At(w, l) == wpc' = [wpc EXCEPT ![w] = l]

\* Another worker will store a token older than the one upstream issues now.
Overtaken(a, w) == \E v \in Worker \ {w} : wpc[v] \in Holding /\ target[v] = a

\* Upstream issues a new token for a: the old one is not accepted any more.
issue(a) ==
    /\ issued[a] < MaxToken
    /\ issued' = [issued EXCEPT ![a] = @ + 1]
    /\ accepted' = [accepted EXCEPT ![a] = issued[a] + 1]

\* UPDATE ... WHERE id = a under the context of w.
update(w, a, new) ==
    row' = IF w \in dead \/ row[a] = None THEN row ELSE [row EXCEPT ![a] = new]

\* refreshLiveness(acc) starts: without credentials there is nothing to offer.
begin(w, cred) == At(w, IF cred = 0 THEN "markUnknown" ELSE "exchange")

\* RefreshCredentials: upstream accepts the token and perhaps rotates it ...
ExchangeSucceeds(w) ==
    /\ wpc[w] = "exchange"
    /\ w \notin dead
    /\ snap[w] = accepted[target[w]]
    /\ \/ /\ got' = [got EXCEPT ![w] = snap[w]]
          /\ UNCHANGED <<issued, accepted, spoilt>>
       \/ /\ issue(target[w])
          /\ got' = [got EXCEPT ![w] = issued[target[w]] + 1]
          /\ spoilt' = IF Overtaken(target[w], w) THEN spoilt \cup {target[w]} ELSE spoilt
    /\ At(w, "fetch")
    /\ UNCHANGED <<row, clock, target, snap, dead, pass, expiredAt, disabledAt>>

\* ... or it refuses, or no answer comes within the client's timeout, although
\* upstream may have rotated the token.
ExchangeFails(w) ==
    /\ wpc[w] = "exchange"
    /\ \/ UNCHANGED <<issued, accepted, spoilt>>
       \/ /\ snap[w] = accepted[target[w]]
          /\ issue(target[w])
          /\ spoilt' = spoilt \cup {target[w]}
    /\ At(w, "markExpired")
    /\ UNCHANGED <<row, clock, target, snap, got, dead, pass, expiredAt, disabledAt>>

\* The token w holds is not going to be stored.
drop(w) == spoilt' = IF got[w] # snap[w] THEN spoilt \cup {target[w]} ELSE spoilt

FetchSucceeds(w) ==
    /\ wpc[w] = "fetch"
    /\ w \notin dead
    /\ At(w, "storeCredential")
    /\ UNCHANGED <<row, world, target, snap, got, dead, pass, history>>

\* FetchLoginBuffer failed: the refreshed credentials go with the error.
FetchFails(w) ==
    /\ wpc[w] = "fetch"
    /\ At(w, "markExpired")
    /\ drop(w)
    /\ UNCHANGED <<row, world, target, snap, got, dead, pass, expiredAt, disabledAt>>

\* Mutant: the credentials that were sent are stored, not the refreshed ones.
StoreCredentialSent(w) ==
    /\ wpc[w] = "storeCredential"
    /\ update(w, target[w], [row[target[w]] EXCEPT !.cred = snap[w]])
    /\ IF w \in dead THEN drop(w) ELSE UNCHANGED spoilt
    /\ At(w, "storeAlive")
    /\ UNCHANGED <<world, target, snap, got, dead, pass, expiredAt, disabledAt>>

\* SetAccountCredential; its error is dropped.
StoreCredential(w) ==
    /\ wpc[w] = "storeCredential"
    /\ update(w, target[w], [row[target[w]] EXCEPT !.cred = got[w]])
    /\ IF w \in dead THEN drop(w) ELSE UNCHANGED spoilt
    /\ At(w, "storeAlive")
    /\ UNCHANGED <<world, target, snap, got, dead, pass, expiredAt, disabledAt>>

\* SetAccountStatus sets last_checked_at too.
setStatus(w, s) ==
    /\ update(w, target[w], [row[target[w]] EXCEPT !.status = s, !.checked = clock])
    /\ expiredAt' = [expiredAt EXCEPT ![target[w]] =
          IF row' # row /\ s = "expired" /\ row[target[w]].status # s THEN clock ELSE @]
    /\ UNCHANGED <<world, target, snap, got, dead, pass, disabledAt, spoilt>>

StoreAlive(w) ==
    /\ wpc[w] = "storeAlive"
    /\ setStatus(w, "alive")
    /\ At(w, "renewed")

\* Mutant: the failure is recorded under a context of its own.
MarkExpiredDetached(w) ==
    /\ wpc[w] = "markExpired"
    /\ IF row[target[w]] = None THEN UNCHANGED row
       ELSE row' = [row EXCEPT ![target[w]].status = "expired", ![target[w]].checked = clock]
    /\ At(w, "failed")
    /\ UNCHANGED <<world, target, snap, got, dead, pass, history>>

MarkExpired(w) ==
    /\ wpc[w] = "markExpired"
    /\ setStatus(w, "expired")
    /\ At(w, "failed")

MarkUnknown(w) ==
    /\ wpc[w] = "markUnknown"
    /\ setStatus(w, "unknown")
    /\ At(w, "failed")
------------------------------------------------------------------------------
(* The HTTP handlers: /accounts/refresh, /accounts/batch, /heart and the     *)
(* others that resolve an account and refresh it.                            *)

Refresh(h, a) ==
    /\ wpc[h] = "idle"
    /\ row[a] # None
    /\ target' = [target EXCEPT ![h] = a]
    /\ snap' = [snap EXCEPT ![h] = row[a].cred]
    /\ got' = [got EXCEPT ![h] = 0]
    /\ begin(h, row[a].cred)
    /\ UNCHANGED <<row, world, dead, pass, history>>

Answer(h) ==
    /\ wpc[h] \in {"renewed", "failed"}
    /\ At(h, "done")
    /\ UNCHANGED <<row, world, target, snap, got, dead, pass, history>>
------------------------------------------------------------------------------
(* The scheduler: runRenew and renewAccount.                                 *)

\* The ticker fires (a tick during a pass is taken when the pass is over): a new
\* context of 25 minutes.
StartPass ==
    /\ wpc[Scheduler] = "idle"
    /\ clock < MaxPasses
    /\ clock' = clock + 1
    /\ dead' = dead \ {Scheduler}
    /\ At(Scheduler, "listAlive")
    /\ UNCHANGED <<row, accepted, issued, target, snap, got, pass, history>>

\* The snapshot of the accounts in S (their order is left out).
snapshot(S) == {[id |-> a, cred |-> row[a].cred] : a \in S}

ListAliveAccounts ==
    /\ wpc[Scheduler] = "listAlive"
    /\ IF Scheduler \in dead
       THEN At(Scheduler, "idle") /\ UNCHANGED alive
       ELSE /\ alive' = snapshot({a \in Account :
                          row[a] # None /\ row[a].status = "alive" /\ ~row[a].disabled})
            /\ At(Scheduler, "listExpired")
    /\ UNCHANGED <<row, world, target, snap, got, dead, attempt, revive, reviving, history>>

\* Not alive, and checked within the last expiredRetry (0: never checked, NULL).
recentlyExpired(a) ==
    /\ row[a] # None
    /\ row[a].status # "alive"
    /\ row[a].checked # 0
    /\ row[a].checked + ExpiredRetry >= clock

\* Mutant: the second query forgets the disabled flag.
ListRecentlyExpiredAll ==
    /\ wpc[Scheduler] = "listExpired"
    /\ revive' = snapshot({a \in Account : recentlyExpired(a)})
    /\ At(Scheduler, "next")
    /\ UNCHANGED <<row, world, target, snap, got, dead, attempt, alive, reviving, history>>

\* Its error leaves the list empty.
ListRecentlyExpired ==
    /\ wpc[Scheduler] = "listExpired"
    /\ revive' = IF Scheduler \in dead THEN {}
                 ELSE snapshot({a \in Account : recentlyExpired(a) /\ ~row[a].disabled})
    /\ At(Scheduler, "next")
    /\ UNCHANGED <<row, world, target, snap, got, dead, attempt, alive, reviving, history>>

take(acc) ==
    /\ target' = [target EXCEPT ![Scheduler] = acc.id]
    /\ snap' = [snap EXCEPT ![Scheduler] = acc.cred]
    /\ got' = [got EXCEPT ![Scheduler] = 0]
    /\ attempt' = 1
    /\ begin(Scheduler, acc.cred)

\* The loops of runRenew: first the alive accounts, then the expired ones,
\* whether or not the context is done.
TakeNext ==
    /\ wpc[Scheduler] = "next"
    /\ \/ \E acc \in alive :
             /\ take(acc)
             /\ alive' = alive \ {acc}
             /\ reviving' = FALSE
             /\ UNCHANGED revive
       \/ /\ alive = {}
          /\ \E acc \in revive :
                /\ take(acc)
                /\ revive' = revive \ {acc}
                /\ reviving' = TRUE
                /\ UNCHANGED alive
    /\ UNCHANGED <<row, world, dead, history>>

EndPass ==
    /\ wpc[Scheduler] = "next"
    /\ alive = {} /\ revive = {}
    /\ At(Scheduler, "idle")
    /\ UNCHANGED <<row, world, target, snap, got, dead, pass, history>>

\* Mutant: the attempts are not counted.
NextAttemptUncounted ==
    /\ wpc[Scheduler] \in {"renewed", "failed"}
    /\ IF wpc[Scheduler] = "failed" THEN begin(Scheduler, snap[Scheduler])
       ELSE At(Scheduler, "next")
    /\ UNCHANGED <<row, world, target, snap, got, dead, pass, history>>

\* Mutant: one attempt too many.
NextAttemptOneMore ==
    /\ wpc[Scheduler] \in {"renewed", "failed"}
    /\ IF wpc[Scheduler] = "failed" /\ attempt <= RenewMaxRetries
       THEN attempt' = attempt + 1 /\ begin(Scheduler, snap[Scheduler])
       ELSE At(Scheduler, "next") /\ UNCHANGED attempt
    /\ UNCHANGED <<row, world, target, snap, got, dead, alive, revive, reviving, history>>

\* renewAccount after an attempt: again with the same snapshot, or on.
NextAttempt ==
    /\ wpc[Scheduler] \in {"renewed", "failed"}
    /\ IF wpc[Scheduler] = "failed" /\ attempt < RenewMaxRetries
       THEN attempt' = attempt + 1 /\ begin(Scheduler, snap[Scheduler])
       ELSE At(Scheduler, "next") /\ UNCHANGED attempt
    /\ UNCHANGED <<row, world, target, snap, got, dead, alive, revive, reviving, history>>
------------------------------------------------------------------------------
(* The rest of the program, and the world.                                   *)

\* storeFromScan: a scan brings a token of its own, and the upsert replaces the
\* credentials and the status and keeps the other columns.  Ids of deleted
\* accounts are not reused.  That upstream issues the token a little earlier
\* makes renewals in between fail, which they may anyway.
Scan(a) ==
    /\ row[a] # None \/ issued[a] = 0
    /\ issue(a)
    /\ row' = [row EXCEPT ![a] =
          IF @ = None
          THEN [cred |-> issued[a] + 1, status |-> "alive", disabled |-> FALSE, checked |-> 0]
          ELSE [@ EXCEPT !.cred = issued[a] + 1, !.status = "alive"]]
    /\ spoilt' = IF \E v \in Worker : wpc[v] \in Holding /\ target[v] = a
                 THEN spoilt \cup {a} ELSE spoilt \ {a}
    /\ UNCHANGED <<clock, workers, pass, expiredAt, disabledAt>>

SetAccountDisabled(a) ==
    /\ row[a] # None
    /\ row' = [row EXCEPT ![a].disabled = ~@]
    /\ disabledAt' = [disabledAt EXCEPT ![a] = IF row[a].disabled THEN @ ELSE clock]
    /\ UNCHANGED <<world, workers, pass, expiredAt, spoilt>>

DeleteAccount(a) ==
    /\ row[a] # None
    /\ issued[a] > 0
    /\ row' = [row EXCEPT ![a] = None]
    /\ UNCHANGED <<world, workers, pass, history>>

\* The client of a handler leaves, or the 25 minutes of a pass are over.
Timeout(w) ==
    /\ wpc[w] \in Busy
    /\ dead' = dead \cup {w}
    /\ UNCHANGED <<row, world, wpc, target, snap, got, pass, history>>

\* The process dies and is started again an interval later (the clock bounds the
\* number of restarts); the new process begins with a pass.
RestartProcess ==
    /\ clock < MaxPasses
    /\ clock' = clock + 1
    /\ wpc' = [w \in Worker |-> IF w = Scheduler THEN "listAlive"
                                ELSE IF wpc[w] \in Busy THEN "done" ELSE wpc[w]]
    /\ dead' = {}
    /\ alive' = {} /\ revive' = {}
    /\ spoilt' = spoilt \cup
          {target[w] : w \in {v \in Worker : wpc[v] \in Holding /\ got[v] # snap[v]}}
    /\ UNCHANGED <<row, accepted, issued, target, snap, got, attempt, reviving,
                   expiredAt, disabledAt>>
------------------------------------------------------------------------------
refreshLiveness(w) ==
    \/ ExchangeSucceeds(w) \/ ExchangeFails(w) \/ FetchSucceeds(w) \/ FetchFails(w)
    \/ StoreCredential(w) \/ StoreAlive(w) \/ MarkExpired(w) \/ MarkUnknown(w)

runRenew ==
    \/ ListAliveAccounts \/ ListRecentlyExpired \/ TakeNext \/ EndPass \/ NextAttempt
    \/ refreshLiveness(Scheduler)

\* All passes and all handlers of the instance are over.
AllQuiet ==
    /\ clock = MaxPasses
    /\ \A w \in Worker : wpc[w] \notin Busy
    /\ UNCHANGED renewVars

RenewNext ==
    \/ StartPass \/ runRenew
    \/ \E h \in Handler :
          refreshLiveness(h) \/ Answer(h) \/ \E a \in Account : Refresh(h, a)
    \/ \E a \in Account : Scan(a) \/ SetAccountDisabled(a) \/ DeleteAccount(a)
    \/ \E w \in Worker : Timeout(w)
    \/ RestartProcess
    \/ AllQuiet

RenewSpec == RenewInit /\ [][RenewNext]_renewVars

\* The goroutine of a pass runs on; its exchanges end with the client's timeout.
FairRenewSpec == RenewSpec /\ WF_renewVars(runRenew)
------------------------------------------------------------------------------
(* Properties.                                                               *)

RenewTypeOK ==
    /\ row \in [Account -> Row \cup {None}]
    /\ accepted \in [Account -> Token]
    /\ issued \in [Account -> Token]
    /\ clock \in 1..MaxPasses
    /\ wpc \in [Worker -> Busy \cup {"idle", "done"}]
    /\ target \in [Worker -> Account \cup {None}]
    /\ snap \in [Worker -> Token]
    /\ got \in [Worker -> Token]
    /\ dead \subseteq Worker
    /\ attempt \in 0..RenewMaxRetries
    /\ alive \subseteq Listed
    /\ revive \subseteq Listed
    /\ reviving \in BOOLEAN
    /\ expiredAt \in [Account -> 0..MaxPasses]
    /\ disabledAt \in [Account -> 0..MaxPasses]
    /\ spoilt \subseteq Account

\* Handlers and the scheduler renew the same account from snapshots, without a
\* lock.  The refresh token stored for an account is nevertheless the one
\* upstream accepts, unless a rotated one was dropped on the way (a lost
\* answer, FetchLoginBuffer failed, the context or the process ended before
\* SetAccountCredential) or overwritten by a renewal that was overtaken.
TokenKept ==
    \A a \in Account :
        \/ row[a] = None
        \/ a \in spoilt
        \/ \E w \in Worker : wpc[w] \in Holding /\ target[w] = a
        \/ row[a].cred = accepted[a]

\* A worker whose context is done writes nothing: a pass that ran out of its 25
\* minutes does not mark the accounts it did not get to as expired.
TimedOutWritesNothing ==
    [][\A w \in dead : wpc'[w] # wpc[w] /\ w \in dead' => UNCHANGED row]_renewVars

\* A disabled account is renewed at most by the pass that was under way when it
\* was disabled.
DisabledRestsNextPass ==
    wpc[Scheduler] \in {"exchange", "fetch", "storeCredential", "storeAlive"} =>
        LET a == target[Scheduler] IN
        row[a] # None /\ row[a].disabled => disabledAt[a] = clock

\* Every pass ends, whatever fails, so the next tick finds the loop waiting.
PassEnds == wpc[Scheduler] = "listAlive" ~> wpc[Scheduler] = "idle"

\* scheduler.go:14 says an expired account is tried for one hour after it
\* expired.  Each failed attempt sets last_checked_at, so it is tried for ever.
RevivalWindow ==
    wpc[Scheduler] = "exchange" /\ reviving /\ row[target[Scheduler]] # None
    /\ row[target[Scheduler]].status = "expired" =>
        expiredAt[target[Scheduler]] + ExpiredRetry >= clock

\* docs/docs/LOGIN_AND_SESSION.md 7.2 says an account is marked expired when its
\* credentials cannot be refreshed.  The code marks it also when the credentials
\* of an old snapshot cannot, although the row has newer ones by then.
ExpiredIsAboutTheRow ==
    [][\A w \in Worker :
          wpc[w] = "markExpired" /\ wpc'[w] = "failed" /\ row' # row =>
              row[target[w]].cred = snap[w]]_renewVars
=============================================================================
