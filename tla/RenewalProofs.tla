---------------------------- MODULE RenewalProofs ----------------------------
(***************************************************************************)
(* Proofs about Renewal: workers renew accounts from snapshots without a   *)
(* lock, and the token upstream accepts is stored unless one of the named  *)
(* losses happened; a pass out of time writes nothing; a disabled account  *)
(* is not renewed by the next pass.                                        *)
(***************************************************************************)
EXTENDS Renewal, TLAPS

\* A worker has an account.
Working == {"exchange", "fetch", "storeCredential", "storeAlive", "markExpired", "markUnknown",
            "renewed", "failed"}

Records ==
    /\ row \in [Account -> Row \cup {None}]
    /\ accepted \in [Account -> Token] /\ issued = accepted
    /\ spoilt \subseteq Account
    /\ clock \in 1..MaxPasses /\ disabledAt \in [Account -> Nat]

Workers ==
    /\ wpc \in [Worker -> Busy \cup {"idle", "done"}]
    /\ target \in [Worker -> Account \cup {None}]
    /\ dead \subseteq Worker
    /\ snap \in [Worker -> Token] /\ got \in [Worker -> Token]
    /\ alive \subseteq Listed /\ revive \subseteq Listed
    /\ \A w \in Worker : wpc[w] \in Working => target[w] \in Account

Renews(w, a) == wpc[w] \in Holding /\ target[w] = a

\* The token a worker is going to store is the one upstream accepts.
Current ==
    \A w \in Worker : wpc[w] \in Holding =>
        target[w] \in spoilt \/ got[w] = accepted[target[w]]

\* The token upstream accepts is stored, or held by a worker that got it new:
\* one that dropped its token would spoil the account.
StoredOrHeld ==
    \A a \in Account :
        \/ row[a] = None
        \/ a \in spoilt
        \/ row[a].cred = accepted[a]
        \/ \E w \in Worker : Renews(w, a) /\ got[w] # snap[w]

\* An account that is to be renewed in this pass was enabled when the pass began.
ListedEnabled ==
    /\ wpc[Scheduler] \in {"idle", "listAlive"} => alive = {} /\ revive = {}
    /\ wpc[Scheduler] = "listExpired" => revive = {}
    /\ \A acc \in alive \cup revive :
          row[acc.id] # None /\ row[acc.id].disabled => disabledAt[acc.id] = clock
    /\ wpc[Scheduler] \in Working =>
          LET a == target[Scheduler] IN
          row[a] # None /\ row[a].disabled => disabledAt[a] = clock

RenewInv == Records /\ Workers /\ Current /\ StoredOrHeld /\ ListedEnabled
------------------------------------------------------------------------------
(* Each action.                                                              *)

LEMMA WrittenRow ==
    ASSUME NEW r \in Row
    PROVE  /\ \A s \in Status, c \in 0..MaxPasses : [r EXCEPT !.status = s, !.checked = c] \in Row
           /\ \A t \in Token : [r EXCEPT !.cred = t, !.status = "alive"] \in Row
           /\ [r EXCEPT !.disabled = ~r.disabled] \in Row
BY DEF Row, Status

LEMMA ExchangeSucceedsKeeps == ASSUME RenewInv, NEW w \in Worker, ExchangeSucceeds(w) PROVE RenewInv'
<1> USE RenewalAssumption DEF RenewInv, ExchangeSucceeds, At, issue, Overtaken, Row, Token, Status, Listed, Worker, world, workers, pass, history
<1>1. Records'
  BY DEF Records, Workers, Working
<1>2. Workers'
  BY DEF Records, Workers, Busy, Working
<1>3. Current'
  BY DEF Records, Workers, Current, Holding, Working
<1>4. StoredOrHeld'
  BY DEF Records, Workers, Current, StoredOrHeld, Renews, Holding, Working
<1>5. ListedEnabled'
  BY DEF Records, Workers, ListedEnabled, Working
<1>. QED  BY <1>1, <1>2, <1>3, <1>4, <1>5

LEMMA ExchangeFailsKeeps == ASSUME RenewInv, NEW w \in Worker, ExchangeFails(w) PROVE RenewInv'
<1> USE RenewalAssumption DEF RenewInv, ExchangeFails, At, issue, Row, Token, Status, Listed, Worker, world, workers, pass, history
<1>1. Records'
  BY DEF Records, Workers, Working
<1>2. Workers'
  BY DEF Records, Workers, Busy, Working
<1>3. Current'
  BY DEF Records, Workers, Current, Holding, Working
<1>4. StoredOrHeld'
  BY DEF Records, Workers, Current, StoredOrHeld, Renews, Holding, Working
<1>5. ListedEnabled'
  BY DEF Records, Workers, ListedEnabled, Working
<1>. QED  BY <1>1, <1>2, <1>3, <1>4, <1>5

LEMMA FetchSucceedsKeeps == ASSUME RenewInv, NEW w \in Worker, FetchSucceeds(w) PROVE RenewInv'
BY RenewalAssumption
   DEF RenewInv, Records, Workers, Current, StoredOrHeld, ListedEnabled, Renews, Holding, Working, Busy,
       FetchSucceeds, At, Row, Token, Status, Listed, Worker, world, workers, pass, history

LEMMA FetchFailsKeeps == ASSUME RenewInv, NEW w \in Worker, FetchFails(w) PROVE RenewInv'
<1> USE RenewalAssumption DEF RenewInv, FetchFails, At, drop, Row, Token, Status, Listed, Worker, world, workers, pass, history
<1>1. Records'
  BY DEF Records, Workers, Working
<1>2. Workers'
  BY DEF Records, Workers, Busy, Working
<1>3. Current'
  BY DEF Records, Workers, Current, Holding, Working
<1>4. StoredOrHeld'
  BY DEF Records, Workers, Current, StoredOrHeld, Renews, Holding, Working
<1>5. ListedEnabled'
  BY DEF Records, Workers, ListedEnabled, Working
<1>. QED  BY <1>1, <1>2, <1>3, <1>4, <1>5

LEMMA StoreCredentialKeeps == ASSUME RenewInv, NEW w \in Worker, StoreCredential(w) PROVE RenewInv'
<1> USE RenewalAssumption DEF RenewInv, StoreCredential, At, update, drop, Row, Token, Status, Listed, Worker, world, workers, pass, history
<1>1. Records'
  BY DEF Records, Workers, Working
<1>2. Workers'
  BY DEF Records, Workers, Busy, Working
<1>3. Current'
  BY DEF Records, Workers, Current, Holding, Working
<1>4. StoredOrHeld'
  BY DEF Records, Workers, Current, StoredOrHeld, Renews, Holding, Working
<1>5. ListedEnabled'
  BY DEF Records, Workers, ListedEnabled, Working
<1>. QED  BY <1>1, <1>2, <1>3, <1>4, <1>5

LEMMA StatusKeeps ==
    ASSUME RenewInv, NEW w \in Worker, NEW st \in Status, NEW l \in {"renewed", "failed"},
           wpc[w] \in Working \ Holding, setStatus(w, st), At(w, l)
    PROVE  RenewInv'
<1> USE RenewalAssumption DEF RenewInv, At, setStatus, update, Token, Listed, Worker, world, workers, pass
<1>1. Records'
  <2>1. target[w] \in Account /\ row' \in {row, [row EXCEPT ![target[w]] =
           [row[target[w]] EXCEPT !.status = st, !.checked = clock]]}
    BY DEF Workers, Working
  <2>2. clock \in 0..MaxPasses
    BY DEF Records
  <2>3. row[target[w]] # None =>
          [row[target[w]] EXCEPT !.status = st, !.checked = clock] \in Row
    BY <2>1, <2>2, WrittenRow DEF Records
  <2>4. row' \in [Account -> Row \cup {None}]
    <3>1. row \in [Account -> Row \cup {None}]
      BY DEF Records
    <3>2. row' = row \/ row[target[w]] # None
      OBVIOUS
    <3>. QED  BY <2>1, <2>3, <3>1, <3>2
  <2>. QED  BY <2>4 DEF Records
<1>2. Workers'
  BY DEF Records, Workers, Busy, Working
<1>3. Current'
  BY DEF Records, Workers, Current, Holding, Working
<1>4. StoredOrHeld'
  BY DEF Row, Status, Records, Workers, Current, StoredOrHeld, Renews, Holding, Working
<1>5. ListedEnabled'
  BY DEF Row, Status, Records, Workers, ListedEnabled, Working
<1>. QED  BY <1>1, <1>2, <1>3, <1>4, <1>5

LEMMA StatusesKeep ==
    ASSUME RenewInv, NEW w \in Worker, StoreAlive(w) \/ MarkExpired(w) \/ MarkUnknown(w)
    PROVE  RenewInv'
BY StatusKeeps DEF StoreAlive, MarkExpired, MarkUnknown, Working, Holding, Status

LEMMA RefreshKeeps == ASSUME RenewInv, NEW h \in Handler, NEW a \in Account, Refresh(h, a) PROVE RenewInv'
BY RenewalAssumption
   DEF RenewInv, Records, Workers, Current, StoredOrHeld, ListedEnabled, Renews, Holding, Working, Busy,
       Refresh, At, begin, Row, Token, Status, Listed, Worker, world, workers, pass, history

LEMMA AnswerKeeps == ASSUME RenewInv, NEW h \in Handler, Answer(h) PROVE RenewInv'
BY RenewalAssumption
   DEF RenewInv, Records, Workers, Current, StoredOrHeld, ListedEnabled, Renews, Holding, Working, Busy,
       Answer, At, Row, Token, Status, Listed, Worker, world, workers, pass, history

LEMMA StartPassKeeps == ASSUME RenewInv, StartPass PROVE RenewInv'
BY RenewalAssumption
   DEF RenewInv, Records, Workers, Current, StoredOrHeld, ListedEnabled, Renews, Holding, Working, Busy,
       StartPass, At, Row, Token, Status, Listed, Worker, world, workers, pass, history

LEMMA ListAliveAccountsKeeps == ASSUME RenewInv, ListAliveAccounts PROVE RenewInv'
BY RenewalAssumption
   DEF RenewInv, Records, Workers, Current, StoredOrHeld, ListedEnabled, Renews, Holding, Working, Busy,
       ListAliveAccounts, At, snapshot, Row, Token, Status, Listed, Worker, world, workers, pass, history

LEMMA ListRecentlyExpiredKeeps == ASSUME RenewInv, ListRecentlyExpired PROVE RenewInv'
BY RenewalAssumption
   DEF RenewInv, Records, Workers, Current, StoredOrHeld, ListedEnabled, Renews, Holding, Working, Busy,
       ListRecentlyExpired, At, snapshot, recentlyExpired, Row, Token, Status, Listed, Worker, world, workers, pass, history

LEMMA TakeNextKeeps == ASSUME RenewInv, TakeNext PROVE RenewInv'
BY RenewalAssumption
   DEF RenewInv, Records, Workers, Current, StoredOrHeld, ListedEnabled, Renews, Holding, Working, Busy,
       TakeNext, At, take, begin, Row, Token, Status, Listed, Worker, world, workers, pass, history

LEMMA EndPassKeeps == ASSUME RenewInv, EndPass PROVE RenewInv'
BY RenewalAssumption
   DEF RenewInv, Records, Workers, Current, StoredOrHeld, ListedEnabled, Renews, Holding, Working, Busy,
       EndPass, At, Row, Token, Status, Listed, Worker, world, workers, pass, history

LEMMA NextAttemptKeeps == ASSUME RenewInv, NextAttempt PROVE RenewInv'
BY RenewalAssumption
   DEF RenewInv, Records, Workers, Current, StoredOrHeld, ListedEnabled, Renews, Holding, Working, Busy,
       NextAttempt, At, begin, Row, Token, Status, Listed, Worker, world, workers, pass, history

LEMMA ScanKeeps == ASSUME RenewInv, NEW a \in Account, Scan(a) PROVE RenewInv'
<1> USE RenewalAssumption DEF RenewInv, Scan, At, issue, Token, Listed, Worker, world, workers, pass, history
<1>1. Records'
  <2>1. issued[a] + 1 \in Token /\ 0 \in 0..MaxPasses
    BY DEF Records
  <2>2. [cred |-> issued[a] + 1, status |-> "alive", disabled |-> FALSE, checked |-> 0] \in Row
    BY <2>1 DEF Row, Status
  <2>3. row[a] # None => [row[a] EXCEPT !.cred = issued[a] + 1, !.status = "alive"] \in Row
    BY <2>1, WrittenRow DEF Records
  <2>4. row' \in [Account -> Row \cup {None}]
    BY <2>2, <2>3 DEF Records
  <2>. QED  BY <2>1, <2>4 DEF Records
<1>2. Workers'
  BY DEF Records, Workers, Busy, Working
<1>3. Current'
  BY DEF Records, Workers, Current, Holding, Working
<1>4. StoredOrHeld'
  BY DEF Row, Status, Records, Workers, Current, StoredOrHeld, Renews, Holding, Working
<1>5. ListedEnabled'
  BY DEF Row, Status, Records, Workers, ListedEnabled, Working
<1>. QED  BY <1>1, <1>2, <1>3, <1>4, <1>5

LEMMA SetAccountDisabledKeeps == ASSUME RenewInv, NEW a \in Account, SetAccountDisabled(a) PROVE RenewInv'
<1> USE RenewalAssumption DEF RenewInv, SetAccountDisabled, At, Token, Listed, Worker, world, workers, pass, history
<1>1. Records'
  <2>1. row' \in [Account -> Row \cup {None}]
    BY WrittenRow DEF Records
  <2>. QED  BY <2>1 DEF Records
<1>2. Workers'
  BY DEF Records, Workers, Busy, Working
<1>3. Current'
  BY DEF Records, Workers, Current, Holding, Working
<1>4. StoredOrHeld'
  BY DEF Row, Status, Records, Workers, Current, StoredOrHeld, Renews, Holding, Working
<1>5. ListedEnabled'
  BY DEF Row, Status, Records, Workers, ListedEnabled, Working
<1>. QED  BY <1>1, <1>2, <1>3, <1>4, <1>5

LEMMA DeleteAccountKeeps == ASSUME RenewInv, NEW a \in Account, DeleteAccount(a) PROVE RenewInv'
BY RenewalAssumption
   DEF RenewInv, Records, Workers, Current, StoredOrHeld, ListedEnabled, Renews, Holding, Working, Busy,
       DeleteAccount, At, Row, Token, Status, Listed, Worker, world, workers, pass, history

LEMMA TimeoutKeeps == ASSUME RenewInv, NEW w \in Worker, Timeout(w) PROVE RenewInv'
BY RenewalAssumption
   DEF RenewInv, Records, Workers, Current, StoredOrHeld, ListedEnabled, Renews, Holding, Working, Busy,
       Timeout, At, Row, Token, Status, Listed, Worker, world, workers, pass, history

LEMMA RestartProcessKeeps == ASSUME RenewInv, RestartProcess PROVE RenewInv'
<1> USE RenewalAssumption DEF RenewInv, RestartProcess, At, Row, Token, Status, Listed, Worker, world, workers, pass, history
<1>1. Records'
  <2>1. spoilt' \subseteq Account
    BY DEF Records, Workers, Working, Holding
  <2>2. clock' \in 1..MaxPasses
    BY DEF Records
  <2>. QED  BY <2>1, <2>2 DEF Records
<1>2. Workers'
  BY DEF Records, Workers, Busy, Working
<1>3. Current'
  BY DEF Records, Workers, Current, Holding, Working
<1>4. StoredOrHeld'
  BY DEF Records, Workers, Current, StoredOrHeld, Renews, Holding, Working
<1>5. ListedEnabled'
  BY DEF Records, Workers, ListedEnabled, Working
<1>. QED  BY <1>1, <1>2, <1>3, <1>4, <1>5
------------------------------------------------------------------------------
(* The theorems.                                                             *)

LEMMA RenewStarts == RenewInit => RenewInv
<1> SUFFICES ASSUME RenewInit PROVE RenewInv
  OBVIOUS
<1> USE RenewalAssumption DEF RenewInit
<1> DEFINE new == [cred |-> 0, status |-> "unknown", disabled |-> FALSE, checked |-> 0]
<1>1. new \in Row /\ new.cred = 0 /\ ~new.disabled /\ 0 \in Token
  BY DEF Row, Token, Status
<1>2. \A a \in Account : row[a] \in {new, None}
  OBVIOUS
<1>3. Records
  <2>1. row \in [Account -> Row \cup {None}]
    BY <1>1, <1>2
  <2>. QED  BY <1>1, <2>1 DEF Records
<1>4. Workers
  BY <1>1 DEF Workers, Working, Busy
<1>5. Current
  BY DEF Current, Holding
<1>6. StoredOrHeld
  BY <1>1, <1>2 DEF StoredOrHeld
<1>7. ListedEnabled
  BY DEF ListedEnabled, Working, Worker
<1>. QED  BY <1>3, <1>4, <1>5, <1>6, <1>7 DEF RenewInv

LEMMA RenewKeeps == RenewInv /\ [RenewNext]_renewVars => RenewInv'
<1> SUFFICES ASSUME RenewInv, [RenewNext]_renewVars PROVE RenewInv'
  OBVIOUS
<1>1. ASSUME NEW w \in Worker, refreshLiveness(w) PROVE RenewInv'
  BY <1>1, ExchangeSucceedsKeeps, ExchangeFailsKeeps, FetchSucceedsKeeps, FetchFailsKeeps,
     StoreCredentialKeeps, StatusesKeep DEF refreshLiveness
<1>2. CASE StartPass \/ runRenew
  BY <1>1, <1>2, StartPassKeeps, ListAliveAccountsKeeps, ListRecentlyExpiredKeeps, TakeNextKeeps,
     EndPassKeeps, NextAttemptKeeps DEF runRenew, Worker
<1>3. ASSUME NEW h \in Handler,
             refreshLiveness(h) \/ Answer(h) \/ \E a \in Account : Refresh(h, a)
      PROVE  RenewInv'
  BY <1>1, <1>3, AnswerKeeps, RefreshKeeps DEF Worker
<1>4. ASSUME NEW a \in Account, Scan(a) \/ SetAccountDisabled(a) \/ DeleteAccount(a) PROVE RenewInv'
  BY <1>4, ScanKeeps, SetAccountDisabledKeeps, DeleteAccountKeeps
<1>5. ASSUME NEW w \in Worker, Timeout(w) PROVE RenewInv'
  BY <1>5, TimeoutKeeps
<1>6. CASE RestartProcess
  BY <1>6, RestartProcessKeeps
<1>7. CASE AllQuiet \/ UNCHANGED renewVars
  BY <1>7 DEF AllQuiet, renewVars, world, workers, pass, history, RenewInv, Records, Workers, Current,
     StoredOrHeld, ListedEnabled, Renews
<1>. QED  BY <1>2, <1>3, <1>4, <1>5, <1>6, <1>7 DEF RenewNext

\* Every reachable state: a token held by a worker is the one upstream accepts, or
\* its account is known to have lost one.
THEOREM RenewalSound == RenewSpec => []RenewInv
<1>. QED  BY RenewStarts, RenewKeeps, PTL DEF RenewSpec

\* However handlers and the scheduler overtake each other, the token stored for an
\* account is the accepted one, unless a rotated one was dropped or overwritten.
THEOREM TokensAreKept == RenewSpec => []TokenKept
<1>1. RenewInv => TokenKept
  BY DEF RenewInv, StoredOrHeld, Renews, TokenKept
<1>. QED  BY <1>1, RenewalSound, PTL

\* A disabled account is renewed at most by the pass during which it was disabled.
THEOREM DisabledAccountsRest == RenewSpec => []DisabledRestsNextPass
<1>1. RenewInv => DisabledRestsNextPass
  BY DEF RenewInv, ListedEnabled, Working, DisabledRestsNextPass
<1>. QED  BY <1>1, RenewalSound, PTL

\* A worker whose context is done changes no row: a pass out of time does not mark
\* the accounts that it did not get to.
THEOREM NoLateWrites == RenewSpec => TimedOutWritesNothing
<1>1. ASSUME RenewInv, [RenewNext]_renewVars, NEW w \in dead, wpc'[w] # wpc[w], w \in dead'
      PROVE  UNCHANGED row
  <2>1. ASSUME NEW v \in Worker, refreshLiveness(v) PROVE UNCHANGED row
    <3>1. v = w
      BY <1>1, <2>1 DEF refreshLiveness, ExchangeSucceeds, ExchangeFails, FetchSucceeds, FetchFails,
         StoreCredential, StoreAlive, MarkExpired, MarkUnknown, At, RenewInv, Workers
    <3>. QED  BY <1>1, <2>1, <3>1 DEF refreshLiveness, ExchangeSucceeds, ExchangeFails, FetchSucceeds,
         FetchFails, StoreCredential, StoreAlive, MarkExpired, MarkUnknown, setStatus, update
  <2>. QED  BY <1>1, <2>1
            DEF RenewNext, StartPass, runRenew, ListAliveAccounts, ListRecentlyExpired, TakeNext, EndPass,
                NextAttempt, Answer, Refresh, Scan, SetAccountDisabled, DeleteAccount, Timeout,
                RestartProcess, AllQuiet, renewVars, workers, Worker
<1>2. RenewInv /\ [RenewNext]_renewVars =>
        [\A w \in dead : wpc'[w] # wpc[w] /\ w \in dead' => UNCHANGED row]_renewVars
  BY <1>1
<1>. QED  BY <1>2, RenewalSound, PTL DEF RenewSpec, TimedOutWritesNothing
==============================================================================
