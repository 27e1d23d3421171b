------------------------------ MODULE Accounts ------------------------------
(***************************************************************************)
(* Account administration: the handlers of /accounts/* and /accounts/batch *)
(* over the accounts table, and the proxies table with its handlers.       *)
(*                                                                         *)
(* A handler first resolves or lists accounts and then writes by id, one   *)
(* statement at a time, from what it read; scans, deletions and other      *)
(* handlers come in between.  Profiles are told apart by the scan they     *)
(* come from.  Credentials and status are module Renewal's.                *)
(***************************************************************************)
EXTENDS Naturals, Sequences, FiniteSetsExt

CONSTANTS
    OpenID,     \* accounts.openid
    Admin,      \* HTTP requests of the handlers, each served once
    MaxId,      \* bound: account ids handed out
    MaxScans,   \* bound: confirmed scans
    Batches,    \* id sequences of batch requests
    Url,        \* non-empty proxy URLs
    Empty,      \* the empty string
    MaxProxyId, \* bound: proxy ids handed out
    None        \* no row, no snapshot, no choice

Id == 1..MaxId
\* disabled stands for bound_proxy too, which is written in the same way; alias
\* is TRUE for a remark, FALSE for the nickname of the last scan.
Row == [openid : OpenID, nickname : 0..MaxScans, user_info : 0..MaxScans,
        disabled : BOOLEAN, alias : BOOLEAN]
Setting == {"disabled", "alias"}

ASSUME AdminAssumption ==
    /\ MaxId \in Nat /\ MaxScans \in Nat
    /\ None \notin Row
    /\ Batches \subseteq Seq(Nat)

\* What a request does to each of its accounts; val is for settings.
Task == [col : Setting, val : BOOLEAN] \cup [col : {"delete", "resync", "refresh"}, val : {FALSE}]

VARIABLES
    accounts,   \* the table: per id its row, or None
    nextId,     \* AUTOINCREMENT
    scans,      \* confirmed scans so far
    proxies,    \* the proxies table
    nextProxy,
    apc,        \* per request, its next statement
    task,       \* per request, what it does
    mode,       \* one account, all accounts, or the ids of a batch
    todo,       \* accounts still to come: snapshots, or ids without one
    acc,        \* the account it works on, as read
    results,    \* ids in the answer so far
    left,       \* requests whose client is gone
    asked,      \* ids the request is about (history)
    chosen      \* per id, the settings an administrator has chosen last, None for
                \* a remark that a scan has overwritten since (history)

table == <<accounts, nextId, scans, chosen>>
proxyTable == <<proxies, nextProxy>>
request == <<task, mode, todo, acc, results, asked>>
adminVars == <<table, proxyTable, apc, request, left>>

Answered == {"answered", "error"}
AdminLabel == {"idle", "next", "write", "readback"} \cup Answered
unset == [c \in Setting |-> IF c = "alias" THEN None ELSE FALSE]

AdminInit ==
    /\ accounts = [i \in Id |-> None] /\ nextId = 1 /\ scans = 0
    /\ proxies = [p \in 1..MaxProxyId |-> None] /\ nextProxy = 1
    /\ apc = [r \in Admin |-> "idle"]
    /\ task = [r \in Admin |-> None]
    /\ mode = [r \in Admin |-> "one"]
    /\ todo = [r \in Admin |-> <<>>]
    /\ acc = [r \in Admin |-> None]
    /\ results = [r \in Admin |-> <<>>]
    /\ left = {}
    /\ asked = [r \in Admin |-> <<>>]
    /\ chosen = [i \in Id |-> unset]

At(r, l) == apc' = [apc EXCEPT ![r] = l]
present == {i \in Id : accounts[i] # None}
snapshot(i) == [id |-> i, row |-> accounts[i]]
------------------------------------------------------------------------------
(* Scans.                                                                    *)

\* The columns UpsertAccount sets on a conflict; alias gets the nickname.
profileOfScan(row, o) ==
    [row EXCEPT !.nickname = scans + 1, !.user_info = scans + 1, !.alias = FALSE]

\* Mutant: the id of a deleted account is handed out again.
newIdReused == 1 + Max(present \cup {0})

\* AUTOINCREMENT: never an id that was handed out before.
newId == nextId

\* storeFromScan: an upsert on the openid.
Scan(o) ==
    /\ scans < MaxScans
    /\ scans' = scans + 1
    /\ \/ \E i \in present :
             /\ accounts[i].openid = o
             /\ accounts' = [accounts EXCEPT ![i] = profileOfScan(accounts[i], o)]
             /\ chosen' = [chosen EXCEPT ![i].alias = None]
             /\ UNCHANGED nextId
       \/ /\ \A i \in present : accounts[i].openid # o
          /\ nextId \in Id
          /\ accounts' = [accounts EXCEPT ![newId] =
                [openid |-> o, nickname |-> scans + 1, user_info |-> scans + 1,
                 disabled |-> FALSE, alias |-> FALSE]]
          /\ chosen' = [chosen EXCEPT ![newId] = unset]
          /\ nextId' = nextId + 1
    /\ UNCHANGED <<proxyTable, apc, request, left>>
------------------------------------------------------------------------------
(* Requests about accounts.                                                  *)

start(r, t, m) ==
    /\ apc[r] = "idle"
    /\ task' = [task EXCEPT ![r] = t]
    /\ mode' = [mode EXCEPT ![r] = m]

\* DELETE /accounts, PUT /accounts/proxy, POST /accounts/disable, /remark,
\* /refresh and /resync with a ref: resolveAccountRef (404 without a match).
Resolve(r, t, o) ==
    /\ start(r, t, "one")
    /\ \/ \E i \in present :
             /\ accounts[i].openid = o
             /\ acc' = [acc EXCEPT ![r] = snapshot(i)]
             /\ asked' = [asked EXCEPT ![r] = <<i>>]
             /\ At(r, "write")
       \/ /\ \A i \in present : accounts[i].openid # o
          /\ At(r, "error")
          /\ UNCHANGED <<acc, asked>>
    /\ UNCHANGED <<table, proxyTable, todo, results, left>>

\* ListAccounts, in the order of ids.
ListAccounts ==
    {ids \in [1..Cardinality(present) -> present] :
        \A m, n \in DOMAIN ids : m < n => ids[m] < ids[n]}

ResyncAll(r) ==
    /\ start(r, [col |-> "resync", val |-> FALSE], "all")
    /\ \E ids \in ListAccounts :
       /\ todo' = [todo EXCEPT ![r] = [n \in DOMAIN ids |-> snapshot(ids[n])]]
       /\ asked' = [asked EXCEPT ![r] = ids]
    /\ At(r, "next")
    /\ UNCHANGED <<table, proxyTable, acc, results, left>>

\* handleAccountBatch with one of its four actions.
Batch(r, t, ids) ==
    /\ t.col \in {"disabled", "resync", "refresh"}
    /\ start(r, t, "batch")
    /\ todo' = [todo EXCEPT ![r] = [n \in DOMAIN ids |-> [id |-> ids[n], row |-> None]]]
    /\ asked' = [asked EXCEPT ![r] = ids]
    /\ At(r, "next")
    /\ UNCHANGED <<table, proxyTable, acc, results, left>>

\* Mutant: a missing row is not noticed.
readableIfGone(r, i) == r \in left

\* GetAccount fails.
unreadable(r, i) == r \in left \/ i \notin present

report(r, i) == results' = [results EXCEPT ![r] = Append(@, i)]

\* The request is through with the account it works on.
succeeds(r) ==
    IF mode[r] = "one" THEN At(r, "answered") /\ UNCHANGED results
    ELSE At(r, "next") /\ report(r, acc[r].id)

\* Mutant: the batch stops at its first failure too.
failsStopping(r) == At(r, "answered") /\ UNCHANGED results

\* A failed statement: a batch reports it and goes on, the others answer 500.
fails(r) ==
    IF mode[r] = "batch" THEN At(r, "next") /\ report(r, acc[r].id)
    ELSE At(r, "error") /\ UNCHANGED results

\* The loops of resyncAll and handleAccountBatch; the latter reads the account
\* now, and reports and skips one it does not find.
TakeNext(r) ==
    /\ apc[r] = "next"
    /\ IF todo[r] = <<>> THEN At(r, "answered") /\ UNCHANGED <<todo, acc, results>>
       ELSE LET next == Head(todo[r]) IN
            /\ todo' = [todo EXCEPT ![r] = Tail(@)]
            /\ IF mode[r] = "batch" /\ unreadable(r, next.id)
               THEN report(r, next.id) /\ UNCHANGED <<apc, acc>>
               ELSE /\ acc' = [acc EXCEPT ![r] =
                          IF mode[r] = "batch" THEN snapshot(next.id) ELSE next]
                    /\ At(r, "write")
                    /\ UNCHANGED results
    /\ UNCHANGED <<table, proxyTable, task, mode, asked, left>>

\* Mutant: the nickname is written, user_info is left as it is.
SetAccountProfilePartly(row, snap, nick) == [row EXCEPT !.nickname = nick]

SetAccountProfile(row, snap, nick) ==
    [row EXCEPT !.nickname = nick, !.user_info = snap.user_info]

\* Mutant: the whole row is written back as it was read.
updatedAsRead(t, row, snap) ==
    IF t.col \in Setting THEN [snap EXCEPT ![t.col] = t.val] ELSE snap

\* The row after the UPDATE of task t by a request that has read snap: a resync
\* takes the nickname out of user_info, a refresh writes both as it read them.
updated(t, row, snap) ==
    IF t.col \in Setting THEN [row EXCEPT ![t.col] = t.val]
    ELSE SetAccountProfile(row, snap, IF t.col = "resync" THEN snap.user_info ELSE snap.nickname)

\* The statement, which finds its row by id or changes nothing.
execute(t, i, snap) ==
    IF i \notin present THEN UNCHANGED <<accounts, chosen>>
    ELSE IF t.col = "delete"
    THEN accounts' = [accounts EXCEPT ![i] = None] /\ UNCHANGED chosen
    ELSE /\ accounts' = [accounts EXCEPT ![i] = updated(t, @, snap)]
         /\ chosen' = IF t.col \in Setting THEN [chosen EXCEPT ![i][t.col] = t.val] ELSE chosen

\* A refresh, and a setting of a batch, drop the error of their statement and
\* do not read the account back.
silent(r) == task[r].col = "refresh" \/ (mode[r] = "batch" /\ task[r].col \in Setting)

writing(r) ==
    /\ apc[r] = "write"
    /\ UNCHANGED <<nextId, scans, proxyTable, task, mode, todo, acc, asked, left>>

Write(r) ==
    /\ writing(r)
    /\ r \notin left
    /\ execute(task[r], acc[r].id, acc[r].row)
    /\ IF silent(r) \/ task[r].col = "delete" THEN succeeds(r)
       ELSE At(r, "readback") /\ UNCHANGED results

\* refreshLiveness writes no profile without an avatar.
WriteNothing(r) ==
    /\ writing(r)
    /\ task[r].col = "refresh"
    /\ succeeds(r)
    /\ UNCHANGED <<accounts, chosen>>

\* The request's context has ended.
WriteFails(r) ==
    /\ writing(r)
    /\ r \in left
    /\ IF silent(r) THEN succeeds(r) ELSE fails(r)
    /\ UNCHANGED <<accounts, chosen>>

\* GetAccount for the answer.
Readback(r) ==
    /\ apc[r] = "readback"
    /\ IF unreadable(r, acc[r].id) THEN fails(r) ELSE succeeds(r)
    /\ UNCHANGED <<table, proxyTable, task, mode, todo, acc, asked, left>>

ClientLeaves(r) ==
    /\ apc[r] \notin Answered \cup {"idle"}
    /\ left' = left \cup {r}
    /\ UNCHANGED <<table, proxyTable, apc, request>>
------------------------------------------------------------------------------
(* /api/proxies, each handler one statement.                                 *)

urlTaken(u, p) == \E q \in 1..MaxProxyId \ {p} : proxies[q] # None /\ proxies[q].url = u

AddProxy(u) ==
    /\ nextProxy \in 1..MaxProxyId
    /\ ~urlTaken(u, nextProxy)
    /\ proxies' = [proxies EXCEPT ![nextProxy] = [url |-> u, enabled |-> TRUE]]
    /\ nextProxy' = nextProxy + 1
    /\ UNCHANGED <<table, apc, request, left>>

\* PATCH: what the body leaves out is "" or TRUE, and is written.
UpdateProxy(p, u, enabled) ==
    /\ proxies[p] # None
    /\ ~urlTaken(u, p)
    /\ proxies' = [proxies EXCEPT ![p] = [url |-> u, enabled |-> enabled]]
    /\ UNCHANGED <<table, nextProxy, apc, request, left>>

DeleteProxy(p) ==
    /\ proxies[p] # None
    /\ proxies' = [proxies EXCEPT ![p] = None]
    /\ UNCHANGED <<table, nextProxy, apc, request, left>>
------------------------------------------------------------------------------
AdminStep(r) == TakeNext(r) \/ Write(r) \/ WriteNothing(r) \/ WriteFails(r) \/ Readback(r)

AllAdministered == (\A r \in Admin : apc[r] \in Answered) /\ UNCHANGED adminVars

AdminNext ==
    \/ \E r \in Admin : AdminStep(r) \/ ClientLeaves(r) \/ ResyncAll(r)
    \/ \E r \in Admin, t \in Task :
          \/ \E o \in OpenID : Resolve(r, t, o)
          \/ \E ids \in Batches : Batch(r, t, ids)
    \/ \E o \in OpenID : Scan(o)
    \/ \E u \in Url : AddProxy(u)
    \/ \E p \in DOMAIN proxies : DeleteProxy(p)
    \/ \E p \in DOMAIN proxies, u \in Url \cup {Empty}, e \in BOOLEAN : UpdateProxy(p, u, e)
    \/ AllAdministered

AdminSpec == AdminInit /\ [][AdminNext]_adminVars
------------------------------------------------------------------------------
(* What the handlers promise.                                                *)

\* Types; and no request works on an account without a row read from it.
AdminTypeOK ==
    /\ accounts \in [Id -> Row \cup {None}] /\ chosen \in [Id -> [Setting -> BOOLEAN \cup {None}]]
    /\ nextId \in 1..(MaxId + 1) /\ scans \in 0..MaxScans
    /\ \A i \in present : i < nextId
    /\ \A i, j \in present : accounts[i].openid = accounts[j].openid => i = j
    /\ apc \in [Admin -> AdminLabel] /\ left \subseteq Admin
    /\ task \in [Admin -> Task \cup {None}] /\ mode \in [Admin -> {"one", "all", "batch"}]
    /\ \A r \in Admin :
          apc[r] \in {"write", "readback"} => acc[r].id \in Id /\ acc[r].row \in Row

\* Whatever scans, resyncs, refreshes and other handlers run in between, an
\* account has the proxy and the disabled flag that were chosen last, and its
\* remark as long as nobody scans it: a scan writes the nickname over it, and
\* nothing is said of the remark from there to the next choice.
SettingsStay ==
    \A i \in present : \A c \in Setting : chosen[i][c] # None => accounts[i][c] = chosen[i][c]

\* The nickname and the user_info of an account come from one scan, although a
\* resync or a refresh writes them from a copy it read before that scan.
ProfileIsOneScan == \A i \in present : accounts[i].nickname = accounts[i].user_info

\* A statement by id changes the account the request has resolved or nothing: the
\* id of an account deleted in the meantime never belongs to somebody else.
StaleWritesMiss ==
    [][\A r \in Admin : \A i \in Id :
          Write(r) /\ accounts'[i] # accounts[i] =>
             /\ i = acc[r].id
             /\ accounts[i].openid = acc[r].row.openid]_adminVars

\* An answer to a batch, or to a resync of all accounts, has a result for each
\* id asked for, in that order, also when accounts vanish meanwhile.
BatchAnswersEveryId ==
    \A r \in Admin : apc[r] = "answered" /\ mode[r] # "one" => results[r] = asked[r]

\* The toggle of the account page sends the id and the new flag of a proxy, not
\* its URL: the proxy is expected to keep it.
ToggleKeepsUrl ==
    [][\A p \in DOMAIN proxies, e \in BOOLEAN :
          proxies[p] # None /\ UpdateProxy(p, Empty, e) => proxies'[p].url = proxies[p].url]_adminVars
=============================================================================
