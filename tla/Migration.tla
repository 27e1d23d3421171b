------------------------------ MODULE Migration ------------------------------
(***************************************************************************)
(* Opening the database (store.Open): the move of the sessions from the    *)
(* table of older releases, the schema and the default features, statement *)
(* by statement, and the releases that serve from the file in turn.        *)
(*                                                                         *)
(* Each statement commits by itself; the process may end between any two,  *)
(* or a statement may fail when the ten seconds of Open are over.  The     *)
(* older release is external: it keeps its sessions in wmpf_sessions.      *)
(***************************************************************************)
EXTENDS Naturals, Sequences, FiniteSets

CONSTANTS
    Account,        \* ids of accounts
    Proxy,          \* values of tcp_proxy
    Id,             \* ids of session rows
    Feature,        \* codes of the default features
    MaxStarts       \* bound: starts of either release

ASSUME MigrationAssumption == MaxStarts \in Nat

VARIABLES
    objects,        \* tables and indexes in the file
    accounts,       \* ids in wechat_accounts
    columns,        \* wechat_accounts has the column "disabled"
    legacy,         \* rows of wmpf_sessions
    sessions,       \* rows of sessions
    features,       \* codes in features
    opc,            \* what the process that has the file does next
    created,        \* statements of the schema executed in this start
    starts,         \* starts so far
    owed            \* the sessions written and not taken back (history)

fileVars == <<objects, accounts, columns, legacy, sessions, features>>
vars == <<objects, accounts, columns, legacy, sessions, features, opc, created, starts, owed>>

Row == [id : Id, acct : Account, proxy : Proxy, made : 0..MaxStarts]

\* What the schema creates, in its order; the tables without rows here left out.
Schema == <<"wechat_accounts", "sessions", "idx_sessions_expires", "features">>

Opening == {"old", "new", "dropIndex", "rename", "copy", "dropOld", "schema", "features"}
Label == Opening \cup {"stopped", "refused", "open", "older"}

Init ==
    /\ objects = {} /\ accounts = {} /\ columns = FALSE
    /\ legacy = {} /\ sessions = {} /\ features = {}
    /\ opc = "stopped" /\ created = 0 /\ starts = 0 /\ owed = {}
------------------------------------------------------------------------------
(* Statements on the two session tables.                                     *)

sameKey(r, s) == r.acct = s.acct /\ r.proxy = s.proxy

\* The PRIMARY KEY or the UNIQUE constraint keeps r out of the table.
conflicts(r, table) == \E s \in table : s.id = r.id \/ sameKey(r, s)

\* Mutant: INSERT OR REPLACE.
insertOrReplace(rows, table) == rows \cup {s \in table : ~conflicts(s, rows)}

\* Mutant: a table without its UNIQUE constraint.
insertByIdOnly(rows, table) == table \cup {r \in rows : \A s \in table : s.id # r.id}

\* INSERT OR IGNORE ... SELECT: no two of the rows it selects conflict.
insertOrIgnore(rows, table) == table \cup {r \in rows : ~conflicts(r, table)}

\* Mutant: a plain INSERT.
insertFails(rows, table) == \E r \in rows : conflicts(r, table)

\* Conflicts are ignored, a missing account is not: the foreign key is checked
\* for the rows that go in.
copyFails(rows, table) == \E r \in insertOrIgnore(rows, table) \ table : r.acct \notin accounts

\* INSERT ... ON CONFLICT(wechat_account_id, tcp_proxy) DO UPDATE, under a free
\* id if the key is new.
upserts(table, a, p, table2) ==
    LET held == {s \in table : s.acct = a /\ s.proxy = p} IN
    \E i \in IF held = {} THEN {j \in Id : \A s \in table : s.id # j} ELSE {s.id : s \in held} :
        table2 = (table \ held) \cup {[id |-> i, acct |-> a, proxy |-> p, made |-> starts]}

\* ON DELETE CASCADE.
without(table, a) == {s \in table : s.acct # a}
------------------------------------------------------------------------------
(* Open.                                                                     *)

\* The pragmas come first.
Start ==
    /\ opc \in {"stopped", "refused"} /\ starts < MaxStarts
    /\ opc' = "old" /\ created' = 0 /\ starts' = starts + 1
    /\ UNCHANGED <<fileVars, owed>>

step(from, to) ==
    /\ opc = from /\ opc' = to
    /\ UNCHANGED <<created, starts, owed>>

CheckOld ==
    /\ step("old", IF "wmpf_sessions" \in objects THEN "new" ELSE "schema")
    /\ UNCHANGED fileVars

\* Mutant: the index of the old table is not dropped.
checkNewKeepsIndex(found) == IF found THEN "copy" ELSE "rename"

\* Mutant: with both tables there the old one is dropped without the copy.
checkNewOnlyDrops(found) == IF found THEN "dropOld" ELSE "dropIndex"

\* Where migrateSessionsTable goes on when it has looked for the new table.
afterCheckNew(found) == IF found THEN "copy" ELSE "dropIndex"

CheckNew ==
    /\ step("new", afterCheckNew("sessions" \in objects))
    /\ UNCHANGED fileVars

DropIndex ==
    /\ step("dropIndex", "rename")
    /\ objects' = objects \ {"idx_sess_expires"}
    /\ UNCHANGED <<accounts, columns, legacy, sessions, features>>

Rename ==
    /\ step("rename", "schema")
    /\ objects' = (objects \ {"wmpf_sessions"}) \cup {"sessions"}
    /\ sessions' = legacy /\ legacy' = {}
    /\ UNCHANGED <<accounts, columns, features>>

\* If it fails Open returns the error and the process ends.
Copy ==
    /\ step("copy", IF copyFails(legacy, sessions) THEN "refused" ELSE "dropOld")
    /\ sessions' = IF copyFails(legacy, sessions) THEN sessions ELSE insertOrIgnore(legacy, sessions)
    /\ UNCHANGED <<objects, accounts, columns, legacy, features>>

\* The table goes with its index.
DropOld ==
    /\ step("dropOld", "schema")
    /\ objects' = objects \ {"wmpf_sessions", "idx_sess_expires"}
    /\ legacy' = {}
    /\ UNCHANGED <<accounts, columns, sessions, features>>

\* CREATE ... IF NOT EXISTS: a table that is there keeps the columns it has.
Create ==
    /\ opc = "schema"
    /\ objects' = objects \cup {Schema[created + 1]}
    /\ columns' = (columns \/ (Schema[created + 1] = "wechat_accounts" /\ "wechat_accounts" \notin objects))
    /\ created' = created + 1
    /\ opc' = IF created + 1 = Len(Schema) THEN "features" ELSE "schema"
    /\ UNCHANGED <<accounts, legacy, sessions, features, starts, owed>>

\* EnsureDefaultFeatures: INSERT OR IGNORE, one after the other.
InsertFeature ==
    /\ opc = "features"
    /\ \E f \in Feature \ features :
          /\ features' = features \cup {f}
          /\ opc' = IF Feature \subseteq features' THEN "open" ELSE "features"
    /\ UNCHANGED <<objects, accounts, columns, legacy, sessions, created, starts, owed>>

\* The features are all there from an earlier start.
FeaturesPresent ==
    /\ Feature \subseteq features
    /\ step("features", "open")
    /\ UNCHANGED fileVars

OpenStep ==
    \/ CheckOld \/ CheckNew \/ DropIndex \/ Rename \/ Copy \/ DropOld
    \/ Create \/ InsertFeature \/ FeaturesPresent

\* The process ends or a statement meets the deadline: Open closes the file,
\* and what was committed stays.
Stop ==
    /\ opc \in Opening \cup {"open", "older"}
    /\ opc' = "stopped"
    /\ UNCHANGED <<fileVars, created, starts, owed>>
------------------------------------------------------------------------------
(* Serving.                                                                  *)

serves(who) ==
    /\ opc = who
    /\ UNCHANGED <<opc, created, starts, features>>

\* What was written under a key, or for an account, is overwritten or deleted.
ofKey(a, p) == {o \in owed : o.acct = a /\ o.proxy = p}
ofAccount(a) == {o \in owed : o.acct = a}

\* A session that is written now: "beside" is what the older release writes into
\* a file that has the table of this one too.
written(a, p, beside) == [acct |-> a, proxy |-> p, made |-> starts, beside |-> beside]

\* UpsertAccount reads the account back, but after the insert.
UpsertAccount ==
    /\ \E a \in Account \ accounts : accounts' = accounts \cup {a}
    /\ UNCHANGED <<objects, columns, legacy, sessions, owed>>
    /\ serves("open")

\* The statements below follow a selectAccountSQL, which names the column.
PutSession ==
    /\ columns
    /\ \E a \in accounts, p \in Proxy :
          /\ upserts(sessions, a, p, sessions')
          /\ owed' = (owed \ ofKey(a, p)) \cup {written(a, p, FALSE)}
    /\ UNCHANGED <<objects, accounts, columns, legacy>>
    /\ serves("open")

InvalidateSession ==
    /\ columns
    /\ \E s \in sessions : sessions' = sessions \ {s} /\ owed' = owed \ ofKey(s.acct, s.proxy)
    /\ UNCHANGED <<objects, accounts, columns, legacy>>
    /\ serves("open")

DeleteAccount ==
    /\ columns
    /\ \E a \in accounts :
          /\ accounts' = accounts \ {a}
          /\ sessions' = without(sessions, a) /\ legacy' = without(legacy, a)
          /\ owed' = owed \ ofAccount(a)
    /\ UNCHANGED <<objects, columns>>
    /\ serves("open")

\* The older release starts on the file and creates what it misses; its
\* wechat_accounts has no column "disabled".
OlderStarts ==
    /\ opc \in {"stopped", "refused"} /\ starts < MaxStarts
    /\ opc' = "older" /\ starts' = starts + 1
    /\ objects' = objects \cup {"wechat_accounts", "wmpf_sessions", "idx_sess_expires"}
    /\ UNCHANGED <<accounts, columns, legacy, sessions, features, created, owed>>

OlderAddsAccount ==
    /\ \E a \in Account \ accounts : accounts' = accounts \cup {a}
    /\ UNCHANGED <<objects, columns, legacy, sessions, owed>>
    /\ serves("older")

\* It knows its own table only, and overwrites only what is in it.
OlderPutsSession ==
    /\ \E a \in accounts, p \in Proxy :
          LET beside == "sessions" \in objects IN
          /\ upserts(legacy, a, p, legacy')
          /\ owed' = {o \in owed : o \in ofKey(a, p) => o.beside # beside} \cup {written(a, p, beside)}
    /\ UNCHANGED <<objects, accounts, columns, sessions>>
    /\ serves("older")

OlderDeletesAccount ==
    /\ \E a \in accounts :
          /\ accounts' = accounts \ {a}
          /\ sessions' = without(sessions, a) /\ legacy' = without(legacy, a)
          /\ owed' = owed \ ofAccount(a)
    /\ UNCHANGED <<objects, columns>>
    /\ serves("older")

Serving ==
    \/ UpsertAccount \/ PutSession \/ InvalidateSession \/ DeleteAccount
    \/ OlderStarts \/ OlderAddsAccount \/ OlderPutsSession \/ OlderDeletesAccount

\* The last start of the instance is over.
Ended == opc \in {"stopped", "refused"} /\ starts = MaxStarts /\ UNCHANGED vars

Next == OpenStep \/ Start \/ Stop \/ Serving \/ Ended

\* An Open that is not stopped goes on.
Spec == Init /\ [][Next]_vars /\ WF_vars(OpenStep)
------------------------------------------------------------------------------
(* What opening the database promises.                                       *)

isRow(o, r) == sameKey(o, r) /\ o.made = r.made

present(o) == \E r \in legacy \cup sessions : isRow(o, r)

\* Wherever Open is stopped, and however often it is taken up again, a session
\* this release has stored, or the older one in a file of its own, is in one of
\* the two tables until it is overwritten or deleted: neither the renaming nor
\* the copy and the drop lose it or let an older row take its place.
MigrationIsAtomic == \A o \in owed : ~o.beside => present(o)

\* What the older release has written beside the table of this one is not that
\* safe (store.go:235, 241): it is lost with the old table if a row of the new
\* one has its key or its id.  There is no other way to lose a session.
LossIsCollision ==
    [][\A o \in owed \cap owed' :
          present(o) /\ ~present(o)' =>
              opc = "dropOld" /\ \A r \in legacy : isRow(o, r) => conflicts(r, sessions)]_vars

\* After Open the session of an account and proxy that was in the old table is
\* found (store_test.go:74 asks for it); a newer row of the same key will do.  The
\* code does not keep it: see LossIsCollision.
StoredKeysSurvive == \A o \in owed : \E r \in legacy \cup sessions : sameKey(o, r)

\* Each table has one row per account and proxy and one per id, and its rows
\* belong to accounts: so the copy cannot meet a foreign key.
RowsSound ==
    \A table \in {legacy, sessions} : \A r \in table :
        /\ r.acct \in accounts
        /\ \A s \in table : (s.id = r.id \/ sameKey(s, r)) => s = r

\* When Open returns, the file has the tables and indexes of the schema, none
\* of the older release, and the default features.
OpenedIsComplete ==
    opc = "open" =>
        /\ objects = {Schema[n] : n \in DOMAIN Schema}
        /\ legacy = {}
        /\ features = Feature

\* A start that is not stopped ends in a database that is open, whatever an
\* earlier one left behind.
StartsOpen == (opc = "old") ~> (opc \in {"open", "stopped"})

\* The statements of the store find the columns they name in a database that
\* was opened (store_test.go opens one of an older release).
OpenedDatabaseServes == opc = "open" => columns
=============================================================================
