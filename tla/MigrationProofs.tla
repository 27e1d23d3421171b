--------------------------- MODULE MigrationProofs ---------------------------
(***************************************************************************)
(* Proofs about Migration: wherever Open is stopped, no session is lost,   *)
(* the rows stay sound, and a database that is open is complete.           *)
(***************************************************************************)
EXTENDS Migration, TLAPS

\* How far the schema is created, by what the process does next.
Progress ==
    /\ opc \in Label
    /\ created \in 0..4
    /\ opc \in Opening \ {"schema", "features"} => created = 0
    /\ opc = "schema" => created < 4
    /\ opc \in {"features", "open"} => created = 4
    /\ opc \in {"schema", "features", "open"} => \A n \in 1..created : Schema[n] \in objects

\* A table that is not there has no rows, and which tables there are.
Tables ==
    /\ "wmpf_sessions" \notin objects => legacy = {}
    /\ "sessions" \notin objects => sessions = {}
    /\ opc \in {"dropIndex", "rename"} => "sessions" \notin objects
    /\ opc \in {"copy", "dropOld"} => "sessions" \in objects
    /\ opc \in {"schema", "features", "open"} => "wmpf_sessions" \notin objects
    /\ opc = "older" => "wmpf_sessions" \in objects

\* Before the old table is dropped each of its rows is in the new one, or has a
\* row of the new one in its way.
Merged == opc = "dropOld" => \A r \in legacy : conflicts(r, sessions)

\* Nothing but the schema of this release and of the older one.
Known ==
    /\ objects \subseteq {Schema[n] : n \in 1..4} \cup {"wmpf_sessions", "idx_sess_expires"}
    /\ "idx_sess_expires" \in objects => "wmpf_sessions" \in objects
    /\ opc = "rename" => "idx_sess_expires" \notin objects
    /\ features \subseteq Feature
    /\ opc = "open" => features = Feature

\* A table is sound: one row per key and per id, of accounts that exist.
Sound(table, accts) ==
    \A r \in table :
        /\ r.acct \in accts
        /\ \A s \in table : (s.id = r.id \/ sameKey(s, r)) => s = r

\* Which table has what was written: the one of this release once it is there,
\* and before the one of the older release.
serving == IF "sessions" \in objects THEN sessions ELSE legacy

History ==
    \A o \in owed :
        /\ o.beside \in BOOLEAN
        /\ IF o.beside THEN "sessions" \in objects ELSE \E r \in serving : isRow(o, r)

Kept == Tables /\ Merged /\ RowsSound /\ History

------------------------------------------------------------------------------
(* The statements.                                                           *)

LEMMA SchemaParts ==
    /\ Len(Schema) = 4 /\ DOMAIN Schema = 1..4
    /\ Schema[1] = "wechat_accounts" /\ Schema[2] = "sessions"
    /\ Schema[3] = "idx_sessions_expires" /\ Schema[4] = "features"
BY DEF Schema

LEMMA RowsSoundParts ==
    RowsSound <=> Sound(legacy, accounts) /\ Sound(sessions, accounts)
BY DEF RowsSound, Sound

LEMMA SoundUpsert ==
    ASSUME NEW table, NEW table2, NEW accts, NEW a \in accts, NEW p,
           Sound(table, accts), upserts(table, a, p, table2)
    PROVE  Sound(table2, accts)
<1> DEFINE held == {s \in table : s.acct = a /\ s.proxy = p}
<1>1. PICK i \in IF held = {} THEN {j \in Id : \A s \in table : s.id # j} ELSE {s.id : s \in held} :
          table2 = (table \ held) \cup {[id |-> i, acct |-> a, proxy |-> p, made |-> starts]}
  BY DEF upserts
<1> DEFINE new == [id |-> i, acct |-> a, proxy |-> p, made |-> starts]
<1>2. \A s \in table \ held : s.id # i /\ ~sameKey(s, new) /\ ~sameKey(new, s)
  <2>1. CASE held = {}
    BY <1>1, <2>1 DEF sameKey
  <2>2. CASE held # {}
    <3>1. PICK h \in held : i = h.id
      BY <1>1, <2>2
    <3>2. \A s \in table : s.id = h.id => s = h
      BY <3>1 DEF Sound
    <3>. QED  BY <3>1, <3>2 DEF sameKey
  <2>. QED  BY <2>1, <2>2
<1>3. SUFFICES ASSUME NEW r \in table2
               PROVE  /\ r.acct \in accts
                      /\ \A s \in table2 : (s.id = r.id \/ sameKey(s, r)) => s = r
  BY DEF Sound
<1>4. table2 = (table \ held) \cup {new}
  BY <1>1
<1>5. new.id = i /\ new.acct = a
  OBVIOUS
<1>6. CASE r = new
  BY <1>2, <1>4, <1>5, <1>6
<1>7. CASE r \in table \ held
  BY <1>2, <1>4, <1>5, <1>7 DEF Sound
<1>. QED  BY <1>4, <1>6, <1>7

LEMMA SoundCopy ==
    ASSUME NEW old, NEW new, NEW accts, Sound(old, accts), Sound(new, accts)
    PROVE  Sound(insertOrIgnore(old, new), accts)
BY DEF Sound, insertOrIgnore, conflicts, sameKey

\* The copy drops no row of the new table, and afterwards each row of the old
\* one is in it or has a row of it in its way.
LEMMA CopyMerges ==
    ASSUME NEW old, NEW new
    PROVE  /\ new \subseteq insertOrIgnore(old, new)
           /\ \A r \in old : conflicts(r, insertOrIgnore(old, new))
BY DEF insertOrIgnore, conflicts, sameKey

\* An upsert leaves the rows of the other keys and writes the one of its key.
LEMMA UpsertWrites ==
    ASSUME NEW table, NEW table2, NEW a, NEW p, upserts(table, a, p, table2)
    PROVE  /\ \A s \in table : ~(s.acct = a /\ s.proxy = p) => s \in table2
           /\ \E r \in table2 : r.acct = a /\ r.proxy = p /\ r.made = starts
<1> DEFINE held == {s \in table : s.acct = a /\ s.proxy = p}
<1>1. PICK i \in IF held = {} THEN {j \in Id : \A s \in table : s.id # j} ELSE {s.id : s \in held} :
          table2 = (table \ held) \cup {[id |-> i, acct |-> a, proxy |-> p, made |-> starts]}
  BY DEF upserts
<1> DEFINE new == [id |-> i, acct |-> a, proxy |-> p, made |-> starts]
<1>2. new \in table2 /\ \A s \in table \ held : s \in table2
  BY <1>1
<1>. QED  BY <1>2
------------------------------------------------------------------------------
(* Each step of Open, and the start and the end of a process.                *)

LEMMA KeptByFrame ==
    ASSUME Kept, UNCHANGED <<accounts, legacy, sessions, owed>>,
           "sessions" \in objects' <=> "sessions" \in objects
    PROVE  RowsSound' /\ History'
BY DEF Kept, RowsSound, History, serving, isRow, sameKey

LEMMA StartKeeps == ASSUME Kept, Start PROVE Kept'
<1>1. RowsSound' /\ History'
  BY KeptByFrame DEF Start, fileVars
<1>2. Tables' /\ Merged'
  BY DEF Start, fileVars, Kept, Tables, Merged
<1>. QED  BY <1>1, <1>2 DEF Kept

LEMMA CheckKeeps == ASSUME Kept, CheckOld \/ CheckNew PROVE Kept'
<1>1. RowsSound' /\ History'
  BY KeptByFrame DEF CheckOld, CheckNew, step, fileVars
<1>2. Tables' /\ Merged'
  BY DEF CheckOld, CheckNew, afterCheckNew, step, fileVars, Kept, Tables, Merged
<1>. QED  BY <1>1, <1>2 DEF Kept

LEMMA DropIndexKeeps == ASSUME Kept, DropIndex PROVE Kept'
<1>1. RowsSound' /\ History'
  BY KeptByFrame DEF DropIndex, step
<1>2. Tables' /\ Merged'
  BY DEF DropIndex, step, Kept, Tables, Merged
<1>. QED  BY <1>1, <1>2 DEF Kept

LEMMA RenameKeeps == ASSUME Kept, Rename PROVE Kept'
<1>1. sessions = {} /\ legacy' = {} /\ sessions' = legacy
  BY DEF Rename, step, Kept, Tables
<1>2. History'
  BY <1>1 DEF Rename, step, Kept, Tables, History, serving, isRow, sameKey
<1>3. RowsSound'
  BY <1>1 DEF Rename, Kept, RowsSound, sameKey
<1>4. Tables' /\ Merged'
  BY <1>1 DEF Rename, step, Kept, Tables, Merged
<1>. QED  BY <1>2, <1>3, <1>4 DEF Kept

LEMMA CopyKeeps == ASSUME Kept, Copy PROVE Kept'
<1>1. CASE copyFails(legacy, sessions)
  <2>1. RowsSound' /\ History'
    BY <1>1, KeptByFrame DEF Copy, step
  <2>2. Tables' /\ Merged'
    BY <1>1 DEF Copy, step, Kept, Tables, Merged
  <2>. QED  BY <2>1, <2>2 DEF Kept
<1>2. CASE ~copyFails(legacy, sessions)
  <2>1. /\ sessions' = insertOrIgnore(legacy, sessions)
        /\ UNCHANGED <<accounts, legacy, owed>>
        /\ opc = "copy" /\ opc' = "dropOld" /\ UNCHANGED objects
    BY <1>2 DEF Copy, step
  <2>2. History'
    <3>1. sessions \subseteq sessions' /\ "sessions" \in objects
      BY <2>1, CopyMerges DEF Kept, Tables
    <3>. QED  BY <2>1, <3>1 DEF Kept, History, serving, isRow, sameKey
  <2>3. Sound(sessions', accounts)
    BY <2>1, SoundCopy, RowsSoundParts DEF Kept
  <2>4. RowsSound'
    BY <2>1, <2>3, RowsSoundParts DEF Kept, RowsSound, Sound, sameKey
  <2>5. Merged'
    BY <2>1, CopyMerges DEF Merged, conflicts, sameKey
  <2>6. Tables'
    BY <2>1 DEF Kept, Tables
  <2>. QED  BY <2>2, <2>4, <2>5, <2>6 DEF Kept
<1>. QED  BY <1>1, <1>2

LEMMA DropOldKeeps == ASSUME Kept, DropOld PROVE Kept'
<1>1. legacy' = {} /\ UNCHANGED <<accounts, sessions, owed>>
  BY DEF DropOld, step
<1>2. "sessions" \in objects /\ "sessions" \in objects'
  BY DEF DropOld, step, Kept, Tables
<1>3. History'
  BY <1>1, <1>2 DEF Kept, History, serving, isRow, sameKey
<1>4. RowsSound'
  BY <1>1 DEF Kept, RowsSound, sameKey
<1>5. Tables' /\ Merged'
  BY <1>1 DEF DropOld, step, Kept, Tables, Merged
<1>. QED  BY <1>3, <1>4, <1>5 DEF Kept

LEMMA CreateKeeps == ASSUME Progress, Kept, Create PROVE Kept'
<1>1. RowsSound' /\ History'
  <2>1. CASE "sessions" \in objects' <=> "sessions" \in objects
    BY <2>1, KeptByFrame DEF Create
  \* The table is new: without an old one nothing has been written yet.
  <2>2. CASE ~("sessions" \in objects' <=> "sessions" \in objects)
    <3>1. "sessions" \notin objects /\ legacy = {} /\ sessions = {}
      BY <2>2 DEF Create, Kept, Tables
    <3>2. owed = {}
      BY <3>1 DEF Kept, History, serving
    <3>. QED  BY <3>1, <3>2 DEF Create, RowsSound, History
  <2>. QED  BY <2>1, <2>2
<1>2. created \in 0..3
  BY DEF Create, Progress
<1>3. objects' \cap {"wmpf_sessions"} = objects \cap {"wmpf_sessions"} /\ objects \subseteq objects'
  BY <1>2, SchemaParts DEF Create
<1>4. Tables' /\ Merged'
  BY <1>3 DEF Create, Kept, Tables, Merged
<1>. QED  BY <1>1, <1>4 DEF Kept

LEMMA FeaturesKeep == ASSUME Kept, InsertFeature \/ FeaturesPresent PROVE Kept'
<1>1. RowsSound' /\ History'
  BY KeptByFrame DEF InsertFeature, FeaturesPresent, step, fileVars
<1>2. Tables' /\ Merged'
  BY DEF InsertFeature, FeaturesPresent, step, fileVars, Kept, Tables, Merged
<1>. QED  BY <1>1, <1>2 DEF Kept

LEMMA StopKeeps == ASSUME Kept, Stop PROVE Kept'
<1>1. RowsSound' /\ History'
  BY KeptByFrame DEF Stop, fileVars
<1>2. Tables' /\ Merged'
  BY DEF Stop, fileVars, Kept, Tables, Merged
<1>. QED  BY <1>1, <1>2 DEF Kept
------------------------------------------------------------------------------
(* Serving.                                                                  *)

LEMMA PutKeepsHistory == ASSUME Progress, Kept, PutSession PROVE History'
<1>1. "sessions" \in objects /\ UNCHANGED objects
  BY SchemaParts DEF PutSession, serves, Progress
<1>2. PICK a \in accounts, p \in Proxy :
          /\ upserts(sessions, a, p, sessions')
          /\ owed' = (owed \ ofKey(a, p)) \cup {written(a, p, FALSE)}
  BY DEF PutSession
<1>0. \A o \in owed' : o.beside \in BOOLEAN
  <2>1. written(a, p, FALSE).beside = FALSE
    BY DEF written
  <2>. QED  BY <1>2, <2>1 DEF Kept, History
<1>3. SUFFICES ASSUME NEW o \in owed', ~o.beside
               PROVE  \E r \in sessions' : isRow(o, r)
  BY <1>1, <1>0 DEF History, serving, isRow, sameKey
<1>4. CASE o = written(a, p, FALSE)
  BY <1>2, <1>4, UpsertWrites DEF written, isRow, sameKey
<1>5. CASE o \in owed \ ofKey(a, p)
  <2>1. PICK r \in sessions : isRow(o, r)
    BY <1>1, <1>3, <1>5 DEF Kept, History, serving
  <2>2. r \in sessions'
    BY <1>2, <1>5, <2>1, UpsertWrites DEF ofKey, isRow, sameKey
  <2>. QED  BY <2>1, <2>2
<1>. QED  BY <1>2, <1>4, <1>5

LEMMA OlderPutKeepsHistory == ASSUME Kept, OlderPutsSession PROVE History'
<1> DEFINE beside == "sessions" \in objects
<1>1. UNCHANGED <<objects, sessions>>
  BY DEF OlderPutsSession
<1>2. PICK a \in accounts, p \in Proxy :
          /\ upserts(legacy, a, p, legacy')
          /\ owed' = {o \in owed : o \in ofKey(a, p) => o.beside # beside} \cup {written(a, p, beside)}
  BY DEF OlderPutsSession
<1>3. beside \in BOOLEAN /\ written(a, p, beside).beside = beside
  BY DEF written
<1>0. \A o \in owed' : o.beside \in BOOLEAN
  BY <1>2, <1>3 DEF Kept, History
<1>4. CASE beside
  BY <1>1, <1>2, <1>3, <1>4 DEF Kept, History, serving, isRow, sameKey
<1>5. CASE ~beside
  <2>1. SUFFICES ASSUME NEW o \in owed'
                 PROVE  ~o.beside /\ \E r \in legacy' : isRow(o, r)
    BY <1>1, <1>5, <1>0 DEF History, serving, isRow, sameKey
  <2>2. CASE o = written(a, p, beside)
    <3>1. PICK r \in legacy' : r.acct = a /\ r.proxy = p /\ r.made = starts
      BY <1>2, UpsertWrites
    <3>2. isRow(o, r)
      BY <2>2, <3>1 DEF written, isRow, sameKey
    <3>. QED  BY <1>3, <1>5, <2>2, <3>2
  <2>3. CASE o # written(a, p, beside)
    <3>1. o \in owed /\ ~o.beside /\ o.beside = beside
      BY <1>2, <1>3, <1>5, <2>3 DEF Kept, History
    <3>2. PICK r \in legacy : isRow(o, r)
      BY <1>5, <3>1 DEF Kept, History, serving
    <3>3. o \notin ofKey(a, p)
      BY <1>2, <1>5, <2>3, <3>1
    <3>4. r \in legacy'
      BY <1>2, <3>1, <3>2, <3>3, UpsertWrites DEF ofKey, isRow, sameKey
    <3>. QED  BY <3>1, <3>2, <3>4
  <2>. QED  BY <2>2, <2>3
<1>. QED  BY <1>4, <1>5

LEMMA SoundWithout ==
    ASSUME NEW table, NEW a, Sound(table, accounts)
    PROVE  Sound(without(table, a), accounts \ {a})
BY DEF Sound, without, sameKey

LEMMA ServingSound == ASSUME Kept, Serving PROVE RowsSound'
<1>1. Sound(legacy, accounts) /\ Sound(sessions, accounts)
  BY RowsSoundParts DEF Kept
<1>2. SUFFICES Sound(legacy', accounts') /\ Sound(sessions', accounts')
  BY DEF RowsSound, Sound, sameKey
<1>3. CASE UpsertAccount \/ OlderAddsAccount
  BY <1>1, <1>3 DEF UpsertAccount, OlderAddsAccount, Sound
<1>4. CASE PutSession
  BY <1>1, <1>4, SoundUpsert DEF PutSession
<1>5. CASE InvalidateSession
  BY <1>1, <1>5 DEF InvalidateSession, Sound
<1>6. CASE DeleteAccount \/ OlderDeletesAccount
  BY <1>1, <1>6, SoundWithout DEF DeleteAccount, OlderDeletesAccount
<1>7. CASE OlderStarts
  BY <1>1, <1>7 DEF OlderStarts
<1>8. CASE OlderPutsSession
  BY <1>1, <1>8, SoundUpsert DEF OlderPutsSession
<1>. QED  BY <1>3, <1>4, <1>5, <1>6, <1>7, <1>8 DEF Serving

LEMMA ServingKeeps == ASSUME Progress, Kept, Serving PROVE Kept'
<1>1. History'
  <2>1. CASE OlderStarts \/ UpsertAccount \/ OlderAddsAccount
    BY <2>1 DEF OlderStarts, UpsertAccount, OlderAddsAccount, Kept, History, serving, isRow, sameKey
  <2>2. CASE InvalidateSession
    <3>1. "sessions" \in objects /\ UNCHANGED objects
      BY <2>2, SchemaParts DEF InvalidateSession, serves, Progress
    <3>. QED  BY <2>2, <3>1 DEF InvalidateSession, ofKey, Kept, History, serving, isRow, sameKey
  <2>3. CASE DeleteAccount \/ OlderDeletesAccount
    BY <2>3 DEF DeleteAccount, OlderDeletesAccount, ofAccount, without, Kept, History, serving, isRow, sameKey
  <2>. QED  BY <2>1, <2>2, <2>3, PutKeepsHistory, OlderPutKeepsHistory DEF Serving
<1>2. opc = "open" => "sessions" \in objects
  BY SchemaParts DEF Progress
<1>3. Tables' /\ Merged'
  <2>1. CASE OlderStarts
    BY <2>1 DEF OlderStarts, Kept, Tables, Merged
  <2>2. CASE OlderAddsAccount \/ OlderPutsSession \/ OlderDeletesAccount
    BY <2>2 DEF OlderAddsAccount, OlderPutsSession, OlderDeletesAccount, serves, without, Kept, Tables, Merged
  <2>3. CASE UpsertAccount \/ PutSession \/ InvalidateSession \/ DeleteAccount
    BY <2>3, <1>2 DEF UpsertAccount, PutSession, InvalidateSession, DeleteAccount, serves, without, Kept, Tables, Merged
  <2>. QED  BY <2>1, <2>2, <2>3 DEF Serving
<1>. QED  BY <1>1, <1>3, ServingSound DEF Kept
------------------------------------------------------------------------------
(* The schema and the features.                                              *)

LEMMA ProgressStep == ASSUME Progress, [Next]_vars PROVE Progress'
<1>1. CASE Create
  <2>1. created \in 0..3 /\ opc = "schema"
    BY <1>1 DEF Create, Progress
  <2>2. \A n \in 1..(created + 1) : Schema[n] \in objects'
    BY <1>1, <2>1, SchemaParts DEF Create, Progress
  <2>3. created' = created + 1 /\ opc' = IF created + 1 = 4 THEN "features" ELSE "schema"
    BY <1>1, SchemaParts DEF Create
  <2>. QED  BY <2>1, <2>2, <2>3 DEF Progress, Label, Opening
<1>2. CASE CheckOld \/ CheckNew \/ DropIndex \/ Rename \/ Copy \/ DropOld
  BY <1>2 DEF CheckOld, CheckNew, afterCheckNew, DropIndex, Rename, Copy, DropOld, step, fileVars, Progress, Label, Opening
<1>3. CASE InsertFeature \/ FeaturesPresent
  BY <1>3 DEF InsertFeature, FeaturesPresent, step, fileVars, Progress, Label, Opening
<1>4. CASE Start \/ Stop
  BY <1>4 DEF Start, Stop, fileVars, Progress, Label, Opening
<1>5. CASE Serving
  BY <1>5 DEF Serving, UpsertAccount, PutSession, InvalidateSession, DeleteAccount, OlderStarts,
              OlderAddsAccount, OlderPutsSession, OlderDeletesAccount, serves, Progress, Label, Opening
<1>6. CASE Ended \/ UNCHANGED vars
  BY <1>6 DEF Ended, vars, Progress
<1>. QED  BY <1>1, <1>2, <1>3, <1>4, <1>5, <1>6 DEF Next, OpenStep

LEMMA KnownStep == ASSUME Progress, Known, [Next]_vars PROVE Known'
<1> DEFINE names == {"wechat_accounts", "sessions", "idx_sessions_expires", "features"}
<1>1. {Schema[n] : n \in 1..4} = names
  BY SchemaParts
<1>2. CASE Create
  <2>0. created \in 0..3
    BY <1>2 DEF Create, Progress
  <2>1. Schema[created + 1] \in names
    BY <2>0, SchemaParts
  <2>2. objects' = objects \cup {Schema[created + 1]} /\ features' = features /\ opc' \in {"features", "schema"}
    BY <1>2 DEF Create
  <2>. QED  BY <1>1, <2>1, <2>2 DEF Known
<1>3. CASE CheckOld \/ CheckNew \/ DropIndex \/ Rename \/ Copy \/ DropOld
  BY <1>1, <1>3 DEF CheckOld, CheckNew, afterCheckNew, DropIndex, Rename, Copy, DropOld, step, fileVars, Known
<1>4. CASE InsertFeature \/ FeaturesPresent
  BY <1>4 DEF InsertFeature, FeaturesPresent, step, fileVars, Known
<1>5. CASE Start \/ Stop
  BY <1>5 DEF Start, Stop, fileVars, Known
<1>6. CASE Serving
  BY <1>1, <1>6 DEF Serving, UpsertAccount, PutSession, InvalidateSession, DeleteAccount, OlderStarts,
                    OlderAddsAccount, OlderPutsSession, OlderDeletesAccount, serves, Known
<1>7. CASE Ended \/ UNCHANGED vars
  BY <1>7 DEF Ended, vars, Known
<1>. QED  BY <1>2, <1>3, <1>4, <1>5, <1>6, <1>7 DEF Next, OpenStep

LEMMA KeptStep == ASSUME Progress, Kept, [Next]_vars PROVE Kept'
<1>1. CASE OpenStep
  BY <1>1, CheckKeeps, DropIndexKeeps, RenameKeeps, CopyKeeps, DropOldKeeps, CreateKeeps, FeaturesKeep DEF OpenStep
<1>2. CASE Ended \/ UNCHANGED vars
  <2>1. UNCHANGED vars
    BY <1>2 DEF Ended
  <2>2. RowsSound' /\ History'
    BY <2>1, KeptByFrame DEF vars
  <2>. QED  BY <2>1, <2>2 DEF vars, Kept, Tables, Merged
<1>. QED  BY <1>1, <1>2, StartKeeps, StopKeeps, ServingKeeps DEF Next
------------------------------------------------------------------------------
(* The theorems.                                                             *)

LEMMA Started == ASSUME Init PROVE Progress /\ Kept /\ Known
BY DEF Init, Progress, Kept, Known, Tables, Merged, RowsSound, History, Label, Opening

LEMMA Inductive == Spec => [](Progress /\ Kept /\ Known)
<1>1. Init => Progress /\ Kept /\ Known
  BY Started
<1>2. Progress /\ Kept /\ Known /\ [Next]_vars => (Progress /\ Kept /\ Known)'
  BY ProgressStep, KeptStep, KnownStep
<1>. QED  BY <1>1, <1>2, PTL DEF Spec

\* Wherever migrateSessionsTable is stopped and taken up again, a session that
\* this release has stored, or the older one alone in the file, is in one of the
\* two tables until it is overwritten or deleted.
THEOREM NothingIsLost == Spec => []MigrationIsAtomic
<1>1. Kept => MigrationIsAtomic
  BY DEF Kept, History, serving, MigrationIsAtomic, present
<1>. QED  BY <1>1, Inductive, PTL

\* The copy and the renaming leave the unique keys and the foreign key of both
\* session tables intact.
THEOREM RowsStaySound == Spec => []RowsSound
<1>1. Kept => RowsSound
  BY DEF Kept
<1>. QED  BY <1>1, Inductive, PTL

\* When Open has returned, the file has the schema, the default features and
\* nothing of the older release, whichever way it came.
THEOREM OpenMeansComplete == Spec => []OpenedIsComplete
<1>1. Progress /\ Kept /\ Known => OpenedIsComplete
  <2>1. SUFFICES ASSUME Progress, Kept, Known, opc = "open"
                 PROVE  /\ objects = {Schema[n] : n \in DOMAIN Schema}
                        /\ legacy = {}
                        /\ features = Feature
    BY DEF OpenedIsComplete
  <2>2. legacy = {} /\ features = Feature
    BY <2>1 DEF Kept, Tables, Known
  <2>3. "wmpf_sessions" \notin objects /\ "idx_sess_expires" \notin objects
    BY <2>1 DEF Kept, Tables, Known
  <2>4. \A n \in 1..4 : Schema[n] \in objects
    BY <2>1 DEF Progress
  <2>5. objects = {Schema[n] : n \in 1..4}
    BY <2>1, <2>3, <2>4 DEF Known
  <2>. QED  BY <2>2, <2>5, SchemaParts
<1>. QED  BY <1>1, Inductive, PTL

\* A step that loses a session is the drop of the old table, when the session of
\* the older release had met its key or its id in the new one.
LEMMA LossStep ==
    ASSUME Progress, Kept, History', [Next]_vars,
           NEW o \in owed \cap owed', present(o), ~present(o)'
    PROVE  opc = "dropOld" /\ \A r \in legacy : isRow(o, r) => conflicts(r, sessions)
<1>1. PICK r \in legacy \cup sessions : isRow(o, r)
  BY DEF present
<1>2. r \notin legacy' \cup sessions'
  BY <1>1 DEF present, isRow, sameKey
<1>3. CASE DropOld
  BY <1>3 DEF DropOld, step, Kept, Merged
<1>4. CASE Copy
  BY <1>1, <1>2, <1>4, CopyMerges DEF Copy, step
<1>5. CASE Rename
  BY <1>1, <1>2, <1>5 DEF Rename, step, Kept, Tables
<1>6. CASE CheckOld \/ CheckNew \/ DropIndex \/ Create \/ InsertFeature \/ FeaturesPresent \/ Start \/ Stop
  BY <1>1, <1>2, <1>6 DEF CheckOld, CheckNew, DropIndex, Create, InsertFeature, FeaturesPresent, Start, Stop, step, fileVars
<1>7. CASE PutSession \/ OlderPutsSession
  <2>1. o.beside
    BY DEF History, serving, present, isRow, sameKey
  <2>2. "sessions" \in objects
    BY <2>1 DEF Kept, History
  <2>3. CASE PutSession
    BY <1>1, <1>2, <2>1, <2>3, UpsertWrites DEF PutSession, ofKey, written, isRow, sameKey
  <2>4. CASE OlderPutsSession
    <3>1. PICK a \in accounts, p \in Proxy :
              /\ upserts(legacy, a, p, legacy')
              /\ owed' = {q \in owed : q \in ofKey(a, p) => q.beside # ("sessions" \in objects)}
                             \cup {written(a, p, "sessions" \in objects)}
      BY <2>4 DEF OlderPutsSession
    <3>2. o # written(a, p, "sessions" \in objects)
      <4>1. ASSUME o = written(a, p, "sessions" \in objects) PROVE FALSE
        <5>1. PICK s \in legacy' : s.acct = a /\ s.proxy = p /\ s.made = starts
          BY <3>1, UpsertWrites
        <5>2. isRow(o, s)
          BY <4>1, <5>1 DEF written, isRow, sameKey
        <5>. QED  BY <5>1, <5>2 DEF present, isRow, sameKey
      <4>. QED  BY <4>1
    <3>3. o \notin ofKey(a, p)
      BY <2>1, <2>2, <3>1, <3>2
    <3>. QED  BY <1>1, <1>2, <2>4, <3>1, <3>3, UpsertWrites DEF OlderPutsSession, ofKey, isRow, sameKey
  <2>. QED  BY <1>7, <2>3, <2>4
<1>8. CASE InvalidateSession \/ DeleteAccount \/ OlderDeletesAccount
  BY <1>1, <1>2, <1>8 DEF InvalidateSession, DeleteAccount, OlderDeletesAccount, without, ofKey, ofAccount, isRow, sameKey
<1>9. CASE UpsertAccount \/ OlderStarts \/ OlderAddsAccount \/ Ended \/ UNCHANGED vars
  BY <1>1, <1>2, <1>9 DEF UpsertAccount, OlderStarts, OlderAddsAccount, Ended, vars
<1>. QED  BY <1>3, <1>4, <1>5, <1>6, <1>7, <1>8, <1>9 DEF Next, OpenStep, Serving

\* No session is lost in any other way than by the id or the key it shares with
\* a row of the new table when the old one is dropped.
THEOREM OnlyCollisionsLose == Spec => LossIsCollision
<1>1. Progress /\ Kept /\ Kept' /\ [Next]_vars =>
          [\A o \in owed \cap owed' :
              present(o) /\ ~present(o)' =>
                  opc = "dropOld" /\ \A r \in legacy : isRow(o, r) => conflicts(r, sessions)]_vars
  BY LossStep DEF Kept
<1>. QED  BY <1>1, Inductive, PTL DEF Spec, LossIsCollision
==============================================================================
