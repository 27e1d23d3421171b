--------------------------- MODULE AccountsProofs ----------------------------
(***************************************************************************)
(* Proofs about Accounts: what the handlers write from snapshots goes to   *)
(* the account they have read, mixes no profiles and undoes no setting,    *)
(* and a list is answered id by id.                                        *)
(***************************************************************************)
EXTENDS Accounts, FiniteSetTheorems, SequenceTheorems, TLAPS

Snapshot == [id : Nat, row : Row \cup {None}]

\* The table and the history of its settings.
TableOK ==
    /\ accounts \in [Id -> Row \cup {None}]
    /\ chosen \in [Id -> [Setting -> BOOLEAN \cup {None}]]
    /\ nextId \in Nat /\ scans \in 0..MaxScans
    /\ \A i \in present : i < nextId
    /\ \A i, j \in present : accounts[i].openid = accounts[j].openid => i = j

\* The local variables of the handlers.
RequestsOK ==
    /\ apc \in [Admin -> AdminLabel]
    /\ task \in [Admin -> Task \cup {None}]
    /\ \A r \in Admin : apc[r] # "idle" => task[r] \in Task
    /\ mode \in [Admin -> {"one", "all", "batch"}]
    /\ \A r \in Admin : apc[r] = "next" => mode[r] # "one"
    /\ \A r \in Admin : apc[r] \in {"write", "readback"} => acc[r] \in Snapshot
    /\ todo \in [Admin -> Seq(Snapshot)]
    /\ acc \in [Admin -> Snapshot \cup {None}]
    /\ asked \in [Admin -> Seq(Nat)]
    /\ results \in [Admin -> Seq(Nat)]

\* s was read from the account with its id, if that is still there.
AsReadFrom(s, table2, next) ==
    /\ s.id \in Id /\ s.id < next /\ s.row \in Row
    /\ s.row.nickname = s.row.user_info
    /\ table2[s.id] # None => table2[s.id].openid = s.row.openid

AsRead(s) == AsReadFrom(s, accounts, nextId)

Snapshots ==
    \A r \in Admin :
        /\ apc[r] = "write" => AsRead(acc[r])
        /\ mode[r] = "all" => \A n \in 1..Len(todo[r]) : AsRead(todo[r][n])

Administered == TableOK /\ RequestsOK /\ Snapshots /\ SettingsStay /\ ProfileIsOneScan
------------------------------------------------------------------------------
(* The rows.                                                                 *)

LEMMA RowFields ==
    ASSUME NEW row \in Row
    PROVE  /\ row.openid \in OpenID /\ row.nickname \in 0..MaxScans /\ row.user_info \in 0..MaxScans
           /\ row.disabled \in BOOLEAN /\ row.alias \in BOOLEAN
           /\ row["disabled"] = row.disabled /\ row["alias"] = row.alias
BY DEF Row

\* An UPDATE by id changes one setting, or the profile to the one read.
LEMMA UpdatedRow ==
    ASSUME NEW t \in Task, NEW row \in Row, NEW snap \in Row
    PROVE  /\ updated(t, row, snap) \in Row
           /\ updated(t, row, snap).openid = row.openid
           /\ t.col \in Setting =>
                 /\ \A c \in Setting : updated(t, row, snap)[c] = IF c = t.col THEN t.val ELSE row[c]
                 /\ updated(t, row, snap).nickname = row.nickname
                 /\ updated(t, row, snap).user_info = row.user_info
           /\ t.col \notin Setting =>
                 /\ \A c \in Setting : updated(t, row, snap)[c] = row[c]
                 /\ updated(t, row, snap).user_info = snap.user_info
                 /\ updated(t, row, snap).nickname \in {snap.user_info, snap.nickname}
<1>1. CASE t.col = "disabled"
  <2>1. updated(t, row, snap) = [row EXCEPT !.disabled = t.val] /\ t.val \in BOOLEAN
    BY <1>1 DEF updated, Setting, Task
  <2>. QED  BY <1>1, <2>1 DEF Row, Setting
<1>2. CASE t.col = "alias"
  <2>1. updated(t, row, snap) = [row EXCEPT !.alias = t.val] /\ t.val \in BOOLEAN
    BY <1>2 DEF updated, Setting, Task
  <2>. QED  BY <1>2, <2>1 DEF Row, Setting
<1>3. CASE t.col \notin Setting
  BY <1>3 DEF updated, SetAccountProfile, Row, Setting
<1>. QED  BY <1>1, <1>2, <1>3 DEF Setting

\* A row that is not written keeps what was read from it.
LEMMA AsReadStays ==
    ASSUME NEW s, NEW t1, NEW t2, NEW n1 \in Nat, NEW n2 \in Nat, n1 <= n2,
           AsReadFrom(s, t1, n1),
           \A i \in Id : t2[i] # None /\ i < n1 => t1[i] # None /\ t2[i].openid = t1[i].openid
    PROVE  AsReadFrom(s, t2, n2)
<1>1. s.id \in Nat
  BY AdminAssumption DEF AsReadFrom, Id
<1>. QED  BY <1>1 DEF AsReadFrom

\* The table after a statement: ids are not used again, accounts keep their openid.
Aged ==
    /\ nextId' \in Nat /\ nextId <= nextId'
    /\ \A i \in Id : accounts'[i] # None /\ i < nextId =>
          accounts[i] # None /\ accounts'[i].openid = accounts[i].openid

LEMMA SnapshotsStay ==
    ASSUME TableOK, Snapshots, Aged, UNCHANGED <<mode, acc>>,
           \A r \in Admin : apc'[r] = "write" => apc[r] = "write",
           UNCHANGED todo
    PROVE  Snapshots'
<1>1. nextId \in Nat /\ nextId' \in Nat /\ nextId <= nextId'
  BY DEF TableOK, Aged
<1>2. ASSUME NEW s, AsReadFrom(s, accounts, nextId)
      PROVE  AsReadFrom(s, accounts', nextId')
  BY <1>1, <1>2, AsReadStays DEF Aged
<1>. QED  BY <1>2 DEF Snapshots, AsRead
------------------------------------------------------------------------------
(* Each action.                                                              *)

LEMMA ScanKeeps == ASSUME Administered, NEW o \in OpenID, Scan(o) PROVE Administered'
<1> USE AdminAssumption DEF Administered
<1>0. UNCHANGED <<apc, task, mode, todo, acc, results, asked>>
  BY DEF Scan, request
<1>1. scans' \in 0..MaxScans /\ scans + 1 \in 0..MaxScans
  BY DEF Scan, TableOK
<1>2. CASE \E i \in present :
             /\ accounts[i].openid = o
             /\ accounts' = [accounts EXCEPT ![i] = profileOfScan(accounts[i], o)]
             /\ chosen' = [chosen EXCEPT ![i].alias = None]
             /\ UNCHANGED nextId
  <2>1. PICK i \in present :
             /\ accounts[i].openid = o
             /\ accounts' = [accounts EXCEPT ![i] = profileOfScan(accounts[i], o)]
             /\ chosen' = [chosen EXCEPT ![i].alias = None]
             /\ UNCHANGED nextId
    BY <1>2
  <2>2. i \in Id /\ accounts[i] \in Row
    BY DEF present, TableOK
  <2> DEFINE row == profileOfScan(accounts[i], o)
  <2>3. /\ row \in Row /\ row.openid = o
        /\ row.nickname = scans + 1 /\ row.user_info = scans + 1
        /\ row.disabled = accounts[i].disabled /\ row.alias = FALSE
        /\ row["disabled"] = row.disabled /\ row["alias"] = row.alias
    BY <1>1, <2>1, <2>2 DEF profileOfScan, Row
  <2>4. accounts' = [accounts EXCEPT ![i] = row] /\ present' = present
    BY <2>1, <2>2, <2>3 DEF present, TableOK
  <2>5. chosen'[i]["alias"] = None /\ chosen'[i]["disabled"] = chosen[i]["disabled"] /\ chosen' \in [Id -> [Setting -> BOOLEAN \cup {None}]]
    BY <2>1, <2>2 DEF TableOK, Setting
  <2>6. TableOK'
    <3>1. \A j \in present : accounts'[j].openid = accounts[j].openid
      BY <2>1, <2>2, <2>3, <2>4 DEF TableOK, present
    <3>2. accounts' \in [Id -> Row \cup {None}]
      BY <2>2, <2>3, <2>4 DEF TableOK
    <3>3. \A j, k \in present' : accounts'[j].openid = accounts'[k].openid => j = k
      BY <2>4, <3>1 DEF TableOK
    <3>4. nextId' \in Nat /\ \A j \in present' : j < nextId'
      BY <2>1, <2>4 DEF TableOK
    <3>. QED  BY <1>1, <2>5, <3>2, <3>3, <3>4 DEF TableOK
  <2>7. Snapshots'
    BY <1>0, <2>1, <2>2, <2>3, <2>4, SnapshotsStay DEF Aged, TableOK, present
  <2>8. SettingsStay'
    <3>1. SUFFICES ASSUME NEW j \in present, NEW c \in Setting, chosen'[j][c] # None
                   PROVE  accounts'[j][c] = chosen'[j][c]
      BY <2>4 DEF SettingsStay
    <3>2. CASE j = i
      <4>1. c # "alias"
        BY <2>5, <3>1, <3>2
      <4>2. c = "disabled"
        BY <4>1 DEF Setting
      <4>3. chosen[i]["disabled"] # None
        BY <2>5, <3>1, <3>2, <4>2
      <4>4. accounts[i]["disabled"] = chosen[i]["disabled"] /\ accounts[i] \in Row
        BY <2>2, <4>3 DEF SettingsStay, Setting, TableOK, present
      <4>5. accounts'[i] = row
        BY <2>2, <2>4 DEF TableOK, present
      <4>6. accounts'[i]["disabled"] = accounts[i]["disabled"]
        BY <2>3, <4>4, <4>5, RowFields
      <4>. QED  BY <2>5, <3>2, <4>2, <4>4, <4>6
    <3>3. CASE j # i
      <4>1. j \in Id /\ i \in Id
        BY <2>2 DEF present
      <4>2. accounts'[j] = accounts[j]
        BY <2>4, <3>3, <4>1 DEF TableOK
      <4>3. chosen'[j] = chosen[j]
        BY <2>1, <3>3, <4>1, Zenon DEF TableOK
      <4>. QED  BY <3>1, <4>2, <4>3 DEF SettingsStay
    <3>. QED  BY <3>2, <3>3
  <2>9. ProfileIsOneScan'
    BY <2>2, <2>3, <2>4 DEF ProfileIsOneScan, TableOK, present
  <2>. QED  BY <1>0, <2>6, <2>7, <2>8, <2>9 DEF RequestsOK
<1>3. CASE /\ \A i \in present : accounts[i].openid # o
           /\ nextId \in Id
           /\ accounts' = [accounts EXCEPT ![newId] =
                [openid |-> o, nickname |-> scans + 1, user_info |-> scans + 1,
                 disabled |-> FALSE, alias |-> FALSE]]
           /\ chosen' = [chosen EXCEPT ![newId] = unset]
           /\ nextId' = nextId + 1
  <2> DEFINE row == [openid |-> o, nickname |-> scans + 1, user_info |-> scans + 1,
                     disabled |-> FALSE, alias |-> FALSE]
  <2>1. row \in Row /\ row["disabled"] = FALSE /\ row["alias"] = FALSE
    BY <1>1 DEF Row
  <2>2. accounts' = [accounts EXCEPT ![nextId] = row] /\ chosen' = [chosen EXCEPT ![nextId] = unset]
    BY <1>3 DEF newId
  <2>3. present' = present \cup {nextId} /\ nextId \notin present
    <3>1. nextId \notin present
      BY <1>3 DEF present, TableOK, Id
    <3>2. \A i \in Id : accounts'[i] = IF i = nextId THEN row ELSE accounts[i]
      BY <2>2 DEF TableOK
    <3>3. row # None
      BY <2>1
    <3> HIDE DEF row
    <3>. QED  BY <1>3, <3>1, <3>2, <3>3 DEF present
  <2>4. unset \in [Setting -> BOOLEAN \cup {None}] /\ \A c \in Setting : unset[c] # None => unset[c] = FALSE
    BY DEF unset
  <2>5. TableOK'
    <3>1. accounts' \in [Id -> Row \cup {None}] /\ chosen' \in [Id -> [Setting -> BOOLEAN \cup {None}]]
      <4> HIDE DEF row
      <4>1. accounts' \in [Id -> Row \cup {None}]
        BY <2>1, <2>2 DEF TableOK
      <4>2. chosen' \in [Id -> [Setting -> BOOLEAN \cup {None}]]
        BY <2>2, <2>4, Zenon DEF TableOK
      <4>. QED  BY <4>1, <4>2
    <3>2. \A i \in present' : i < nextId'
      BY <1>3, <2>3 DEF TableOK, present, Id
    <3>3. \A i, j \in present' : accounts'[i].openid = accounts'[j].openid => i = j
      BY <1>3, <2>2, <2>3 DEF TableOK, present
    <3>. QED  BY <1>1, <1>3, <3>1, <3>2, <3>3 DEF TableOK
  <2>6. Snapshots'
    BY <1>0, <1>3, <2>1, <2>2, <2>3, SnapshotsStay DEF Aged, TableOK, present
  <2>7. SettingsStay'
    BY <1>3, <2>1, <2>2, <2>3, <2>4, ZenonT(30) DEF SettingsStay, TableOK, present, Setting
  <2>8. ProfileIsOneScan'
    BY <1>3, <2>2, <2>3, SMTT(30) DEF ProfileIsOneScan, TableOK, present
  <2>. QED  BY <1>0, <2>5, <2>6, <2>7, <2>8 DEF RequestsOK
<1>. QED  BY <1>2, <1>3 DEF Scan

LEMMA TableFrame ==
    ASSUME Administered, UNCHANGED <<accounts, nextId, scans, chosen>>
    PROVE  TableOK' /\ SettingsStay' /\ ProfileIsOneScan'
BY DEF Administered, TableOK, SettingsStay, ProfileIsOneScan, present

\* What is read now was read from the account.
LEMMA ReadNow ==
    ASSUME Administered, NEW i \in present
    PROVE  AsReadFrom(snapshot(i), accounts, nextId) /\ snapshot(i) \in Snapshot
BY AdminAssumption DEF Administered, TableOK, ProfileIsOneScan, AsReadFrom, snapshot, Snapshot, present, Id

LEMMA ResolveKeeps ==
    ASSUME Administered, NEW r \in Admin, NEW t \in Task, NEW o \in OpenID, Resolve(r, t, o)
    PROVE  Administered'
<1>1. TableOK' /\ SettingsStay' /\ ProfileIsOneScan'
  BY TableFrame DEF Resolve, table
<1>2. CASE \E i \in present :
             /\ accounts[i].openid = o
             /\ acc' = [acc EXCEPT ![r] = snapshot(i)]
             /\ asked' = [asked EXCEPT ![r] = <<i>>]
             /\ At(r, "write")
  <2>1. PICK i \in present :
             /\ acc' = [acc EXCEPT ![r] = snapshot(i)]
             /\ asked' = [asked EXCEPT ![r] = <<i>>]
             /\ apc' = [apc EXCEPT ![r] = "write"]
    BY <1>2 DEF At
  <2>2. AsReadFrom(snapshot(i), accounts, nextId) /\ snapshot(i) \in Snapshot
    BY ReadNow
  <2>3. <<i>> \in Seq(Nat)
    BY AdminAssumption DEF present, Id
  <2>4. RequestsOK'
    BY <2>1, <2>2, <2>3 DEF Resolve, start, Administered, RequestsOK, AdminLabel
  <2>5. Snapshots'
    BY <2>1, <2>2 DEF Resolve, start, table, Administered, RequestsOK, Snapshots, AsRead
  <2>. QED  BY <1>1, <2>4, <2>5 DEF Administered
<1>3. CASE At(r, "error") /\ UNCHANGED <<acc, asked>>
  <2>1. RequestsOK'
    BY <1>3 DEF Resolve, start, At, Administered, RequestsOK, AdminLabel, Answered
  <2>2. Snapshots'
    BY <1>3 DEF Resolve, start, At, table, Administered, RequestsOK, Snapshots, AsRead
  <2>. QED  BY <1>1, <2>1, <2>2 DEF Administered
<1>. QED  BY <1>2, <1>3 DEF Resolve

\* ListAccounts is a sequence of the ids that are there.
LEMMA ListedIds ==
    ASSUME TableOK, NEW ids \in ListAccounts
    PROVE  ids \in Seq(present) /\ ids \in Seq(Nat) /\ DOMAIN ids = 1..Len(ids)
<1>1. IsFiniteSet(present)
  <2>1. IsFiniteSet(1..MaxId)
    BY FS_Interval, AdminAssumption
  <2>. QED  BY <2>1, FS_Subset DEF present, Id
<1>2. Cardinality(present) \in Nat
  BY <1>1, FS_CardinalityType
<1>3. present \subseteq Nat
  BY AdminAssumption DEF present, Id
<1>4. ids \in [1..Cardinality(present) -> present]
  BY DEF ListAccounts
<1>5. ids \in Seq(present)
  BY <1>2, <1>4, SeqDef
<1>6. ids \in [1..Cardinality(present) -> Nat]
  BY <1>3, <1>4
<1>7. ids \in Seq(Nat)
  BY <1>2, <1>6, SeqDef
<1>8. DOMAIN ids = 1..Len(ids)
  BY <1>7
<1>. QED  BY <1>5, <1>7, <1>8

LEMMA ResyncAllKeeps ==
    ASSUME Administered, NEW r \in Admin, ResyncAll(r)
    PROVE  Administered'
<1>1. TableOK' /\ SettingsStay' /\ ProfileIsOneScan'
  BY TableFrame DEF ResyncAll, table
<1>2. PICK ids \in ListAccounts :
          /\ todo' = [todo EXCEPT ![r] = [n \in DOMAIN ids |-> snapshot(ids[n])]]
          /\ asked' = [asked EXCEPT ![r] = ids]
  BY DEF ResyncAll
<1> DEFINE list == [n \in DOMAIN ids |-> snapshot(ids[n])]
<1>3. ids \in Seq(present) /\ ids \in Seq(Nat) /\ DOMAIN ids = 1..Len(ids)
  BY ListedIds DEF Administered
<1>4. /\ list \in Seq(Snapshot) /\ Len(list) = Len(ids)
      /\ \A n \in 1..Len(list) : AsReadFrom(list[n], accounts, nextId)
  BY <1>3, ReadNow
<1>5. todo' = [todo EXCEPT ![r] = list] /\ apc' = [apc EXCEPT ![r] = "next"]
  BY <1>2 DEF ResyncAll, At
<1> HIDE DEF list
<1>6. [col |-> "resync", val |-> FALSE] \in Task
  BY DEF Task
<1>7. RequestsOK'
  BY <1>2, <1>3, <1>4, <1>5, <1>6 DEF ResyncAll, start, Administered, RequestsOK, AdminLabel
<1>8. Snapshots'
  BY <1>4, <1>5 DEF ResyncAll, start, table, Administered, RequestsOK, Snapshots, AsRead
<1>. QED  BY <1>1, <1>7, <1>8 DEF Administered

LEMMA BatchKeeps ==
    ASSUME Administered, NEW r \in Admin, NEW t \in Task, NEW ids \in Batches, Batch(r, t, ids)
    PROVE  Administered'
<1>1. TableOK' /\ SettingsStay' /\ ProfileIsOneScan'
  BY TableFrame DEF Batch, table
<1> DEFINE list == [n \in DOMAIN ids |-> [id |-> ids[n], row |-> None]]
<1>2. ids \in Seq(Nat)
  BY AdminAssumption
<1>3. list \in Seq(Snapshot)
  <2>1. DOMAIN ids = 1..Len(ids) /\ Len(ids) \in Nat /\ \A n \in 1..Len(ids) : ids[n] \in Nat
    BY <1>2
  <2>2. list \in [1..Len(ids) -> Snapshot]
    BY <2>1 DEF Snapshot
  <2>. QED  BY <2>1, <2>2, SeqDef
<1>4. todo' = [todo EXCEPT ![r] = list] /\ asked' = [asked EXCEPT ![r] = ids] /\ apc' = [apc EXCEPT ![r] = "next"]
  BY DEF Batch, At
<1> HIDE DEF list
<1>5. RequestsOK'
  BY <1>2, <1>3, <1>4 DEF Batch, start, Administered, RequestsOK, AdminLabel
<1>6. Snapshots'
  BY <1>4 DEF Batch, start, table, Administered, RequestsOK, Snapshots, AsRead
<1>. QED  BY <1>1, <1>5, <1>6 DEF Administered

LEMMA TakeNextKeeps ==
    ASSUME Administered, NEW r \in Admin, TakeNext(r)
    PROVE  Administered'
<1> DEFINE next == Head(todo[r])
<1>1. TableOK' /\ SettingsStay' /\ ProfileIsOneScan'
  BY TableFrame DEF TakeNext, table
<1>2. todo[r] \in Seq(Snapshot)
  BY DEF Administered, RequestsOK
<1>3. CASE todo[r] = <<>>
  <2>1. RequestsOK'
    BY <1>3 DEF TakeNext, At, Administered, RequestsOK, AdminLabel, Answered
  <2>2. Snapshots'
    BY <1>3 DEF TakeNext, At, table, Administered, RequestsOK, Snapshots, AsRead
  <2>. QED  BY <1>1, <2>1, <2>2 DEF Administered
<1>4. CASE todo[r] # <<>>
  <2>1. /\ next \in Snapshot /\ Tail(todo[r]) \in Seq(Snapshot)
        /\ next = todo[r][1] /\ 1 \in 1..Len(todo[r])
        /\ \A n \in 1..Len(Tail(todo[r])) : n + 1 \in 1..Len(todo[r]) /\ Tail(todo[r])[n] = todo[r][n + 1]
    BY <1>2, <1>4
  <2>2. todo' = [todo EXCEPT ![r] = Tail(todo[r])] /\ UNCHANGED <<task, mode, asked>>
    BY <1>4 DEF TakeNext
  <2>3. mode[r] = "all" => AsReadFrom(next, accounts, nextId)
    BY <2>1 DEF Administered, Snapshots, AsRead
  <2>4. \A n \in 1..Len(Tail(todo[r])) : mode[r] = "all" => AsReadFrom(Tail(todo[r])[n], accounts, nextId)
    BY <2>1 DEF Administered, Snapshots, AsRead
  <2>5. CASE mode[r] = "batch" /\ unreadable(r, next.id)
    <3>1. results' = [results EXCEPT ![r] = Append(results[r], next.id)] /\ UNCHANGED <<apc, acc>>
      BY <1>4, <2>5 DEF TakeNext, report
    <3>2. Append(results[r], next.id) \in Seq(Nat)
      BY <2>1 DEF Snapshot, Administered, RequestsOK
    <3>3. RequestsOK'
      BY <2>1, <2>2, <3>1, <3>2 DEF Administered, RequestsOK
    <3>4. Snapshots'
      BY <2>2, <2>4, <3>1 DEF TakeNext, table, Administered, RequestsOK, Snapshots, AsRead
    <3>. QED  BY <1>1, <3>3, <3>4 DEF Administered
  <2>6. CASE ~(mode[r] = "batch" /\ unreadable(r, next.id))
    <3> DEFINE read == IF mode[r] = "batch" THEN snapshot(next.id) ELSE next
    <3>1. /\ acc' = [acc EXCEPT ![r] = read] /\ apc' = [apc EXCEPT ![r] = "write"]
          /\ UNCHANGED results
      BY <1>4, <2>6 DEF TakeNext, At
    <3>2. mode[r] = "batch" => next.id \in present
      BY <2>6 DEF unreadable
    <3>3. mode[r] # "batch" => mode[r] = "all"
      BY DEF TakeNext, Administered, RequestsOK
    <3>4. AsReadFrom(read, accounts, nextId) /\ read \in Snapshot
      BY <2>1, <2>3, <3>2, <3>3, ReadNow
    <3> HIDE DEF read
    <3>5. RequestsOK'
      BY <2>1, <2>2, <3>1, <3>4 DEF TakeNext, Administered, RequestsOK, AdminLabel
    <3>6. Snapshots'
      BY <2>2, <2>4, <3>1, <3>4 DEF TakeNext, table, Administered, RequestsOK, Snapshots, AsRead
    <3>. QED  BY <1>1, <3>5, <3>6 DEF Administered
  <2>. QED  BY <2>5, <2>6
<1>. QED  BY <1>3, <1>4

\* Through with an account, the request reports it, answers or reads it back.
LEMMA EndOfWrite ==
    ASSUME Administered, NEW r \in Admin, apc[r] \in {"write", "readback"},
           UNCHANGED <<task, mode, todo, acc, asked>>,
           succeeds(r) \/ fails(r) \/ (At(r, "readback") /\ UNCHANGED results)
    PROVE  RequestsOK' /\ \A s \in Admin : apc'[s] = "write" => apc[s] = "write"
<1>1. acc[r] \in Snapshot /\ task[r] \in Task
  BY DEF Administered, RequestsOK
<1>2. Append(results[r], acc[r].id) \in Seq(Nat)
  BY <1>1 DEF Snapshot, Administered, RequestsOK
<1>3. PICK l \in AdminLabel \ {"write"} :
          /\ apc' = [apc EXCEPT ![r] = l]
          /\ l = "next" => mode[r] # "one"
          /\ l # "idle"
          /\ results' \in {results, [results EXCEPT ![r] = Append(results[r], acc[r].id)]}
  BY DEF succeeds, fails, At, report, AdminLabel, Answered
<1>4. results' \in [Admin -> Seq(Nat)]
  <2>1. results \in [Admin -> Seq(Nat)]
    BY DEF Administered, RequestsOK
  <2> DEFINE extended == Append(results[r], acc[r].id)
  <2>2. extended \in Seq(Nat) /\ results' \in {results, [results EXCEPT ![r] = extended]}
    BY <1>2, <1>3
  <2> HIDE DEF extended
  <2>. QED  BY <2>1, <2>2
<1>5. apc' \in [Admin -> AdminLabel] /\ \A s \in Admin : apc'[s] = IF s = r THEN l ELSE apc[s]
  <2>1. apc \in [Admin -> AdminLabel]
    BY DEF Administered, RequestsOK
  <2>2. apc' = [apc EXCEPT ![r] = l] /\ l \in AdminLabel
    BY <1>3
  <2>. QED  BY <2>1, <2>2
<1>. QED  BY <1>1, <1>3, <1>4, <1>5 DEF Administered, RequestsOK

\* The statement keeps the table, whatever the request has read.
LEMMA ExecuteKeeps ==
    ASSUME Administered, NEW t \in Task, NEW s, AsReadFrom(s, accounts, nextId),
           execute(t, s.id, s.row), UNCHANGED <<nextId, scans>>
    PROVE  TableOK' /\ SettingsStay' /\ ProfileIsOneScan' /\ Aged
<1> USE AdminAssumption DEF Administered
<1> DEFINE i == s.id
<1>1. nextId' = nextId /\ nextId \in Nat /\ scans' = scans
  BY DEF TableOK
<1>2. CASE i \notin present
  <2>1. UNCHANGED <<accounts, chosen>>
    BY <1>2 DEF execute
  <2>2. Aged
    BY <1>1, <2>1 DEF Aged
  <2>. QED  BY <2>1, <2>2, TableFrame
<1>3. CASE i \in present /\ t.col = "delete"
  <2>1. accounts' = [accounts EXCEPT ![i] = None] /\ UNCHANGED chosen
    BY <1>3 DEF execute
  <2>2. present' = present \ {i} /\ \A j \in present' : accounts'[j] = accounts[j]
    BY <1>3, <2>1 DEF present, TableOK
  <2>3. accounts' \in [Id -> Row \cup {None}]
    BY <2>1 DEF TableOK
  <2>4. TableOK'
    BY <1>1, <2>1, <2>2, <2>3 DEF TableOK
  <2>5. SettingsStay' /\ ProfileIsOneScan'
    BY <2>1, <2>2 DEF SettingsStay, ProfileIsOneScan
  <2>6. Aged
    BY <1>1, <2>1, <2>2, <2>3 DEF Aged, TableOK, present
  <2>. QED  BY <2>4, <2>5, <2>6
<1>4. CASE i \in present /\ t.col # "delete"
  <2> DEFINE row == updated(t, accounts[i], s.row)
  <2>1. accounts[i] \in Row /\ s.row \in Row /\ i \in Id /\ s.row.nickname = s.row.user_info
    BY <1>4 DEF present, TableOK, AsReadFrom
  <2>2. /\ accounts' = [accounts EXCEPT ![i] = row]
        /\ chosen' = IF t.col \in Setting THEN [chosen EXCEPT ![i][t.col] = t.val] ELSE chosen
    BY <1>4 DEF execute
  <2>3. /\ row \in Row /\ row.openid = accounts[i].openid
        /\ t.col \in Setting =>
              /\ \A c \in Setting : row[c] = IF c = t.col THEN t.val ELSE accounts[i][c]
              /\ row.nickname = accounts[i].nickname /\ row.user_info = accounts[i].user_info
        /\ t.col \notin Setting =>
              /\ \A c \in Setting : row[c] = accounts[i][c]
              /\ row.nickname = row.user_info
    BY <2>1, UpdatedRow
  <2> HIDE DEF row
  <2>4. \A j \in Id : accounts'[j] = IF j = i THEN row ELSE accounts[j]
    BY <2>1, <2>2 DEF TableOK
  <2>5. present' = present
    BY <1>4, <2>3, <2>4 DEF present
  <2>6. /\ chosen' \in [Id -> [Setting -> BOOLEAN \cup {None}]]
        /\ \A j \in Id, c \in Setting :
              chosen'[j][c] = IF j = i /\ c = t.col THEN t.val ELSE chosen[j][c]
    <3>1. CASE t.col \in Setting
      <4>1. t.val \in BOOLEAN /\ chosen' = [chosen EXCEPT ![i][t.col] = t.val]
        BY <2>2, <3>1 DEF Task
      <4>. QED  BY <2>1, <3>1, <4>1, Zenon DEF TableOK
    <3>2. CASE t.col \notin Setting
      BY <2>2, <3>2 DEF TableOK
    <3>. QED  BY <3>1, <3>2
  <2>7. TableOK'
    <3>1. accounts' \in [Id -> Row \cup {None}]
      BY <2>2, <2>3 DEF TableOK
    <3>2. \A j \in present : accounts'[j].openid = accounts[j].openid
      BY <2>3, <2>4 DEF present
    <3>. QED  BY <1>1, <2>5, <2>6, <3>1, <3>2 DEF TableOK
  <2>8. SettingsStay'
    <3>1. \A j \in present, c \in Setting :
              chosen'[j][c] # None => accounts'[j][c] = chosen'[j][c]
      BY <2>3, <2>4, <2>6 DEF SettingsStay, present
    <3>. QED  BY <2>5, <3>1 DEF SettingsStay
  <2>9. ProfileIsOneScan'
    BY <1>4, <2>3, <2>4, <2>5 DEF ProfileIsOneScan, present
  <2>10. Aged
    BY <1>1, <1>4, <2>3, <2>4 DEF Aged, present
  <2>. QED  BY <2>7, <2>8, <2>9, <2>10
<1>. QED  BY <1>2, <1>3, <1>4

LEMMA WriteKeeps ==
    ASSUME Administered, NEW r \in Admin, Write(r) PROVE Administered'
<1>1. AsReadFrom(acc[r], accounts, nextId) /\ task[r] \in Task /\ apc[r] = "write"
  BY DEF Write, writing, Administered, RequestsOK, Snapshots, AsRead
<1>2. execute(task[r], acc[r].id, acc[r].row) /\ UNCHANGED <<nextId, scans, task, mode, todo, acc, asked>>
  BY DEF Write, writing
<1>3. TableOK' /\ SettingsStay' /\ ProfileIsOneScan' /\ Aged
  BY <1>1, <1>2, ExecuteKeeps
<1>4. RequestsOK' /\ \A s \in Admin : apc'[s] = "write" => apc[s] = "write"
  BY <1>1, <1>2, EndOfWrite DEF Write
<1>5. Snapshots'
  BY <1>2, <1>3, <1>4, SnapshotsStay DEF Administered
<1>. QED  BY <1>3, <1>4, <1>5 DEF Administered

\* A step that leaves the table and the snapshots alone.
LEMMA QuietKeeps ==
    ASSUME Administered, UNCHANGED <<accounts, nextId, scans, chosen, mode, todo, acc>>,
           RequestsOK', \A s \in Admin : apc'[s] = "write" => apc[s] = "write"
    PROVE  Administered'
<1>1. Aged
  BY DEF Aged, Administered, TableOK
<1>2. Snapshots'
  BY <1>1, SnapshotsStay DEF Administered
<1>. QED  BY <1>2, TableFrame DEF Administered

LEMMA NoWriteKeeps ==
    ASSUME Administered, NEW r \in Admin, WriteNothing(r) \/ WriteFails(r) \/ Readback(r)
    PROVE  Administered'
<1>1. apc[r] \in {"write", "readback"} /\ UNCHANGED <<accounts, nextId, scans, chosen, task, mode, todo, acc, asked>>
  BY DEF WriteNothing, WriteFails, Readback, writing, table
<1>2. succeeds(r) \/ fails(r)
  BY DEF WriteNothing, WriteFails, Readback
<1>. QED  BY <1>1, <1>2, EndOfWrite, QuietKeeps

LEMMA OthersKeep ==
    ASSUME Administered,
           UNCHANGED <<accounts, nextId, scans, chosen, apc, task, mode, todo, acc, results, asked>>
    PROVE  Administered'
<1>1. RequestsOK'
  BY DEF Administered, RequestsOK
<1>. QED  BY <1>1, QuietKeeps
------------------------------------------------------------------------------
(* The theorems.                                                             *)

LEMMA AdminStarts == AdminInit => Administered
<1> SUFFICES ASSUME AdminInit PROVE Administered
  OBVIOUS
<1> USE AdminAssumption
<1>1. present = {}
  BY DEF AdminInit, present
<1>2. unset \in [Setting -> BOOLEAN \cup {None}]
  BY DEF unset
<1>3. TableOK
  BY <1>1, <1>2 DEF AdminInit, TableOK
<1>4. <<>> \in Seq(Snapshot) /\ <<>> \in Seq(Nat) /\ Len(<<>>) = 0
  OBVIOUS
<1>5. RequestsOK
  BY <1>4 DEF AdminInit, RequestsOK, AdminLabel
<1>6. Snapshots
  BY <1>4 DEF AdminInit, Snapshots
<1>. QED  BY <1>1, <1>3, <1>5, <1>6 DEF Administered, SettingsStay, ProfileIsOneScan

LEMMA AdminKeeps == Administered /\ [AdminNext]_adminVars => Administered'
<1> SUFFICES ASSUME Administered, [AdminNext]_adminVars PROVE Administered'
  OBVIOUS
<1>1. ASSUME NEW r \in Admin, AdminStep(r) PROVE Administered'
  BY <1>1, TakeNextKeeps, WriteKeeps, NoWriteKeeps DEF AdminStep
<1>2. ASSUME NEW r \in Admin, ClientLeaves(r) PROVE Administered'
  BY <1>2, OthersKeep DEF ClientLeaves, table, request
<1>3. ASSUME NEW r \in Admin, ResyncAll(r) PROVE Administered'
  BY <1>3, ResyncAllKeeps
<1>4. ASSUME NEW r \in Admin, NEW t \in Task, NEW o \in OpenID, Resolve(r, t, o) PROVE Administered'
  BY <1>4, ResolveKeeps
<1>5. ASSUME NEW r \in Admin, NEW t \in Task, NEW ids \in Batches, Batch(r, t, ids) PROVE Administered'
  BY <1>5, BatchKeeps
<1>6. ASSUME NEW o \in OpenID, Scan(o) PROVE Administered'
  BY <1>6, ScanKeeps
<1>7. CASE \/ \E u \in Url : AddProxy(u)
           \/ \E p \in DOMAIN proxies : DeleteProxy(p)
           \/ \E p \in DOMAIN proxies, u \in Url \cup {Empty}, e \in BOOLEAN : UpdateProxy(p, u, e)
           \/ AllAdministered
           \/ UNCHANGED adminVars
  BY <1>7, OthersKeep DEF AddProxy, DeleteProxy, UpdateProxy, AllAdministered, adminVars, table, request
<1>. QED  BY <1>1, <1>2, <1>3, <1>4, <1>5, <1>6, <1>7 DEF AdminNext

\* Every reachable state: rows are well formed, and a snapshot still to be
\* written was read from the account that has its id.
THEOREM SnapshotsMatch == AdminSpec => []Administered
<1>. QED  BY AdminStarts, AdminKeeps, PTL DEF AdminSpec

\* However requests, scans and deletions interleave, an account has the proxy and
\* the disabled flag an administrator has chosen last, and the remark chosen last
\* until a scan writes the nickname over it (UpsertAccount, store.go).
THEOREM SettingsLast == AdminSpec => []SettingsStay
<1>1. Administered => SettingsStay
  BY DEF Administered
<1>. QED  BY <1>1, SnapshotsMatch, PTL

\* Nickname and user_info of an account are from the same scan, although resyncs
\* and refreshes write back what they have read before it.
THEOREM ProfilesDoNotMix == AdminSpec => []ProfileIsOneScan
<1>1. Administered => ProfileIsOneScan
  BY DEF Administered
<1>. QED  BY <1>1, SnapshotsMatch, PTL

\* A statement of a handler changes the account that it has resolved, or none.
THEOREM NobodyElsesAccount == AdminSpec => StaleWritesMiss
<1>1. ASSUME Administered, [AdminNext]_adminVars, NEW r \in Admin, NEW i \in Id,
             Write(r), accounts'[i] # accounts[i]
      PROVE  i = acc[r].id /\ accounts[i].openid = acc[r].row.openid
  <2>1. AsReadFrom(acc[r], accounts, nextId)
    BY <1>1 DEF Write, writing, Administered, Snapshots, AsRead
  <2>2. acc[r].id \in present /\ i = acc[r].id
    BY <1>1 DEF Write, execute, Administered, TableOK
  <2>. QED  BY <2>1, <2>2 DEF AsReadFrom, present
<1>2. Administered /\ [AdminNext]_adminVars =>
        [\A r \in Admin : \A i \in Id :
            Write(r) /\ accounts'[i] # accounts[i] =>
               /\ i = acc[r].id
               /\ accounts[i].openid = acc[r].row.openid]_adminVars
  BY <1>1
<1>. QED  BY <1>2, SnapshotsMatch, PTL DEF AdminSpec, StaleWritesMiss
------------------------------------------------------------------------------
(* A list is answered id by id.                                              *)

pending(r) == IF apc[r] \in {"write", "readback"} THEN 1 ELSE 0

\* What is answered, worked on and to come is, in that order, what was asked for.
Accounted(r) ==
    /\ Len(results[r]) + pending(r) + Len(todo[r]) = Len(asked[r])
    /\ \A n \in 1..Len(results[r]) : results[r][n] = asked[r][n]
    /\ apc[r] \in {"write", "readback"} => acc[r].id = asked[r][Len(results[r]) + 1]
    /\ \A n \in 1..Len(todo[r]) :
          todo[r][n].id = asked[r][Len(results[r]) + pending(r) + n]

CountedOf(r) ==
    /\ apc[r] = "idle" => results[r] = <<>>
    /\ mode[r] # "one" /\ apc[r] \notin {"idle", "error"} => Accounted(r)
    /\ mode[r] # "one" /\ apc[r] = "answered" => todo[r] = <<>>

Counted == \A r \in Admin : CountedOf(r)

\* The local variables of one request.
SameRequest(s) ==
    /\ apc'[s] = apc[s] /\ mode'[s] = mode[s] /\ todo'[s] = todo[s] /\ acc'[s] = acc[s]
    /\ results'[s] = results[s] /\ asked'[s] = asked[s]

LEMMA OneCounts ==
    ASSUME Counted, NEW r \in Admin, \A s \in Admin \ {r} : SameRequest(s), CountedOf(r)'
    PROVE  Counted'
<1>1. ASSUME NEW s \in Admin \ {r} PROVE CountedOf(s)'
  <2>1. CountedOf(s) /\ SameRequest(s)
    BY DEF Counted
  <2>2. Accounted(s) => Accounted(s)'
    BY <2>1, Zenon DEF SameRequest, Accounted, pending
  <2>. QED  BY <2>1, <2>2, Zenon DEF CountedOf, SameRequest
<1>. QED  BY <1>1 DEF Counted

LEMMA StartCounts ==
    ASSUME RequestsOK, Counted, NEW r \in Admin, NEW list \in Seq(Snapshot), NEW ids \in Seq(Nat),
           apc[r] = "idle", apc' = [apc EXCEPT ![r] = "next"],
           mode' \in {[mode EXCEPT ![r] = "all"], [mode EXCEPT ![r] = "batch"]},
           todo' = [todo EXCEPT ![r] = list], asked' = [asked EXCEPT ![r] = ids],
           UNCHANGED <<acc, results>>,
           Len(list) = Len(ids), \A n \in 1..Len(list) : list[n].id = ids[n]
    PROVE  Counted'
<1>1. results'[r] = <<>> /\ todo'[r] = list /\ asked'[r] = ids /\ apc'[r] = "next"
  BY DEF RequestsOK, Counted, CountedOf
<1>2. \A s \in Admin \ {r} : SameRequest(s)
  BY DEF RequestsOK, SameRequest
<1>3. Accounted(r)'
  <2>1. Len(results'[r]) = 0 /\ pending(r)' = 0 /\ Len(list) \in Nat
    BY <1>1 DEF pending
  <2>2. \A n \in 1..Len(todo'[r]) : 0 + 0 + n = n
    BY <1>1
  <2>3. \A n \in 1..Len(todo'[r]) :
           todo'[r][n].id = asked'[r][Len(results'[r]) + pending(r)' + n]
    BY <1>1, <2>1, <2>2
  <2>. QED  BY <1>1, <2>1, <2>3 DEF Accounted
<1>4. CountedOf(r)'
  BY <1>1, <1>3 DEF CountedOf
<1>. QED  BY <1>2, <1>4, OneCounts

\* One more answered, one less to come.
LEMMA MovesOn ==
    \A a \in Nat, b \in Nat :
        /\ a + (b + 1) = a + 1 + b
        /\ a + 0 + b = a + b
        /\ b # 0 => (a + 1) + 0 + (b - 1) = a + b /\ a + 1 + (b - 1) = a + b
OBVIOUS

LEMMA TakeNextCounts ==
    ASSUME RequestsOK, Counted, NEW r \in Admin, TakeNext(r) PROVE Counted'
<1>1. /\ todo[r] \in Seq(Snapshot) /\ results[r] \in Seq(Nat) /\ mode[r] # "one" /\ apc[r] = "next"
      /\ mode'[r] = mode[r] /\ asked'[r] = asked[r]
  BY DEF RequestsOK, TakeNext
<1>2. Accounted(r)
  BY <1>1 DEF Counted, CountedOf
<1>3. \A s \in Admin \ {r} : SameRequest(s)
  BY DEF RequestsOK, TakeNext, At, report, SameRequest
<1>4. CASE todo[r] = <<>>
  <2>1. apc'[r] = "answered" /\ todo'[r] = todo[r] /\ results'[r] = results[r]
    BY <1>4 DEF TakeNext, At, RequestsOK
  <2>2. CountedOf(r)'
    BY <1>1, <1>2, <1>4, <2>1 DEF CountedOf, Accounted, pending
  <2>. QED  BY <1>3, <2>2, OneCounts
<1>5. CASE todo[r] # <<>>
  <2> DEFINE next == Head(todo[r])
             rest == Tail(todo[r])
  <2>1. /\ todo'[r] = rest /\ next = todo[r][1] /\ next.id \in Nat
        /\ Len(rest) = Len(todo[r]) - 1 /\ Len(todo[r]) \in Nat \ {0}
        /\ \A n \in 1..Len(rest) : n + 1 \in 1..Len(todo[r]) /\ rest[n] = todo[r][n + 1]
    <3>1. todo'[r] = rest
      BY <1>1, <1>5 DEF TakeNext, RequestsOK
    <3>2. next = todo[r][1] /\ next \in Snapshot
      BY <1>1, <1>5
    <3>3. /\ Len(rest) = Len(todo[r]) - 1 /\ Len(todo[r]) \in Nat \ {0}
          /\ \A n \in 1..Len(rest) : n + 1 \in 1..Len(todo[r]) /\ rest[n] = todo[r][n + 1]
      BY <1>1, <1>5
    <3>4. next.id \in Nat
      BY <3>2 DEF Snapshot
    <3>. QED  BY <3>1, <3>2, <3>3, <3>4
  <2>2. /\ Len(results[r]) \in Nat /\ Len(results[r]) + Len(todo[r]) = Len(asked[r])
        /\ next.id = asked[r][Len(results[r]) + 1]
        /\ \A n \in 1..Len(rest) : rest[n].id = asked[r][Len(results[r]) + 1 + n]
        /\ \A n \in 1..Len(results[r]) : results[r][n] = asked[r][n]
    <3>1. \A n \in 1..Len(todo[r]) : todo[r][n].id = asked[r][Len(results[r]) + n]
      BY <1>1, <1>2 DEF Accounted, pending
    <3>2. Len(results[r]) \in Nat /\ Len(rest) \in Nat
      BY <1>1, <2>1
    <3>3. ASSUME NEW n \in 1..Len(rest) PROVE rest[n].id = asked[r][Len(results[r]) + 1 + n]
      <4>1. n \in Nat
        BY <3>2
      <4>2. Len(results[r]) + (n + 1) = Len(results[r]) + 1 + n
        BY <3>2, <4>1, MovesOn, Zenon
      <4>. QED  BY <2>1, <3>1, <4>2
    <3>4. Len(results[r]) + Len(todo[r]) = Len(asked[r])
      <4>1. Len(results[r]) + 0 + Len(todo[r]) = Len(asked[r])
        BY <1>1, <1>2 DEF Accounted, pending
      <4>. QED  BY <2>1, <3>2, <4>1, MovesOn
    <3>5. next.id = asked[r][Len(results[r]) + 1]
      BY <2>1, <3>1
    <3>. QED  BY <1>2, <3>2, <3>3, <3>4, <3>5 DEF Accounted
  <2>3. CASE mode[r] = "batch" /\ unreadable(r, next.id)
    <3>1. results'[r] = Append(results[r], next.id) /\ apc'[r] = "next"
      BY <1>5, <2>3 DEF TakeNext, report, RequestsOK
    <3>2. /\ Len(results'[r]) = Len(results[r]) + 1
          /\ \A n \in 1..Len(results'[r]) : results'[r][n] = asked[r][n]
      BY <1>1, <2>1, <2>2, <3>1
    <3> HIDE DEF rest, next
    <3>3. pending(r)' = 0
      BY <3>1 DEF pending
    <3>4. Len(results'[r]) + pending(r)' + Len(todo'[r]) = Len(asked'[r])
      <4>1. (Len(results[r]) + 1) + 0 + (Len(todo[r]) - 1) = Len(results[r]) + Len(todo[r])
        BY <2>1, <2>2, MovesOn
      <4>. QED  BY <1>1, <2>1, <2>2, <3>2, <3>3, <4>1
    <3>5. \A n \in 1..Len(todo'[r]) :
             todo'[r][n].id = asked'[r][Len(results'[r]) + pending(r)' + n]
      <4>1. Len(results'[r]) + pending(r)' = Len(results[r]) + 1
        BY <2>2, <3>2, <3>3
      <4>. QED  BY <1>1, <2>1, <2>2, <4>1
    <3>6. Accounted(r)'
      BY <1>1, <3>1, <3>2, <3>4, <3>5 DEF Accounted
    <3>7. CountedOf(r)'
      BY <3>1, <3>6 DEF CountedOf
    <3>. QED  BY <1>3, <3>7, OneCounts
  <2>4. CASE ~(mode[r] = "batch" /\ unreadable(r, next.id))
    <3>1. results'[r] = results[r] /\ apc'[r] = "write" /\ acc'[r].id = next.id
      BY <1>5, <2>4 DEF TakeNext, At, RequestsOK, snapshot
    <3> HIDE DEF rest, next
    <3>2. pending(r)' = 1
      BY <3>1 DEF pending
    <3>3. Len(results'[r]) + pending(r)' + Len(todo'[r]) = Len(asked'[r])
      <4>1. Len(results[r]) + 1 + (Len(todo[r]) - 1) = Len(results[r]) + Len(todo[r])
        BY <2>1, <2>2, MovesOn
      <4>. QED  BY <1>1, <2>1, <2>2, <3>1, <3>2, <4>1
    <3>4. \A n \in 1..Len(todo'[r]) :
             todo'[r][n].id = asked'[r][Len(results'[r]) + pending(r)' + n]
      BY <1>1, <2>1, <2>2, <3>1, <3>2
    <3>5. Accounted(r)'
      BY <1>1, <2>2, <3>1, <3>3, <3>4 DEF Accounted
    <3>6. CountedOf(r)'
      BY <3>1, <3>5 DEF CountedOf
    <3>. QED  BY <1>3, <3>6, OneCounts
  <2>. QED  BY <2>3, <2>4
<1>. QED  BY <1>4, <1>5

LEMMA EndCounts ==
    ASSUME RequestsOK, Counted, NEW r \in Admin, apc[r] \in {"write", "readback"},
           UNCHANGED <<mode, todo, acc, asked>>,
           succeeds(r) \/ fails(r) \/ (apc[r] = "write" /\ At(r, "readback") /\ UNCHANGED results)
    PROVE  Counted'
<1>1. /\ results[r] \in Seq(Nat) /\ todo[r] \in Seq(Snapshot) /\ acc[r].id \in Nat
      /\ mode'[r] = mode[r] /\ todo'[r] = todo[r] /\ acc'[r] = acc[r] /\ asked'[r] = asked[r]
  BY DEF RequestsOK, Snapshot
<1>2. \A s \in Admin \ {r} : SameRequest(s)
  BY DEF RequestsOK, succeeds, fails, At, report, SameRequest
<1>3. CASE mode[r] = "one"
  <2>1. apc'[r] # "idle"
    BY <1>3 DEF succeeds, fails, At, RequestsOK
  <2>2. CountedOf(r)'
    BY <1>1, <1>3, <2>1 DEF CountedOf
  <2>. QED  BY <1>2, <2>2, OneCounts
<1>4. CASE mode[r] # "one"
  <2>1. Accounted(r) /\ pending(r) = 1
    BY <1>4 DEF Counted, CountedOf, pending
  <2>2. CASE At(r, "next") /\ report(r, acc[r].id)
    <3>1. apc'[r] = "next" /\ results'[r] = Append(results[r], acc[r].id)
      BY <2>2 DEF At, report, RequestsOK
    <3>2. /\ Len(results'[r]) = Len(results[r]) + 1 /\ Len(results[r]) \in Nat
          /\ \A n \in 1..Len(results'[r]) : results'[r][n] = asked[r][n]
      BY <1>1, <2>1, <3>1 DEF Accounted
    <3>3. pending(r)' = 0
      BY <3>1 DEF pending
    <3>4. Len(todo[r]) \in Nat /\ Len(results'[r]) + pending(r)' = Len(results[r]) + pending(r)
      BY <1>1, <2>1, <3>2, <3>3
    <3>5. Len(results'[r]) + pending(r)' + Len(todo'[r]) = Len(asked'[r])
      BY <1>1, <2>1, <3>4 DEF Accounted
    <3>6. \A n \in 1..Len(todo'[r]) :
             todo'[r][n].id = asked'[r][Len(results'[r]) + pending(r)' + n]
      BY <1>1, <2>1, <3>4 DEF Accounted
    <3>7. Accounted(r)'
      BY <1>1, <3>1, <3>2, <3>5, <3>6 DEF Accounted
    <3>8. CountedOf(r)'
      BY <3>1, <3>7 DEF CountedOf
    <3>. QED  BY <1>2, <3>8, OneCounts
  <2>3. CASE At(r, "error")
    <3>1. apc'[r] = "error"
      BY <2>3 DEF At, RequestsOK
    <3>. QED  BY <1>2, <3>1, OneCounts DEF CountedOf
  <2>4. CASE At(r, "readback") /\ UNCHANGED results
    <3>1. apc'[r] = "readback" /\ results'[r] = results[r]
      BY <2>4 DEF At, RequestsOK
    <3>2. CountedOf(r)'
      BY <1>1, <2>1, <3>1 DEF CountedOf, Accounted, pending
    <3>. QED  BY <1>2, <3>2, OneCounts
  <2>. QED  BY <1>4, <2>2, <2>3, <2>4 DEF succeeds, fails
<1>. QED  BY <1>3, <1>4

LEMMA RequestsCount ==
    Administered /\ Counted /\ [AdminNext]_adminVars => Counted'
<1> SUFFICES ASSUME Administered, Counted, [AdminNext]_adminVars PROVE Counted'
  OBVIOUS
<1>0. RequestsOK
  BY DEF Administered
<1>1. ASSUME NEW r \in Admin, AdminStep(r) PROVE Counted'
  <2>1. CASE TakeNext(r)
    BY <1>0, <2>1, TakeNextCounts
  <2>2. CASE Write(r) \/ WriteNothing(r) \/ WriteFails(r) \/ Readback(r)
    <3>1. apc[r] \in {"write", "readback"} /\ UNCHANGED <<mode, todo, acc, asked>>
      BY <2>2 DEF Write, WriteNothing, WriteFails, Readback, writing
    <3>2. succeeds(r) \/ fails(r) \/ (apc[r] = "write" /\ At(r, "readback") /\ UNCHANGED results)
      BY <2>2 DEF Write, WriteNothing, WriteFails, Readback, writing
    <3>. QED  BY <1>0, <3>1, <3>2, EndCounts
  <2>. QED  BY <1>1, <2>1, <2>2 DEF AdminStep
<1>2. ASSUME NEW r \in Admin, ResyncAll(r) PROVE Counted'
  <2>1. PICK ids \in ListAccounts :
            /\ todo' = [todo EXCEPT ![r] = [n \in DOMAIN ids |-> snapshot(ids[n])]]
            /\ asked' = [asked EXCEPT ![r] = ids]
    BY <1>2 DEF ResyncAll
  <2> DEFINE list == [n \in DOMAIN ids |-> snapshot(ids[n])]
  <2>2. ids \in Seq(present) /\ ids \in Seq(Nat) /\ DOMAIN ids = 1..Len(ids)
    BY ListedIds DEF Administered
  <2>3. list \in Seq(Snapshot) /\ Len(list) = Len(ids) /\ \A n \in 1..Len(list) : list[n].id = ids[n]
    BY <2>2, ReadNow DEF snapshot
  <2> HIDE DEF list
  <2>4. todo' = [todo EXCEPT ![r] = list]
    BY <2>1 DEF list
  <2>. QED  BY <1>0, <1>2, <2>1, <2>2, <2>3, <2>4, StartCounts DEF ResyncAll, start, At
<1>3. ASSUME NEW r \in Admin, NEW t \in Task, NEW ids \in Batches, Batch(r, t, ids) PROVE Counted'
  <2> DEFINE list == [n \in DOMAIN ids |-> [id |-> ids[n], row |-> None]]
  <2>1. ids \in Seq(Nat) /\ DOMAIN ids = 1..Len(ids) /\ Len(ids) \in Nat
    BY AdminAssumption
  <2>2. list \in [1..Len(ids) -> Snapshot] /\ \A n \in 1..Len(ids) : list[n].id = ids[n]
    BY <2>1 DEF Snapshot
  <2>3. list \in Seq(Snapshot) /\ Len(list) = Len(ids)
    BY <2>1, <2>2, SeqDef
  <2> HIDE DEF list
  <2>4. todo' = [todo EXCEPT ![r] = list]
    BY <1>3 DEF Batch, list
  <2>. QED  BY <1>0, <1>3, <2>1, <2>2, <2>3, <2>4, StartCounts DEF Batch, start, At
<1>4. ASSUME NEW r \in Admin, NEW t \in Task, NEW o \in OpenID, Resolve(r, t, o) PROVE Counted'
  <2>1. /\ \A s \in Admin \ {r} : SameRequest(s)
        /\ mode'[r] = "one" /\ apc'[r] # "idle"
    BY <1>0, <1>4 DEF Resolve, start, At, RequestsOK, SameRequest
  <2>. QED  BY <2>1, OneCounts DEF CountedOf
<1>5. CASE UNCHANGED <<apc, task, mode, todo, acc, results, asked>>
  BY <1>5 DEF Counted, CountedOf, Accounted, pending
<1>6. ASSUME NEW r \in Admin, ClientLeaves(r) PROVE Counted'
  BY <1>5, <1>6 DEF ClientLeaves, request
<1>7. CASE \/ \E o \in OpenID : Scan(o)
           \/ \E u \in Url : AddProxy(u)
           \/ \E p \in DOMAIN proxies : DeleteProxy(p)
           \/ \E p \in DOMAIN proxies, u \in Url \cup {Empty}, e \in BOOLEAN : UpdateProxy(p, u, e)
           \/ AllAdministered
           \/ UNCHANGED adminVars
  BY <1>5, <1>7 DEF Scan, AddProxy, DeleteProxy, UpdateProxy, AllAdministered, adminVars, request
<1>. QED  BY <1>1, <1>2, <1>3, <1>4, <1>6, <1>7 DEF AdminNext

\* The answer to a batch, or to a resync of all accounts, has one result for each
\* id asked for, in that order, whichever accounts vanish on the way.
THEOREM ListsAreAnswered == AdminSpec => []BatchAnswersEveryId
<1>1. AdminInit => Counted
  BY DEF AdminInit, Counted, CountedOf
<1>2. Administered /\ Counted => BatchAnswersEveryId
  <2> SUFFICES ASSUME Administered, Counted, NEW r \in Admin, apc[r] = "answered", mode[r] # "one"
               PROVE  results[r] = asked[r]
    BY DEF BatchAnswersEveryId
  <2>1. results[r] \in Seq(Nat) /\ asked[r] \in Seq(Nat)
    BY DEF Administered, RequestsOK
  <2>2. Accounted(r) /\ todo[r] = <<>> /\ pending(r) = 0
    BY DEF Counted, CountedOf, pending
  <2>3. Len(results[r]) = Len(asked[r]) /\ \A n \in 1..Len(results[r]) : results[r][n] = asked[r][n]
    BY <2>1, <2>2 DEF Accounted
  <2>. QED  BY <2>1, <2>3, SeqEqual
<1>. QED  BY <1>1, <1>2, RequestsCount, SnapshotsMatch, PTL DEF AdminSpec
==============================================================================
