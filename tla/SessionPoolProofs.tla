-------------------------- MODULE SessionPoolProofs --------------------------
(***************************************************************************)
(* Proofs about SessionPool, for every value of its constants.             *)
(***************************************************************************)
EXTENDS SessionPool, FiniteSetTheorems, TLAPS

\* What the frame of a request holds at each point of its run.
FramesOK ==
    \A r \in Request :
        /\ pc[r] # "idle" => acct[r] \in Account /\ calls[r] \in 1..MaxCalls
        /\ pc[r] \in {"uin", "put"} =>
              held[r] = [owner |-> r, call |-> calls[r], proxy |-> via[r]]
        /\ pc[r] \in {"shortSem", "send"} => held[r] \in Session
        /\ pc[r] \in {"invalidate"} => via[r] # Direct

\* A valid row is a row.
LiveRows == \A k \in live : sessions[k] # None

\* The part of the inductive invariant that concerns one request and the tables.
Frame == TypeOK /\ FramesOK /\ LiveRows

Holders(f, S) == {q \in Request : f[q] \in S}

\* The control state with one request moved.
At(r, l) == [pc EXCEPT ![r] = l]

\* Counting the requests at a set S of labels when only r moves: entering S adds
\* one, leaving takes one away from a count that was not zero.
LEMMA HoldersFinite ==
    ASSUME NEW f, NEW S
    PROVE  IsFiniteSet(Holders(f, S)) /\ Cardinality(Holders(f, S)) \in Nat
<1>1. Holders(f, S) \in SUBSET Request
  BY DEF Holders
<1>2. IsFiniteSet(Holders(f, S))
  BY <1>1, FS_Subset, PoolAssumption
<1>. QED  BY <1>2, FS_CardinalityType

LEMMA Entering ==
    ASSUME NEW f, NEW g, NEW r \in Request, NEW S,
           \A q \in Request : q # r => g[q] = f[q], f[r] \notin S, g[r] \in S
    PROVE  Cardinality(Holders(g, S)) = Cardinality(Holders(f, S)) + 1
<1>1. Holders(g, S) = Holders(f, S) \cup {r} /\ r \notin Holders(f, S)
  BY DEF Holders
<1>. QED  BY <1>1, HoldersFinite, FS_AddElement

LEMMA Leaving ==
    ASSUME NEW f, NEW g, NEW r \in Request, NEW S,
           \A q \in Request : q # r => g[q] = f[q], f[r] \in S, g[r] \notin S
    PROVE  /\ Cardinality(Holders(g, S)) = Cardinality(Holders(f, S)) - 1
           /\ Cardinality(Holders(g, S)) \in Nat
<1>1. Holders(g, S) = Holders(f, S) \ {r} /\ r \in Holders(f, S)
  BY DEF Holders
<1>. QED  BY <1>1, HoldersFinite, FS_RemoveElement

\* A counter n that moves with a request, and so goes on counting the holders.
Moves(f, g, r, S, n, m) ==
    \/ f[r] \notin S /\ g[r] \in S /\ m = n + 1
    \/ f[r] \in S /\ g[r] \notin S /\ m = n - 1
    \/ f[r] \in S /\ g[r] \in S /\ m = n
    \/ f[r] \notin S /\ g[r] \notin S /\ m = n

LEMMA Recount ==
    ASSUME NEW f, NEW g, NEW r \in Request, NEW S, NEW n, NEW m,
           \A q \in Request : q # r => g[q] = f[q],
           n = Cardinality(Holders(f, S)),
           Moves(f, g, r, S, n, m)
    PROVE  m = Cardinality(Holders(g, S)) /\ m \in Nat
<1>1. CASE f[r] \notin S /\ g[r] \in S /\ m = n + 1
  <2>1. Cardinality(Holders(g, S)) = Cardinality(Holders(f, S)) + 1
    BY <1>1, Entering
  <2>. QED  BY <1>1, <2>1, HoldersFinite
<1>2. CASE f[r] \in S /\ g[r] \notin S /\ m = n - 1
  <2>1. /\ Cardinality(Holders(g, S)) = Cardinality(Holders(f, S)) - 1
        /\ Cardinality(Holders(g, S)) \in Nat
    BY <1>2, Leaving
  <2>. QED  BY <1>2, <2>1
<1>3. CASE f[r] \in S /\ g[r] \in S /\ m = n
  <2>1. Holders(g, S) = Holders(f, S)
    BY <1>3 DEF Holders
  <2>. QED  BY <1>3, <2>1, HoldersFinite
<1>4. CASE f[r] \notin S /\ g[r] \notin S /\ m = n
  <2>1. Holders(g, S) = Holders(f, S)
    BY <1>4 DEF Holders
  <2>. QED  BY <1>4, <2>1, HoldersFinite
<1>. QED  BY <1>1, <1>2, <1>3, <1>4 DEF Moves
------------------------------------------------------------------------------
(* Types, counters and frames.                                               *)

\* The inductive invariant behind TypeOK: a counter is only decremented by a
\* request it counts, so the counters cannot be typed without the counts.
Counted == Frame /\ SlotsMatchHolders

LEMMA InitCounted == Init => Counted
<1> SUFFICES ASSUME Init PROVE Counted
  OBVIOUS
<1>1. TypeOK
  BY PoolAssumption DEF Init, TypeOK, Label, Key, Via
<1>2. FramesOK /\ LiveRows
  BY DEF Init, FramesOK, LiveRows
<1>3. {r \in Request : pc[r] \in LoginHeld} = {} /\ {r \in Request : pc[r] = "send"} = {}
  BY DEF Init, LoginHeld
<1>4. SlotsMatchHolders
  BY <1>3, FS_EmptySet, PoolAssumption DEF Init, SlotsMatchHolders
<1>. QED  BY <1>1, <1>2, <1>4 DEF Counted, Frame

\* The same for the control state of a step.
LEMMA StepRecount ==
    ASSUME NEW r \in Request, \A q \in Request : q # r => pc'[q] = pc[q],
           NEW S, NEW n, NEW m, n = Cardinality(Holders(pc, S)), Moves(pc, pc', r, S, n, m)
    PROVE  m = Cardinality(Holders(pc', S))
  BY Recount

\* One step of a request keeps both counters counting.
LEMMA CountersFollow ==
    ASSUME SlotsMatchHolders, NEW r \in Request,
           \A q \in Request : q # r => pc'[q] = pc[q],
           Moves(pc, pc', r, LoginHeld, loginUsed, loginUsed'),
           Moves(pc, pc', r, {"send"}, shortUsed, shortUsed'),
           loginUsed' <= LoginSlots, shortUsed' <= ShortlinkSlots
    PROVE  SlotsMatchHolders' /\ loginUsed' \in Nat /\ shortUsed' \in Nat
<1>1. /\ loginUsed = Cardinality(Holders(pc, LoginHeld))
      /\ shortUsed = Cardinality(Holders(pc, {"send"}))
  <2>1. Holders(pc, LoginHeld) = {q \in Request : pc[q] \in LoginHeld}
    BY DEF Holders
  <2>2. Holders(pc, {"send"}) = {q \in Request : pc[q] = "send"}
    BY DEF Holders
  <2>. QED  BY <2>1, <2>2 DEF SlotsMatchHolders
<1>2. loginUsed' = Cardinality(Holders(pc', LoginHeld))
  BY <1>1, StepRecount
<1>3. shortUsed' = Cardinality(Holders(pc', {"send"}))
  BY <1>1, StepRecount
<1>4. Holders(pc', LoginHeld) = {q \in Request : pc'[q] \in LoginHeld}
  BY DEF Holders
<1>5. Holders(pc', {"send"}) = {q \in Request : pc'[q] = "send"}
  BY DEF Holders
<1>. QED  BY <1>2, <1>3, <1>4, <1>5, HoldersFinite DEF SlotsMatchHolders

LEMMA LookupCounted == ASSUME Counted, NEW r \in Request, Lookup(r) PROVE Counted'
<1> USE DEF Counted, Frame
<1>1. PICK l \in {"lookup", "failed", "shortSem", "lock"} : pc' = [pc EXCEPT ![r] = l]
  BY DEF Lookup, stateFails, useSession, Goto, limits, tables
<1>2. SlotsMatchHolders' /\ loginUsed' \in Nat /\ shortUsed' \in Nat
  BY <1>1, CountersFollow, PoolAssumption
     DEF Lookup, stateFails, useSession, Goto, limits, tables, Moves, LoginHeld, TypeOK, SlotsMatchHolders
<1>3. keyOf(r) \in Key
  BY DEF Lookup, endSend, FramesOK, TypeOK, keyOf, Key
<1>4. TypeOK'
  BY <1>2, <1>3, PoolAssumption
     DEF Lookup, stateFails, useSession, Goto, limits, tables, TypeOK, Label, Loading, Locked, LoginHeld, Via
<1>5. FramesOK' /\ LiveRows'
  BY <1>3, PoolAssumption
     DEF Lookup, stateFails, useSession, Goto, limits, tables, TypeOK, FramesOK, LiveRows, LoginHeld
<1>. QED  BY <1>2, <1>4, <1>5

LEMMA LockCounted == ASSUME Counted, NEW r \in Request, Lock(r) PROVE Counted'
<1> USE DEF Counted, Frame
<1>1. PICK l \in {"recheck"} : pc' = [pc EXCEPT ![r] = l]
  BY DEF Lock, Goto, limits, tables, frames
<1>2. SlotsMatchHolders' /\ loginUsed' \in Nat /\ shortUsed' \in Nat
  BY <1>1, CountersFollow, PoolAssumption
     DEF Lock, Goto, limits, tables, frames, Moves, LoginHeld, TypeOK, SlotsMatchHolders
<1>3. keyOf(r) \in Key
  BY DEF Lock, endSend, FramesOK, TypeOK, keyOf, Key
<1>4. TypeOK'
  BY <1>2, <1>3, PoolAssumption
     DEF Lock, Goto, limits, tables, frames, TypeOK, Label, Loading, Locked, LoginHeld, Via
<1>5. FramesOK' /\ LiveRows'
  BY <1>3, PoolAssumption
     DEF Lock, Goto, limits, tables, frames, TypeOK, FramesOK, LiveRows, LoginHeld
<1>. QED  BY <1>2, <1>4, <1>5

LEMMA RecheckCounted == ASSUME Counted, NEW r \in Request, Recheck(r) PROVE Counted'
<1> USE DEF Counted, Frame
<1>1. PICK l \in {"lookup", "failed", "shortSem", "account"} : pc' = [pc EXCEPT ![r] = l]
  BY DEF Recheck, stateFails, leaveState, unlock, useSession, Goto, limits, tables
<1>2. SlotsMatchHolders' /\ loginUsed' \in Nat /\ shortUsed' \in Nat
  BY <1>1, CountersFollow, PoolAssumption
     DEF Recheck, stateFails, leaveState, unlock, useSession, Goto, limits, tables, Moves, LoginHeld, TypeOK, SlotsMatchHolders
<1>3. keyOf(r) \in Key
  BY DEF Recheck, endSend, FramesOK, TypeOK, keyOf, Key
<1>4. TypeOK'
  BY <1>2, <1>3, PoolAssumption
     DEF Recheck, stateFails, leaveState, unlock, useSession, Goto, limits, tables, TypeOK, Label, Loading, Locked, LoginHeld, Via
<1>5. FramesOK' /\ LiveRows'
  BY <1>3, PoolAssumption
     DEF Recheck, stateFails, leaveState, unlock, useSession, Goto, limits, tables, TypeOK, FramesOK, LiveRows, LoginHeld
<1>. QED  BY <1>2, <1>4, <1>5

LEMMA LoadAccountCounted == ASSUME Counted, NEW r \in Request, LoadAccount(r) PROVE Counted'
<1> USE DEF Counted, Frame
<1>1. PICK l \in {"lookup", "failed", "loginSem"} : pc' = [pc EXCEPT ![r] = l]
  BY DEF LoadAccount, stateFails, leaveState, unlock, Goto, limits, tables, frames
<1>2. SlotsMatchHolders' /\ loginUsed' \in Nat /\ shortUsed' \in Nat
  BY <1>1, CountersFollow, PoolAssumption
     DEF LoadAccount, stateFails, leaveState, unlock, Goto, limits, tables, frames, Moves, LoginHeld, TypeOK, SlotsMatchHolders
<1>3. keyOf(r) \in Key
  BY DEF LoadAccount, endSend, FramesOK, TypeOK, keyOf, Key
<1>4. TypeOK'
  BY <1>2, <1>3, PoolAssumption
     DEF LoadAccount, stateFails, leaveState, unlock, Goto, limits, tables, frames, TypeOK, Label, Loading, Locked, LoginHeld, Via
<1>5. FramesOK' /\ LiveRows'
  BY <1>3, PoolAssumption
     DEF LoadAccount, stateFails, leaveState, unlock, Goto, limits, tables, frames, TypeOK, FramesOK, LiveRows, LoginHeld
<1>. QED  BY <1>2, <1>4, <1>5

LEMMA AcquireLoginCounted == ASSUME Counted, NEW r \in Request, AcquireLogin(r) PROVE Counted'
<1> USE DEF Counted, Frame
<1>1. PICK l \in {"login"} : pc' = [pc EXCEPT ![r] = l]
  BY DEF AcquireLogin, Goto, tables, dialTCP
<1>2. SlotsMatchHolders' /\ loginUsed' \in Nat /\ shortUsed' \in Nat
  <2>1. \A q \in Request : q # r => pc'[q] = pc[q]
    BY <1>1 DEF TypeOK
  <2>2. pc'[r] = l
    BY <1>1 DEF TypeOK
  <2>3. Moves(pc, pc', r, LoginHeld, loginUsed, loginUsed')
    BY <2>2 DEF AcquireLogin, Goto, tables, dialTCP, Moves, LoginHeld
  <2>4. Moves(pc, pc', r, {"send"}, shortUsed, shortUsed')
    BY <2>2 DEF AcquireLogin, Goto, tables, dialTCP, Moves
  <2>5. loginUsed' <= LoginSlots /\ shortUsed' <= ShortlinkSlots
    BY PoolAssumption DEF AcquireLogin, Goto, tables, dialTCP, TypeOK, SlotsMatchHolders
  <2>. QED  BY <2>1, <2>3, <2>4, <2>5, CountersFollow
<1>3. keyOf(r) \in Key
  BY DEF AcquireLogin, endSend, FramesOK, TypeOK, keyOf, Key
<1>4. TypeOK'
  BY <1>2, <1>3, PoolAssumption
     DEF AcquireLogin, Goto, tables, dialTCP, TypeOK, Label, Loading, Locked, LoginHeld, Via
<1>5. FramesOK' /\ LiveRows'
  BY <1>3, PoolAssumption
     DEF AcquireLogin, Goto, tables, dialTCP, TypeOK, FramesOK, LiveRows, LoginHeld
<1>. QED  BY <1>2, <1>4, <1>5

LEMMA AbandonLoginCounted == ASSUME Counted, NEW r \in Request, AbandonLogin(r) PROVE Counted'
<1> USE DEF Counted, Frame
<1>1. PICK l \in {"lookup", "failed"} : pc' = [pc EXCEPT ![r] = l]
  BY DEF AbandonLogin, stateFails, leaveState, unlock, Goto, tables
<1>2. SlotsMatchHolders' /\ loginUsed' \in Nat /\ shortUsed' \in Nat
  BY <1>1, CountersFollow, PoolAssumption
     DEF AbandonLogin, stateFails, leaveState, unlock, Goto, tables, Moves, LoginHeld, TypeOK, SlotsMatchHolders
<1>3. keyOf(r) \in Key
  BY DEF AbandonLogin, endSend, FramesOK, TypeOK, keyOf, Key
<1>4. TypeOK'
  BY <1>2, <1>3, PoolAssumption
     DEF AbandonLogin, stateFails, leaveState, unlock, Goto, tables, TypeOK, Label, Loading, Locked, LoginHeld, Via
<1>5. FramesOK' /\ LiveRows'
  BY <1>3, PoolAssumption
     DEF AbandonLogin, stateFails, leaveState, unlock, Goto, tables, TypeOK, FramesOK, LiveRows, LoginHeld
<1>. QED  BY <1>2, <1>4, <1>5

LEMMA LoginSucceedsCounted == ASSUME Counted, NEW r \in Request, LoginSucceeds(r) PROVE Counted'
<1> USE DEF Counted, Frame
<1>1. PICK l \in {"uin"} : pc' = [pc EXCEPT ![r] = l]
  BY DEF LoginSucceeds, Goto, limits, tables
<1>2. SlotsMatchHolders' /\ loginUsed' \in Nat /\ shortUsed' \in Nat
  BY <1>1, CountersFollow, PoolAssumption
     DEF LoginSucceeds, Goto, limits, tables, Moves, LoginHeld, TypeOK, SlotsMatchHolders
<1>3. keyOf(r) \in Key
  BY DEF LoginSucceeds, endSend, FramesOK, TypeOK, keyOf, Key
<1>4. TypeOK'
  BY <1>2, <1>3, PoolAssumption
     DEF LoginSucceeds, Goto, limits, tables, FramesOK, Session, TypeOK, Label, Loading, Locked, LoginHeld, Via
<1>5. FramesOK' /\ LiveRows'
  BY <1>3, PoolAssumption
     DEF LoginSucceeds, Goto, limits, tables, TypeOK, FramesOK, LiveRows, LoginHeld
<1>. QED  BY <1>2, <1>4, <1>5

LEMMA LoginFailsCounted == ASSUME Counted, NEW r \in Request, LoginFails(r) PROVE Counted'
<1> USE DEF Counted, Frame
<1>1. PICK l \in {"lookup", "failed"} : pc' = [pc EXCEPT ![r] = l]
  BY DEF LoginFails, stateFails, leaveState, unlock, Goto, tables
<1>2. SlotsMatchHolders' /\ loginUsed' \in Nat /\ shortUsed' \in Nat
  <2>1. \A q \in Request : q # r => pc'[q] = pc[q]
    BY <1>1 DEF TypeOK
  <2>2. pc'[r] = l
    BY <1>1 DEF TypeOK
  <2>3. Moves(pc, pc', r, LoginHeld, loginUsed, loginUsed')
    BY <2>2 DEF LoginFails, stateFails, leaveState, unlock, Goto, tables, Moves, LoginHeld
  <2>4. Moves(pc, pc', r, {"send"}, shortUsed, shortUsed')
    BY <2>2 DEF LoginFails, stateFails, leaveState, unlock, Goto, tables, Moves
  <2>5. loginUsed' <= LoginSlots /\ shortUsed' <= ShortlinkSlots
    BY PoolAssumption DEF LoginFails, stateFails, leaveState, unlock, Goto, tables, TypeOK, SlotsMatchHolders
  <2>. QED  BY <2>1, <2>3, <2>4, <2>5, CountersFollow
<1>3. keyOf(r) \in Key
  BY DEF LoginFails, endSend, FramesOK, TypeOK, keyOf, Key
<1>4. TypeOK'
  BY <1>2, <1>3, PoolAssumption
     DEF LoginFails, stateFails, leaveState, unlock, Goto, tables, TypeOK, Label, Loading, Locked, LoginHeld, Via
<1>5. FramesOK' /\ LiveRows'
  BY <1>3, PoolAssumption
     DEF LoginFails, stateFails, leaveState, unlock, Goto, tables, TypeOK, FramesOK, LiveRows, LoginHeld
<1>. QED  BY <1>2, <1>4, <1>5

LEMMA RecordUINCounted == ASSUME Counted, NEW r \in Request, RecordUIN(r) PROVE Counted'
<1> USE DEF Counted, Frame
<1>1. PICK l \in {"put"} : pc' = [pc EXCEPT ![r] = l]
  BY DEF RecordUIN, Goto, limits, frames
<1>2. SlotsMatchHolders' /\ loginUsed' \in Nat /\ shortUsed' \in Nat
  BY <1>1, CountersFollow, PoolAssumption
     DEF RecordUIN, Goto, limits, frames, Moves, LoginHeld, TypeOK, SlotsMatchHolders
<1>3. keyOf(r) \in Key
  BY DEF RecordUIN, endSend, FramesOK, TypeOK, keyOf, Key
<1>4. TypeOK'
  BY <1>2, <1>3, PoolAssumption
     DEF RecordUIN, Goto, limits, frames, TypeOK, Label, Loading, Locked, LoginHeld, Via
<1>5. FramesOK' /\ LiveRows'
  BY <1>3, PoolAssumption
     DEF RecordUIN, Goto, limits, frames, TypeOK, FramesOK, LiveRows, LoginHeld
<1>. QED  BY <1>2, <1>4, <1>5

LEMMA SaveSessionCounted == ASSUME Counted, NEW r \in Request, SaveSession(r) PROVE Counted'
<1> USE DEF Counted, Frame
<1>1. PICK l \in {"lookup", "failed", "shortSem"} : pc' = [pc EXCEPT ![r] = l]
  BY DEF SaveSession, stateFails, leaveState, unlock, Goto, tables, frames
<1>2. SlotsMatchHolders' /\ loginUsed' \in Nat /\ shortUsed' \in Nat
  <2>1. \A q \in Request : q # r => pc'[q] = pc[q]
    BY <1>1 DEF TypeOK
  <2>2. pc'[r] = l
    BY <1>1 DEF TypeOK
  <2>3. Moves(pc, pc', r, LoginHeld, loginUsed, loginUsed')
    BY <2>2 DEF SaveSession, stateFails, leaveState, unlock, Goto, tables, frames, Moves, LoginHeld
  <2>4. Moves(pc, pc', r, {"send"}, shortUsed, shortUsed')
    BY <2>2 DEF SaveSession, stateFails, leaveState, unlock, Goto, tables, frames, Moves
  <2>5. loginUsed' <= LoginSlots /\ shortUsed' <= ShortlinkSlots
    BY PoolAssumption DEF SaveSession, stateFails, leaveState, unlock, Goto, tables, frames, TypeOK, SlotsMatchHolders
  <2>. QED  BY <2>1, <2>3, <2>4, <2>5, CountersFollow
<1>3. keyOf(r) \in Key
  BY DEF SaveSession, endSend, FramesOK, TypeOK, keyOf, Key
<1>4. TypeOK'
  BY <1>2, <1>3, PoolAssumption
     DEF SaveSession, stateFails, leaveState, unlock, Goto, tables, frames, TypeOK, Label, Loading, Locked, LoginHeld, Via
<1>5. FramesOK' /\ LiveRows'
  BY <1>3, PoolAssumption
     DEF SaveSession, stateFails, leaveState, unlock, Goto, tables, frames, TypeOK, FramesOK, LiveRows, LoginHeld, Session
<1>. QED  BY <1>2, <1>4, <1>5

LEMMA AcquireShortlinkCounted == ASSUME Counted, NEW r \in Request, AcquireShortlink(r) PROVE Counted'
<1> USE DEF Counted, Frame
<1>1. PICK l \in {"send"} : pc' = [pc EXCEPT ![r] = l]
  BY DEF AcquireShortlink, Goto, tables, dialTCP
<1>2. SlotsMatchHolders' /\ loginUsed' \in Nat /\ shortUsed' \in Nat
  <2>1. \A q \in Request : q # r => pc'[q] = pc[q]
    BY <1>1 DEF TypeOK
  <2>2. pc'[r] = l
    BY <1>1 DEF TypeOK
  <2>3. Moves(pc, pc', r, LoginHeld, loginUsed, loginUsed')
    BY <2>2 DEF AcquireShortlink, Goto, Moves, LoginHeld
  <2>4. Moves(pc, pc', r, {"send"}, shortUsed, shortUsed')
    BY <2>2 DEF AcquireShortlink, Goto, Moves
  <2>5. loginUsed' <= LoginSlots /\ shortUsed' <= ShortlinkSlots
    BY PoolAssumption DEF AcquireShortlink, TypeOK, SlotsMatchHolders
  <2>. QED  BY <2>1, <2>3, <2>4, <2>5, CountersFollow
<1>3. keyOf(r) \in Key
  BY DEF AcquireShortlink, endSend, FramesOK, TypeOK, keyOf, Key
<1>4. TypeOK'
  BY <1>2, <1>3, PoolAssumption
     DEF AcquireShortlink, Goto, tables, dialTCP, FramesOK, Session, TypeOK, Label, Loading, Locked, LoginHeld, Via
<1>5. FramesOK' /\ LiveRows'
  BY <1>3, PoolAssumption
     DEF AcquireShortlink, Goto, tables, dialTCP, TypeOK, FramesOK, LiveRows, LoginHeld
<1>. QED  BY <1>2, <1>4, <1>5

LEMMA AbandonSendCounted == ASSUME Counted, NEW r \in Request, AbandonSend(r) PROVE Counted'
<1> USE DEF Counted, Frame
<1>1. PICK l \in {"invalidate", "failed"} : pc' = [pc EXCEPT ![r] = l]
  BY DEF AbandonSend, opFails, Goto, limits, tables
<1>2. SlotsMatchHolders' /\ loginUsed' \in Nat /\ shortUsed' \in Nat
  BY <1>1, CountersFollow, PoolAssumption
     DEF AbandonSend, opFails, Goto, limits, tables, Moves, LoginHeld, TypeOK, SlotsMatchHolders
<1>3. keyOf(r) \in Key
  BY DEF AbandonSend, endSend, FramesOK, TypeOK, keyOf, Key
<1>4. TypeOK'
  BY <1>2, <1>3, PoolAssumption
     DEF AbandonSend, opFails, Goto, limits, tables, TypeOK, Label, Loading, Locked, LoginHeld, Via
<1>5. FramesOK' /\ LiveRows'
  BY <1>3, PoolAssumption
     DEF AbandonSend, opFails, Goto, limits, tables, TypeOK, FramesOK, LiveRows, LoginHeld
<1>. QED  BY <1>2, <1>4, <1>5

LEMMA SendSucceedsCounted == ASSUME Counted, NEW r \in Request, SendSucceeds(r) PROVE Counted'
<1> USE DEF Counted, Frame
<1>1. PICK l \in {"done"} : pc' = [pc EXCEPT ![r] = l]
  BY DEF SendSucceeds, endSend, Goto, tables
<1>2. SlotsMatchHolders' /\ loginUsed' \in Nat /\ shortUsed' \in Nat
  <2>1. \A q \in Request : q # r => pc'[q] = pc[q]
    BY <1>1 DEF TypeOK
  <2>2. pc'[r] = l
    BY <1>1 DEF TypeOK
  <2>3. Moves(pc, pc', r, LoginHeld, loginUsed, loginUsed')
    BY <2>2 DEF SendSucceeds, endSend, Goto, tables, Moves, LoginHeld
  <2>4. Moves(pc, pc', r, {"send"}, shortUsed, shortUsed')
    BY <2>2 DEF SendSucceeds, endSend, Goto, tables, Moves
  <2>5. loginUsed' <= LoginSlots /\ shortUsed' <= ShortlinkSlots
    BY PoolAssumption DEF SendSucceeds, endSend, Goto, tables, TypeOK, SlotsMatchHolders
  <2>. QED  BY <2>1, <2>3, <2>4, <2>5, CountersFollow
<1>3. keyOf(r) \in Key
  BY DEF SendSucceeds, endSend, FramesOK, TypeOK, keyOf, Key
<1>4. TypeOK'
  BY <1>2, <1>3, PoolAssumption
     DEF SendSucceeds, endSend, Goto, tables, TypeOK, Label, Loading, Locked, LoginHeld, Via
<1>5. FramesOK' /\ LiveRows'
  BY <1>3, PoolAssumption
     DEF SendSucceeds, endSend, Goto, tables, TypeOK, FramesOK, LiveRows, LoginHeld
<1>. QED  BY <1>2, <1>4, <1>5

LEMMA SendFailsCounted == ASSUME Counted, NEW r \in Request, SendFails(r) PROVE Counted'
<1> USE DEF Counted, Frame
<1>1. PICK l \in {"invalidate", "failed"} : pc' = [pc EXCEPT ![r] = l]
  BY DEF SendFails, endSend, opFails, Goto, tables
<1>2. SlotsMatchHolders' /\ loginUsed' \in Nat /\ shortUsed' \in Nat
  <2>1. \A q \in Request : q # r => pc'[q] = pc[q]
    BY <1>1 DEF TypeOK
  <2>2. pc'[r] = l
    BY <1>1 DEF TypeOK
  <2>3. Moves(pc, pc', r, LoginHeld, loginUsed, loginUsed')
    BY <2>2 DEF SendFails, endSend, opFails, Goto, tables, Moves, LoginHeld
  <2>4. Moves(pc, pc', r, {"send"}, shortUsed, shortUsed')
    BY <2>2 DEF SendFails, endSend, opFails, Goto, tables, Moves
  <2>5. loginUsed' <= LoginSlots /\ shortUsed' <= ShortlinkSlots
    BY PoolAssumption DEF SendFails, endSend, opFails, Goto, tables, TypeOK, SlotsMatchHolders
  <2>. QED  BY <2>1, <2>3, <2>4, <2>5, CountersFollow
<1>3. keyOf(r) \in Key
  BY DEF SendFails, endSend, FramesOK, TypeOK, keyOf, Key
<1>4. TypeOK'
  BY <1>2, <1>3, PoolAssumption
     DEF SendFails, endSend, opFails, Goto, tables, TypeOK, Label, Loading, Locked, LoginHeld, Via
<1>5. FramesOK' /\ LiveRows'
  BY <1>3, PoolAssumption
     DEF SendFails, endSend, opFails, Goto, tables, TypeOK, FramesOK, LiveRows, LoginHeld
<1>. QED  BY <1>2, <1>4, <1>5

LEMMA InvalidateCounted == ASSUME Counted, NEW r \in Request, Invalidate(r) PROVE Counted'
<1> USE DEF Counted, Frame
<1>1. PICK l \in {"lookup"} : pc' = [pc EXCEPT ![r] = l]
  BY DEF Invalidate, Goto, limits
<1>2. SlotsMatchHolders' /\ loginUsed' \in Nat /\ shortUsed' \in Nat
  BY <1>1, CountersFollow, PoolAssumption
     DEF Invalidate, Goto, limits, Moves, LoginHeld, TypeOK, SlotsMatchHolders
<1>3. keyOf(r) \in Key
  BY DEF Invalidate, endSend, FramesOK, TypeOK, keyOf, Key
<1>4. TypeOK'
  BY <1>2, <1>3, PoolAssumption
     DEF Invalidate, Goto, limits, TypeOK, Label, Loading, Locked, LoginHeld, Via
<1>5. FramesOK' /\ LiveRows'
  BY <1>3, PoolAssumption
     DEF Invalidate, Goto, limits, TypeOK, FramesOK, LiveRows, LoginHeld
<1>. QED  BY <1>2, <1>4, <1>5

LEMMA RunCounted ==
    ASSUME Counted, NEW r \in Request, NEW a \in Account, NEW x \in Via,
           run(r, a, x), cancelled' \in {cancelled, cancelled \ {r}}
    PROVE  Counted'
<1> USE DEF Counted, Frame
<1>1. pc' = [pc EXCEPT ![r] = "lookup"]
  BY DEF run, Goto
<1>2. SlotsMatchHolders' /\ loginUsed' \in Nat /\ shortUsed' \in Nat
  BY <1>1, CountersFollow, PoolAssumption
     DEF run, limits, Moves, LoginHeld, TypeOK, SlotsMatchHolders
<1>3. calls[r] + 1 \in 1..MaxCalls
  BY PoolAssumption DEF run, TypeOK
<1>4. TypeOK'
  BY <1>1, <1>2, <1>3, PoolAssumption
     DEF run, limits, tables, effectiveProxy, TypeOK, Label, Via
<1>5. FramesOK' /\ LiveRows'
  BY <1>1, <1>3, PoolAssumption
     DEF run, limits, tables, TypeOK, FramesOK, LiveRows
<1>. QED  BY <1>2, <1>4, <1>5

LEMMA EnvironmentCounted == ASSUME Counted, Environment PROVE Counted'
<1> USE DEF Counted, Frame
<1>1. ASSUME NEW r \in Request, Cancel(r) PROVE Counted'
  BY <1>1 DEF Cancel, tables, limits, frames, TypeOK, FramesOK, LiveRows, SlotsMatchHolders
<1>2. ASSUME NEW k \in Key, Expire(k) PROVE Counted'
  BY <1>2 DEF Expire, limits, frames, TypeOK, FramesOK, LiveRows, SlotsMatchHolders
<1>3. ASSUME NEW k \in Key, InvalidateSession(k) PROVE Counted'
  <2>1. TypeOK' /\ LiveRows'
    BY <1>3 DEF InvalidateSession, limits, frames, TypeOK, LiveRows
  <2>2. FramesOK' /\ SlotsMatchHolders'
    BY <1>3 DEF InvalidateSession, limits, frames, FramesOK, SlotsMatchHolders
  <2>. QED  BY <2>1, <2>2
<1>4. ASSUME NEW a \in Account, DeleteAccount(a) PROVE Counted'
  <2>1. TypeOK' /\ LiveRows'
    BY <1>4 DEF DeleteAccount, limits, frames, TypeOK, LiveRows
  <2>2. FramesOK' /\ SlotsMatchHolders'
    BY <1>4 DEF DeleteAccount, limits, frames, FramesOK, SlotsMatchHolders
  <2>. QED  BY <2>1, <2>2
<1>5. ASSUME Restart PROVE Counted'
  <2>1. TypeOK'
    BY <1>5 DEF Restart, tables, TypeOK, Label, Via
  <2>2. FramesOK' /\ LiveRows'
    BY <1>5 DEF Restart, tables, FramesOK, LiveRows
  <2>3. {r \in Request : pc'[r] \in LoginHeld} = {} /\ {r \in Request : pc'[r] = "send"} = {}
    BY <1>5 DEF Restart, LoginHeld
  <2>4. SlotsMatchHolders'
    BY <1>5, <2>3, FS_EmptySet, PoolAssumption DEF Restart, SlotsMatchHolders
  <2>. QED  BY <2>1, <2>2, <2>4
<1>. QED  BY <1>1, <1>2, <1>3, <1>4, <1>5 DEF Environment

LEMMA NextCounted == Counted /\ [Next]_vars => Counted'
<1> SUFFICES ASSUME Counted, [Next]_vars PROVE Counted'
  OBVIOUS
<1>1. CASE UNCHANGED vars
  BY <1>1 DEF vars, tables, limits, frames, Counted, Frame, TypeOK, FramesOK, LiveRows,
              SlotsMatchHolders
<1>2. ASSUME NEW r \in Request, Step(r) PROVE Counted'
  BY <1>2, LookupCounted, LockCounted, RecheckCounted, LoadAccountCounted,
     AcquireLoginCounted, AbandonLoginCounted, LoginSucceedsCounted, LoginFailsCounted,
     RecordUINCounted, SaveSessionCounted, AcquireShortlinkCounted, AbandonSendCounted,
     SendSucceedsCounted, SendFailsCounted, InvalidateCounted
     DEF Step
<1>. QED  BY <1>1, <1>2, RunCounted, EnvironmentCounted DEF Next, Call, AllReturned

LEMMA AlwaysCounted == Spec => []Counted
  BY InitCounted, NextCounted, PTL DEF Spec

\* Every variable keeps its type: no semaphore counter goes below zero, no
\* call is counted past the bound, and held sessions are whole ones.
THEOREM TypeCorrect == Spec => []TypeOK
<1>1. Counted => TypeOK
  BY DEF Counted, Frame
<1>. QED  BY <1>1, AlwaysCounted, PTL

\* The semaphores count exactly their holders and never exceed their capacity:
\* each acquire in Pool.state and sendEnvelope is released once, on every path.
THEOREM SlotsCorrect == Spec => []SlotsMatchHolders
<1>1. Counted => SlotsMatchHolders
  BY DEF Counted
<1>. QED  BY <1>1, AlwaysCounted, PTL
------------------------------------------------------------------------------
(* The mutex and the single flight.                                          *)

OwnersLocked ==
    \A r \in Request, k \in Key : lockOwner[k] = r => pc[r] \in Locked /\ keyOf(r) = k

LockedOwn ==
    \A r \in Request : pc[r] \in Locked => lockOwner[keyOf(r)] = r

\* LockDiscipline, one direction each, with what the mutex protects: nobody
\* else can have stored a session for the key of a request that logs in.
Guarded == OwnersLocked /\ LockedOwn /\ SingleFlight

LEMMA LookupGuarded ==
    ASSUME Counted, Counted', Guarded, NEW r \in Request, Lookup(r) PROVE Guarded'
<1> USE DEF Counted, Frame, Guarded
<1>1. keyOf(r) \in Key
  BY DEF Lookup, endSend, FramesOK, TypeOK, keyOf, Key
<1>2. OwnersLocked'
  BY <1>1, PoolAssumption
     DEF Lookup, stateFails, useSession, Goto, limits, tables, OwnersLocked, keyOf, TypeOK, Locked, Loading
<1>3. LockedOwn'
  BY <1>1, PoolAssumption
     DEF Lookup, stateFails, useSession, Goto, limits, tables, OwnersLocked, LockedOwn, keyOf, TypeOK, Locked, Loading
<1>4. SingleFlight'
  BY <1>1, PoolAssumption
     DEF Lookup, stateFails, useSession, Goto, limits, tables, SingleFlight, LockedOwn, keyOf, TypeOK, Locked, Loading
<1>. QED  BY <1>2, <1>3, <1>4

LEMMA LockGuarded ==
    ASSUME Counted, Counted', Guarded, NEW r \in Request, Lock(r) PROVE Guarded'
<1> USE DEF Counted, Frame, Guarded
<1>1. keyOf(r) \in Key
  BY DEF Lock, endSend, FramesOK, TypeOK, keyOf, Key
<1>2. OwnersLocked'
  BY <1>1, PoolAssumption
     DEF Lock, Goto, limits, tables, frames, OwnersLocked, keyOf, TypeOK, Locked, Loading
<1>3. LockedOwn'
  BY <1>1, PoolAssumption
     DEF Lock, Goto, limits, tables, frames, OwnersLocked, LockedOwn, keyOf, TypeOK, Locked, Loading
<1>4. SingleFlight'
  BY <1>1, PoolAssumption
     DEF Lock, Goto, limits, tables, frames, SingleFlight, LockedOwn, keyOf, TypeOK, Locked, Loading
<1>. QED  BY <1>2, <1>3, <1>4

LEMMA RecheckGuarded ==
    ASSUME Counted, Counted', Guarded, NEW r \in Request, Recheck(r) PROVE Guarded'
<1> USE DEF Counted, Frame, Guarded
<1>1. keyOf(r) \in Key
  BY DEF Recheck, endSend, FramesOK, TypeOK, keyOf, Key
<1>2. pc[r] \in Locked /\ lockOwner[keyOf(r)] = r
  BY DEF Recheck, LockedOwn, Locked, Loading
<1>3. CASE /\ pc' = [pc EXCEPT ![r] = "account"]
           /\ lockOwner' = lockOwner /\ acct' = acct /\ via' = via
  <2>1. pc'[r] \in Locked
    BY <1>3 DEF TypeOK, Locked, Loading
  <2>2. OwnersLocked' /\ LockedOwn'
    BY <1>2, <1>3, <2>1 DEF OwnersLocked, LockedOwn, keyOf, TypeOK
  <2>3. SingleFlight'
    BY <1>1, PoolAssumption
       DEF Recheck, stateFails, leaveState, unlock, useSession, Goto, limits, tables, SingleFlight, LockedOwn, keyOf, TypeOK, Locked, Loading
  <2>. QED  BY <2>2, <2>3
<1>4. CASE \E l \in {"lookup", "failed", "shortSem"}, x \in Via :
             /\ pc' = [pc EXCEPT ![r] = l]
             /\ via' = [via EXCEPT ![r] = x]
             /\ acct' = acct /\ unlock(r)
  <2>1. PICK l \in {"lookup", "failed", "shortSem"}, x \in Via :
           /\ pc' = [pc EXCEPT ![r] = l]
           /\ via' = [via EXCEPT ![r] = x]
           /\ acct' = acct
           /\ lockOwner' = [lockOwner EXCEPT ![keyOf(r)] = None]
    BY <1>4 DEF unlock
  <2>2. l \notin Locked
    BY DEF Locked, Loading
  <2>3. OwnersLocked'
    BY <1>1, <2>1, <2>2, PoolAssumption DEF OwnersLocked, keyOf, TypeOK
  <2>4. LockedOwn'
    BY <1>1, <1>2, <2>1, <2>2, PoolAssumption DEF OwnersLocked, LockedOwn, keyOf, TypeOK, Key
  <2>5. SingleFlight'
    BY <1>1, PoolAssumption
       DEF Recheck, stateFails, leaveState, unlock, useSession, Goto, limits, tables, SingleFlight, LockedOwn, keyOf, TypeOK, Locked, Loading
  <2>. QED  BY <2>3, <2>4, <2>5
<1>5. via = [via EXCEPT ![r] = via[r]] /\ via[r] \in Via
  BY DEF TypeOK
<1>. QED  BY <1>3, <1>4, <1>5 DEF Recheck, stateFails, leaveState, unlock, useSession, Goto, limits, tables, Via

LEMMA LoadAccountGuarded ==
    ASSUME Counted, Counted', Guarded, NEW r \in Request, LoadAccount(r) PROVE Guarded'
<1> USE DEF Counted, Frame, Guarded
<1>1. keyOf(r) \in Key
  BY DEF LoadAccount, endSend, FramesOK, TypeOK, keyOf, Key
<1>2. pc[r] \in Locked /\ lockOwner[keyOf(r)] = r
  BY DEF LoadAccount, LockedOwn, Locked, Loading
<1>3. CASE /\ pc' = [pc EXCEPT ![r] = "loginSem"]
           /\ lockOwner' = lockOwner /\ acct' = acct /\ via' = via
  <2>1. pc'[r] \in Locked
    BY <1>3 DEF TypeOK, Locked, Loading
  <2>2. OwnersLocked' /\ LockedOwn'
    BY <1>2, <1>3, <2>1 DEF OwnersLocked, LockedOwn, keyOf, TypeOK
  <2>3. SingleFlight'
    BY <1>1, PoolAssumption
       DEF LoadAccount, stateFails, leaveState, unlock, Goto, limits, tables, frames, SingleFlight, LockedOwn, keyOf, TypeOK, Locked, Loading
  <2>. QED  BY <2>2, <2>3
<1>4. CASE \E l \in {"lookup", "failed", "shortSem"}, x \in Via :
             /\ pc' = [pc EXCEPT ![r] = l]
             /\ via' = [via EXCEPT ![r] = x]
             /\ acct' = acct /\ unlock(r)
  <2>1. PICK l \in {"lookup", "failed", "shortSem"}, x \in Via :
           /\ pc' = [pc EXCEPT ![r] = l]
           /\ via' = [via EXCEPT ![r] = x]
           /\ acct' = acct
           /\ lockOwner' = [lockOwner EXCEPT ![keyOf(r)] = None]
    BY <1>4 DEF unlock
  <2>2. l \notin Locked
    BY DEF Locked, Loading
  <2>3. OwnersLocked'
    BY <1>1, <2>1, <2>2, PoolAssumption DEF OwnersLocked, keyOf, TypeOK
  <2>4. LockedOwn'
    BY <1>1, <1>2, <2>1, <2>2, PoolAssumption DEF OwnersLocked, LockedOwn, keyOf, TypeOK, Key
  <2>5. SingleFlight'
    BY <1>1, PoolAssumption
       DEF LoadAccount, stateFails, leaveState, unlock, Goto, limits, tables, frames, SingleFlight, LockedOwn, keyOf, TypeOK, Locked, Loading
  <2>. QED  BY <2>3, <2>4, <2>5
<1>5. via = [via EXCEPT ![r] = via[r]] /\ via[r] \in Via
  BY DEF TypeOK
<1>. QED  BY <1>3, <1>4, <1>5 DEF LoadAccount, stateFails, leaveState, unlock, Goto, limits, tables, frames, Via

LEMMA AcquireLoginGuarded ==
    ASSUME Counted, Counted', Guarded, NEW r \in Request, AcquireLogin(r) PROVE Guarded'
<1> USE DEF Counted, Frame, Guarded
<1>1. keyOf(r) \in Key
  BY DEF AcquireLogin, endSend, FramesOK, TypeOK, keyOf, Key
<1>2. OwnersLocked'
  BY <1>1, PoolAssumption
     DEF AcquireLogin, Goto, tables, OwnersLocked, keyOf, TypeOK, Locked, Loading
<1>3. LockedOwn'
  BY <1>1, PoolAssumption
     DEF AcquireLogin, Goto, tables, OwnersLocked, LockedOwn, keyOf, TypeOK, Locked, Loading
<1>4. SingleFlight'
  BY <1>1, PoolAssumption
     DEF AcquireLogin, Goto, tables, SingleFlight, LockedOwn, keyOf, TypeOK, Locked, Loading
<1>. QED  BY <1>2, <1>3, <1>4

LEMMA AbandonLoginGuarded ==
    ASSUME Counted, Counted', Guarded, NEW r \in Request, AbandonLogin(r) PROVE Guarded'
<1> USE DEF Counted, Frame, Guarded
<1>1. keyOf(r) \in Key
  BY DEF AbandonLogin, endSend, FramesOK, TypeOK, keyOf, Key
<1>2. OwnersLocked'
  BY <1>1, PoolAssumption
     DEF AbandonLogin, stateFails, leaveState, unlock, Goto, tables, OwnersLocked, keyOf, TypeOK, Locked, Loading
<1>3. LockedOwn'
  BY <1>1, PoolAssumption
     DEF AbandonLogin, stateFails, leaveState, unlock, Goto, tables, OwnersLocked, LockedOwn, keyOf, TypeOK, Locked, Loading
<1>4. SingleFlight'
  BY <1>1, PoolAssumption
     DEF AbandonLogin, stateFails, leaveState, unlock, Goto, tables, SingleFlight, LockedOwn, keyOf, TypeOK, Locked, Loading
<1>. QED  BY <1>2, <1>3, <1>4

LEMMA LoginSucceedsGuarded ==
    ASSUME Counted, Counted', Guarded, NEW r \in Request, LoginSucceeds(r) PROVE Guarded'
<1> USE DEF Counted, Frame, Guarded
<1>1. keyOf(r) \in Key
  BY DEF LoginSucceeds, endSend, FramesOK, TypeOK, keyOf, Key
<1>2. OwnersLocked'
  BY <1>1, PoolAssumption
     DEF LoginSucceeds, Goto, limits, tables, OwnersLocked, keyOf, TypeOK, Locked, Loading
<1>3. LockedOwn'
  BY <1>1, PoolAssumption
     DEF LoginSucceeds, Goto, limits, tables, OwnersLocked, LockedOwn, keyOf, TypeOK, Locked, Loading
<1>4. SingleFlight'
  BY <1>1, PoolAssumption
     DEF LoginSucceeds, Goto, limits, tables, SingleFlight, LockedOwn, keyOf, TypeOK, Locked, Loading
<1>. QED  BY <1>2, <1>3, <1>4

LEMMA LoginFailsGuarded ==
    ASSUME Counted, Counted', Guarded, NEW r \in Request, LoginFails(r) PROVE Guarded'
<1> USE DEF Counted, Frame, Guarded
<1>1. keyOf(r) \in Key
  BY DEF LoginFails, endSend, FramesOK, TypeOK, keyOf, Key
<1>2. OwnersLocked'
  BY <1>1, PoolAssumption
     DEF LoginFails, stateFails, leaveState, unlock, Goto, tables, OwnersLocked, keyOf, TypeOK, Locked, Loading
<1>3. LockedOwn'
  BY <1>1, PoolAssumption
     DEF LoginFails, stateFails, leaveState, unlock, Goto, tables, OwnersLocked, LockedOwn, keyOf, TypeOK, Locked, Loading
<1>4. SingleFlight'
  BY <1>1, PoolAssumption
     DEF LoginFails, stateFails, leaveState, unlock, Goto, tables, SingleFlight, LockedOwn, keyOf, TypeOK, Locked, Loading
<1>. QED  BY <1>2, <1>3, <1>4

LEMMA RecordUINGuarded ==
    ASSUME Counted, Counted', Guarded, NEW r \in Request, RecordUIN(r) PROVE Guarded'
<1> USE DEF Counted, Frame, Guarded
<1>1. keyOf(r) \in Key
  BY DEF RecordUIN, endSend, FramesOK, TypeOK, keyOf, Key
<1>2. OwnersLocked'
  BY <1>1, PoolAssumption
     DEF RecordUIN, Goto, limits, frames, OwnersLocked, keyOf, TypeOK, Locked, Loading
<1>3. LockedOwn'
  BY <1>1, PoolAssumption
     DEF RecordUIN, Goto, limits, frames, OwnersLocked, LockedOwn, keyOf, TypeOK, Locked, Loading
<1>4. SingleFlight'
  BY <1>1, PoolAssumption
     DEF RecordUIN, Goto, limits, frames, SingleFlight, LockedOwn, keyOf, TypeOK, Locked, Loading
<1>. QED  BY <1>2, <1>3, <1>4

LEMMA SaveSessionGuarded ==
    ASSUME Counted, Counted', Guarded, NEW r \in Request, SaveSession(r) PROVE Guarded'
<1> USE DEF Counted, Frame, Guarded
<1>1. keyOf(r) \in Key
  BY DEF SaveSession, endSend, FramesOK, TypeOK, keyOf, Key
<1>2. OwnersLocked'
  BY <1>1, PoolAssumption
     DEF SaveSession, stateFails, leaveState, unlock, Goto, tables, frames, OwnersLocked, keyOf, TypeOK, Locked, Loading
<1>3. LockedOwn'
  BY <1>1, PoolAssumption
     DEF SaveSession, stateFails, leaveState, unlock, Goto, tables, frames, OwnersLocked, LockedOwn, keyOf, TypeOK, Locked, Loading
<1>4. SingleFlight'
  BY <1>1, PoolAssumption
     DEF SaveSession, stateFails, leaveState, unlock, Goto, tables, frames, SingleFlight, LockedOwn, keyOf, TypeOK, Locked, Loading
<1>. QED  BY <1>2, <1>3, <1>4

LEMMA AcquireShortlinkGuarded ==
    ASSUME Counted, Counted', Guarded, NEW r \in Request, AcquireShortlink(r) PROVE Guarded'
<1> USE DEF Counted, Frame, Guarded
<1>1. keyOf(r) \in Key
  BY DEF AcquireShortlink, endSend, FramesOK, TypeOK, keyOf, Key
<1>2. OwnersLocked'
  BY <1>1, PoolAssumption
     DEF AcquireShortlink, Goto, tables, OwnersLocked, keyOf, TypeOK, Locked, Loading
<1>3. LockedOwn'
  BY <1>1, PoolAssumption
     DEF AcquireShortlink, Goto, tables, OwnersLocked, LockedOwn, keyOf, TypeOK, Locked, Loading
<1>4. SingleFlight'
  BY <1>1, PoolAssumption
     DEF AcquireShortlink, Goto, tables, SingleFlight, LockedOwn, keyOf, TypeOK, Locked, Loading
<1>. QED  BY <1>2, <1>3, <1>4

LEMMA AbandonSendGuarded ==
    ASSUME Counted, Counted', Guarded, NEW r \in Request, AbandonSend(r) PROVE Guarded'
<1> USE DEF Counted, Frame, Guarded
<1>1. keyOf(r) \in Key
  BY DEF AbandonSend, endSend, FramesOK, TypeOK, keyOf, Key
<1>2. OwnersLocked'
  BY <1>1, PoolAssumption
     DEF AbandonSend, opFails, Goto, limits, tables, OwnersLocked, keyOf, TypeOK, Locked, Loading
<1>3. LockedOwn'
  BY <1>1, PoolAssumption
     DEF AbandonSend, opFails, Goto, limits, tables, OwnersLocked, LockedOwn, keyOf, TypeOK, Locked, Loading
<1>4. SingleFlight'
  BY <1>1, PoolAssumption
     DEF AbandonSend, opFails, Goto, limits, tables, SingleFlight, LockedOwn, keyOf, TypeOK, Locked, Loading
<1>. QED  BY <1>2, <1>3, <1>4

LEMMA SendSucceedsGuarded ==
    ASSUME Counted, Counted', Guarded, NEW r \in Request, SendSucceeds(r) PROVE Guarded'
<1> USE DEF Counted, Frame, Guarded
<1>1. keyOf(r) \in Key
  BY DEF SendSucceeds, endSend, FramesOK, TypeOK, keyOf, Key
<1>2. OwnersLocked'
  BY <1>1, PoolAssumption
     DEF SendSucceeds, endSend, Goto, tables, OwnersLocked, keyOf, TypeOK, Locked, Loading
<1>3. LockedOwn'
  BY <1>1, PoolAssumption
     DEF SendSucceeds, endSend, Goto, tables, OwnersLocked, LockedOwn, keyOf, TypeOK, Locked, Loading
<1>4. SingleFlight'
  BY <1>1, PoolAssumption
     DEF SendSucceeds, endSend, Goto, tables, SingleFlight, LockedOwn, keyOf, TypeOK, Locked, Loading
<1>. QED  BY <1>2, <1>3, <1>4

LEMMA SendFailsGuarded ==
    ASSUME Counted, Counted', Guarded, NEW r \in Request, SendFails(r) PROVE Guarded'
<1> USE DEF Counted, Frame, Guarded
<1>1. keyOf(r) \in Key
  BY DEF SendFails, endSend, FramesOK, TypeOK, keyOf, Key
<1>2. OwnersLocked'
  BY <1>1, PoolAssumption
     DEF SendFails, endSend, opFails, Goto, tables, OwnersLocked, keyOf, TypeOK, Locked, Loading
<1>3. LockedOwn'
  BY <1>1, PoolAssumption
     DEF SendFails, endSend, opFails, Goto, tables, OwnersLocked, LockedOwn, keyOf, TypeOK, Locked, Loading
<1>4. SingleFlight'
  BY <1>1, PoolAssumption
     DEF SendFails, endSend, opFails, Goto, tables, SingleFlight, LockedOwn, keyOf, TypeOK, Locked, Loading
<1>. QED  BY <1>2, <1>3, <1>4

LEMMA InvalidateGuarded ==
    ASSUME Counted, Counted', Guarded, NEW r \in Request, Invalidate(r) PROVE Guarded'
<1> USE DEF Counted, Frame, Guarded
<1>1. keyOf(r) \in Key
  BY DEF Invalidate, endSend, FramesOK, TypeOK, keyOf, Key
<1>2. OwnersLocked'
  BY <1>1, PoolAssumption
     DEF Invalidate, Goto, limits, OwnersLocked, keyOf, TypeOK, Locked, Loading
<1>3. LockedOwn'
  BY <1>1, PoolAssumption
     DEF Invalidate, Goto, limits, OwnersLocked, LockedOwn, keyOf, TypeOK, Locked, Loading
<1>4. SingleFlight'
  BY <1>1, PoolAssumption
     DEF Invalidate, Goto, limits, SingleFlight, LockedOwn, keyOf, TypeOK, Locked, Loading
<1>. QED  BY <1>2, <1>3, <1>4

LEMMA RunGuarded ==
    ASSUME Counted, Guarded, NEW r \in Request, NEW a \in Account, NEW x \in Via,
           run(r, a, x), cancelled' \in {cancelled, cancelled \ {r}}
    PROVE  Guarded'
<1> USE DEF Counted, Frame, Guarded, run, Goto, limits, tables, TypeOK
<1>1. pc[r] \notin Locked /\ pc'[r] = "lookup" /\ "lookup" \notin Locked
  BY DEF Locked, Loading
<1>2. OwnersLocked' /\ LockedOwn'
  BY <1>1 DEF OwnersLocked, LockedOwn, keyOf
<1>3. SingleFlight'
  BY <1>1 DEF SingleFlight, Locked, keyOf
<1>. QED  BY <1>2, <1>3

LEMMA EnvironmentGuarded == ASSUME Counted, Guarded, Environment PROVE Guarded'
<1> USE DEF Counted, Frame, Guarded, OwnersLocked, LockedOwn, SingleFlight, keyOf
<1>1. ASSUME NEW r \in Request, Cancel(r) PROVE Guarded'
  BY <1>1 DEF Cancel, tables, limits, frames
<1>2. ASSUME NEW k \in Key, Expire(k) PROVE Guarded'
  BY <1>2 DEF Expire, limits, frames
<1>3. ASSUME NEW k \in Key, InvalidateSession(k) PROVE Guarded'
  BY <1>3 DEF InvalidateSession, limits, frames
<1>4. ASSUME NEW a \in Account, DeleteAccount(a) PROVE Guarded'
  BY <1>4 DEF DeleteAccount, limits, frames
<1>5. ASSUME Restart PROVE Guarded'
  BY <1>5, PoolAssumption DEF Restart, tables, Locked, Loading
<1>. QED  BY <1>1, <1>2, <1>3, <1>4, <1>5 DEF Environment

LEMMA NextGuarded == Counted /\ Counted' /\ Guarded /\ [Next]_vars => Guarded'
<1> SUFFICES ASSUME Counted, Counted', Guarded, [Next]_vars PROVE Guarded'
  OBVIOUS
<1>1. CASE UNCHANGED vars
  BY <1>1 DEF vars, tables, limits, frames, Guarded, OwnersLocked, LockedOwn, SingleFlight, keyOf
<1>2. ASSUME NEW r \in Request, Step(r) PROVE Guarded'
  BY <1>2, LookupGuarded, LockGuarded, RecheckGuarded, LoadAccountGuarded,
     AcquireLoginGuarded, AbandonLoginGuarded, LoginSucceedsGuarded, LoginFailsGuarded,
     RecordUINGuarded, SaveSessionGuarded, AcquireShortlinkGuarded, AbandonSendGuarded,
     SendSucceedsGuarded, SendFailsGuarded, InvalidateGuarded
     DEF Step
<1>. QED  BY <1>1, <1>2, RunGuarded, EnvironmentGuarded DEF Next, Call, AllReturned

LEMMA AlwaysGuarded == Spec => []Guarded
<1>1. Init => Guarded
  BY PoolAssumption DEF Init, Guarded, OwnersLocked, LockedOwn, SingleFlight, Locked, Loading
<1>. QED  BY <1>1, NextGuarded, AlwaysCounted, PTL DEF Spec

\* A request holds the mutex of its key exactly between lock.Lock() and the
\* return of Pool.state, whatever way it returns.
THEOREM LocksCorrect == Spec => []LockDiscipline
<1>1. Counted /\ Guarded => LockDiscipline
  BY DEF Counted, Frame, TypeOK, Guarded, OwnersLocked, LockedOwn, LockDiscipline
<1>. QED  BY <1>1, AlwaysCounted, AlwaysGuarded, PTL

\* No request is on its way to log in for a key that has a valid session: the
\* lookup under the mutex and the mutex until PutSession see to it.
THEOREM LoginsAreSingle == Spec => []SingleFlight
<1>1. Guarded => SingleFlight
  BY DEF Guarded
<1>. QED  BY <1>1, AlwaysGuarded, PTL
------------------------------------------------------------------------------
(* What the rows of the sessions table and the sessions in use belong to.    *)

\* SetAccountUIN comes before PutSession in Pool.state, and it fails only when
\* PutSession will fail too: the context stays done, the account stays deleted.
RecordedBeforePut ==
    \A r \in Request : pc[r] = "put" =>
        r \in cancelled \/ acct[r] \notin accounts \/ acct[r] \in known

Belonging == SessionsBelongToAccounts /\ RecordedBeforePut

\* A request that is about to turn to the direct connection holds no session
\* any more.
LetGo == \A r \in Request : pc[r] = "invalidate" => held[r] = None

\* The parts of ProxyIsolation.
RowsByProxy == \A k \in Key : sessions[k] # None => sessions[k].proxy = k[2]
HeldByProxy == \A r \in Request : held[r] # None => held[r].proxy = via[r]
SentByProxy == \A r \in Request : pc[r] = "send" => path[r] = held[r].proxy

Isolated == RowsByProxy /\ HeldByProxy /\ SentByProxy /\ LetGo
------------------------------------------------------------------------------
(* Each step of a request.                                                   *)

LEMMA LookupRows ==
    ASSUME Counted, Counted', Belonging, Isolated, NEW r \in Request, Lookup(r)
    PROVE  Belonging' /\ Isolated'
<1> USE DEF Counted, Frame, TypeOK
<1>1. keyOf(r) \in Key /\ keyOf(r) = <<acct[r], via[r]>>
  BY DEF Lookup, endSend, FramesOK, keyOf, Key
<1>2. Belonging'
  BY <1>1, PoolAssumption
     DEF Lookup, stateFails, useSession, Goto, limits, tables, Belonging, SessionsBelongToAccounts, RecordedBeforePut, FramesOK, Key
<1>3. Isolated'
  <2>1. RowsByProxy'
    BY <1>1 DEF Lookup, stateFails, useSession, Goto, limits, tables, Isolated, RowsByProxy, HeldByProxy, FramesOK, Session, Key
  <2>2. keyOf(r) \in live => sessions[keyOf(r)].proxy = via[r]
    BY <1>1 DEF Isolated, RowsByProxy, LiveRows
  <2>3. HeldByProxy'
    BY <1>1, <2>2, PoolAssumption DEF Lookup, stateFails, useSession, Goto, limits, tables, Isolated, HeldByProxy
  <2>4. SentByProxy' /\ LetGo'
    BY DEF Lookup, stateFails, useSession, Goto, limits, tables, Isolated, SentByProxy, LetGo
  <2>. QED  BY <2>1, <2>3, <2>4 DEF Isolated
<1>. QED  BY <1>2, <1>3

LEMMA LockRows ==
    ASSUME Counted, Counted', Belonging, Isolated, NEW r \in Request, Lock(r)
    PROVE  Belonging' /\ Isolated'
<1> USE DEF Counted, Frame, TypeOK
<1>1. keyOf(r) \in Key /\ keyOf(r) = <<acct[r], via[r]>>
  BY DEF Lock, endSend, FramesOK, keyOf, Key
<1>2. Belonging'
  BY <1>1, PoolAssumption
     DEF Lock, Goto, limits, tables, frames, Belonging, SessionsBelongToAccounts, RecordedBeforePut, FramesOK, Key
<1>3. Isolated'
  BY <1>1, PoolAssumption
     DEF Lock, Goto, limits, tables, frames, Isolated, RowsByProxy, HeldByProxy, SentByProxy, LetGo, FramesOK, LiveRows, Session, Key
<1>. QED  BY <1>2, <1>3

LEMMA RecheckRows ==
    ASSUME Counted, Counted', Belonging, Isolated, NEW r \in Request, Recheck(r)
    PROVE  Belonging' /\ Isolated'
<1> USE DEF Counted, Frame, TypeOK
<1>1. keyOf(r) \in Key /\ keyOf(r) = <<acct[r], via[r]>>
  BY DEF Recheck, endSend, FramesOK, keyOf, Key
<1>2. Belonging'
  BY <1>1, PoolAssumption
     DEF Recheck, stateFails, leaveState, unlock, useSession, Goto, limits, tables, Belonging, SessionsBelongToAccounts, RecordedBeforePut, FramesOK, Key
<1>3. Isolated'
  <2>1. RowsByProxy'
    BY <1>1 DEF Recheck, stateFails, leaveState, unlock, useSession, Goto, limits, tables, Isolated, RowsByProxy, HeldByProxy, FramesOK, Session, Key
  <2>2. keyOf(r) \in live => sessions[keyOf(r)].proxy = via[r]
    BY <1>1 DEF Isolated, RowsByProxy, LiveRows
  <2>3. HeldByProxy'
    BY <1>1, <2>2, PoolAssumption DEF Recheck, stateFails, leaveState, unlock, useSession, Goto, limits, tables, Isolated, HeldByProxy
  <2>4. SentByProxy' /\ LetGo'
    BY DEF Recheck, stateFails, leaveState, unlock, useSession, Goto, limits, tables, Isolated, SentByProxy, LetGo
  <2>. QED  BY <2>1, <2>3, <2>4 DEF Isolated
<1>. QED  BY <1>2, <1>3

LEMMA LoadAccountRows ==
    ASSUME Counted, Counted', Belonging, Isolated, NEW r \in Request, LoadAccount(r)
    PROVE  Belonging' /\ Isolated'
<1> USE DEF Counted, Frame, TypeOK
<1>1. keyOf(r) \in Key /\ keyOf(r) = <<acct[r], via[r]>>
  BY DEF LoadAccount, endSend, FramesOK, keyOf, Key
<1>2. Belonging'
  BY <1>1, PoolAssumption
     DEF LoadAccount, stateFails, leaveState, unlock, Goto, limits, tables, frames, Belonging, SessionsBelongToAccounts, RecordedBeforePut, FramesOK, Key
<1>3. Isolated'
  <2>1. RowsByProxy'
    BY <1>1 DEF LoadAccount, stateFails, leaveState, unlock, Goto, limits, tables, frames, Isolated, RowsByProxy, HeldByProxy, FramesOK, Session, Key
  <2>3. HeldByProxy'
    BY <1>1, PoolAssumption DEF LoadAccount, stateFails, leaveState, unlock, Goto, limits, tables, frames, Isolated, HeldByProxy, LetGo
  <2>4. SentByProxy' /\ LetGo'
    BY DEF LoadAccount, stateFails, leaveState, unlock, Goto, limits, tables, frames, Isolated, SentByProxy, LetGo
  <2>. QED  BY <2>1, <2>3, <2>4 DEF Isolated
<1>. QED  BY <1>2, <1>3

LEMMA AcquireLoginRows ==
    ASSUME Counted, Counted', Belonging, Isolated, NEW r \in Request, AcquireLogin(r)
    PROVE  Belonging' /\ Isolated'
<1> USE DEF Counted, Frame, TypeOK
<1>1. keyOf(r) \in Key /\ keyOf(r) = <<acct[r], via[r]>>
  BY DEF AcquireLogin, endSend, FramesOK, keyOf, Key
<1>2. Belonging'
  BY <1>1, PoolAssumption
     DEF AcquireLogin, Goto, tables, Belonging, SessionsBelongToAccounts, RecordedBeforePut, FramesOK, Key
<1>3. Isolated'
  BY <1>1, PoolAssumption
     DEF AcquireLogin, Goto, tables, Isolated, RowsByProxy, HeldByProxy, SentByProxy, LetGo, FramesOK, LiveRows, Session, Key
<1>. QED  BY <1>2, <1>3

LEMMA AbandonLoginRows ==
    ASSUME Counted, Counted', Belonging, Isolated, NEW r \in Request, AbandonLogin(r)
    PROVE  Belonging' /\ Isolated'
<1> USE DEF Counted, Frame, TypeOK
<1>1. keyOf(r) \in Key /\ keyOf(r) = <<acct[r], via[r]>>
  BY DEF AbandonLogin, endSend, FramesOK, keyOf, Key
<1>2. Belonging'
  BY <1>1, PoolAssumption
     DEF AbandonLogin, stateFails, leaveState, unlock, Goto, tables, Belonging, SessionsBelongToAccounts, RecordedBeforePut, FramesOK, Key
<1>3. Isolated'
  BY <1>1, PoolAssumption
     DEF AbandonLogin, stateFails, leaveState, unlock, Goto, tables, Isolated, RowsByProxy, HeldByProxy, SentByProxy, LetGo, FramesOK, LiveRows, Session, Key
<1>. QED  BY <1>2, <1>3

LEMMA LoginSucceedsRows ==
    ASSUME Counted, Counted', Belonging, Isolated, NEW r \in Request, LoginSucceeds(r)
    PROVE  Belonging' /\ Isolated'
<1> USE DEF Counted, Frame, TypeOK
<1>1. keyOf(r) \in Key /\ keyOf(r) = <<acct[r], via[r]>>
  BY DEF LoginSucceeds, endSend, FramesOK, keyOf, Key
<1>2. Belonging'
  BY <1>1, PoolAssumption
     DEF LoginSucceeds, Goto, limits, tables, Belonging, SessionsBelongToAccounts, RecordedBeforePut, FramesOK, Key
<1>3. Isolated'
  BY <1>1, PoolAssumption
     DEF LoginSucceeds, Goto, limits, tables, Isolated, RowsByProxy, HeldByProxy, SentByProxy, LetGo, FramesOK, LiveRows, Session, Key
<1>. QED  BY <1>2, <1>3

LEMMA LoginFailsRows ==
    ASSUME Counted, Counted', Belonging, Isolated, NEW r \in Request, LoginFails(r)
    PROVE  Belonging' /\ Isolated'
<1> USE DEF Counted, Frame, TypeOK
<1>1. keyOf(r) \in Key /\ keyOf(r) = <<acct[r], via[r]>>
  BY DEF LoginFails, endSend, FramesOK, keyOf, Key
<1>2. Belonging'
  BY <1>1, PoolAssumption
     DEF LoginFails, stateFails, leaveState, unlock, Goto, tables, Belonging, SessionsBelongToAccounts, RecordedBeforePut, FramesOK, Key
<1>3. Isolated'
  BY <1>1, PoolAssumption
     DEF LoginFails, stateFails, leaveState, unlock, Goto, tables, Isolated, RowsByProxy, HeldByProxy, SentByProxy, LetGo, FramesOK, LiveRows, Session, Key
<1>. QED  BY <1>2, <1>3

LEMMA RecordUINRows ==
    ASSUME Counted, Counted', Belonging, Isolated, NEW r \in Request, RecordUIN(r)
    PROVE  Belonging' /\ Isolated'
<1> USE DEF Counted, Frame, TypeOK
<1>1. keyOf(r) \in Key /\ keyOf(r) = <<acct[r], via[r]>>
  BY DEF RecordUIN, endSend, FramesOK, keyOf, Key
<1>2. Belonging'
  BY <1>1, PoolAssumption
     DEF RecordUIN, Goto, limits, frames, Belonging, SessionsBelongToAccounts, RecordedBeforePut, FramesOK, Key
<1>3. Isolated'
  BY <1>1, PoolAssumption
     DEF RecordUIN, Goto, limits, frames, Isolated, RowsByProxy, HeldByProxy, SentByProxy, LetGo, FramesOK, LiveRows, Session, Key
<1>. QED  BY <1>2, <1>3

LEMMA SaveSessionRows ==
    ASSUME Counted, Counted', Belonging, Isolated, NEW r \in Request, SaveSession(r)
    PROVE  Belonging' /\ Isolated'
<1> USE DEF Counted, Frame, TypeOK
<1>1. keyOf(r) \in Key /\ keyOf(r) = <<acct[r], via[r]>>
  BY DEF SaveSession, endSend, FramesOK, keyOf, Key
<1>2. Belonging'
  <2>1. CASE r \in cancelled \/ acct[r] \notin accounts
    BY <2>1 DEF SaveSession, stateFails, leaveState, unlock, Goto, tables, frames, Belonging,
                SessionsBelongToAccounts, RecordedBeforePut
  <2>2. CASE ~(r \in cancelled \/ acct[r] \notin accounts)
    <3>1. acct[r] \in known /\ acct[r] \in accounts
      BY <2>2 DEF SaveSession, Belonging, RecordedBeforePut
    <3>2. /\ sessions' = [sessions EXCEPT ![keyOf(r)] = held[r]]
          /\ pc' = [pc EXCEPT ![r] = "shortSem"]
          /\ UNCHANGED <<accounts, known, acct, cancelled>>
      BY <2>2 DEF SaveSession, Goto, frames
    <3>3. \A k \in Key : sessions'[k] # None => k[1] \in accounts' /\ k[1] \in known'
      BY <1>1, <3>1, <3>2 DEF Belonging, SessionsBelongToAccounts
    <3>4. \A k \in live' : sessions'[k] # None
      BY DEF LiveRows
    <3>5. RecordedBeforePut'
      BY <3>2 DEF Belonging, RecordedBeforePut
    <3>. QED  BY <3>3, <3>4, <3>5 DEF Belonging, SessionsBelongToAccounts
  <2>. QED  BY <2>1, <2>2
<1>3. Isolated'
  <2>1. RowsByProxy'
    BY <1>1, SMTT(30) DEF SaveSession, stateFails, leaveState, unlock, Goto, tables, frames, Isolated, RowsByProxy, HeldByProxy, FramesOK, Session, Key
  <2>3. HeldByProxy'
    BY <1>1, PoolAssumption DEF SaveSession, stateFails, leaveState, unlock, Goto, tables, frames, Isolated, HeldByProxy, LetGo
  <2>4. SentByProxy' /\ LetGo'
    BY DEF SaveSession, stateFails, leaveState, unlock, Goto, tables, frames, Isolated, SentByProxy, LetGo
  <2>. QED  BY <2>1, <2>3, <2>4 DEF Isolated
<1>. QED  BY <1>2, <1>3

LEMMA AcquireShortlinkRows ==
    ASSUME Counted, Counted', Belonging, Isolated, NEW r \in Request, AcquireShortlink(r)
    PROVE  Belonging' /\ Isolated'
<1> USE DEF Counted, Frame, TypeOK
<1>1. keyOf(r) \in Key /\ keyOf(r) = <<acct[r], via[r]>>
  BY DEF AcquireShortlink, endSend, FramesOK, keyOf, Key
<1>2. Belonging'
  BY <1>1, PoolAssumption
     DEF AcquireShortlink, Goto, tables, Belonging, SessionsBelongToAccounts, RecordedBeforePut, FramesOK, Key
<1>3. Isolated'
  BY <1>1, PoolAssumption
     DEF AcquireShortlink, Goto, tables, Isolated, RowsByProxy, HeldByProxy, SentByProxy, LetGo, FramesOK, LiveRows, Session, Key, dialTCP, sendFallback
<1>. QED  BY <1>2, <1>3

LEMMA AbandonSendRows ==
    ASSUME Counted, Counted', Belonging, Isolated, NEW r \in Request, AbandonSend(r)
    PROVE  Belonging' /\ Isolated'
<1> USE DEF Counted, Frame, TypeOK
<1>1. keyOf(r) \in Key /\ keyOf(r) = <<acct[r], via[r]>>
  BY DEF AbandonSend, endSend, FramesOK, keyOf, Key
<1>2. Belonging'
  BY <1>1, PoolAssumption
     DEF AbandonSend, opFails, Goto, limits, tables, Belonging, SessionsBelongToAccounts, RecordedBeforePut, FramesOK, Key
<1>3. Isolated'
  BY <1>1, PoolAssumption
     DEF AbandonSend, opFails, Goto, limits, tables, Isolated, RowsByProxy, HeldByProxy, SentByProxy, LetGo, FramesOK, LiveRows, Session, Key
<1>. QED  BY <1>2, <1>3

LEMMA SendSucceedsRows ==
    ASSUME Counted, Counted', Belonging, Isolated, NEW r \in Request, SendSucceeds(r)
    PROVE  Belonging' /\ Isolated'
<1> USE DEF Counted, Frame, TypeOK
<1>1. keyOf(r) \in Key /\ keyOf(r) = <<acct[r], via[r]>>
  BY DEF SendSucceeds, endSend, FramesOK, keyOf, Key
<1>2. Belonging'
  BY <1>1, PoolAssumption
     DEF SendSucceeds, endSend, Goto, tables, Belonging, SessionsBelongToAccounts, RecordedBeforePut, FramesOK, Key
<1>3. Isolated'
  BY <1>1, PoolAssumption
     DEF SendSucceeds, endSend, Goto, tables, Isolated, RowsByProxy, HeldByProxy, SentByProxy, LetGo, FramesOK, LiveRows, Session, Key
<1>. QED  BY <1>2, <1>3

LEMMA SendFailsRows ==
    ASSUME Counted, Counted', Belonging, Isolated, NEW r \in Request, SendFails(r)
    PROVE  Belonging' /\ Isolated'
<1> USE DEF Counted, Frame, TypeOK
<1>1. keyOf(r) \in Key /\ keyOf(r) = <<acct[r], via[r]>>
  BY DEF SendFails, endSend, FramesOK, keyOf, Key
<1>2. Belonging'
  BY <1>1, PoolAssumption
     DEF SendFails, endSend, opFails, Goto, tables, Belonging, SessionsBelongToAccounts, RecordedBeforePut, FramesOK, Key
<1>3. Isolated'
  BY <1>1, PoolAssumption
     DEF SendFails, endSend, opFails, Goto, tables, Isolated, RowsByProxy, HeldByProxy, SentByProxy, LetGo, FramesOK, LiveRows, Session, Key
<1>. QED  BY <1>2, <1>3

LEMMA InvalidateRows ==
    ASSUME Counted, Counted', Belonging, Isolated, NEW r \in Request, Invalidate(r)
    PROVE  Belonging' /\ Isolated'
<1> USE DEF Counted, Frame, TypeOK
<1>1. keyOf(r) \in Key /\ keyOf(r) = <<acct[r], via[r]>>
  BY DEF Invalidate, endSend, FramesOK, keyOf, Key
<1>2. Belonging'
  BY <1>1, PoolAssumption
     DEF Invalidate, Goto, limits, Belonging, SessionsBelongToAccounts, RecordedBeforePut, FramesOK, Key
<1>3. Isolated'
  <2>1. RowsByProxy'
    <3>1. \A k \in Key : sessions'[k] = sessions[k] \/ sessions'[k] = None
      BY <1>1 DEF Invalidate
    <3>. QED  BY <3>1 DEF Isolated, RowsByProxy
  <2>3. HeldByProxy'
    BY <1>1, PoolAssumption DEF Invalidate, Goto, limits, Isolated, HeldByProxy, LetGo
  <2>4. SentByProxy' /\ LetGo'
    BY DEF Invalidate, Goto, limits, Isolated, SentByProxy, LetGo
  <2>. QED  BY <2>1, <2>3, <2>4 DEF Isolated
<1>. QED  BY <1>2, <1>3

------------------------------------------------------------------------------
(* The other steps, and the theorems.                                        *)

LEMMA RunRows ==
    ASSUME Counted, Belonging, Isolated,
           NEW r \in Request, NEW a \in Account, NEW x \in Via,
           run(r, a, x), cancelled' \in {cancelled, cancelled \ {r}}
    PROVE  Belonging' /\ Isolated'
<1> USE DEF Counted, Frame, TypeOK, run, Goto, limits, tables
<1>1. Belonging'
  BY DEF Belonging, SessionsBelongToAccounts, RecordedBeforePut
<1>2. Isolated'
  BY DEF Isolated, RowsByProxy, HeldByProxy, SentByProxy, LetGo
<1>. QED  BY <1>1, <1>2

LEMMA EnvironmentRows ==
    ASSUME Counted, Counted', Belonging, Isolated, Environment
    PROVE  Belonging' /\ Isolated'
<1> USE DEF Counted, Frame, TypeOK, Belonging, SessionsBelongToAccounts, RecordedBeforePut,
            Isolated, RowsByProxy, HeldByProxy, SentByProxy, LetGo, LiveRows
<1>1. ASSUME NEW r \in Request, Cancel(r) PROVE Belonging' /\ Isolated'
  BY <1>1 DEF Cancel, tables, limits, frames
<1>2. ASSUME NEW k \in Key, Expire(k) PROVE Belonging' /\ Isolated'
  BY <1>2 DEF Expire, limits, frames
<1>3. ASSUME NEW k \in Key, InvalidateSession(k) PROVE Belonging' /\ Isolated'
  BY <1>3 DEF InvalidateSession, limits, frames
<1>4. ASSUME NEW a \in Account, DeleteAccount(a) PROVE Belonging' /\ Isolated'
  BY <1>4 DEF DeleteAccount, limits, frames
<1>5. ASSUME Restart PROVE Belonging' /\ Isolated'
  BY <1>5 DEF Restart, tables
<1>. QED  BY <1>1, <1>2, <1>3, <1>4, <1>5 DEF Environment

LEMMA NextRows ==
    Counted /\ Counted' /\ Belonging /\ Isolated /\ [Next]_vars => Belonging' /\ Isolated'
<1> SUFFICES ASSUME Counted, Counted', Belonging, Isolated, [Next]_vars
             PROVE  Belonging' /\ Isolated'
  OBVIOUS
<1>1. CASE UNCHANGED vars
  BY <1>1 DEF vars, tables, limits, frames, Belonging, SessionsBelongToAccounts,
              RecordedBeforePut, Isolated, RowsByProxy, HeldByProxy, SentByProxy, LetGo
<1>2. ASSUME NEW r \in Request, Step(r) PROVE Belonging' /\ Isolated'
  BY <1>2, LookupRows, LockRows, RecheckRows, LoadAccountRows, AcquireLoginRows,
     AbandonLoginRows, LoginSucceedsRows, LoginFailsRows, RecordUINRows, SaveSessionRows,
     AcquireShortlinkRows, AbandonSendRows, SendSucceedsRows, SendFailsRows, InvalidateRows
     DEF Step
<1>. QED  BY <1>1, <1>2, RunRows, EnvironmentRows DEF Next, Call, AllReturned

LEMMA AlwaysRows == Spec => [](Belonging /\ Isolated)
<1>1. Init => Belonging /\ Isolated
  BY PoolAssumption DEF Init, Belonging, SessionsBelongToAccounts, RecordedBeforePut,
                        Isolated, RowsByProxy, HeldByProxy, SentByProxy, LetGo
<1>. QED  BY <1>1, NextRows, AlwaysCounted, PTL DEF Spec

\* No session row outlives its account or appears after its deletion, also when
\* the account goes while a login for it is under way; every account with a
\* session has its uin recorded.
THEOREM RowsBelong == Spec => []SessionsBelongToAccounts
<1>1. Belonging => SessionsBelongToAccounts
  BY DEF Belonging
<1>. QED  BY <1>1, AlwaysRows, PTL

\* A session is stored, looked up and used under the proxy it was made for, and
\* what is sent over it leaves by that proxy.
THEOREM ProxiesIsolated == Spec => []ProxyIsolation
<1>1. Isolated => ProxyIsolation
  BY DEF Isolated, RowsByProxy, HeldByProxy, SentByProxy, ProxyIsolation
<1>. QED  BY <1>1, AlwaysRows, PTL
------------------------------------------------------------------------------
(* SessionPool implements SessionCache.                                      *)

InLoad(r, k) == pc[r] \in Loading /\ keyOf(r) = k

\* The mapped loader of a key, in terms of where the requests stand.
LEMMA LoadingIs ==
    ASSUME Counted, Guarded, NEW k \in Key
    PROVE  /\ LoadingBy[k] \in Request \cup {None}
           /\ \A r \in Request : LoadingBy[k] = r => InLoad(r, k)
           /\ \A r \in Request : InLoad(r, k) => LoadingBy[k] = r
<1> USE PoolAssumption DEF Counted, Frame, TypeOK, Guarded
<1>1. \A r \in Request : InLoad(r, k) => lockOwner[k] = r
  BY DEF InLoad, LockedOwn, Locked
<1>2. \A r \in Request : lockOwner[k] = r => keyOf(r) = k
  BY DEF OwnersLocked
<1>3. lockOwner[k] \in Request \cup {None}
  OBVIOUS
<1>. QED  BY <1>1, <1>2, <1>3 DEF InLoad, LoadingBy

LEMMA LoadingIsNext ==
    ASSUME Counted', Guarded', NEW k \in Key
    PROVE  /\ LoadingBy'[k] \in Request \cup {None}
           /\ \A r \in Request : LoadingBy'[k] = r => InLoad(r, k)'
           /\ \A r \in Request : InLoad(r, k)' => LoadingBy'[k] = r
<1> USE PoolAssumption DEF Counted, Frame, TypeOK, Guarded
<1>1. \A r \in Request : InLoad(r, k)' => lockOwner'[k] = r
  BY DEF InLoad, LockedOwn, Locked
<1>2. \A r \in Request : lockOwner'[k] = r => keyOf(r)' = k
  BY DEF OwnersLocked
<1>3. lockOwner'[k] \in Request \cup {None}
  OBVIOUS
<1>. QED  BY <1>1, <1>2, <1>3 DEF InLoad, LoadingBy

\* A step after which the same requests are loading as before.
LEMMA SameLoading ==
    ASSUME Counted, Counted', Guarded, Guarded',
           \A q \in Request, k \in Key : InLoad(q, k) => InLoad(q, k)',
           \A q \in Request, k \in Key : InLoad(q, k)' => InLoad(q, k)
    PROVE  LoadingBy' = LoadingBy
<1>1. ASSUME NEW k \in Key PROVE LoadingBy'[k] = LoadingBy[k]
  <2>1. LoadingBy[k] \in Request => LoadingBy'[k] = LoadingBy[k]
    BY LoadingIs, LoadingIsNext
  <2>2. LoadingBy'[k] \in Request => LoadingBy'[k] = LoadingBy[k]
    BY LoadingIs, LoadingIsNext
  <2>. QED  BY <2>1, <2>2, LoadingIs, LoadingIsNext
<1>. QED  BY <1>1 DEF LoadingBy

\* A step after which the keys in K have no loader any more.
LEMMA EndLoading ==
    ASSUME Counted, Counted', Guarded, Guarded', NEW K,
           \A q \in Request, k \in Key : InLoad(q, k) /\ k \notin K => InLoad(q, k)',
           \A q \in Request, k \in Key : InLoad(q, k)' => InLoad(q, k) /\ k \notin K
    PROVE  LoadingBy' = [k \in Key |-> IF k \in K THEN None ELSE LoadingBy[k]]
<1>1. ASSUME NEW k \in Key, k \in K PROVE LoadingBy'[k] = None
  BY <1>1, LoadingIsNext
<1>2. ASSUME NEW k \in Key, k \notin K PROVE LoadingBy'[k] = LoadingBy[k]
  <2>1. LoadingBy[k] \in Request => LoadingBy'[k] = LoadingBy[k]
    BY <1>2, LoadingIs, LoadingIsNext
  <2>2. LoadingBy'[k] \in Request => LoadingBy'[k] = LoadingBy[k]
    BY <1>2, LoadingIs, LoadingIsNext
  <2>. QED  BY <2>1, <2>2, LoadingIs, LoadingIsNext
<1>. QED  BY <1>1, <1>2 DEF LoadingBy
------------------------------------------------------------------------------
(* What a step of a request is in the abstract cache.                        *)

Pre == Counted /\ Counted' /\ Guarded /\ Guarded'

\* Steps of a request that neither start nor end a login are stutters.
LEMMA StutterSteps ==
    ASSUME Pre, NEW r \in Request,
           \/ Lookup(r) \/ Lock(r) \/ AcquireLogin(r) \/ LoginSucceeds(r) \/ RecordUIN(r)
           \/ AcquireShortlink(r) \/ AbandonSend(r) \/ SendSucceeds(r) \/ SendFails(r)
    PROVE  UNCHANGED <<Usable, LoadingBy>>
<1> USE DEF Pre
<1>1. ASSUME \A q \in Request, k \in Key : InLoad(q, k) => InLoad(q, k)',
             \A q \in Request, k \in Key : InLoad(q, k)' => InLoad(q, k),
             UNCHANGED <<sessions, live>>
      PROVE  UNCHANGED <<Usable, LoadingBy>>
  BY <1>1, SameLoading DEF Usable
<1>2. CASE Lookup(r)
  BY <1>1, <1>2
     DEF Lookup, stateFails, useSession, Goto, limits, tables, InLoad, keyOf, Loading, Counted, Frame, TypeOK
<1>3. CASE Lock(r)
  BY <1>1, <1>3
     DEF Lock, Goto, limits, tables, frames, InLoad, keyOf, Loading, Counted, Frame, TypeOK
<1>4. CASE AcquireLogin(r)
  BY <1>1, <1>4
     DEF AcquireLogin, Goto, tables, InLoad, keyOf, Loading, Counted, Frame, TypeOK
<1>5. CASE LoginSucceeds(r)
  BY <1>1, <1>5
     DEF LoginSucceeds, Goto, limits, tables, InLoad, keyOf, Loading, Counted, Frame, TypeOK
<1>6. CASE RecordUIN(r)
  BY <1>1, <1>6
     DEF RecordUIN, Goto, limits, frames, InLoad, keyOf, Loading, Counted, Frame, TypeOK
<1>7. CASE AcquireShortlink(r)
  BY <1>1, <1>7
     DEF AcquireShortlink, Goto, tables, InLoad, keyOf, Loading, Counted, Frame, TypeOK
<1>8. CASE AbandonSend(r)
  BY <1>1, <1>8
     DEF AbandonSend, opFails, Goto, limits, tables, InLoad, keyOf, Loading, Counted, Frame, TypeOK
<1>9. CASE SendSucceeds(r)
  BY <1>1, <1>9
     DEF SendSucceeds, endSend, Goto, tables, InLoad, keyOf, Loading, Counted, Frame, TypeOK
<1>10. CASE SendFails(r)
  BY <1>1, <1>10
     DEF SendFails, endSend, opFails, Goto, tables, InLoad, keyOf, Loading, Counted, Frame, TypeOK
<1>. QED  BY <1>2, <1>3, <1>4, <1>5, <1>6, <1>7, <1>8, <1>9, <1>10

\* An error return of Pool.state by a request that logs in ends its load.
LEMMA FailedLoad ==
    ASSUME Pre, NEW r \in Request, pc[r] \in Loading, stateFails(r), leaveState(r)
    PROVE  Cache!AbortLoads({keyOf(r)})
<1> USE DEF Pre, Counted, Frame, TypeOK
<1>1. /\ sessions' = sessions /\ live' = live /\ acct' = acct
      /\ pc'[r] \notin Loading
      /\ \A q \in Request : q # r => pc'[q] = pc[q] /\ via'[q] = via[q]
  BY DEF stateFails, Goto, tables, Loading
<1>2. \A q \in Request, k \in Key : InLoad(q, k) /\ k \notin {keyOf(r)} => InLoad(q, k)'
  BY <1>1 DEF InLoad, keyOf
<1>3. \A q \in Request, k \in Key : InLoad(q, k)' => InLoad(q, k) /\ q # r
  BY <1>1 DEF InLoad, keyOf
<1>4. \A q \in Request : q # r /\ pc[q] \in Loading => keyOf(q) # keyOf(r)
  BY DEF Guarded, LockedOwn, Locked
<1>5. \A q \in Request, k \in Key : InLoad(q, k)' => InLoad(q, k) /\ k \notin {keyOf(r)}
  BY <1>3, <1>4 DEF InLoad
<1>6. LoadingBy' = [k \in Key |-> IF k \in {keyOf(r)} THEN None ELSE LoadingBy[k]]
  BY <1>2, <1>5, EndLoading
<1>7. Usable' = Usable
  BY <1>1 DEF Usable
<1>. QED  BY <1>6, <1>7 DEF Cache!AbortLoads

\* The second lookup of Pool.state is where a load starts.
LEMMA RecheckSteps ==
    ASSUME Pre, NEW r \in Request, Recheck(r)
    PROVE  UNCHANGED <<Usable, LoadingBy>> \/ Cache!StartLoad(keyOf(r), r)
<1> USE DEF Pre, Counted, Frame, TypeOK
<1>1. keyOf(r) \in Key
  BY DEF Recheck, FramesOK, keyOf, Key
<1>2. \A q \in Request : q # r => pc'[q] = pc[q] /\ keyOf(q)' = keyOf(q)
  BY DEF Recheck, stateFails, useSession, Goto, keyOf
<1>3. sessions' = sessions /\ live' = live /\ pc[r] \notin Loading
  BY DEF Recheck, stateFails, tables, Loading
<1>4. Usable' = Usable
  BY <1>3 DEF Usable
<1>5. CASE pc'[r] \notin Loading
  <2>1. \A q \in Request, k \in Key : InLoad(q, k) => InLoad(q, k)'
    BY <1>2, <1>3 DEF InLoad
  <2>2. \A q \in Request, k \in Key : InLoad(q, k)' => InLoad(q, k)
    BY <1>2, <1>5 DEF InLoad
  <2>. QED  BY <1>4, <2>1, <2>2, SameLoading
<1>6. CASE pc'[r] \in Loading
  <2>1. keyOf(r) \notin live /\ keyOf(r)' = keyOf(r)
    BY <1>6 DEF Recheck, stateFails, useSession, Goto, keyOf, Loading
  <2>2. Usable[keyOf(r)] = None
    BY <1>1, <2>1 DEF Usable
  <2>3. lockOwner[keyOf(r)] = r
    BY DEF Recheck, Guarded, LockedOwn, Locked
  <2>4. LoadingBy[keyOf(r)] = None
    BY <1>1, <1>3, <2>3 DEF LoadingBy
  <2>5. LoadingBy'[keyOf(r)] = r
    BY <1>1, <1>6, <2>1, LoadingIsNext DEF InLoad
  <2>6. ASSUME NEW k \in Key, k # keyOf(r) PROVE LoadingBy'[k] = LoadingBy[k]
    <3>1. LoadingBy[k] \in Request => LoadingBy'[k] = LoadingBy[k]
      <4>1. \A q \in Request : InLoad(q, k) => InLoad(q, k)'
        BY <1>2, <1>3 DEF InLoad
      <4>. QED  BY <4>1, LoadingIs, LoadingIsNext
    <3>2. LoadingBy'[k] \in Request => LoadingBy'[k] = LoadingBy[k]
      <4>1. \A q \in Request : InLoad(q, k)' => InLoad(q, k)
        BY <1>2, <2>1, <2>6 DEF InLoad
      <4>. QED  BY <4>1, LoadingIs, LoadingIsNext
    <3>. QED  BY <3>1, <3>2, LoadingIs, LoadingIsNext
  <2>7. LoadingBy' = [LoadingBy EXCEPT ![keyOf(r)] = r]
    BY <2>5, <2>6 DEF LoadingBy
  <2>. QED  BY <1>4, <2>2, <2>4, <2>7 DEF Cache!StartLoad
<1>. QED  BY <1>5, <1>6

\* PutSession fills an empty entry with a session of the one who loads it.
LEMMA SaveSteps ==
    ASSUME Pre, NEW r \in Request, SaveSession(r),
           ~(r \in cancelled \/ acct[r] \notin accounts)
    PROVE  held[r] \in Session /\ Cache!FinishLoad(keyOf(r), held[r])
<1> USE DEF Pre, Counted, Frame, TypeOK
<1>1. /\ sessions' = [sessions EXCEPT ![keyOf(r)] = held[r]]
      /\ live' = live \cup {keyOf(r)}
      /\ acct' = acct /\ via' = via
      /\ pc' = [pc EXCEPT ![r] = "shortSem"]
      /\ pc[r] \in Loading /\ "shortSem" \notin Loading
  BY DEF SaveSession, Goto, frames, Loading
<1>2. keyOf(r) \in Key /\ held[r].owner = r /\ held[r] \in Session
  BY DEF SaveSession, FramesOK, keyOf, Key, Session
<1>3. LoadingBy[keyOf(r)] = r
  BY <1>1, <1>2, LoadingIs DEF InLoad
<1>4. keyOf(r) \notin live
  BY <1>1 DEF Guarded, SingleFlight
<1>5. Usable[keyOf(r)] = None
  BY <1>2, <1>4 DEF Usable
<1>6. Usable' = [Usable EXCEPT ![keyOf(r)] = held[r]]
  BY <1>1, <1>2 DEF Usable
<1>7. \A q \in Request, k \in Key : InLoad(q, k) /\ k \notin {keyOf(r)} => InLoad(q, k)'
  BY <1>1 DEF InLoad, keyOf
<1>8. \A q \in Request : q # r /\ pc[q] \in Loading => keyOf(q) # keyOf(r)
  BY <1>1 DEF Guarded, LockedOwn, Locked
<1>9. \A q \in Request, k \in Key : InLoad(q, k)' => InLoad(q, k) /\ k \notin {keyOf(r)}
  <2>1. \A q \in Request, k \in Key : InLoad(q, k)' => InLoad(q, k) /\ q # r
    BY <1>1 DEF InLoad, keyOf
  <2>. QED  BY <2>1, <1>8 DEF InLoad
<1>10. LoadingBy' = [k \in Key |-> IF k \in {keyOf(r)} THEN None ELSE LoadingBy[k]]
  BY <1>7, <1>9, EndLoading
<1>11. LoadingBy' = [LoadingBy EXCEPT ![keyOf(r)] = None]
  BY <1>10 DEF LoadingBy
<1>. QED  BY <1>2, <1>3, <1>5, <1>6, <1>11 DEF Cache!FinishLoad

\* LoadAccount, AbandonLogin, LoginFails and SaveSession: on or out.
LEMMA OtherLoads ==
    ASSUME Pre, NEW r \in Request,
           LoadAccount(r) \/ AbandonLogin(r) \/ LoginFails(r) \/ SaveSession(r)
    PROVE  UNCHANGED <<Usable, LoadingBy>> \/ Cache!Next
<1> USE DEF Pre
<1>1. keyOf(r) \in Key
  BY DEF LoadAccount, AbandonLogin, LoginFails, SaveSession, Counted, Frame, TypeOK, FramesOK,
         keyOf, Key
<1>2. pc[r] \in Loading
  BY DEF LoadAccount, AbandonLogin, LoginFails, SaveSession, Loading
<1>3. CASE stateFails(r) /\ leaveState(r)
  BY <1>1, <1>2, <1>3, FailedLoad DEF Cache!Next
<1>4. CASE LoadAccount(r) /\ ~(stateFails(r) /\ leaveState(r))
  <2>1. \A q \in Request, k \in Key : InLoad(q, k) => InLoad(q, k)'
    BY <1>4 DEF LoadAccount, Goto, frames, InLoad, keyOf, Loading, Counted, Frame, TypeOK
  <2>2. \A q \in Request, k \in Key : InLoad(q, k)' => InLoad(q, k)
    BY <1>4 DEF LoadAccount, Goto, frames, InLoad, keyOf, Loading, Counted, Frame, TypeOK
  <2>3. Usable' = Usable
    BY <1>4 DEF LoadAccount, tables, Usable
  <2>. QED  BY <2>1, <2>2, <2>3, SameLoading
<1>5. CASE SaveSession(r) /\ ~(stateFails(r) /\ leaveState(r))
  <2>1. ~(r \in cancelled \/ acct[r] \notin accounts)
    BY <1>5 DEF SaveSession
  <2>2. held[r] \in Session /\ Cache!FinishLoad(keyOf(r), held[r])
    BY <1>5, <2>1, SaveSteps
  <2>. QED  BY <1>1, <2>2 DEF Cache!Next
<1>. QED  BY <1>3, <1>4, <1>5 DEF AbandonLogin, LoginFails

\* Rows that go, for the keys of a set K, while nobody starts or ends a load.
LEMMA DropRows ==
    ASSUME Pre, NEW K \in SUBSET Key,
           \A q \in Request, k \in Key : InLoad(q, k) => InLoad(q, k)',
           \A q \in Request, k \in Key : InLoad(q, k)' => InLoad(q, k),
           \A k \in Key : k \in K => k \notin live',
           \A k \in Key : k \notin K => sessions'[k] = sessions[k] /\ (k \in live' <=> k \in live)
    PROVE  Cache!Next
<1>1. LoadingBy' = LoadingBy
  BY SameLoading DEF Pre
<1>2. Usable' = [k \in Key |-> IF k \in K THEN None ELSE Usable[k]]
  BY DEF Usable
<1>. QED  BY <1>1, <1>2 DEF Cache!Next, Cache!Drop

LEMMA InvalidateSteps ==
    ASSUME Pre, NEW r \in Request, Invalidate(r)
    PROVE  UNCHANGED <<Usable, LoadingBy>> \/ Cache!Next
<1> USE DEF Pre, Counted, Frame, TypeOK
<1>1. keyOf(r) \in Key
  BY DEF Invalidate, FramesOK, keyOf, Key
<1>2. \A q \in Request, k \in Key : InLoad(q, k) => InLoad(q, k)'
  BY DEF Invalidate, Goto, InLoad, keyOf, Loading
<1>3. \A q \in Request, k \in Key : InLoad(q, k)' => InLoad(q, k)
  BY DEF Invalidate, Goto, InLoad, keyOf, Loading
<1>4. CASE UNCHANGED <<sessions, live>>
  BY <1>2, <1>3, <1>4, SameLoading DEF Usable
<1>5. CASE sessions' = [sessions EXCEPT ![keyOf(r)] = None] /\ live' = live \ {keyOf(r)}
  <2>1. {keyOf(r)} \in SUBSET Key
    BY <1>1
  <2>2. \A k \in Key : k \notin {keyOf(r)} => sessions'[k] = sessions[k]
    BY <1>5
  <2>. QED  BY <1>2, <1>3, <1>5, <2>1, <2>2, DropRows
<1>. QED  BY <1>4, <1>5 DEF Invalidate

LEMMA EnvironmentSteps ==
    ASSUME Pre, Environment
    PROVE  UNCHANGED <<Usable, LoadingBy>> \/ Cache!Next
<1> USE DEF Pre, Counted, Frame, TypeOK
<1>1. ASSUME UNCHANGED <<pc, acct, via>>
      PROVE  /\ \A q \in Request, k \in Key : InLoad(q, k) => InLoad(q, k)'
             /\ \A q \in Request, k \in Key : InLoad(q, k)' => InLoad(q, k)
  BY <1>1 DEF InLoad, keyOf
<1>2. ASSUME NEW r \in Request, Cancel(r) PROVE UNCHANGED <<Usable, LoadingBy>>
  BY <1>1, <1>2, SameLoading DEF Cancel, frames, tables, Usable
<1>3. ASSUME NEW k \in Key, Expire(k) PROVE Cache!Next
  <2>1. {k} \in SUBSET Key
    OBVIOUS
  <2>. QED  BY <1>1, <1>3, <2>1, DropRows DEF Expire, frames
<1>4. ASSUME NEW k \in Key, InvalidateSession(k) PROVE Cache!Next
  <2>1. {k} \in SUBSET Key
    OBVIOUS
  <2>. QED  BY <1>1, <1>4, <2>1, DropRows DEF InvalidateSession, frames
<1>5. ASSUME NEW a \in Account, DeleteAccount(a) PROVE Cache!Next
  <2> DEFINE K == {k \in Key : k[1] = a}
  <2>1. K \in SUBSET Key
    OBVIOUS
  <2>2. \A k \in Key : k \in K => k \notin live'
    BY <1>5 DEF DeleteAccount
  <2>3. \A k \in Key : k \notin K => sessions'[k] = sessions[k] /\ (k \in live' <=> k \in live)
    BY <1>5 DEF DeleteAccount
  <2>4. UNCHANGED <<pc, acct, via>>
    BY <1>5 DEF DeleteAccount, frames
  <2> HIDE DEF K
  <2>. QED  BY <1>1, <2>1, <2>2, <2>3, <2>4, DropRows
<1>6. ASSUME Restart PROVE Cache!Next
  <2>1. \A q \in Request, k \in Key : ~InLoad(q, k)'
    BY <1>6 DEF Restart, InLoad, Loading
  <2>2. LoadingBy' = [k \in Key |-> IF k \in Key THEN None ELSE LoadingBy[k]]
    BY <2>1, EndLoading
  <2>3. Usable' = Usable
    BY <1>6 DEF Restart, tables, Usable
  <2>. QED  BY <2>2, <2>3 DEF Cache!Next, Cache!AbortLoads
<1>. QED  BY <1>2, <1>3, <1>4, <1>5, <1>6 DEF Environment

LEMMA CallSteps ==
    ASSUME Pre, NEW r \in Request, NEW a \in Account, NEW x \in Via, Call(r, a, x)
    PROVE  UNCHANGED <<Usable, LoadingBy>>
<1> USE DEF Pre, Counted, Frame, TypeOK, Call, run, Goto, tables, InLoad, keyOf, Loading
<1>1. \A q \in Request, k \in Key : InLoad(q, k) => InLoad(q, k)'
  OBVIOUS
<1>2. \A q \in Request, k \in Key : InLoad(q, k)' => InLoad(q, k)
  OBVIOUS
<1>. QED  BY <1>1, <1>2, SameLoading DEF Usable

\* The pool implements the single-flight cache: whatever calls, expiry,
\* invalidation, deletion, cancellation and restarts do, a valid session is
\* never replaced, a login starts only for a key that has none and that nobody
\* else logs in for, and what it stores is its own session.
THEOREM PoolRefinesCache == Spec => RefinesCache
<1>1. Init => Cache!Init
  BY DEF Init, Cache!Init, Usable, LoadingBy
<1>2. Pre /\ [Next]_vars => [Cache!Next]_(Cache!vars)
  <2> SUFFICES ASSUME Pre, [Next]_vars
               PROVE  UNCHANGED <<Usable, LoadingBy>> \/ Cache!Next
    BY DEF Cache!vars
  <2>1. CASE UNCHANGED vars
    BY <2>1 DEF vars, tables, limits, frames, Usable, LoadingBy
  <2>2. ASSUME NEW r \in Request, Step(r)
        PROVE  UNCHANGED <<Usable, LoadingBy>> \/ Cache!Next
    <3>1. CASE Recheck(r)
      <4>1. keyOf(r) \in Key
        BY <3>1 DEF Pre, Counted, Frame, TypeOK, Recheck, FramesOK, keyOf, Key
      <4>. QED  BY <3>1, <4>1, RecheckSteps DEF Cache!Next
    <3>. QED  BY <2>2, <3>1, StutterSteps, OtherLoads, InvalidateSteps DEF Step
  <2>. QED  BY <2>1, <2>2, CallSteps, EnvironmentSteps DEF Next, AllReturned
<1>3. Spec => [](Counted /\ Guarded)
  BY AlwaysCounted, AlwaysGuarded, PTL
<1>4. Counted /\ Counted' /\ Guarded /\ Guarded' => Pre
  BY DEF Pre
<1>. QED  BY <1>1, <1>2, <1>3, <1>4, PTL DEF Spec, Cache!Spec, RefinesCache
=============================================================================
