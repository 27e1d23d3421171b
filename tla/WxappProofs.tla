---------------------------- MODULE WxappProofs -----------------------------
(***************************************************************************)
(* Proofs about WxappCall: invokeWXApp leaves intact what the pool         *)
(* promises, repeats an operation a bounded number of times, and does not  *)
(* use a session of its own proxy again that failed it.                    *)
(***************************************************************************)
EXTENDS WxappCall, SessionPoolProofs

\* What the pool keeps by itself.
PoolInv == Counted /\ Guarded /\ Belonging /\ Isolated

\* Where a request stands in the pool at each stage of its call.
Calls ==
    /\ stage \in [Request -> Stage]
    /\ target \in [Request -> Key \cup {None}]
    /\ failed \in [Request -> SUBSET Session]
    /\ exchanges \in [Request -> Nat]
    /\ \A r \in Request :
          /\ stage[r] = "idle" => target[r] = None
          /\ stage[r] # "idle" => target[r] \in Key /\ (proxyOf(r) = Direct => DefaultProxy = Direct)
          /\ stage[r] \in {"idle", "peek"} => pc[r] = "idle" /\ failed[r] = {} /\ exchanges[r] = 0
          /\ stage[r] \notin Inside => pc[r] \in {"idle", "done", "failed"}
          /\ stage[r] \in Inside =>
                /\ pc[r] # "idle" /\ acct[r] = target[r][1]
                /\ via[r] = proxyOf(r) \/ via[r] = Direct

\* The login that gives s its name is over.
Over == {"uin", "put", "shortSem", "send", "invalidate", "done", "failed"}
Made(s) ==
    \/ s.call < calls[s.owner]
    \/ /\ s.call = calls[s.owner]
       /\ \/ via[s.owner] = Direct /\ s.proxy # Direct
          \/ via[s.owner] = s.proxy /\ pc[s.owner] \in Over

\* Sessions are told apart by the login they come from.
Seen(s) ==
    \/ \E k \in Key : sessions[k] = s
    \/ \E q \in Request : held[q] = s \/ s \in failed[q]
AllMade == \A s \in Session : Seen(s) => Made(s)

\* Nobody else has a session that is not stored yet.
Unsaved ==
    \A o \in Request : pc[o] \in {"uin", "put"} =>
        /\ \A k \in Key : sessions[k] # held[o]
        /\ \A q \in Request : (q # o => held[q] # held[o]) /\ held[o] \notin failed[q]

\* A session that failed a call is out of the table, or the call is about to
\* remove it, or it will not look there again.
Removed ==
    \A r \in Request : stage[r] # "idle" =>
        \/ sessions[target[r]] \notin failed[r]
        \/ pc[r] = "invalidate" /\ via[r] = proxyOf(r)
        \/ stage[r] \in {"first", "drop", "second", "error"} /\ pc[r] = "failed"
        \/ r \in cancelled /\ pc[r] \in {"lookup", "failed"} /\ stage[r] # "reload"

\* What a call is about to send over, or sends over.
Unfailed ==
    \A r \in Request : pc[r] \in {"shortSem", "send"} /\ held[r].proxy = proxyOf(r) =>
        held[r] \notin failed[r]

\* Exchanges of a run of the pool: one per target for each proxy that it tries.
perRun(r) == IF proxyOf(r) = Direct THEN MaxTargets ELSE MaxTargets + MaxTargets
inRun(r) ==
    (IF via[r] # proxyOf(r) THEN MaxTargets ELSE 0)
        + (IF pc[r] \in {"invalidate", "done", "failed"} THEN MaxTargets ELSE 0)
Spent ==
    \A r \in Request :
        /\ stage[r] = "first" => exchanges[r] <= inRun(r)
        /\ stage[r] \in {"drop", "refresh", "reload", "expired"} => exchanges[r] <= perRun(r)
        /\ stage[r] = "second" => exchanges[r] <= perRun(r) + inRun(r)
        /\ stage[r] \in {"answered", "error"} => exchanges[r] <= perRun(r) + perRun(r)

CallInv == Calls /\ AllMade /\ Unsaved /\ Removed /\ Unfailed /\ Spent
------------------------------------------------------------------------------
(* The steps of the pool in a call.                                          *)

\* Logins go on: a request does not return to what it has done.
Onward ==
    \A o \in Request :
        \/ calls'[o] > calls[o]
        \/ /\ calls'[o] = calls[o]
           /\ \/ via'[o] = via[o] /\ (pc[o] \in Over => pc'[o] \in Over)
              \/ via[o] # Direct /\ via'[o] = Direct

LEMMA MadeStays ==
    ASSUME TypeOK, TypeOK', Onward, NEW s \in Session, Made(s) PROVE Made(s)'
BY PoolAssumption DEF TypeOK, Onward, Made, Session

\* What a step of the pool adds to the history.
Noted(r) ==
    /\ stage[r] \in Inside
    /\ failed' = IF pc[r] = "send" /\ pc'[r] # "done"
                 THEN [failed EXCEPT ![r] = @ \cup {held[r]}] ELSE failed
    /\ \E n \in offered(r) : exchanges' = [exchanges EXCEPT ![r] = @ + n]
    /\ UNCHANGED <<stage, target, status>>

\* Only a send adds exchanges.
LEMMA NoSendNoExchange ==
    ASSUME Calls, NEW r \in Request, Noted(r), pc[r] # "send" PROVE exchanges' = exchanges
BY DEF Calls, Noted, offered

\* An exchange is at no more targets than a session has.
LEMMA TargetsLimited ==
    ASSUME NEW r \in Request, Noted(r)
    PROVE  \E n \in 0..MaxTargets : exchanges' = [exchanges EXCEPT ![r] = @ + n]
<1>1. offered(r) \subseteq 0..MaxTargets
  BY WxAssumption DEF offered
<1>. QED  BY <1>1 DEF Noted

LEMMA LookupInCall == ASSUME PoolInv, PoolInv', CallInv, NEW r \in Request, Lookup(r), Noted(r) PROVE CallInv'
<1> USE PoolAssumption, WxAssumption DEF PoolInv, CallInv, Counted, Frame, TypeOK, FramesOK, Calls, Noted, keyOf, Key, Via, proxyOf,
           Lookup, stateFails, useSession, Goto, tables, limits, frames
<1>0. keyOf(r) \in Key /\ (keyOf(r) \in live => sessions[keyOf(r)] \in Session)
  BY DEF LiveRows, endSend
<1>e. exchanges' = exchanges
  BY NoSendNoExchange
<1>1. Calls'
  BY <1>0, <1>e, SMTT(30) DEF Stage, Inside, Session, Label
<1>2. AllMade'
  <2>1. Onward
    BY DEF Onward, Over
  <2>2. \A s \in Session : Seen(s)' => Seen(s)
    BY <1>0 DEF Seen
  <2>. QED  BY <2>1, <2>2, MadeStays DEF AllMade
<1>3. Unsaved'
  BY <1>0, SMTT(30) DEF Unsaved, AllMade, Seen, Made, Over, Session, LiveRows
<1>4. Removed'
  BY <1>0, SMTT(30) DEF Removed, Unsaved, Inside
<1>5. Unfailed'
  <2>1. SUFFICES ASSUME pc'[r] = "shortSem", held'[r].proxy = proxyOf(r) PROVE held'[r] \notin failed[r]
    BY DEF Unfailed
  <2>2. held'[r] = sessions[keyOf(r)] /\ keyOf(r) \in live /\ r \notin cancelled
    BY <2>1
  <2>3. via[r] = proxyOf(r)
    <3>1. sessions[keyOf(r)] # None
      BY <1>0, <2>2 DEF Session
    <3>2. sessions[keyOf(r)].proxy = keyOf(r)[2]
      BY <1>0, <3>1 DEF Isolated, RowsByProxy
    <3>. QED  BY <2>1, <2>2, <3>2
  <2>4. keyOf(r) = target[r]
    BY <2>3 DEF Inside
  <2>5. sessions[target[r]] \notin failed[r]
    <3>1. stage[r] \in {"first", "second"} /\ pc[r] \in {"lookup", "recheck"} /\ r \notin cancelled
      BY <2>2 DEF Inside
    <3>. QED  BY <3>1 DEF Removed
  <2>. QED  BY <2>2, <2>4, <2>5
<1>6. Spent'
  BY <1>0, <1>e, SMTT(30) DEF Spent, inRun, perRun, Inside
<1>. QED  BY <1>1, <1>2, <1>3, <1>4, <1>5, <1>6

LEMMA LockInCall == ASSUME PoolInv, PoolInv', CallInv, NEW r \in Request, Lock(r), Noted(r) PROVE CallInv'
<1> USE PoolAssumption, WxAssumption DEF PoolInv, CallInv, Counted, Frame, TypeOK, FramesOK, Calls, Noted, keyOf, Key, Via, proxyOf,
           Lock, Goto, tables, limits, frames
<1>0. keyOf(r) \in Key /\ (keyOf(r) \in live => sessions[keyOf(r)] \in Session)
  BY DEF LiveRows, endSend
<1>e. exchanges' = exchanges
  BY NoSendNoExchange
<1>1. Calls'
  BY <1>0, <1>e, SMTT(30) DEF Stage, Inside, Session, Label
<1>2. AllMade'
  <2>1. Onward
    BY DEF Onward, Over
  <2>2. \A s \in Session : Seen(s)' => Seen(s)
    BY <1>0 DEF Seen
  <2>. QED  BY <2>1, <2>2, MadeStays DEF AllMade
<1>3. Unsaved'
  BY <1>0, SMTT(30) DEF Unsaved, AllMade, Seen, Made, Over, Session, LiveRows
<1>4. Removed'
  BY <1>0, SMTT(30) DEF Removed, Unsaved, Inside
<1>5. Unfailed'
  BY <1>0, SMTT(30) DEF Unfailed, Removed, Unsaved, RowsByProxy, HeldByProxy, Isolated, Inside, LiveRows
<1>6. Spent'
  BY <1>0, <1>e, SMTT(30) DEF Spent, inRun, perRun, Inside
<1>. QED  BY <1>1, <1>2, <1>3, <1>4, <1>5, <1>6

LEMMA RecheckInCall == ASSUME PoolInv, PoolInv', CallInv, NEW r \in Request, Recheck(r), Noted(r) PROVE CallInv'
<1> USE PoolAssumption, WxAssumption DEF PoolInv, CallInv, Counted, Frame, TypeOK, FramesOK, Calls, Noted, keyOf, Key, Via, proxyOf,
           Recheck, stateFails, useSession, leaveState, unlock, Goto, tables, limits, frames
<1>0. keyOf(r) \in Key /\ (keyOf(r) \in live => sessions[keyOf(r)] \in Session)
  BY DEF LiveRows, endSend
<1>e. exchanges' = exchanges
  BY NoSendNoExchange
<1>1. Calls'
  BY <1>0, <1>e, SMTT(30) DEF Stage, Inside, Session, Label
<1>2. AllMade'
  <2>1. Onward
    BY DEF Onward, Over
  <2>2. \A s \in Session : Seen(s)' => Seen(s)
    BY <1>0 DEF Seen
  <2>. QED  BY <2>1, <2>2, MadeStays DEF AllMade
<1>3. Unsaved'
  BY <1>0, SMTT(30) DEF Unsaved, AllMade, Seen, Made, Over, Session, LiveRows
<1>4. Removed'
  BY <1>0, SMTT(30) DEF Removed, Unsaved, Inside
<1>5. Unfailed'
  <2>1. SUFFICES ASSUME pc'[r] = "shortSem", held'[r].proxy = proxyOf(r) PROVE held'[r] \notin failed[r]
    BY SMTT(30) DEF Unfailed
  <2>2. held'[r] = sessions[keyOf(r)] /\ keyOf(r) \in live /\ r \notin cancelled
    BY <2>1
  <2>3. via[r] = proxyOf(r)
    <3>1. sessions[keyOf(r)] # None
      BY <1>0, <2>2 DEF Session
    <3>2. sessions[keyOf(r)].proxy = keyOf(r)[2]
      BY <1>0, <3>1 DEF Isolated, RowsByProxy
    <3>. QED  BY <2>1, <2>2, <3>2
  <2>4. keyOf(r) = target[r]
    BY <2>3 DEF Inside
  <2>5. sessions[target[r]] \notin failed[r]
    <3>1. stage[r] \in {"first", "second"} /\ pc[r] \in {"lookup", "recheck"} /\ r \notin cancelled
      BY <2>2 DEF Inside
    <3>. QED  BY <3>1 DEF Removed
  <2>. QED  BY <2>2, <2>4, <2>5
<1>6. Spent'
  BY <1>0, <1>e, SMTT(30) DEF Spent, inRun, perRun, Inside
<1>. QED  BY <1>1, <1>2, <1>3, <1>4, <1>5, <1>6

LEMMA LoadAccountInCall == ASSUME PoolInv, PoolInv', CallInv, NEW r \in Request, LoadAccount(r), Noted(r) PROVE CallInv'
<1> USE PoolAssumption, WxAssumption DEF PoolInv, CallInv, Counted, Frame, TypeOK, FramesOK, Calls, Noted, keyOf, Key, Via, proxyOf,
           LoadAccount, stateFails, leaveState, unlock, Goto, tables, limits, frames
<1>0. keyOf(r) \in Key /\ (keyOf(r) \in live => sessions[keyOf(r)] \in Session)
  BY DEF LiveRows, endSend
<1>e. exchanges' = exchanges
  BY NoSendNoExchange
<1>1. Calls'
  BY <1>0, <1>e, SMTT(30) DEF Stage, Inside, Session, Label
<1>2. AllMade'
  <2>1. Onward
    BY DEF Onward, Over
  <2>2. \A s \in Session : Seen(s)' => Seen(s)
    BY <1>0 DEF Seen
  <2>. QED  BY <2>1, <2>2, MadeStays DEF AllMade
<1>3. Unsaved'
  BY <1>0, SMTT(30) DEF Unsaved, AllMade, Seen, Made, Over, Session, LiveRows
<1>4. Removed'
  BY <1>0, SMTT(30) DEF Removed, Unsaved, Inside
<1>5. Unfailed'
  BY <1>0, SMTT(30) DEF Unfailed, Removed, Unsaved, RowsByProxy, HeldByProxy, Isolated, Inside, LiveRows
<1>6. Spent'
  BY <1>0, <1>e, SMTT(30) DEF Spent, inRun, perRun, Inside
<1>. QED  BY <1>1, <1>2, <1>3, <1>4, <1>5, <1>6

LEMMA AcquireLoginInCall == ASSUME PoolInv, PoolInv', CallInv, NEW r \in Request, AcquireLogin(r), Noted(r) PROVE CallInv'
<1> USE PoolAssumption, WxAssumption DEF PoolInv, CallInv, Counted, Frame, TypeOK, FramesOK, Calls, Noted, keyOf, Key, Via, proxyOf,
           AcquireLogin, Goto, tables, limits, frames
<1>0. keyOf(r) \in Key /\ (keyOf(r) \in live => sessions[keyOf(r)] \in Session)
  BY DEF LiveRows, endSend
<1>e. exchanges' = exchanges
  BY NoSendNoExchange
<1>1. Calls'
  BY <1>0, <1>e, SMTT(30) DEF Stage, Inside, Session, Label
<1>2. AllMade'
  <2>1. Onward
    BY DEF Onward, Over
  <2>2. \A s \in Session : Seen(s)' => Seen(s)
    BY <1>0 DEF Seen
  <2>. QED  BY <2>1, <2>2, MadeStays DEF AllMade
<1>3. Unsaved'
  BY <1>0, SMTT(30) DEF Unsaved, AllMade, Seen, Made, Over, Session, LiveRows
<1>4. Removed'
  BY <1>0, SMTT(30) DEF Removed, Unsaved, Inside
<1>5. Unfailed'
  BY <1>0, SMTT(30) DEF Unfailed, Removed, Unsaved, RowsByProxy, HeldByProxy, Isolated, Inside, LiveRows
<1>6. Spent'
  BY <1>0, <1>e, SMTT(30) DEF Spent, inRun, perRun, Inside
<1>. QED  BY <1>1, <1>2, <1>3, <1>4, <1>5, <1>6

LEMMA AbandonLoginInCall == ASSUME PoolInv, PoolInv', CallInv, NEW r \in Request, AbandonLogin(r), Noted(r) PROVE CallInv'
<1> USE PoolAssumption, WxAssumption DEF PoolInv, CallInv, Counted, Frame, TypeOK, FramesOK, Calls, Noted, keyOf, Key, Via, proxyOf,
           AbandonLogin, stateFails, leaveState, unlock, Goto, tables, limits, frames
<1>0. keyOf(r) \in Key /\ (keyOf(r) \in live => sessions[keyOf(r)] \in Session)
  BY DEF LiveRows, endSend
<1>e. exchanges' = exchanges
  BY NoSendNoExchange
<1>1. Calls'
  BY <1>0, <1>e, SMTT(30) DEF Stage, Inside, Session, Label
<1>2. AllMade'
  <2>1. Onward
    BY DEF Onward, Over
  <2>2. \A s \in Session : Seen(s)' => Seen(s)
    BY <1>0 DEF Seen
  <2>. QED  BY <2>1, <2>2, MadeStays DEF AllMade
<1>3. Unsaved'
  BY <1>0, SMTT(30) DEF Unsaved, AllMade, Seen, Made, Over, Session, LiveRows
<1>4. Removed'
  BY <1>0, SMTT(30) DEF Removed, Unsaved, Inside
<1>5. Unfailed'
  BY <1>0, SMTT(30) DEF Unfailed, Removed, Unsaved, RowsByProxy, HeldByProxy, Isolated, Inside, LiveRows
<1>6. Spent'
  <2>1. \A q \in Request \ {r} : inRun(q)' = inRun(q)
    BY DEF inRun
  <2>2. exchanges[r] \in Nat /\ inRun(r) \in Nat /\ inRun(r)' \in Nat /\ inRun(r) <= inRun(r)'
    <3>1. CASE via[r] # Direct /\ FallbackDirect
      BY <3>1 DEF inRun, Inside
    <3>2. CASE ~(via[r] # Direct /\ FallbackDirect)
      BY <3>2 DEF inRun, Inside
    <3>. QED  BY <3>1, <3>2
  <2>3. \A q \in Request : perRun(q)' = perRun(q) /\ perRun(q) \in Nat /\ exchanges[q] \in Nat
    BY DEF perRun
  <2>4. stage[r] \in Inside /\ stage' = stage /\ exchanges' = exchanges
    BY <1>e
  <2> HIDE DEF PoolInv, CallInv, Counted, Frame, TypeOK, FramesOK, Calls, Noted, keyOf, Key, Via, proxyOf,
           AbandonLogin, stateFails, leaveState, unlock, Goto, tables, limits, frames
  <2>5. Spent
    BY DEF CallInv
  <2>. QED  BY <2>1, <2>2, <2>3, <2>4, <2>5 DEF Spent, Inside
<1>. QED  BY <1>1, <1>2, <1>3, <1>4, <1>5, <1>6

LEMMA LoginSucceedsInCall == ASSUME PoolInv, PoolInv', CallInv, NEW r \in Request, LoginSucceeds(r), Noted(r) PROVE CallInv'
<1> USE PoolAssumption, WxAssumption DEF PoolInv, CallInv, Counted, Frame, TypeOK, FramesOK, Calls, Noted, keyOf, Key, Via, proxyOf,
           LoginSucceeds, Goto, tables, limits, frames
<1>0. keyOf(r) \in Key /\ (keyOf(r) \in live => sessions[keyOf(r)] \in Session)
  BY DEF LiveRows, endSend
<1>e. exchanges' = exchanges
  BY NoSendNoExchange
<1>1. Calls'
  BY <1>0, <1>e, SMTT(30) DEF Stage, Inside, Session, Label
<1>2. AllMade'
  BY SMTT(30) DEF AllMade, Made, Over, Session, Seen
<1>3. Unsaved'
  BY <1>0, SMTT(30) DEF Unsaved, AllMade, Seen, Made, Over, Session, LiveRows
<1>4. Removed'
  BY <1>0, SMTT(30) DEF Removed, Unsaved, Inside
<1>5. Unfailed'
  BY <1>0, SMTT(30) DEF Unfailed, Removed, Unsaved, RowsByProxy, HeldByProxy, Isolated, Inside, LiveRows
<1>6. Spent'
  BY <1>0, <1>e, SMTT(30) DEF Spent, inRun, perRun, Inside
<1>. QED  BY <1>1, <1>2, <1>3, <1>4, <1>5, <1>6

LEMMA LoginFailsInCall == ASSUME PoolInv, PoolInv', CallInv, NEW r \in Request, LoginFails(r), Noted(r) PROVE CallInv'
<1> USE PoolAssumption, WxAssumption DEF PoolInv, CallInv, Counted, Frame, TypeOK, FramesOK, Calls, Noted, keyOf, Key, Via, proxyOf,
           LoginFails, stateFails, leaveState, unlock, Goto, tables, limits, frames
<1>0. keyOf(r) \in Key /\ (keyOf(r) \in live => sessions[keyOf(r)] \in Session)
  BY DEF LiveRows, endSend
<1>e. exchanges' = exchanges
  BY NoSendNoExchange
<1>1. Calls'
  BY <1>0, <1>e, SMTT(30) DEF Stage, Inside, Session, Label
<1>2. AllMade'
  <2>1. Onward
    BY DEF Onward, Over
  <2>2. \A s \in Session : Seen(s)' => Seen(s)
    BY <1>0 DEF Seen
  <2>. QED  BY <2>1, <2>2, MadeStays DEF AllMade
<1>3. Unsaved'
  BY <1>0, SMTT(30) DEF Unsaved, AllMade, Seen, Made, Over, Session, LiveRows
<1>4. Removed'
  BY <1>0, SMTT(30) DEF Removed, Unsaved, Inside
<1>5. Unfailed'
  BY <1>0, SMTT(30) DEF Unfailed, Removed, Unsaved, RowsByProxy, HeldByProxy, Isolated, Inside, LiveRows
<1>6. Spent'
  BY <1>0, <1>e, SMTT(30) DEF Spent, inRun, perRun, Inside
<1>. QED  BY <1>1, <1>2, <1>3, <1>4, <1>5, <1>6

LEMMA RecordUINInCall == ASSUME PoolInv, PoolInv', CallInv, NEW r \in Request, RecordUIN(r), Noted(r) PROVE CallInv'
<1> USE PoolAssumption, WxAssumption DEF PoolInv, CallInv, Counted, Frame, TypeOK, FramesOK, Calls, Noted, keyOf, Key, Via, proxyOf,
           RecordUIN, Goto, tables, limits, frames
<1>0. keyOf(r) \in Key /\ (keyOf(r) \in live => sessions[keyOf(r)] \in Session)
  BY DEF LiveRows, endSend
<1>e. exchanges' = exchanges
  BY NoSendNoExchange
<1>1. Calls'
  BY <1>0, <1>e, SMTT(30) DEF Stage, Inside, Session, Label
<1>2. AllMade'
  <2>1. Onward
    BY DEF Onward, Over
  <2>2. \A s \in Session : Seen(s)' => Seen(s)
    BY <1>0 DEF Seen
  <2>. QED  BY <2>1, <2>2, MadeStays DEF AllMade
<1>3. Unsaved'
  BY <1>0, SMTT(30) DEF Unsaved, AllMade, Seen, Made, Over, Session, LiveRows
<1>4. Removed'
  BY <1>0, SMTT(30) DEF Removed, Unsaved, Inside
<1>5. Unfailed'
  BY <1>0, SMTT(30) DEF Unfailed, Removed, Unsaved, RowsByProxy, HeldByProxy, Isolated, Inside, LiveRows
<1>6. Spent'
  BY <1>0, <1>e, SMTT(30) DEF Spent, inRun, perRun, Inside
<1>. QED  BY <1>1, <1>2, <1>3, <1>4, <1>5, <1>6

LEMMA SaveSessionInCall == ASSUME PoolInv, PoolInv', CallInv, NEW r \in Request, SaveSession(r), Noted(r) PROVE CallInv'
<1>1. /\ pc[r] = "put" /\ held[r] \in Session /\ stage[r] \in Inside /\ TypeOK /\ TypeOK'
      /\ UNCHANGED <<acct, calls, cancelled, stage, target, failed>>
  BY PoolAssumption DEF PoolInv, Counted, Frame, FramesOK, SaveSession, stateFails, Noted, frames, Goto, TypeOK, Session, Via
<1>e. exchanges' = exchanges
  BY <1>1, NoSendNoExchange DEF CallInv
<1>2. \A k \in Key : sessions'[k] = sessions[k] \/ sessions'[k] = held[r]
  BY <1>1 DEF SaveSession, stateFails, tables, TypeOK
<1>3. \A q \in Request \ {r} : pc'[q] = pc[q] /\ via'[q] = via[q] /\ held'[q] = held[q]
  BY <1>1 DEF SaveSession, stateFails, Goto, frames, TypeOK
<1>4. \/ pc'[r] = "shortSem" /\ held'[r] = held[r] /\ via'[r] = via[r]
      \/ pc'[r] = "lookup" /\ held'[r] = None /\ via[r] # Direct /\ via'[r] = Direct
      \/ pc'[r] = "failed" /\ held'[r] = None /\ via'[r] = via[r]
  BY <1>1 DEF SaveSession, stateFails, Goto, frames, TypeOK
<1>5. Calls'
  BY <1>1, <1>e, <1>3, <1>4 DEF CallInv, Calls, Inside, proxyOf
<1>6. AllMade'
  <2>1. Onward
    BY <1>1, <1>3, <1>4 DEF Onward, Over
  <2>2. \A s \in Session : Seen(s)' => Seen(s)
    BY <1>1, <1>2, <1>3, <1>4, PoolAssumption DEF Seen
  <2>. QED  BY <1>1, <2>1, <2>2, MadeStays DEF CallInv, AllMade
<1>7. Unsaved'
  <2>1. \A o \in Request \ {r} : pc[o] \in {"uin", "put"} =>
          held[o] # held[r] /\ held'[o] = held[o] /\ pc'[o] = pc[o] /\ held[o] # None
    BY <1>1, <1>3, PoolAssumption DEF CallInv, Unsaved, PoolInv, Counted, Frame, FramesOK, TypeOK, Session, Via
  <2>2. \A o \in Request : pc'[o] \in {"uin", "put"} => o # r /\ pc[o] \in {"uin", "put"}
    BY <1>3, <1>4
  <2>3. \A o \in Request, q \in Request : pc'[o] \in {"uin", "put"} /\ q # o => held'[q] # held'[o]
    BY <1>3, <1>4, <2>1, <2>2 DEF CallInv, Unsaved
  <2>4. \A o \in Request, k \in Key : pc'[o] \in {"uin", "put"} => sessions'[k] # held'[o]
    BY <1>2, <2>1, <2>2 DEF CallInv, Unsaved
  <2>. QED  BY <1>1, <2>1, <2>2, <2>3, <2>4 DEF CallInv, Unsaved
<1>8. Removed'
  <2>1. \A q \in Request : held[r] \notin failed[q]
    BY <1>1 DEF CallInv, Unsaved
  <2>2. \A q \in Request : stage[q] # "idle" =>
          target[q] \in Key /\ (sessions[target[q]] \notin failed[q] => sessions'[target[q]] \notin failed[q])
    BY <1>2, <2>1 DEF CallInv, Calls
  <2>. QED  BY <1>1, <1>3, <1>4, <2>2 DEF CallInv, Removed, proxyOf
<1>9. Unfailed'
  BY <1>1, <1>3, <1>4 DEF CallInv, Unfailed, Unsaved, proxyOf
<1>10. Spent'
  BY <1>1, <1>e, <1>3, <1>4, WxAssumption DEF CallInv, Calls, Spent, inRun, perRun, proxyOf, Inside
<1>. QED  BY <1>5, <1>6, <1>7, <1>8, <1>9, <1>10 DEF CallInv

LEMMA AcquireShortlinkInCall == ASSUME PoolInv, PoolInv', CallInv, NEW r \in Request, AcquireShortlink(r), Noted(r) PROVE CallInv'
<1> USE PoolAssumption, WxAssumption DEF PoolInv, CallInv, Counted, Frame, TypeOK, FramesOK, Calls, Noted, keyOf, Key, Via, proxyOf,
           AcquireShortlink, Goto, tables, limits, frames
<1>0. keyOf(r) \in Key /\ (keyOf(r) \in live => sessions[keyOf(r)] \in Session)
  BY DEF LiveRows, endSend
<1>e. exchanges' = exchanges
  BY NoSendNoExchange
<1>1. Calls'
  BY <1>0, <1>e, SMTT(30) DEF Stage, Inside, Session, Label
<1>2. AllMade'
  <2>1. Onward
    BY DEF Onward, Over
  <2>2. \A s \in Session : Seen(s)' => Seen(s)
    BY <1>0 DEF Seen
  <2>. QED  BY <2>1, <2>2, MadeStays DEF AllMade
<1>3. Unsaved'
  BY <1>0, SMTT(30) DEF Unsaved, AllMade, Seen, Made, Over, Session, LiveRows
<1>4. Removed'
  BY <1>0, SMTT(30) DEF Removed, Unsaved, Inside
<1>5. Unfailed'
  BY <1>0, SMTT(30) DEF Unfailed, Removed, Unsaved, RowsByProxy, HeldByProxy, Isolated, Inside, LiveRows
<1>6. Spent'
  BY <1>0, <1>e, SMTT(30) DEF Spent, inRun, perRun, Inside
<1>. QED  BY <1>1, <1>2, <1>3, <1>4, <1>5, <1>6

LEMMA AbandonSendInCall == ASSUME PoolInv, PoolInv', CallInv, NEW r \in Request, AbandonSend(r), Noted(r) PROVE CallInv'
<1> USE PoolAssumption, WxAssumption DEF PoolInv, CallInv, Counted, Frame, TypeOK, FramesOK, Calls, Noted, keyOf, Key, Via, proxyOf,
           AbandonSend, opFails, Goto, tables, limits, frames
<1>0. keyOf(r) \in Key /\ (keyOf(r) \in live => sessions[keyOf(r)] \in Session)
  BY DEF LiveRows, endSend
<1>e. exchanges' = exchanges
  BY NoSendNoExchange
<1>1. Calls'
  BY <1>0, <1>e, SMTT(30) DEF Stage, Inside, Session, Label
<1>2. AllMade'
  <2>1. Onward
    BY DEF Onward, Over
  <2>2. \A s \in Session : Seen(s)' => Seen(s)
    BY <1>0 DEF Seen
  <2>. QED  BY <2>1, <2>2, MadeStays DEF AllMade
<1>3. Unsaved'
  BY <1>0, SMTT(30) DEF Unsaved, AllMade, Seen, Made, Over, Session, LiveRows
<1>4. Removed'
  BY <1>0, SMTT(30) DEF Removed, Unsaved, Inside
<1>5. Unfailed'
  BY <1>0, SMTT(30) DEF Unfailed, Removed, Unsaved, RowsByProxy, HeldByProxy, Isolated, Inside, LiveRows
<1>6. Spent'
  BY <1>0, <1>e, SMTT(30) DEF Spent, inRun, perRun, Inside
<1>. QED  BY <1>1, <1>2, <1>3, <1>4, <1>5, <1>6

LEMMA SendSucceedsInCall == ASSUME PoolInv, PoolInv', CallInv, NEW r \in Request, SendSucceeds(r), Noted(r) PROVE CallInv'
<1> USE PoolAssumption, WxAssumption DEF PoolInv, CallInv, Counted, Frame, TypeOK, FramesOK, Calls, Noted, keyOf, Key, Via, proxyOf,
           SendSucceeds, endSend, Goto, tables, limits, frames
<1>0. keyOf(r) \in Key /\ (keyOf(r) \in live => sessions[keyOf(r)] \in Session)
  BY DEF LiveRows, endSend
<1>e. PICK n \in 0..MaxTargets : exchanges' = [exchanges EXCEPT ![r] = @ + n]
  BY TargetsLimited
<1>1. Calls'
  BY <1>0, <1>e, SMTT(30) DEF Stage, Inside, Session, Label
<1>2. AllMade'
  <2>1. Onward
    BY DEF Onward, Over
  <2>2. \A s \in Session : Seen(s)' => Seen(s)
    BY <1>0 DEF Seen
  <2>. QED  BY <2>1, <2>2, MadeStays DEF AllMade
<1>3. Unsaved'
  BY <1>0, SMTT(30) DEF Unsaved, AllMade, Seen, Made, Over, Session, LiveRows
<1>4. Removed'
  BY <1>0, SMTT(30) DEF Removed, Unsaved, Inside
<1>5. Unfailed'
  BY <1>0, SMTT(30) DEF Unfailed, Removed, Unsaved, RowsByProxy, HeldByProxy, Isolated, Inside, LiveRows
<1>6. Spent'
  <2>1. /\ pc[r] = "send" /\ pc'[r] = "done" /\ stage[r] \in Inside
        /\ UNCHANGED <<stage, target, via>>
        /\ \A q \in Request \ {r} : pc'[q] = pc[q] /\ exchanges'[q] = exchanges[q]
        /\ exchanges'[r] = exchanges[r] + n /\ \A q \in Request : exchanges[q] \in Nat
    BY <1>e
  <2> HIDE DEF PoolInv, CallInv, Counted, Frame, TypeOK, FramesOK, Calls, Noted, keyOf, Key, Via, proxyOf,
           SendSucceeds, endSend, Goto, tables, limits, frames
  <2>2. \A q \in Request : perRun(q)' = perRun(q) /\ perRun(q) \in Nat
    BY <2>1 DEF perRun, proxyOf
  <2>3. \A q \in Request \ {r} : inRun(q)' = inRun(q)
    BY <2>1 DEF inRun, proxyOf
  <2>4. inRun(r) \in Nat /\ inRun(r)' = inRun(r) + MaxTargets
    BY <2>1 DEF inRun, proxyOf
  <2>. QED  BY <2>1, <2>2, <2>3, <2>4 DEF CallInv, Spent, Inside
<1>. QED  BY <1>1, <1>2, <1>3, <1>4, <1>5, <1>6

LEMMA SendFailsInCall == ASSUME PoolInv, PoolInv', CallInv, NEW r \in Request, SendFails(r), Noted(r) PROVE CallInv'
<1> USE PoolAssumption, WxAssumption DEF PoolInv, CallInv, Counted, Frame, TypeOK, FramesOK, Calls, Noted, keyOf, Key, Via, proxyOf,
           SendFails, endSend, opFails, Goto, tables, limits, frames
<1>0. keyOf(r) \in Key /\ (keyOf(r) \in live => sessions[keyOf(r)] \in Session)
  BY DEF LiveRows, endSend
<1>e. PICK n \in 0..MaxTargets : exchanges' = [exchanges EXCEPT ![r] = @ + n]
  BY TargetsLimited
<1>1. Calls'
  BY <1>0, <1>e, SMTT(30) DEF Stage, Inside, Session, Label
<1>2. AllMade'
  <2>1. Onward
    BY DEF Onward, Over
  <2>2. \A s \in Session : Seen(s)' => Seen(s)
    BY <1>0 DEF Seen
  <2>. QED  BY <2>1, <2>2, MadeStays DEF AllMade
<1>3. Unsaved'
  BY <1>0, SMTT(30) DEF Unsaved, AllMade, Seen, Made, Over, Session, LiveRows
<1>4. Removed'
  BY <1>0, SMTT(30) DEF Removed, Unsaved, Inside
<1>5. Unfailed'
  BY <1>0, SMTT(30) DEF Unfailed, Removed, Unsaved, RowsByProxy, HeldByProxy, Isolated, Inside, LiveRows
<1>6. Spent'
  <2>1. /\ pc[r] = "send" /\ pc'[r] \in {"invalidate", "failed"} /\ stage[r] \in Inside
        /\ UNCHANGED <<stage, target, via>>
        /\ \A q \in Request \ {r} : pc'[q] = pc[q] /\ exchanges'[q] = exchanges[q]
        /\ exchanges'[r] = exchanges[r] + n /\ \A q \in Request : exchanges[q] \in Nat
    BY <1>e
  <2> HIDE DEF PoolInv, CallInv, Counted, Frame, TypeOK, FramesOK, Calls, Noted, keyOf, Key, Via, proxyOf,
           SendFails, endSend, opFails, Goto, tables, limits, frames
  <2>2. \A q \in Request : perRun(q)' = perRun(q) /\ perRun(q) \in Nat
    BY <2>1 DEF perRun, proxyOf
  <2>3. \A q \in Request \ {r} : inRun(q)' = inRun(q)
    BY <2>1 DEF inRun, proxyOf
  <2>4. inRun(r) \in Nat /\ inRun(r)' = inRun(r) + MaxTargets
    BY <2>1 DEF inRun, proxyOf
  <2>. QED  BY <2>1, <2>2, <2>3, <2>4 DEF CallInv, Spent, Inside
<1>. QED  BY <1>1, <1>2, <1>3, <1>4, <1>5, <1>6

LEMMA InvalidateInCall == ASSUME PoolInv, PoolInv', CallInv, NEW r \in Request, Invalidate(r), Noted(r) PROVE CallInv'
<1>1. /\ pc[r] = "invalidate" /\ pc'[r] = "lookup" /\ stage[r] \in Inside /\ TypeOK /\ TypeOK'
      /\ via[r] # Direct /\ via'[r] = Direct /\ keyOf(r) = <<acct[r], via[r]>> /\ keyOf(r) \in Key
      /\ UNCHANGED <<acct, held, calls, cancelled, stage, target, failed>>
  BY PoolAssumption DEF PoolInv, Counted, Frame, FramesOK, Invalidate, Noted, Goto, TypeOK, keyOf, Key, Via
<1>e. exchanges' = exchanges
  BY <1>1, NoSendNoExchange DEF CallInv
<1>2. \A k \in Key : sessions'[k] = sessions[k] \/ sessions'[k] = None
  BY <1>1 DEF Invalidate, TypeOK
<1>3. \A q \in Request \ {r} : pc'[q] = pc[q] /\ via'[q] = via[q]
  BY <1>1 DEF Invalidate, Goto, TypeOK
<1>4. r \notin cancelled => sessions'[keyOf(r)] = None
  BY <1>1 DEF Invalidate, TypeOK
<1>5. Calls'
  BY <1>1, <1>e, <1>3 DEF CallInv, Calls, Inside, proxyOf
<1>6. AllMade'
  <2>1. Onward
    BY <1>1, <1>3 DEF Onward, TypeOK
  <2>2. \A s \in Session : Seen(s)' => Seen(s)
    BY <1>1, <1>2, PoolAssumption DEF Seen
  <2>. QED  BY <1>1, <2>1, <2>2, MadeStays DEF CallInv, AllMade
<1>7. Unsaved'
  <2>1. \A o \in Request : pc'[o] \in {"uin", "put"} => pc[o] = pc'[o] /\ held[o] # None
    BY <1>1, <1>3, PoolAssumption DEF PoolInv, Counted, Frame, FramesOK, TypeOK, Session, Via
  <2>. QED  BY <1>1, <1>2, <2>1 DEF CallInv, Unsaved
<1>8. Removed'
  <2>1. \A q \in Request : stage[q] # "idle" => target[q] \in Key /\ None \notin failed[q]
    BY PoolAssumption DEF CallInv, Calls
  <2>2. sessions'[target[r]] \notin failed[r] \/ r \in cancelled
    <3>1. CASE via[r] = proxyOf(r)
      <4>1. keyOf(r) = target[r]
        BY <1>1, <3>1 DEF CallInv, Calls, Key, proxyOf, Inside
      <4>2. None \notin failed[r]
        BY <1>1, <2>1 DEF Inside
      <4>. QED  BY <1>4, <4>1, <4>2
    <3>. QED  BY <1>1, <3>1 DEF CallInv, Calls, Inside
  <2>3. stage[r] # "reload"
    BY <1>1 DEF Inside
  <2>. QED  BY <1>1, <1>2, <1>3, <2>1, <2>2, <2>3 DEF CallInv, Removed, proxyOf
<1>9. Unfailed'
  BY <1>1, <1>3 DEF CallInv, Unfailed, proxyOf
<1>10. Spent'
  <2>1. \A q \in Request \ {r} : inRun(q)' = inRun(q)
    BY <1>1, <1>3 DEF inRun, proxyOf, Noted
  <2>2. inRun(r) \in Nat /\ inRun(r)' \in Nat /\ inRun(r) <= inRun(r)'
    <3>1. via[r] = proxyOf(r) \/ proxyOf(r) = Direct \/ via[r] = Direct
      BY <1>1 DEF CallInv, Calls
    <3>2. via[r] = proxyOf(r) /\ proxyOf(r) # Direct
      BY <1>1, <3>1 DEF CallInv, Calls
    <3>3. inRun(r) = MaxTargets /\ inRun(r)' = MaxTargets
      BY <1>1, <1>5, <3>2, WxAssumption DEF Calls, inRun, proxyOf
    <3>. QED  BY <3>3, WxAssumption
  <2>3. \A q \in Request : perRun(q)' = perRun(q) /\ perRun(q) \in Nat /\ exchanges[q] \in Nat
    BY <1>1, WxAssumption DEF CallInv, Calls, perRun, proxyOf
  <2>. QED  BY <1>1, <1>e, <2>1, <2>2, <2>3 DEF CallInv, Spent, Inside
<1>. QED  BY <1>5, <1>6, <1>7, <1>8, <1>9, <1>10 DEF CallInv

LEMMA StepInCall ==
    ASSUME PoolInv, PoolInv', CallInv, NEW r \in Request, Step(r), Noted(r) PROVE CallInv'
BY LookupInCall, LockInCall, RecheckInCall, LoadAccountInCall, AcquireLoginInCall,
   AbandonLoginInCall, LoginSucceedsInCall, LoginFailsInCall, RecordUINInCall,
   SaveSessionInCall, AcquireShortlinkInCall, AbandonSendInCall, SendSucceedsInCall,
   SendFailsInCall, InvalidateInCall
   DEF Step

------------------------------------------------------------------------------
(* The steps of invokeWXApp itself, and of the world.                        *)

LEMMA InvokeInCall ==
    ASSUME PoolInv, CallInv, NEW r \in Request, NEW a \in Account, NEW x \in Via, Invoke(r, a, x)
    PROVE  CallInv'
<1>1. /\ stage[r] = "idle" /\ stage' = [stage EXCEPT ![r] = "peek"]
      /\ target' = [target EXCEPT ![r] = <<a, effectiveProxy(x)>>]
      /\ UNCHANGED <<vars, failed, exchanges>>
  BY DEF Invoke, Enter
<1>2. effectiveProxy(x) \in Via /\ (effectiveProxy(x) = Direct => DefaultProxy = Direct)
  BY PoolAssumption DEF effectiveProxy
<1>3. /\ \A q \in Request \ {r} : stage'[q] = stage[q] /\ target'[q] = target[q]
      /\ stage'[r] = "peek" /\ target'[r] = <<a, effectiveProxy(x)>> /\ pc[r] = "idle" /\ failed[r] = {}
      /\ exchanges[r] = 0
  BY <1>1 DEF CallInv, Calls
<1>4. Calls'
  BY <1>1, <1>2, <1>3 DEF CallInv, Calls, Stage, Inside, Key, proxyOf, vars, frames
<1>5. AllMade' /\ Unsaved'
  BY <1>1 DEF CallInv, vars, tables, frames, AllMade, Seen, Made, Unsaved
<1>6. Removed'
  BY <1>1, <1>3 DEF CallInv, vars, tables, frames, Removed, proxyOf
<1>7. Unfailed'
  BY <1>1, <1>3 DEF CallInv, vars, tables, frames, Unfailed, proxyOf
<1>8. Spent'
  BY <1>1, <1>3 DEF CallInv, vars, tables, frames, Spent, inRun, perRun, proxyOf
<1>. QED  BY <1>4, <1>5, <1>6, <1>7, <1>8 DEF CallInv

\* The entry of the pool for a call that has failed sessions behind it at most
\* outside its row.
LEMMA RunInCall ==
    ASSUME PoolInv, PoolInv', CallInv, NEW r \in Request, NEW s \in Inside,
           run(r, target[r][1], proxyOf(r)), UNCHANGED <<cancelled, target, failed, exchanges>>,
           stage[r] \in {"peek", "reload"}, stage' = [stage EXCEPT ![r] = s],
           stage[r] = "peek" => s = "first", stage[r] = "reload" => s = "second"
    PROVE  CallInv'
<1>1. target[r] \in Key /\ effectiveProxy(proxyOf(r)) = proxyOf(r)
  BY DEF CallInv, Calls, effectiveProxy, proxyOf
<1>2. /\ pc' = [pc EXCEPT ![r] = "lookup"] /\ acct' = [acct EXCEPT ![r] = target[r][1]]
      /\ via' = [via EXCEPT ![r] = proxyOf(r)] /\ held' = [held EXCEPT ![r] = None]
      /\ calls' = [calls EXCEPT ![r] = @ + 1] /\ UNCHANGED sessions
  BY <1>1 DEF run, Goto, tables
<1>3. TypeOK /\ TypeOK' /\ calls[r] \in Nat
  BY PoolAssumption DEF PoolInv, Counted, Frame, TypeOK
<1>4. Calls'
  BY <1>1, <1>2, <1>3 DEF CallInv, Calls, TypeOK, Stage, Inside, proxyOf
<1>5. AllMade'
  <2>1. Onward
    BY <1>2, <1>3 DEF Onward, TypeOK
  <2>2. \A t \in Session : Seen(t)' => Seen(t)
    BY <1>2, <1>3, PoolAssumption DEF Seen, TypeOK
  <2>. QED  BY <1>3, <2>1, <2>2, MadeStays DEF CallInv, AllMade
<1>6. Unsaved'
  <2>1. \A o \in Request : pc'[o] \in {"uin", "put"} =>
          o # r /\ pc[o] = pc'[o] /\ held'[o] = held[o] /\ held[o] # None
    BY <1>2, <1>3, PoolAssumption DEF PoolInv, Counted, Frame, FramesOK, TypeOK, Session, Via
  <2>. QED  BY <1>2, <1>3, <2>1 DEF CallInv, Unsaved, TypeOK
<1>7. Removed'
  <2>1. sessions[target[r]] \notin failed[r]
    BY DEF CallInv, Calls, Removed, Inside
  <2>. QED  BY <1>2, <1>3, <2>1 DEF CallInv, Calls, Removed, proxyOf, TypeOK
<1>8. Unfailed'
  BY <1>2, <1>3 DEF CallInv, Unfailed, proxyOf, TypeOK
<1>9. Spent'
  <2>1. pc'[r] = "lookup" /\ via'[r] = proxyOf(r)
    BY <1>2, <1>3, <1>4 DEF TypeOK, Calls
  <2>2. inRun(r)' = 0
    BY <2>1 DEF inRun, proxyOf
  <2>3. \A q \in Request \ {r} : inRun(q)' = inRun(q)
    BY <1>2, <1>3 DEF inRun, proxyOf, TypeOK
  <2>4. \A q \in Request : perRun(q)' = perRun(q) /\ perRun(q) \in Nat /\ exchanges[q] \in Nat
    BY WxAssumption DEF perRun, proxyOf, CallInv, Calls
  <2>5. \A q \in Request \ {r} : stage'[q] = stage[q]
    BY DEF CallInv, Calls
  <2>6. stage'[r] = s
    BY DEF CallInv, Calls
  <2>7. \/ s = "first" /\ exchanges[r] = 0
        \/ s = "second" /\ exchanges[r] <= perRun(r)
    <3>1. CASE stage[r] = "peek"
      <4>1. s = "first"
        BY <3>1
      <4>2. exchanges[r] = 0
        BY <3>1 DEF CallInv, Calls
      <4>. QED  BY <4>1, <4>2
    <3>2. CASE stage[r] = "reload"
      BY <3>2 DEF CallInv, Spent
    <3>. QED  BY <3>1, <3>2
  <2>. QED  BY <2>2, <2>3, <2>4, <2>5, <2>6, <2>7 DEF CallInv, Spent
<1>. QED  BY <1>4, <1>5, <1>6, <1>7, <1>8, <1>9 DEF CallInv

\* A call that leaves the pool, or moves on without it.
LEMMA MoveInCall ==
    ASSUME PoolInv, CallInv, NEW r \in Request, NEW s \in Stage \ Inside,
           UNCHANGED <<vars, target, failed, exchanges>>, stage' = [stage EXCEPT ![r] = s],
           \/ stage[r] = "peek" /\ s = "refresh"
           \/ stage[r] = "first" /\ pc[r] = "done" /\ s = "answered"
           \/ stage[r] = "first" /\ pc[r] = "failed" /\ s = "drop"
           \/ stage[r] = "drop" /\ r \in cancelled /\ s = "refresh"
           \/ stage[r] = "refresh" /\ r \notin cancelled /\ s = "reload"
           \/ stage[r] = "refresh" /\ s = "expired"
           \/ stage[r] = "second" /\ pc[r] = "done" /\ s = "answered"
           \/ stage[r] = "second" /\ pc[r] = "failed" /\ s = "error"
    PROVE  CallInv'
<1>1. \A q \in Request \ {r} : stage'[q] = stage[q]
  BY DEF CallInv, Calls
<1>2. stage'[r] = s /\ s \notin {"idle", "peek"} /\ pc[r] \in {"idle", "done", "failed"}
  BY DEF CallInv, Calls, Inside
<1>3. Calls'
  BY <1>1, <1>2 DEF CallInv, Calls, proxyOf, vars, frames
<1>4. AllMade' /\ Unsaved' /\ Unfailed'
  BY DEF CallInv, vars, tables, frames, AllMade, Seen, Made, Unsaved, Unfailed, proxyOf
<1>5. Removed'
  BY <1>1, <1>2 DEF CallInv, Calls, vars, tables, frames, Removed, proxyOf, Inside
<1>6. Spent'
  <2>1. \A q \in Request : inRun(q)' = inRun(q) /\ perRun(q)' = perRun(q)
    BY DEF inRun, perRun, proxyOf, vars, frames
  <2>2. stage[r] \in Inside => inRun(r) \in Nat /\ inRun(r) <= perRun(r)
    BY WxAssumption DEF CallInv, Calls, inRun, perRun
  <2>3. perRun(r) \in Nat /\ perRun(r) >= 1 /\ exchanges[r] \in Nat
    BY WxAssumption DEF CallInv, Calls, perRun
  <2>4. stage[r] = "peek" => exchanges[r] = 0
    BY DEF CallInv, Calls
  <2>. QED  BY <1>1, <1>2, <2>1, <2>2, <2>3, <2>4 DEF CallInv, Spent, Inside
<1>. QED  BY <1>3, <1>4, <1>5, <1>6 DEF CallInv

\* Rows only go: InvalidateSession, expiry and the deletion of an account.
LEMMA RowsGoInCall ==
    ASSUME PoolInv, CallInv, TypeOK',
           \A k \in Key : sessions'[k] = sessions[k] \/ sessions'[k] = None,
           UNCHANGED <<pc, frames, cancelled, target, failed, exchanges>>,
           \/ UNCHANGED stage
           \/ \E r \in Request :
                 /\ stage[r] = "drop" /\ stage' = [stage EXCEPT ![r] = "refresh"]
                 /\ r \notin cancelled => sessions'[target[r]] = None
    PROVE  CallInv'
<1>1. None \notin Session
  BY PoolAssumption
<1>2. \A q \in Request : stage[q] # "idle" => target[q] \in Key /\ None \notin failed[q]
  BY <1>1 DEF CallInv, Calls
<1>3. Calls'
  BY DEF CallInv, Calls, proxyOf, frames, Stage, Inside
<1>4. AllMade'
  BY <1>1 DEF CallInv, frames, AllMade, Seen, Made
<1>5. Unsaved'
  <2>1. \A o \in Request : pc[o] \in {"uin", "put"} => held[o] # None
    BY <1>1 DEF PoolInv, Counted, Frame, FramesOK, TypeOK, Session, Via, PoolAssumption
  <2>. QED  BY <2>1 DEF CallInv, Unsaved, frames
<1>6. Unfailed'
  BY DEF CallInv, frames, Unfailed, proxyOf
<1>7. Removed'
  BY <1>2 DEF CallInv, Calls, Removed, frames, proxyOf, Inside
<1>8. Spent'
  BY DEF CallInv, Calls, Spent, inRun, perRun, proxyOf, frames
<1>. QED  BY <1>3, <1>4, <1>5, <1>6, <1>7, <1>8 DEF CallInv

LEMMA ClientLeavesInCall ==
    ASSUME CallInv, NEW r \in Request, ClientLeaves(r) PROVE CallInv'
<1> USE DEF CallInv, ClientLeaves, tables, frames
<1>1. Calls' /\ AllMade' /\ Unsaved'
  BY DEF Calls, proxyOf, AllMade, Seen, Made, Unsaved
<1>2. Removed' /\ Unfailed' /\ Spent'
  BY DEF Removed, Unfailed, Spent, inRun, perRun, proxyOf
<1>. QED  BY <1>1, <1>2
------------------------------------------------------------------------------
(* The pool in the composition.                                              *)

LEMMA PoolGoesOn == ASSUME PoolInv, [Next]_vars PROVE PoolInv'
BY NextCounted, NextGuarded, NextRows DEF PoolInv

\* The caller's context may be done when the second run starts.
LEMMA RunKeepsPool ==
    ASSUME PoolInv, NEW r \in Request, NEW a \in Account, NEW x \in Via, run(r, a, x),
           UNCHANGED cancelled
    PROVE  PoolInv'
BY RunCounted, RunGuarded, RunRows DEF PoolInv

LEMMA ClientLeavesKeepsPool == ASSUME PoolInv, NEW r \in Request, ClientLeaves(r) PROVE PoolInv'
<1> USE DEF ClientLeaves, tables, limits, frames, PoolInv
<1>1. Counted'
  BY DEF Counted, Frame, TypeOK, FramesOK, LiveRows, SlotsMatchHolders
<1>2. Guarded'
  BY DEF Guarded, OwnersLocked, LockedOwn, SingleFlight, keyOf
<1>3. Belonging' /\ Isolated'
  BY DEF Belonging, SessionsBelongToAccounts, RecordedBeforePut,
         Isolated, RowsByProxy, HeldByProxy, SentByProxy, LetGo
<1>. QED  BY <1>1, <1>2, <1>3

\* Removing a row that is not there changes nothing.
LEMMA DropIsOfThePool ==
    ASSUME PoolInv, CallInv, NEW r \in Request, Drop(r) PROVE [Next]_vars
<1>1. target[r] \in Key
  BY DEF Drop, CallInv, Calls
<1>2. UNCHANGED <<accounts, known, limits, pc, frames, cancelled>>
  BY DEF Drop
<1>3. CASE r \in cancelled
  BY <1>2, <1>3 DEF Drop, vars, tables
<1>4. CASE r \notin cancelled /\ sessions[target[r]] # None
  BY <1>1, <1>2, <1>4 DEF Drop, InvalidateSession, Next, Environment
<1>5. CASE r \notin cancelled /\ sessions[target[r]] = None
  <2>1. target[r] \notin live
    BY <1>1, <1>5 DEF PoolInv, Belonging, SessionsBelongToAccounts
  <2>2. live' = live
    BY <1>5, <2>1 DEF Drop
  <2>3. sessions' = sessions
    BY <1>1, <1>5 DEF Drop, PoolInv, Counted, Frame, TypeOK
  <2>. QED  BY <1>2, <2>2, <2>3 DEF vars, tables
<1>. QED  BY <1>3, <1>4, <1>5

LEMMA StepKeeps ==
    ASSUME PoolInv, CallInv, NEW r \in Request, WxStep(r) PROVE PoolInv' /\ CallInv'
<1>1. UNCHANGED vars => PoolInv'
  BY PoolGoesOn
<1>2. stage \in [Request -> Stage] /\ (stage[r] # "idle" => target[r][1] \in Account /\ proxyOf(r) \in Via)
  BY DEF CallInv, Calls, Key, proxyOf
<1>3. CASE Peek(r)
  <2>1. CASE r \notin cancelled /\ target[r] \in live
    <3>1. /\ run(r, target[r][1], proxyOf(r)) /\ stage[r] = "peek"
          /\ stage' = [stage EXCEPT ![r] = "first"]
          /\ UNCHANGED <<cancelled, target, failed, exchanges>>
      BY <1>3, <2>1 DEF Peek, Enter
    <3>2. PoolInv'
      BY <1>2, <3>1, RunKeepsPool
    <3>. QED  BY <3>1, <3>2, RunInCall DEF Inside
  <2>2. CASE ~(r \notin cancelled /\ target[r] \in live)
    BY <1>1, <1>3, <2>2, MoveInCall DEF Peek, Enter, Stage, Inside
  <2>. QED  BY <2>1, <2>2
<1>4. CASE FirstReturns(r)
  BY <1>1, <1>4, MoveInCall DEF FirstReturns, Enter, Stage, Inside
<1>5. CASE Drop(r)
  <2>1. PoolInv'
    BY <1>5, DropIsOfThePool, PoolGoesOn
  <2>2. target[r] \in Key /\ TypeOK' /\ TypeOK
    BY <1>5, <2>1 DEF Drop, CallInv, Calls, PoolInv, Counted, Frame
  <2>3. /\ \A k \in Key : sessions'[k] = sessions[k] \/ sessions'[k] = None
        /\ r \notin cancelled => sessions'[target[r]] = None
    BY <1>5, <2>2 DEF Drop, TypeOK
  <2>4. /\ stage[r] = "drop" /\ stage' = [stage EXCEPT ![r] = "refresh"]
        /\ UNCHANGED <<pc, frames, cancelled, target, failed, exchanges>>
    BY <1>5 DEF Drop, Enter
  <2>. QED  BY <2>1, <2>2, <2>3, <2>4, RowsGoInCall
<1>6. CASE RefreshSucceeds(r)
  BY <1>1, <1>6, MoveInCall DEF RefreshSucceeds, Enter, Stage, Inside
<1>7. CASE RefreshFails(r)
  BY <1>1, <1>7, MoveInCall DEF RefreshFails, Enter, Stage, Inside
<1>8. CASE Retry(r)
  <2>1. /\ run(r, target[r][1], proxyOf(r)) /\ stage[r] = "reload"
        /\ stage' = [stage EXCEPT ![r] = "second"]
        /\ UNCHANGED <<cancelled, target, failed, exchanges>>
    BY <1>8 DEF Retry, Enter
  <2>2. PoolInv'
    BY <1>2, <2>1, RunKeepsPool
  <2>. QED  BY <2>1, <2>2, RunInCall DEF Inside
<1>9. CASE SecondReturns(r)
  BY <1>1, <1>9, MoveInCall DEF SecondReturns, Enter, Stage, Inside
<1>10. CASE InPool(r)
  <2>1. Step(r) /\ Noted(r)
    BY <1>10 DEF InPool, Noted
  <2>2. PoolInv'
    BY <2>1, PoolGoesOn DEF Next
  <2>. QED  BY <2>1, <2>2, StepInCall
<1>. QED  BY <1>3, <1>4, <1>5, <1>6, <1>7, <1>8, <1>9, <1>10 DEF WxStep

LEMMA WxNextKeeps == PoolInv /\ CallInv /\ [WxNext]_wxVars => PoolInv' /\ CallInv'
<1> SUFFICES ASSUME PoolInv, CallInv, [WxNext]_wxVars PROVE PoolInv' /\ CallInv'
  OBVIOUS
<1>1. CASE UNCHANGED wxVars
  <2>1. PoolInv'
    BY <1>1, PoolGoesOn DEF wxVars
  <2>2. Calls' /\ AllMade' /\ Unsaved'
    BY <1>1 DEF wxVars, vars, tables, frames, CallInv, Calls, proxyOf, AllMade, Seen, Made, Unsaved
  <2>3. Removed' /\ Unfailed' /\ Spent'
    BY <1>1 DEF wxVars, vars, tables, frames, CallInv, Removed, Unfailed, Spent, inRun, perRun, proxyOf
  <2>. QED  BY <2>1, <2>2, <2>3 DEF CallInv
<1>2. ASSUME NEW r \in Request, ClientLeaves(r) PROVE PoolInv' /\ CallInv'
  BY <1>2, ClientLeavesKeepsPool, ClientLeavesInCall
<1>3. ASSUME NEW r \in Request, NEW a \in Account, NEW x \in Via, Invoke(r, a, x)
      PROVE  PoolInv' /\ CallInv'
  <2>1. UNCHANGED vars
    BY <1>3 DEF Invoke
  <2>. QED  BY <1>3, <2>1, PoolGoesOn, InvokeInCall
<1>4. ASSUME World PROVE PoolInv' /\ CallInv'
  <2>1. Environment
    BY <1>4 DEF World, Environment
  <2>2. PoolInv'
    BY <2>1, PoolGoesOn DEF Next
  <2>3. /\ \A k \in Key : sessions'[k] = sessions[k] \/ sessions'[k] = None
        /\ UNCHANGED <<pc, frames, cancelled, stage, target, failed, exchanges>>
    BY <1>4 DEF World, Expire, DeleteAccount
  <2>4. TypeOK'
    BY <2>2 DEF PoolInv, Counted, Frame
  <2>. QED  BY <2>2, <2>3, <2>4, RowsGoInCall
<1>. QED  BY <1>1, <1>2, <1>3, <1>4, StepKeeps DEF WxNext, AllAnswered

LEMMA WxAlways == WxSpec => [](PoolInv /\ CallInv)
<1>1. WxInit => PoolInv
  BY InitCounted, PoolAssumption
     DEF WxInit, PoolInv, Init, Guarded, OwnersLocked, LockedOwn, SingleFlight, Locked, Loading,
         Belonging, SessionsBelongToAccounts, RecordedBeforePut,
         Isolated, RowsByProxy, HeldByProxy, SentByProxy, LetGo
<1>2. WxInit => CallInv
  <2> SUFFICES ASSUME WxInit PROVE CallInv
    OBVIOUS
  <2>1. Calls
    BY WxAssumption DEF WxInit, Init, Calls, Stage, Inside
  <2>2. AllMade /\ Unsaved
    BY PoolAssumption DEF WxInit, Init, AllMade, Seen, Unsaved
  <2>3. Removed /\ Unfailed /\ Spent
    BY DEF WxInit, Init, Removed, Unfailed, Spent
  <2>. QED  BY <2>1, <2>2, <2>3 DEF CallInv
<1>. QED  BY <1>1, <1>2, WxNextKeeps, PTL DEF WxSpec
------------------------------------------------------------------------------
(* Theorems.                                                                 *)

\* The second lookup under the mutex, the slots and the rows stay right under
\* the calls of invokeWXApp, which removes rows beside the pool and starts its
\* second run under a context that may be done.
THEOREM CallsKeepThePool ==
    WxSpec => [](TypeOK /\ SlotsMatchHolders /\ SingleFlight
                   /\ SessionsBelongToAccounts /\ ProxyIsolation)
<1>1. PoolInv => TypeOK /\ SlotsMatchHolders
  BY DEF PoolInv, Counted, Frame
<1>2. PoolInv => SingleFlight /\ SessionsBelongToAccounts
  BY DEF PoolInv, Guarded, Belonging
<1>3. PoolInv => ProxyIsolation
  BY DEF PoolInv, Isolated, RowsByProxy, HeldByProxy, SentByProxy, ProxyIsolation
<1>. QED  BY <1>1, <1>2, <1>3, WxAlways, PTL

\* No exchange of a call goes over a session of the call's own proxy that failed
\* it before: what it stores is new, and what failed is removed before the call
\* looks there again, by whatever way it goes.
THEOREM FailedSessionsStayOut == WxSpec => []OwnSessionNotReused
<1>1. CallInv => OwnSessionNotReused
  BY DEF CallInv, Unfailed, OwnSessionNotReused
<1>. QED  BY <1>1, WxAlways, PTL

\* An invocation gives its envelope to each target of a session at most once per
\* proxy of each of its two runs, every single try counted.
THEOREM RepeatsAreBounded == WxSpec => []BoundedRepeats
<1>1. ASSUME CallInv PROVE BoundedRepeats
  <2>1. SUFFICES ASSUME NEW r \in Request, target[r] # None
                 PROVE  exchanges[r] <= perRun(r) + perRun(r)
    BY WxAssumption DEF BoundedRepeats, perRun
  <2>2. stage[r] \in Stage \ {"idle"} /\ exchanges[r] \in Nat
    BY <1>1, <2>1 DEF CallInv, Calls
  <2>3. perRun(r) \in Nat /\ inRun(r) \in Nat
    BY <1>1, WxAssumption DEF CallInv, Calls, perRun, inRun
  <2>4. stage[r] \in Inside => inRun(r) <= perRun(r)
    BY <1>1, WxAssumption DEF CallInv, Calls, inRun, perRun
  <2>5. stage[r] = "peek" => exchanges[r] = 0
    BY <1>1 DEF CallInv, Calls
  <2>. QED  BY <1>1, <2>2, <2>3, <2>4, <2>5 DEF CallInv, Spent, Stage, Inside
<1>. QED  BY <1>1, WxAlways, PTL

\* A call whose client is gone removes nothing, stores nothing and does not mark
\* the account expired, in the pool and outside of it.
THEOREM GoneClientsWriteNothing == WxSpec => CancelledWritesNothing
<1>1. PoolInv /\ CallInv /\ [WxNext]_wxVars =>
        [\A r \in cancelled :
            pc'[r] # pc[r] \/ stage'[r] # stage[r] => UNCHANGED <<tables, status>>]_wxVars
  <2> SUFFICES ASSUME PoolInv, CallInv, WxNext, NEW r \in cancelled,
                      pc'[r] # pc[r] \/ stage'[r] # stage[r]
               PROVE  UNCHANGED <<tables, status>>
    OBVIOUS
  <2>1. r \in Request /\ pc \in [Request -> Label] /\ stage \in [Request -> Stage]
    BY DEF PoolInv, Counted, Frame, TypeOK, CallInv, Calls
  <2>2. ASSUME NEW q \in Request, WxStep(q) PROVE UNCHANGED <<tables, status>>
    <3>1. q = r
      <4>1. ASSUME Step(q), q # r PROVE pc'[r] = pc[r]
        BY <2>1, <4>1
           DEF Step, Lookup, Lock, Recheck, LoadAccount, AcquireLogin, AbandonLogin, LoginSucceeds,
               LoginFails, RecordUIN, SaveSession, AcquireShortlink, AbandonSend, SendSucceeds,
               SendFails, endSend, opFails, Invalidate, stateFails, useSession, Goto, frames, tables
      <4>2. ASSUME q # r PROVE pc'[r] = pc[r] /\ stage'[r] = stage[r]
        BY <2>1, <2>2, <4>1, <4>2
           DEF WxStep, Peek, FirstReturns, Drop, RefreshSucceeds, RefreshFails, Retry, SecondReturns,
               InPool, run, Goto, Enter, vars
      <4>. QED  BY <4>2
    <3>2. ASSUME Step(q) PROVE UNCHANGED tables
      BY <3>1, <3>2, <2>1
         DEF Step, Lookup, Lock, Recheck, LoadAccount, AcquireLogin, AbandonLogin, LoginSucceeds,
             LoginFails, RecordUIN, SaveSession, AcquireShortlink, AbandonSend, SendSucceeds,
             SendFails, endSend, opFails, Invalidate, stateFails, useSession, frames, tables
    <3>. QED  BY <2>2, <3>1, <3>2
         DEF WxStep, Peek, FirstReturns, Drop, RefreshSucceeds, RefreshFails, Retry, SecondReturns,
             InPool, run, vars, tables
  <2>3. ASSUME NEW q \in Request, ClientLeaves(q) PROVE UNCHANGED <<tables, status>>
    BY <2>3 DEF ClientLeaves
  <2>4. ASSUME NEW q \in Request, NEW a \in Account, NEW x \in Via, Invoke(q, a, x)
        PROVE  UNCHANGED <<tables, status>>
    BY <2>4 DEF Invoke, vars
  <2>5. ASSUME World PROVE FALSE
    BY <2>5, <2>1 DEF World, Expire, DeleteAccount
  <2>. QED  BY <2>2, <2>3, <2>4, <2>5 DEF WxNext, AllAnswered, wxVars, vars
<1>. QED  BY <1>1, WxAlways, PTL DEF WxSpec, CancelledWritesNothing
=============================================================================
