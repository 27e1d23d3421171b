---------------------------- MODULE QrLoginProofs ----------------------------
(***************************************************************************)
(* Proofs about QrLogin: exchanges of one session exclude each other, no   *)
(* image file leaks, and an authorized session is not dropped by the way.  *)
(***************************************************************************)
EXTENDS QrLogin, TLAPS

\* Who is shown is not fresh, and only shown sessions grow old.
Sessions ==
    /\ qrSessions \subseteq Sid \ fresh /\ shown \subseteq Sid \ fresh
    /\ fresh \subseteq Sid /\ aged \subseteq shown

\* A handler that works on a session has one that a browser knows.
AtSession == {"pollLock", "longPoll", "confirmLock", "callback", "fetch", "store", "dropMap", "dropFile"}

Locals ==
    /\ rpc \in [Request -> QrLabel]
    /\ sid \in [Request -> Sid \cup {None}]
    /\ keep \in [Request -> SUBSET Sid]
    /\ answer \in [Request -> WxState \cup {"unknown", None}]
    /\ wx \in [Sid -> WxState]
    /\ mutex \in [Sid -> Request \cup {None}]
    /\ \A r \in Request : rpc[r] \in AtSession => sid[r] \in shown

\* Whoever talks to WeChat holds the session's mutex.
Exchanges ==
    \A r \in Request :
        /\ rpc[r] \in InSession => mutex[sid[r]] = r
        /\ rpc[r] \in {"callback", "fetch"} => sid[r] \in code \ buffer

\* POST /qr has its session in the map, for itself, until it answers.
NewSessions ==
    \A r \in Request : rpc[r] \in {"write", "cleanup"} =>
        /\ sid[r] \in qrSessions \ shown
        /\ \A q \in Request : rpc[q] \in {"write", "cleanup"} /\ sid[q] = sid[r] => q = r

\* A session is dropped when its account is stored or its poll had a final answer.
Dropped ==
    \A r \in Request : rpc[r] = "dropMap" =>
        sid[r] \in stored \/ answer[r] \in {"expired", "cancelled", "unknown"}

QrInv == Sessions /\ Locals /\ Exchanges /\ NewSessions /\ Dropped /\ ImagesGoWithSessions
------------------------------------------------------------------------------
(* Each action.                                                              *)

LEMMA PruneMapKeeps == ASSUME QrInv, NEW r \in Request, PruneMap(r) PROVE QrInv'
BY QrAssumption
   DEF QrInv, Sessions, Locals, Exchanges, NewSessions, Dropped, ImagesGoWithSessions,
       AtSession, InSession, QrLabel, WxState,
       PruneMap, Goto, maps, phone, objects, locals

LEMMA PruneFilesKeeps == ASSUME QrInv, NEW r \in Request, PruneFiles(r) PROVE QrInv'
BY QrAssumption
   DEF QrInv, Sessions, Locals, Exchanges, NewSessions, Dropped, ImagesGoWithSessions,
       AtSession, InSession, QrLabel, WxState,
       PruneFiles, Goto, maps, phone, objects, locals

LEMMA GetImageFailsKeeps == ASSUME QrInv, NEW r \in Request, GetImageFails(r) PROVE QrInv'
BY QrAssumption
   DEF QrInv, Sessions, Locals, Exchanges, NewSessions, Dropped, ImagesGoWithSessions,
       AtSession, InSession, QrLabel, WxState,
       GetImageFails, Goto, maps, phone, objects, locals

LEMMA RegisterKeeps == ASSUME QrInv, NEW r \in Request, Register(r) PROVE QrInv'
BY QrAssumption
   DEF QrInv, Sessions, Locals, Exchanges, NewSessions, Dropped, ImagesGoWithSessions,
       AtSession, InSession, QrLabel, WxState,
       Register, Goto, maps, phone, objects, locals

LEMMA WriteImageKeeps == ASSUME QrInv, NEW r \in Request, WriteImage(r) PROVE QrInv'
BY QrAssumption
   DEF QrInv, Sessions, Locals, Exchanges, NewSessions, Dropped, ImagesGoWithSessions,
       AtSession, InSession, QrLabel, WxState,
       WriteImage, Goto, maps, phone, objects, locals

LEMMA CleanupQRKeeps == ASSUME QrInv, NEW r \in Request, cleanupQR(r) PROVE QrInv'
BY QrAssumption
   DEF QrInv, Sessions, Locals, Exchanges, NewSessions, Dropped, ImagesGoWithSessions,
       AtSession, InSession, QrLabel, WxState,
       cleanupQR, Goto, maps, phone, objects, locals

LEMMA PollKeeps == ASSUME QrInv, NEW r \in Request, NEW s \in Sid, Poll(r, s) PROVE QrInv'
BY QrAssumption
   DEF QrInv, Sessions, Locals, Exchanges, NewSessions, Dropped, ImagesGoWithSessions,
       AtSession, InSession, QrLabel, WxState,
       Poll, getQRSession, Goto, maps, phone, objects, locals

LEMMA PollLockKeeps == ASSUME QrInv, NEW r \in Request, PollLock(r) PROVE QrInv'
BY QrAssumption
   DEF QrInv, Sessions, Locals, Exchanges, NewSessions, Dropped, ImagesGoWithSessions,
       AtSession, InSession, QrLabel, WxState,
       PollLock, Goto, maps, phone, objects, locals, acquire

LEMMA PollAnsweredKeeps == ASSUME QrInv, NEW r \in Request, PollAnswered(r) PROVE QrInv'
BY QrAssumption
   DEF QrInv, Sessions, Locals, Exchanges, NewSessions, Dropped, ImagesGoWithSessions,
       AtSession, InSession, QrLabel, WxState,
       PollAnswered, Goto, maps, phone, objects, locals, release, terminalQR

LEMMA PollFailsKeeps == ASSUME QrInv, NEW r \in Request, PollFails(r) PROVE QrInv'
BY QrAssumption
   DEF QrInv, Sessions, Locals, Exchanges, NewSessions, Dropped, ImagesGoWithSessions,
       AtSession, InSession, QrLabel, WxState,
       PollFails, Goto, maps, phone, objects, locals, release

LEMMA DropMapKeeps == ASSUME QrInv, NEW r \in Request, DropMap(r) PROVE QrInv'
BY QrAssumption
   DEF QrInv, Sessions, Locals, Exchanges, NewSessions, Dropped, ImagesGoWithSessions,
       AtSession, InSession, QrLabel, WxState,
       DropMap, Goto, maps, phone, objects, locals

LEMMA DropFileKeeps == ASSUME QrInv, NEW r \in Request, DropFile(r) PROVE QrInv'
BY QrAssumption
   DEF QrInv, Sessions, Locals, Exchanges, NewSessions, Dropped, ImagesGoWithSessions,
       AtSession, InSession, QrLabel, WxState,
       DropFile, Goto, maps, phone, objects, locals

LEMMA ConfirmKeeps == ASSUME QrInv, NEW r \in Request, NEW s \in Sid, Confirm(r, s) PROVE QrInv'
BY QrAssumption
   DEF QrInv, Sessions, Locals, Exchanges, NewSessions, Dropped, ImagesGoWithSessions,
       AtSession, InSession, QrLabel, WxState,
       Confirm, getQRSession, Goto, maps, phone, objects, locals

LEMMA ConfirmLockKeeps == ASSUME QrInv, NEW r \in Request, ConfirmLock(r) PROVE QrInv'
BY QrAssumption
   DEF QrInv, Sessions, Locals, Exchanges, NewSessions, Dropped, ImagesGoWithSessions,
       AtSession, InSession, QrLabel, WxState,
       ConfirmLock, Goto, maps, phone, objects, locals, acquire

LEMMA CallbackAnswersKeeps == ASSUME QrInv, NEW r \in Request, CallbackAnswers(r) PROVE QrInv'
BY QrAssumption
   DEF QrInv, Sessions, Locals, Exchanges, NewSessions, Dropped, ImagesGoWithSessions,
       AtSession, InSession, QrLabel, WxState,
       CallbackAnswers, Goto, maps, phone, objects, locals, release

LEMMA CallbackFailsKeeps == ASSUME QrInv, NEW r \in Request, CallbackFails(r) PROVE QrInv'
BY QrAssumption
   DEF QrInv, Sessions, Locals, Exchanges, NewSessions, Dropped, ImagesGoWithSessions,
       AtSession, InSession, QrLabel, WxState,
       CallbackFails, Goto, maps, phone, objects, locals, release

LEMMA FetchAnswersKeeps == ASSUME QrInv, NEW r \in Request, FetchAnswers(r) PROVE QrInv'
BY QrAssumption
   DEF QrInv, Sessions, Locals, Exchanges, NewSessions, Dropped, ImagesGoWithSessions,
       AtSession, InSession, QrLabel, WxState,
       FetchAnswers, Goto, maps, phone, objects, locals, release

LEMMA FetchFailsKeeps == ASSUME QrInv, NEW r \in Request, FetchFails(r) PROVE QrInv'
BY QrAssumption
   DEF QrInv, Sessions, Locals, Exchanges, NewSessions, Dropped, ImagesGoWithSessions,
       AtSession, InSession, QrLabel, WxState,
       FetchFails, Goto, maps, phone, objects, locals, release

LEMMA StoreKeeps == ASSUME QrInv, NEW r \in Request, Store(r) PROVE QrInv'
BY QrAssumption
   DEF QrInv, Sessions, Locals, Exchanges, NewSessions, Dropped, ImagesGoWithSessions,
       AtSession, InSession, QrLabel, WxState,
       Store, Goto, maps, phone, objects, locals

LEMMA StoreFailsKeeps == ASSUME QrInv, NEW r \in Request, StoreFails(r) PROVE QrInv'
BY QrAssumption
   DEF QrInv, Sessions, Locals, Exchanges, NewSessions, Dropped, ImagesGoWithSessions,
       AtSession, InSession, QrLabel, WxState,
       StoreFails, Goto, maps, phone, objects, locals

LEMMA PhoneActsKeeps == ASSUME QrInv, NEW s \in Sid, PhoneActs(s) PROVE QrInv'
BY QrAssumption
   DEF QrInv, Sessions, Locals, Exchanges, NewSessions, Dropped, ImagesGoWithSessions,
       AtSession, InSession, QrLabel, WxState,
       PhoneActs, maps, phone, objects, locals

LEMMA AgeKeeps == ASSUME QrInv, NEW s \in Sid, Age(s) PROVE QrInv'
BY QrAssumption
   DEF QrInv, Sessions, Locals, Exchanges, NewSessions, Dropped, ImagesGoWithSessions,
       AtSession, InSession, QrLabel, WxState,
       Age, maps, phone, objects, locals

LEMMA RestartKeeps == ASSUME QrInv, Restart PROVE QrInv'
BY QrAssumption
   DEF QrInv, Sessions, Locals, Exchanges, NewSessions, Dropped, ImagesGoWithSessions,
       AtSession, InSession, QrLabel, WxState,
       Restart, maps, phone, objects, locals
------------------------------------------------------------------------------
(* The theorems.                                                             *)

LEMMA QrStarts == QrInit => QrInv
BY QrAssumption
   DEF QrInit, QrInv, Sessions, Locals, Exchanges, NewSessions, Dropped, ImagesGoWithSessions,
       AtSession, InSession, QrLabel, WxState

LEMMA QrKeeps == QrInv /\ [QrNext]_qrVars => QrInv'
<1> SUFFICES ASSUME QrInv, [QrNext]_qrVars PROVE QrInv'
  OBVIOUS
<1>1. ASSUME NEW r \in Request, Handle(r) PROVE QrInv'
  BY <1>1, PruneFilesKeeps, GetImageFailsKeeps, RegisterKeeps, WriteImageKeeps, CleanupQRKeeps,
     PollLockKeeps, PollAnsweredKeeps, PollFailsKeeps, DropMapKeeps, DropFileKeeps,
     ConfirmLockKeeps, CallbackAnswersKeeps, CallbackFailsKeeps, FetchAnswersKeeps, FetchFailsKeeps,
     StoreKeeps, StoreFailsKeeps DEF Handle
<1>2. ASSUME NEW r \in Request, PruneMap(r) PROVE QrInv'
  BY <1>2, PruneMapKeeps
<1>3. ASSUME NEW r \in Request, NEW s \in Sid, Poll(r, s) \/ Confirm(r, s) PROVE QrInv'
  BY <1>3, PollKeeps, ConfirmKeeps
<1>4. ASSUME NEW s \in Sid, PhoneActs(s) \/ Age(s) PROVE QrInv'
  BY <1>4, PhoneActsKeeps, AgeKeeps
<1>5. CASE Restart
  BY <1>5, RestartKeeps
<1>6. CASE AllServed \/ UNCHANGED qrVars
  BY <1>6 DEF AllServed, qrVars, maps, phone, objects, locals, QrInv, Sessions, Locals, Exchanges,
      NewSessions, Dropped, ImagesGoWithSessions
<1>. QED  BY <1>1, <1>2, <1>3, <1>4, <1>5, <1>6 DEF QrNext

\* Every reachable state: the mutex of a session is held over its exchanges, a new
\* session stays in the map until its POST /qr answers.
THEOREM QrSound == QrSpec => []QrInv
<1>. QED  BY QrStarts, QrKeeps, PTL DEF QrSpec

\* However many polls and confirms of one session come at once, they talk to
\* WeChat one at a time, and a code that gave a login buffer is not sent again.
THEOREM ExchangesExclude == QrSpec => []OneExchangeAtATime
<1>1. QrInv => OneExchangeAtATime
  BY DEF QrInv, Locals, Exchanges, OneExchangeAtATime, InSession
<1>. QED  BY <1>1, QrSound, PTL

\* No order of prunes, drops, cleanups and new sessions leaves an image file
\* behind that nobody is going to remove.
THEOREM NoImageLeaks == QrSpec => []ImagesGoWithSessions
<1>1. QrInv => ImagesGoWithSessions
  BY DEF QrInv
<1>. QED  BY <1>1, QrSound, PTL

\* A session with a code leaves the map by age, by a stored account, by a final
\* answer before the code, or with the process: no poll drops the scan it reports.
THEOREM ScansAreNotDropped == QrSpec => AuthorizedSessionsStay
<1>1. ASSUME QrInv, [QrNext]_qrVars, NEW s \in (qrSessions \ qrSessions') \cap code
      PROVE  \/ s \in aged \cup stored
             \/ qrSessions' = {} /\ leftover' = images
             \/ \E r \in Request : rpc[r] = "dropMap" /\ sid[r] = s
                                   /\ answer[r] \in {"expired", "cancelled", "unknown"}
  <2>1. qrSessions' # qrSessions
    OBVIOUS
  <2>2. ASSUME NEW r \in Request, Handle(r)
        PROVE  s \in stored \/ (rpc[r] = "dropMap" /\ sid[r] = s
                                /\ answer[r] \in {"expired", "cancelled", "unknown"})
    <3>1. DropMap(r)
      BY <2>1, <2>2 DEF Handle, PruneFiles, GetImageFails, Register, WriteImage, cleanupQR,
         PollLock, PollAnswered, PollFails, DropFile, ConfirmLock, CallbackAnswers, CallbackFails,
         FetchAnswers, FetchFails, Store, StoreFails, maps
    <3>2. s = sid[r] /\ rpc[r] = "dropMap"
      BY <3>1 DEF DropMap
    <3>. QED  BY <1>1, <3>2 DEF QrInv, Dropped
  <2>3. ASSUME NEW r \in Request, PruneMap(r) PROVE s \in aged
    BY <2>3 DEF PruneMap
  <2>4. CASE Restart
    BY <2>4 DEF Restart
  <2>. QED  BY <1>1, <2>1, <2>2, <2>3, <2>4
            DEF QrNext, Poll, Confirm, getQRSession, PhoneActs, Age, AllServed, qrVars, maps
<1>2. QrInv /\ [QrNext]_qrVars =>
        [\A s \in (qrSessions \ qrSessions') \cap code :
            \/ s \in aged \cup stored
            \/ qrSessions' = {} /\ leftover' = images
            \/ \E r \in Request : rpc[r] = "dropMap" /\ sid[r] = s
                                  /\ answer[r] \in {"expired", "cancelled", "unknown"}]_qrVars
  BY <1>1
<1>. QED  BY <1>2, QrSound, PTL DEF QrSpec, AuthorizedSessionsStay
=============================================================================
