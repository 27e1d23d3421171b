------------------------------- MODULE QrLogin -------------------------------
(***************************************************************************)
(* QR logins: the handlers of POST /qr, GET /qr/{id}/poll and POST         *)
(* /qr/{id}/confirm over App.qrSessions (under App.mu), the image files of *)
(* the QR directory (under no lock) and the qr.Session objects (each under *)
(* its own mutex, held over the exchanges with WeChat).  A handler keeps   *)
(* the session it looked up although the map may lose it meanwhile.        *)
(*                                                                         *)
(* WeChat's side is external: the state of a QR code moves when the phone  *)
(* scans, confirms or cancels, a poll reports it or fails, and an authorize*)
(* code gives the login cookies once.                                      *)
(***************************************************************************)
EXTENDS Naturals

CONSTANTS
    Request,    \* HTTP requests, each served once
    Sid,        \* session ids; each is drawn at most once
    Known,      \* ids of the pending sessions the instance starts with
    None        \* no session, no lock owner, no answer

ASSUME QrAssumption == Known \subseteq Sid /\ None \notin Sid \cup Request

VARIABLES
    qrSessions, \* ids in App.qrSessions
    images,     \* ids with a file <id>.jpg
    fresh,      \* ids not drawn yet
    shown,      \* ids whose POST /qr has answered: browsers know them
    aged,       \* sessions older than QRSessionTTL
    wx,         \* per id, the state of the QR code at WeChat
    spent,      \* ids whose authorize code WeChat has honoured
    code,       \* sessions with AuthorizeCode set
    jar,        \* sessions with the login cookies in their Jar
    buffer,     \* sessions with LoginBuffer and Credentials set
    mutex,      \* per session, who holds Session.mu
    stored,     \* ids whose scan is in the accounts table
    rpc,        \* per request, its next statement
    sid,        \* per request, its session
    keep,       \* per request, the local variable of handleQRRoot or pruneQR
    answer,     \* per poll, PollResult.Status
    leftover    \* files a dead process left behind (history)

maps == <<qrSessions, images, fresh, shown, leftover>>
phone == <<aged, wx>>
objects == <<spent, code, jar, buffer, mutex>>
locals == <<sid, keep, answer>>
qrVars == <<maps, phone, objects, stored, rpc, locals>>

WxState == {"pending", "scanned", "authorized", "cancelled", "expired"}
QrLabel == {"idle", "pruneFiles", "getImage", "write", "cleanup", "pollLock", "longPoll",
            "confirmLock", "callback", "fetch", "store", "dropMap", "dropFile", "done"}
\* Between sess.mu.Lock() and the deferred unlock.
InSession == {"longPoll", "callback", "fetch"}

\* The process runs, and has answered a POST /qr for each known session.
QrInit ==
    /\ qrSessions = Known /\ images = Known /\ shown = Known
    /\ fresh = Sid \ Known /\ aged = {}
    /\ wx = [s \in Sid |-> "pending"]
    /\ spent = {} /\ code = {} /\ jar = {} /\ buffer = {} /\ stored = {}
    /\ mutex = [s \in Sid |-> None]
    /\ rpc = [r \in Request |-> "idle"]
    /\ sid = [r \in Request |-> None]
    /\ keep = [r \in Request |-> {}]
    /\ answer = [r \in Request |-> None]
    /\ leftover = {}

Goto(r, l) == rpc' = [rpc EXCEPT ![r] = l]
------------------------------------------------------------------------------
(* handleQRRoot.                                                             *)

\* pruneQR, the part under App.mu.
PruneMap(r) ==
    /\ rpc[r] = "idle"
    /\ qrSessions' = qrSessions \ aged
    /\ keep' = [keep EXCEPT ![r] = qrSessions \cap aged]
    /\ Goto(r, "pruneFiles")
    /\ UNCHANGED <<images, fresh, shown, leftover, phone, objects, stored, sid, answer>>

PruneFiles(r) ==
    /\ rpc[r] = "pruneFiles"
    /\ images' = images \ keep[r]
    /\ leftover' = leftover \ keep[r]
    /\ Goto(r, "getImage")
    /\ UNCHANGED <<qrSessions, fresh, shown, phone, objects, stored, locals>>

\* GetQRCodeImage failed: 502.
GetImageFails(r) ==
    /\ rpc[r] = "getImage"
    /\ Goto(r, "done")
    /\ UNCHANGED <<maps, phone, objects, stored, locals>>

\* The new session enters the map, and the ids to keep are copied, under App.mu.
Register(r) ==
    /\ rpc[r] = "getImage"
    /\ \E s \in fresh :
          /\ fresh' = fresh \ {s}
          /\ qrSessions' = qrSessions \cup {s}
          /\ sid' = [sid EXCEPT ![r] = s]
          /\ keep' = [keep EXCEPT ![r] = qrSessions \cup {s}]
    /\ Goto(r, "write")
    /\ UNCHANGED <<images, shown, leftover, phone, objects, stored, answer>>

\* os.WriteFile (a full disk, whose error is dropped, is left out).
WriteImage(r) ==
    /\ rpc[r] = "write"
    /\ images' = images \cup {sid[r]}
    /\ Goto(r, "cleanup")
    /\ UNCHANGED <<qrSessions, fresh, shown, leftover, phone, objects, stored, locals>>

\* cleanupQR with the copy, and the answer.
cleanupQR(r) ==
    /\ rpc[r] = "cleanup"
    /\ images' = images \cap keep[r]
    /\ leftover' = leftover \cap keep[r]
    /\ shown' = shown \cup {sid[r]}
    /\ Goto(r, "done")
    /\ UNCHANGED <<qrSessions, fresh, phone, objects, stored, locals>>
------------------------------------------------------------------------------
(* handleQR, poll.                                                           *)

\* getQRSession: 404, or the session object.
getQRSession(r, s, l) ==
    /\ rpc[r] = "idle"
    /\ sid' = [sid EXCEPT ![r] = s]
    /\ Goto(r, IF s \in qrSessions THEN l ELSE "done")
    /\ UNCHANGED <<maps, phone, objects, stored, keep, answer>>

Poll(r, s) == s \in shown /\ getQRSession(r, s, "pollLock")

acquire(r) == mutex' = [mutex EXCEPT ![sid[r]] = r]

\* PollQRCode takes the mutex; without a code yet it asks WeChat.
PollLock(r) ==
    /\ rpc[r] = "pollLock"
    /\ mutex[sid[r]] = None
    /\ IF sid[r] \in buffer \cup code
       THEN Goto(r, "done") /\ UNCHANGED mutex
       ELSE Goto(r, "longPoll") /\ acquire(r)
    /\ UNCHANGED <<maps, phone, spent, code, jar, buffer, stored, locals>>

release(r) == mutex' = [mutex EXCEPT ![sid[r]] = None]

\* Mutant: an answer the code counts as final although the scan goes on.
terminalQRAuthorized(status) == status \in {"expired", "cancelled", "unknown", "authorized"}

terminalQR(status) == status \in {"expired", "cancelled", "unknown"}

\* WeChat's answer: the state of the QR code, or something unreadable.
PollAnswered(r) ==
    /\ rpc[r] = "longPoll"
    /\ \E status \in {wx[sid[r]], "unknown"} :
          /\ answer' = [answer EXCEPT ![r] = status]
          /\ code' = IF status = "authorized" THEN code \cup {sid[r]} ELSE code
          /\ Goto(r, IF terminalQR(status) THEN "dropMap" ELSE "done")
    /\ release(r)
    /\ UNCHANGED <<maps, phone, spent, jar, buffer, stored, sid, keep>>

\* Mutant: the mutex is not released on the error path.
PollFailsLocked(r) ==
    /\ rpc[r] = "longPoll"
    /\ Goto(r, "done")
    /\ UNCHANGED <<maps, phone, objects, stored, locals>>

\* No answer within the session client's timeout, or the browser left: 502.
PollFails(r) ==
    /\ rpc[r] = "longPoll"
    /\ Goto(r, "done")
    /\ release(r)
    /\ UNCHANGED <<maps, phone, spent, code, jar, buffer, stored, locals>>

\* dropQRSession: the map, then the file.
DropMap(r) ==
    /\ rpc[r] = "dropMap"
    /\ qrSessions' = qrSessions \ {sid[r]}
    /\ Goto(r, "dropFile")
    /\ UNCHANGED <<images, fresh, shown, leftover, phone, objects, stored, locals>>

\* Mutant: the file stays.
DropFileNot(r) ==
    /\ rpc[r] = "dropFile"
    /\ Goto(r, "done")
    /\ UNCHANGED <<maps, phone, objects, stored, locals>>

DropFile(r) ==
    /\ rpc[r] = "dropFile"
    /\ images' = images \ {sid[r]}
    /\ leftover' = leftover \ {sid[r]}
    /\ Goto(r, "done")
    /\ UNCHANGED <<qrSessions, fresh, shown, phone, objects, stored, locals>>
------------------------------------------------------------------------------
(* handleQR, confirm.                                                        *)

Confirm(r, s) == s \in shown /\ getQRSession(r, s, "confirmLock")

\* Mutant: nobody waits for the session's mutex.
ConfirmLockWithoutWaiting(r) ==
    /\ rpc[r] = "confirmLock"
    /\ IF sid[r] \in buffer THEN Goto(r, "store") /\ UNCHANGED mutex
       ELSE IF sid[r] \notin code THEN Goto(r, "done") /\ UNCHANGED mutex
       ELSE Goto(r, "callback") /\ acquire(r)
    /\ UNCHANGED <<maps, phone, spent, code, jar, buffer, stored, locals>>

\* GetLoginBuffer: an earlier confirm's result, 409 without a code, or the
\* exchange of the code.
ConfirmLock(r) ==
    /\ rpc[r] = "confirmLock"
    /\ mutex[sid[r]] = None
    /\ IF sid[r] \in buffer THEN Goto(r, "store") /\ UNCHANGED mutex
       ELSE IF sid[r] \notin code THEN Goto(r, "done") /\ UNCHANGED mutex
       ELSE Goto(r, "callback") /\ acquire(r)
    /\ UNCHANGED <<maps, phone, spent, code, jar, buffer, stored, locals>>

\* Mutant: the exchange goes on without looking for the cookies.
CallbackAnswersUnchecked(r) ==
    /\ rpc[r] = "callback"
    /\ spent' = spent \cup {sid[r]}
    /\ jar' = IF sid[r] \in spent THEN jar ELSE jar \cup {sid[r]}
    /\ Goto(r, "fetch")
    /\ UNCHANGED <<maps, phone, code, buffer, mutex, stored, locals>>

\* The callback answers; the status is not looked at, only the cookies are.
\* They are set by the first visit and stay in the jar for a retry.
CallbackAnswers(r) ==
    /\ rpc[r] = "callback"
    /\ spent' = spent \cup {sid[r]}
    /\ jar' = IF sid[r] \in spent THEN jar ELSE jar \cup {sid[r]}
    /\ IF sid[r] \in jar'
       THEN Goto(r, "fetch") /\ UNCHANGED mutex
       ELSE Goto(r, "done") /\ release(r)
    /\ UNCHANGED <<maps, phone, code, buffer, stored, locals>>

\* No answer; WeChat may have honoured the code all the same.
CallbackFails(r) ==
    /\ rpc[r] = "callback"
    /\ \/ spent' = spent \cup {sid[r]}
       \/ UNCHANGED spent
    /\ Goto(r, "done")
    /\ release(r)
    /\ UNCHANGED <<maps, phone, code, jar, buffer, stored, locals>>

\* FetchLoginBuffer.
FetchAnswers(r) ==
    /\ rpc[r] = "fetch"
    /\ buffer' = buffer \cup {sid[r]}
    /\ Goto(r, "store")
    /\ release(r)
    /\ UNCHANGED <<maps, phone, spent, code, jar, stored, locals>>

FetchFails(r) ==
    /\ rpc[r] = "fetch"
    /\ Goto(r, "done")
    /\ release(r)
    /\ UNCHANGED <<maps, phone, spent, code, jar, buffer, stored, locals>>

\* FetchUserInfo, whose failure leaves the profile empty, and storeFromScan.
Store(r) ==
    /\ rpc[r] = "store"
    /\ stored' = stored \cup {sid[r]}
    /\ Goto(r, "dropMap")
    /\ UNCHANGED <<maps, phone, objects, locals>>

\* The upsert fails: the browser left, or the database is busy.  The session
\* stays, with its buffer.
StoreFails(r) ==
    /\ rpc[r] = "store"
    /\ Goto(r, "done")
    /\ UNCHANGED <<maps, phone, objects, stored, locals>>
------------------------------------------------------------------------------
(* WeChat, time and crashes.                                                 *)

\* The phone scans, confirms or cancels; an unfinished code expires.
PhoneActs(s) ==
    /\ s \in shown
    /\ \E next \in CASE wx[s] = "pending" -> {"scanned", "expired"}
                     [] wx[s] = "scanned" -> {"authorized", "cancelled", "expired"}
                     [] OTHER             -> {} :
          wx' = [wx EXCEPT ![s] = next]
    /\ UNCHANGED <<maps, aged, objects, stored, rpc, locals>>

\* Sessions live for minutes, longer than POST /qr takes to answer.
Age(s) ==
    /\ s \in shown \cap qrSessions
    /\ s \notin aged
    /\ aged' = aged \cup {s}
    /\ UNCHANGED <<maps, wx, objects, stored, rpc, locals>>

\* The process dies: the map and the session objects go, files and rows stay.
Restart ==
    /\ qrSessions # {}
    /\ qrSessions' = {}
    /\ leftover' = images
    /\ mutex' = [s \in Sid |-> None]
    /\ rpc' = [r \in Request |-> IF rpc[r] = "idle" THEN "idle" ELSE "done"]
    /\ UNCHANGED <<images, fresh, shown, phone, spent, code, jar, buffer, stored, locals>>

Handle(r) ==
    \/ PruneFiles(r) \/ GetImageFails(r) \/ Register(r) \/ WriteImage(r) \/ cleanupQR(r)
    \/ PollLock(r) \/ PollAnswered(r) \/ PollFails(r) \/ DropMap(r) \/ DropFile(r)
    \/ ConfirmLock(r) \/ CallbackAnswers(r) \/ CallbackFails(r)
    \/ FetchAnswers(r) \/ FetchFails(r) \/ Store(r) \/ StoreFails(r)

\* All requests of the instance are served.
AllServed == (\A r \in Request : rpc[r] = "done") /\ UNCHANGED qrVars

QrNext ==
    \/ \E r \in Request : Handle(r) \/ PruneMap(r) \/ \E s \in Sid : Poll(r, s) \/ Confirm(r, s)
    \/ \E s \in Sid : PhoneActs(s) \/ Age(s)
    \/ Restart
    \/ AllServed

\* A handler runs on; its exchanges end with the session client's timeout.
QrSpec == QrInit /\ [][QrNext]_qrVars /\ \A r \in Request : WF_qrVars(Handle(r))
------------------------------------------------------------------------------
(* Properties.                                                               *)

QrTypeOK ==
    /\ qrSessions \subseteq Sid \ fresh
    /\ images \subseteq Sid
    /\ shown \subseteq Sid
    /\ aged \subseteq shown
    /\ wx \in [Sid -> WxState]
    /\ spent \subseteq code /\ jar \subseteq spent /\ buffer \subseteq jar
    /\ stored \subseteq buffer
    /\ mutex \in [Sid -> Request \cup {None}]
    /\ rpc \in [Request -> QrLabel]
    /\ sid \in [Request -> Sid \cup {None}]
    /\ keep \in [Request -> SUBSET Sid]
    /\ answer \in [Request -> WxState \cup {"unknown", None}]
    /\ leftover \subseteq images

\* Polls and confirms of one session talk to WeChat one at a time, and the
\* authorize code, which WeChat honours once, is not sent again once a login
\* buffer was got with it: a double confirm does not spoil the scan.
OneExchangeAtATime ==
    /\ \A r, q \in Request :
          rpc[r] \in InSession /\ rpc[q] \in InSession /\ sid[r] = sid[q] => r = q
    /\ \A r \in Request : rpc[r] \in {"callback", "fetch"} => sid[r] \in code \ buffer

\* Every image file belongs to a session of the map, to a request that is about
\* to remove it, or to a process that died: dropping, pruning and creating
\* sessions side by side leak no file.
ImagesGoWithSessions ==
    \A s \in images :
        \/ s \in qrSessions
        \/ s \in leftover
        \/ \E r \in Request : rpc[r] = "dropFile" /\ sid[r] = s
        \/ \E r \in Request : rpc[r] = "pruneFiles" /\ s \in keep[r]

\* A session the phone has authorized leaves the map only when it is too old,
\* when its account is stored, when the process dies, or by a poll that got its
\* final answer before the code arrived: no poll drops the scan it reports.
AuthorizedSessionsStay ==
    [][\A s \in (qrSessions \ qrSessions') \cap code :
          \/ s \in aged \cup stored
          \/ qrSessions' = {} /\ leftover' = images
          \/ \E r \in Request : rpc[r] = "dropMap" /\ sid[r] = s
                                /\ answer[r] \in {"expired", "cancelled", "unknown"}]_qrVars

\* Every poll and every confirm of a known session is answered, also when they
\* queue for its mutex behind each other's exchanges.
RequestsAnswered ==
    \A r \in Request : rpc[r] \in {"pollLock", "confirmLock"} ~> rpc[r] = "done"

\* docs/docs/API_SUMMARY.md (GET /qr/{session_id}/image) and LOGIN_AND_SESSION.md
\* 3.1: the front end shows a session's QR code by its image.  A POST /qr that
\* copied the ids to keep earlier removes the file of one that came later.
ImageOfEverySession == \A s \in shown \cap qrSessions : s \in images
=============================================================================
