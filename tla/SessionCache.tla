---------------------------- MODULE SessionCache ----------------------------
(***************************************************************************)
(* What the session pool promises its callers, with no locks, semaphores,  *)
(* database statements or retries: per key, at most one loader at a time,  *)
(* a loader only while nothing usable is cached, and a cached session only *)
(* ever the one its loader produced.  SessionPool implements this module.  *)
(***************************************************************************)
CONSTANTS
    Key,        \* (account, proxy) pairs
    Loader,     \* who may log in: the requests of the pool
    Session,    \* the sessions a login can produce; s.owner is their loader
    Nothing     \* no session, no loader

VARIABLES
    cached,     \* per key, the session a lookup may return, or Nothing
    loading     \* per key, who is logging in, or Nothing

vars == <<cached, loading>>

Init ==
    /\ cached = [k \in Key |-> Nothing]
    /\ loading = [k \in Key |-> Nothing]

\* A login starts only for a key that nobody loads and that has no session.
StartLoad(k, q) ==
    /\ cached[k] = Nothing
    /\ loading[k] = Nothing
    /\ loading' = [loading EXCEPT ![k] = q]
    /\ UNCHANGED cached

\* The loader publishes a session of its own, into an empty entry.
FinishLoad(k, s) ==
    /\ loading[k] = s.owner
    /\ cached[k] = Nothing
    /\ loading' = [loading EXCEPT ![k] = Nothing]
    /\ cached' = [cached EXCEPT ![k] = s]

\* Loads end without a session: one of them fails, or all do in a restart.
AbortLoads(K) ==
    /\ loading' = [k \in Key |-> IF k \in K THEN Nothing ELSE loading[k]]
    /\ UNCHANGED cached

\* Sessions go away: one by expiry or invalidation, or, with their account,
\* all the sessions of the account at once.
Drop(K) ==
    /\ cached' = [k \in Key |-> IF k \in K THEN Nothing ELSE cached[k]]
    /\ UNCHANGED loading

Next ==
    \/ \E k \in Key :
          \/ \E q \in Loader : StartLoad(k, q)
          \/ \E s \in Session : FinishLoad(k, s)
    \/ \E K \in SUBSET Key : AbortLoads(K) \/ Drop(K)

Spec == Init /\ [][Next]_vars
=============================================================================
