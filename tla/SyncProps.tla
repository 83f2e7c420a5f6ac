----------------------------- MODULE SyncProps ------------------------------
(***************************************************************************)
(* What src/src/sync.c promises the callers of a mutex and a condition     *)
(* variable.                                                               *)
(***************************************************************************)
EXTENDS Sync

(* The codes that mutex and condition calls return tell every thread the   *)
(* truth, but for one case: whose mutex is destroyed while it holds it      *)
(* (sthread.c:121-125 frees the mutex also when pthread answers EBUSY)      *)
(* goes on believing, until it gets the mutex of the handle again.  Among   *)
(* all others the one who holds the mutex believes so and nobody else does. *)
(* A wait that timed out has it (sync.c:23 and :126); a lock by its holder, *)
(* a failed trylock or a wait without it has not given it; and nobody but   *)
(* its holder releases it: neither a thread that never had it nor the       *)
(* robbed one, whose handle meanwhile stands for a new mutex.               *)
Exclusion == holds \ robbed = IF owner = NULL THEN {} ELSE {owner}

(* src/Readme.md:20: "Mutual exclusion lock for critical sections".  No two *)
(* threads have been told, and not told otherwise since, that they hold the *)
(* mutex of one handle.  sthread_mutex_destroy (sthread.c:121-127) breaks   *)
(* it: it frees a held mutex, its caller initialises the handle again, and  *)
(* the next lock succeeds while the first holder is in its critical section.*)
OneHolder == \A t, u \in holds : t = u

(* Whatever the clock and the timeout are, the deadline of                  *)
(* platform_get_abstime is one that pthread_cond_timedwait accepts, so that *)
(* the holder's timed wait goes to sleep, and the wait does not time out    *)
(* before timeout_ms milliseconds are over.                                 *)
TimedWaitNotCutShort ==
  [][\A t \in Threads :
       /\ pc[t] = "timedwait" /\ owner = t => pc'[t] \in {"timedwait", "asleep"}
       /\ outcome'[t] # outcome[t] /\ outcome'[t] = "ETIMEDOUT"
            => due[t] <= Total(now)]_vars

(* A timed wait that is never signalled still ends.                         *)
TimedWaitEnds ==
  \A t \in Threads :
    pc[t] = "asleep" /\ deadline[t] # NULL ~> pc[t] # "asleep"

(* A lock by the thread that holds the mutex returns (EDEADLK, reported as  *)
(* STHREAD_ERROR_SYSTEM) instead of blocking for good.                      *)
SelfLockReturns ==
  \A t \in Threads : pc[t] = "lock" /\ owner = t ~> pc[t] = "idle"
=============================================================================
