------------------------------ MODULE Semaphore ------------------------------
(***************************************************************************)
(* The semaphore of src/src/sync.c behind its handle in src/src/sthread.c: *)
(* an unsigned counter under a mutex, with one condition variable.  Taking *)
(* the mutex is a step, the code from there to the unlock or to            *)
(* pthread_cond_wait is another.                                           *)
(*                                                                         *)
(* The handle starts zeroed.  A thread initialises or destroys the         *)
(* semaphore only while no other thread is in a call: sync.c does nothing  *)
(* to protect a waiter from a destroy.                                     *)
(***************************************************************************)
EXTENDS SyncErrors, FiniteSets

CONSTANTS
  Threads,
  Word,       (* the counter is an unsigned int: it counts modulo Word      *)
  Permits,    (* bound: how far the callers drive the counter up            *)
  NULL

ASSUME SemaphoreAssumption ==
  /\ Word \in Nat \ {0} /\ Permits \in Nat
  /\ NULL \notin Threads
  /\ IsFiniteSet(Threads)

VARIABLES
  internal,   (* the handle points to an initialised sync_sem_t             *)
  count, lock,(* its counter, and the holder of its mutex                   *)
  pc,         (* per thread: where it is                                    *)
  result      (* per thread: what the call it returns from yields           *)

vars == <<internal, count, lock, pc, result>>

(* Acquiring the mutex leads from a pc on the left to the one on the right. *)
Held == [wait_lock |-> "wait_held", woken |-> "wait_held",
         try_lock |-> "try_held", post_lock |-> "post_held",
         get_lock |-> "get_held"]

HeldPCs == {"wait_held", "try_held", "post_held", "get_held"}

Entries == {"wait_lock", "try_lock", "post_lock", "get_lock"}

PCs == DOMAIN Held \cup HeldPCs \cup {"idle", "asleep", "returned"}

At(p) == {t \in Threads : pc[t] = p}

Counts == 0..Word-1

TypeOK ==
  /\ internal \in BOOLEAN
  /\ count \in Counts
  /\ lock \in Threads \cup {NULL}
  /\ pc \in [Threads -> PCs]
  /\ result \in [Threads ->
       [ret : {SUCCESS, NOMEM, INVALID, BUSY, SYSTEM}, val : -Word..Word-1]]

NoResult == [ret |-> SUCCESS, val |-> 0]

Init ==
  /\ internal = FALSE /\ count = 0 /\ lock = NULL
  /\ pc = [t \in Threads |-> "idle"]
  /\ result = [t \in Threads |-> NoResult]

-----------------------------------------------------------------------------
Goto(t, p) == pc' = [pc EXCEPT ![t] = p]

Yield(t, r, v) == result' = [result EXCEPT ![t] = [ret |-> r, val |-> v]]

(* pthread_cond_signal wakes a waiter of its choice, if there is one. *)
WakeOne == IF At("asleep") = {} THEN {{}} ELSE {{t} : t \in At("asleep")}

(* pthread_mutex_lock, also the one inside a pthread_cond_wait that ends. *)
Acquire(t) ==
  /\ pc[t] \in DOMAIN Held
  /\ lock = NULL
  /\ lock' = t
  /\ Goto(t, Held[pc[t]])
  /\ UNCHANGED <<internal, count, result>>

(* POSIX lets pthread_cond_wait return without a signal. *)
SpuriousWakeup(t) ==
  /\ pc[t] = "asleep"
  /\ Goto(t, "woken")
  /\ UNCHANGED <<internal, count, lock, result>>

UnlockAndReturn(t, r, v) ==
  /\ lock' = NULL
  /\ Goto(t, "returned")
  /\ Yield(t, r, v)

(* The caller gets the result and goes on. *)
Return(t) ==
  /\ pc[t] = "returned"
  /\ Goto(t, "idle")
  /\ result' = [result EXCEPT ![t] = NoResult]
  /\ UNCHANGED <<internal, count, lock>>

-----------------------------------------------------------------------------
(* sthread_sem_init, sthread_sem_destroy                                   *)

Alone == \A t \in Threads : pc[t] = "idle"

(* The mutex and the condition variable are initialised: set the counter. *)
SyncInit(t, v) ==
  /\ count' = v
  /\ internal' = TRUE
  /\ Yield(t, SUCCESS, 0)

(* malloc, pthread_mutex_init or pthread_cond_init fails. *)
SyncInitFails(t) ==
  /\ \E err \in {"ENOMEM", "EAGAIN"} : Yield(t, MapError(err), 0)
  /\ UNCHANGED <<count, internal>>

SemInit(t) ==
  /\ Alone /\ ~internal
  /\ \/ \E v \in {n \in Counts : n <= Permits} : SyncInit(t, v)
     \/ SyncInitFails(t)
  /\ Goto(t, "returned")
  /\ UNCHANGED lock

(* Alone: neither the condition variable nor the mutex is in use, so both *)
(* can be destroyed.  Freed, the semaphore has no counter.                *)
SyncDestroy(t) ==
  /\ count' = 0
  /\ Yield(t, SUCCESS, 0)

SemDestroy(t) ==
  /\ Alone /\ internal
  /\ SyncDestroy(t)
  /\ internal' = FALSE
  /\ Goto(t, "returned")
  /\ UNCHANGED lock

-----------------------------------------------------------------------------
(* sthread_sem_wait, _trywait, _post, _getvalue                            *)

(* The bound: posts under way count as if they had taken effect. *)
MayPost ==
  count + Cardinality(At("post_lock") \cup At("post_held")) < Permits

Call(t) ==
  /\ pc[t] = "idle" /\ internal
  /\ \E p \in Entries : (p = "post_lock" => MayPost) /\ Goto(t, p)
  /\ UNCHANGED <<internal, count, lock, result>>

CallInvalid(t) ==
  /\ pc[t] = "idle" /\ ~internal
  /\ Goto(t, "returned")
  /\ Yield(t, INVALID, 0)
  /\ UNCHANGED <<internal, count, lock>>

WaitSleep(t) ==
  /\ pc[t] = "wait_held"
  /\ count = 0
  /\ lock' = NULL
  /\ Goto(t, "asleep")
  /\ UNCHANGED <<internal, count, result>>

MayTakeWithoutTest(t) ==
  \/ pc[t] = "wait_held"
  \/ pc[t] = "try_held" /\ count # 0

MayTake(t) == pc[t] \in {"wait_held", "try_held"} /\ count # 0

Take(t) ==
  /\ MayTake(t)
  /\ count' = (count - 1) % Word
  /\ UnlockAndReturn(t, SUCCESS, 0)
  /\ UNCHANGED internal

TryBusyKeepsMutex(t) ==
  /\ pc[t] = "try_held"
  /\ count = 0
  /\ Goto(t, "returned")
  /\ Yield(t, BUSY, 0)
  /\ UNCHANGED <<internal, count, lock>>

TryBusy(t) ==
  /\ pc[t] = "try_held"
  /\ count = 0
  /\ UnlockAndReturn(t, BUSY, 0)
  /\ UNCHANGED <<internal, count>>

SignalIfWasZero == IF count = 0 THEN WakeOne ELSE {{}}

Signal == WakeOne

Post(t) ==
  /\ pc[t] = "post_held"
  /\ count' = (count + 1) % Word
  /\ \E woken \in Signal :
       pc' = [u \in Threads |-> IF u = t THEN "returned"
                                ELSE IF u \in woken THEN "woken" ELSE pc[u]]
  /\ lock' = NULL
  /\ Yield(t, SUCCESS, 0)
  /\ UNCHANGED internal

(* The (int) of getvalue. *)
AsInt(n) == IF 2 * n < Word THEN n ELSE n - Word

GetValue(t) ==
  /\ pc[t] = "get_held"
  /\ UnlockAndReturn(t, SUCCESS, AsInt(count))
  /\ UNCHANGED <<internal, count>>

-----------------------------------------------------------------------------
(* What thread t does inside a call while it holds, or needs, no mutex. *)
Body(t) ==
  \/ WaitSleep(t) \/ Take(t) \/ TryBusy(t) \/ Post(t) \/ GetValue(t)
  \/ Return(t)

Next ==
  \E t \in Threads :
    \/ SemInit(t) \/ SemDestroy(t) \/ Call(t) \/ CallInvalid(t)
    \/ Acquire(t) \/ SpuriousWakeup(t) \/ Body(t)

Spec == Init /\ [][Next]_vars

(***************************************************************************)
(* A thread inside a call keeps running, and one that keeps finding the    *)
(* mutex free gets it in the end.  Nobody has to call, and no condition    *)
(* wait ends without a signal.                                             *)
(***************************************************************************)
Fairness ==
  \A t \in Threads : WF_vars(Body(t)) /\ SF_vars(Acquire(t))

FairSpec == Spec /\ Fairness
=============================================================================
