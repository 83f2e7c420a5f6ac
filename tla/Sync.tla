-------------------------------- MODULE Sync --------------------------------
(***************************************************************************)
(* One sthread mutex and one condition variable: the handles of            *)
(* src/src/sthread.c, the calls of src/src/sync.c on the error-checking    *)
(* pthread mutex behind them, and the deadline of a timed wait             *)
(* (src/src/platform.h).  Threads call what they like, whether they hold   *)
(* the mutex or not; only init and destroy they keep apart from calls in   *)
(* progress.                                                               *)
(*                                                                         *)
(* A call is one step, unless it can block: pthread_mutex_lock and the     *)
(* condition waits.  Left out are the calls that change nothing: those on  *)
(* a handle that is not initialised (INVALID), a condition wait without    *)
(* the mutex (EPERM), a signal nobody waits for.                           *)
(***************************************************************************)
EXTENDS SyncErrors

CONSTANTS
  Threads, NULL,
  Timeouts,           (* the timeout_ms arguments                           *)
  MsPerSec, NsPerMs,  (* 1000 and 1000000                                   *)
  Granule,            (* the clock advances by this many nanoseconds        *)
  MaxSec              (* bound: the clock stands still after MaxSec seconds *)

ASSUME SyncAssumption ==
  /\ NULL \notin Threads
  /\ Timeouts \subseteq Nat
  /\ MsPerSec \in Nat \ {0} /\ NsPerMs \in Nat \ {0}
  /\ Granule \in 1..MsPerSec * NsPerMs /\ MaxSec \in Nat

VARIABLES
  mutex, cond,  (* are the "internal" pointers of the two handles set?      *)
  owner,        (* the holder of the pthread mutex behind the handle        *)
  pc,           (* per thread: where it is in a blocking call               *)
  deadline,     (* per thread: struct timespec ts of a timed wait, or NULL  *)
  outcome,      (* per thread: what its condition wait will return          *)
  now,          (* CLOCK_REALTIME                                           *)
  holds,        (* history: who believes that it holds the mutex, by the    *)
                (* codes that its calls have returned                       *)
  robbed,       (* history: whose mutex a destroy has freed since then      *)
  due           (* history: per thread, when its timed wait should time out *)

objects == <<mutex, cond, owner>>
waits == <<deadline, outcome, due>>
beliefs == <<holds, robbed>>
vars == <<objects, pc, waits, now, beliefs>>

-----------------------------------------------------------------------------
(* Points in time: a struct timespec, and the nanoseconds it stands for.    *)

NsPerSec == MsPerSec * NsPerMs
Timespec == [sec : Nat, nsec : 0..NsPerSec-1]
Total(ts) == ts.sec * NsPerSec + ts.nsec

(* ms milliseconds after ts, as a number of seconds and of nanoseconds. *)
Sec(ts, ms)  == ts.sec + ms \div MsPerSec
Nsec(ts, ms) == ts.nsec + (ms % MsPerSec) * NsPerMs

AbsTimeCarryLate(ts, ms) ==
  IF Nsec(ts, ms) > NsPerSec
  THEN [sec |-> Sec(ts, ms) + 1, nsec |-> Nsec(ts, ms) - NsPerSec]
  ELSE [sec |-> Sec(ts, ms),     nsec |-> Nsec(ts, ms)]

AbsTimeWholeSeconds(ts, ms) == [sec |-> Sec(ts, ms), nsec |-> ts.nsec]

AbsTimeInSeconds(ts, ms) == [sec |-> ts.sec + ms * MsPerSec, nsec |-> ts.nsec]

(* platform_get_abstime *)
AbsTime(ts, ms) ==
  IF Nsec(ts, ms) >= NsPerSec
  THEN [sec |-> Sec(ts, ms) + 1, nsec |-> Nsec(ts, ms) - NsPerSec]
  ELSE [sec |-> Sec(ts, ms),     nsec |-> Nsec(ts, ms)]

(* POSIX: a timed wait ends once the clock has reached its deadline. *)
Reached(ts) ==
  ts.sec < now.sec \/ (ts.sec = now.sec /\ ts.nsec <= now.nsec)

(* From MaxSec seconds on the model no longer tells the times apart. *)
Tick ==
  /\ now' = IF now.sec = MaxSec THEN now
            ELSE IF now.nsec + Granule < NsPerSec
            THEN [now EXCEPT !.nsec = @ + Granule]
            ELSE [sec |-> now.sec + 1, nsec |-> now.nsec + Granule - NsPerSec]
  /\ UNCHANGED <<objects, pc, waits, beliefs>>

-----------------------------------------------------------------------------
TypeOK ==
  /\ mutex \in BOOLEAN /\ cond \in BOOLEAN
  /\ owner \in Threads \cup {NULL}
  /\ pc \in [Threads -> {"idle", "lock", "timedwait", "asleep", "relock"}]
  /\ deadline \in [Threads -> Timespec \cup {NULL}]
  /\ outcome \in [Threads -> {"OK", "ETIMEDOUT"}]
  /\ now \in Timespec
  /\ holds \subseteq Threads /\ robbed \subseteq Threads
  /\ due \in [Threads -> Nat]

Init ==
  /\ mutex = FALSE /\ cond = FALSE /\ owner = NULL
  /\ pc = [t \in Threads |-> "idle"]
  /\ deadline = [t \in Threads |-> NULL]
  /\ outcome = [t \in Threads |-> "OK"]
  /\ now = [sec |-> 0, nsec |-> 0]
  /\ holds = {} /\ robbed = {}
  /\ due = [t \in Threads |-> 0]

Goto(t, p) == pc' = [pc EXCEPT ![t] = p]

(* What the caller learns from the code that its call returns. *)
ToldItHolds(t, code) ==
  IF code \in {SUCCESS, TIMEOUT}
  THEN holds' = holds \cup {t} /\ robbed' = robbed \ {t}
  ELSE UNCHANGED beliefs

ToldItReleased(t, code) ==
  /\ holds' = IF code = SUCCESS THEN holds \ {t} ELSE holds
  /\ UNCHANGED robbed

(* The caller's duty: no thread is inside a blocking call. *)
Alone == \A t \in Threads : pc[t] = "idle"

-----------------------------------------------------------------------------
(* sthread_mutex_*                                                          *)

(* When malloc or pthread_mutex_init fails the handle stays as it was.      *)
(* The caller's duty: the handle is not initialised.                        *)
MutexInit ==
  /\ Alone /\ ~mutex
  /\ mutex' = TRUE
  /\ UNCHANGED <<cond, owner, pc, waits, now, beliefs>>

(* Destroying a mutex that is held is answered EBUSY. *)
SyncMutexDestroy == MapError(IF owner = NULL THEN "OK" ELSE "EBUSY")

(* Also when the answer is BUSY the mutex is freed and the handle cleared.  *)
(* Only the destroyer sees the code: the holder learns nothing.             *)
MutexDestroy ==
  /\ Alone /\ mutex
  /\ mutex' = FALSE /\ owner' = NULL
  /\ robbed' = IF SyncMutexDestroy = BUSY THEN robbed \cup {owner} ELSE robbed
  /\ UNCHANGED <<cond, pc, waits, now, holds>>

Lock(t) ==
  /\ pc[t] = "idle" /\ mutex
  /\ Goto(t, "lock")
  /\ UNCHANGED <<objects, waits, now, beliefs>>

LockBlocksItself(t) ==
  /\ pc[t] = "lock" /\ owner = NULL
  /\ owner' = t
  /\ ToldItHolds(t, SUCCESS)
  /\ Goto(t, "idle")
  /\ UNCHANGED <<mutex, cond, waits, now>>

(* The codes of sync.c for what the error-checking mutex answers. *)
SyncMutexLock(t)    == MapError(IF owner = t THEN "EDEADLK" ELSE "OK")
SyncMutexTrylock(t) == MapError(IF owner = NULL THEN "OK" ELSE "EBUSY")
SyncMutexUnlock(t)  == MapError(IF owner = t THEN "OK" ELSE "EPERM")

LockReturn(t) ==
  /\ pc[t] = "lock" /\ owner \in {NULL, t}
  /\ owner' = t
  /\ ToldItHolds(t, SyncMutexLock(t))
  /\ Goto(t, "idle")
  /\ UNCHANGED <<mutex, cond, waits, now>>

Trylock(t) ==
  /\ pc[t] = "idle" /\ mutex
  /\ owner' = IF owner = NULL THEN t ELSE owner
  /\ ToldItHolds(t, SyncMutexTrylock(t))
  /\ UNCHANGED <<mutex, cond, pc, waits, now>>

UnlockUnchecked(t) ==
  /\ pc[t] = "idle" /\ mutex
  /\ owner' = NULL
  /\ ToldItReleased(t, SUCCESS)
  /\ UNCHANGED <<mutex, cond, pc, waits, now>>

Unlock(t) ==
  /\ pc[t] = "idle" /\ mutex
  /\ owner' = IF owner = t THEN NULL ELSE owner
  /\ ToldItReleased(t, SyncMutexUnlock(t))
  /\ UNCHANGED <<mutex, cond, pc, waits, now>>

-----------------------------------------------------------------------------
(* sthread_cond_*                                                           *)

CondInit ==
  /\ Alone /\ ~cond
  /\ cond' = TRUE
  /\ UNCHANGED <<mutex, owner, pc, waits, now, beliefs>>

CondDestroy ==
  /\ Alone /\ cond
  /\ cond' = FALSE
  /\ UNCHANGED <<mutex, owner, pc, waits, now, beliefs>>

(* pthread_cond_wait releases the mutex and blocks. *)
Sleep(t) ==
  /\ owner' = NULL
  /\ holds' = holds \ {t} /\ UNCHANGED robbed
  /\ Goto(t, "asleep")

CondWait(t) ==
  /\ pc[t] = "idle" /\ mutex /\ cond /\ owner = t
  /\ Sleep(t)
  /\ UNCHANGED <<mutex, cond, waits, now>>

(* The deadline is computed before pthread looks at the arguments. *)
TimedWait(t, ms) ==
  /\ pc[t] = "idle" /\ mutex /\ cond
  /\ Total(now) + ms * NsPerMs < MaxSec * NsPerSec
  /\ deadline' = [deadline EXCEPT ![t] = AbsTime(now, ms)]
  /\ due' = [due EXCEPT ![t] = Total(now) + ms * NsPerMs]
  /\ Goto(t, "timedwait")
  /\ UNCHANGED <<objects, outcome, now, beliefs>>

WaitIsOver(t) ==
  /\ Goto(t, "idle")
  /\ deadline' = [deadline EXCEPT ![t] = NULL]
  /\ outcome' = [outcome EXCEPT ![t] = "OK"]
  /\ due' = [due EXCEPT ![t] = 0]

TimedSleep(t) ==
  /\ pc[t] = "timedwait" /\ deadline[t] \in Timespec /\ owner = t
  /\ Sleep(t)
  /\ UNCHANGED <<mutex, cond, waits, now>>

(* EINVAL or EPERM *)
TimedWaitFails(t) ==
  /\ pc[t] = "timedwait"
  /\ deadline[t] \notin Timespec \/ owner # t
  /\ WaitIsOver(t)
  /\ UNCHANGED <<objects, now, beliefs>>

Timeout(t) ==
  /\ pc[t] = "asleep" /\ deadline[t] # NULL /\ Reached(deadline[t])
  /\ Goto(t, "relock")
  /\ outcome' = [outcome EXCEPT ![t] = "ETIMEDOUT"]
  /\ UNCHANGED <<objects, deadline, due, now, beliefs>>

(* POSIX lets a condition wait end without a signal. *)
SpuriousWakeup(t) ==
  /\ pc[t] = "asleep"
  /\ Goto(t, "relock")
  /\ UNCHANGED <<objects, waits, now, beliefs>>

CondSignal(t, u) ==
  /\ pc[t] = "idle" /\ cond /\ pc[u] = "asleep"
  /\ Goto(u, "relock")
  /\ UNCHANGED <<objects, waits, now, beliefs>>

CondBroadcast(t) ==
  /\ pc[t] = "idle" /\ cond
  /\ pc' = [u \in Threads |-> IF pc[u] = "asleep" THEN "relock" ELSE pc[u]]
  /\ UNCHANGED <<objects, waits, now, beliefs>>

SyncCondWait(t) == MapError(outcome[t])

(* The condition wait takes the mutex again and returns. *)
Relock(t) ==
  /\ pc[t] = "relock" /\ owner = NULL
  /\ owner' = t
  /\ ToldItHolds(t, SyncCondWait(t))
  /\ WaitIsOver(t)
  /\ UNCHANGED <<mutex, cond, now>>

-----------------------------------------------------------------------------
Call(t) ==
  \/ Lock(t) \/ Trylock(t) \/ Unlock(t) \/ CondWait(t)
  \/ \E ms \in Timeouts : TimedWait(t, ms)
  \/ \E u \in Threads : CondSignal(t, u)
  \/ CondBroadcast(t)

(* What pthread_mutex_lock and the condition waits do by themselves. *)
Progress(t) ==
  LockReturn(t) \/ TimedSleep(t) \/ TimedWaitFails(t) \/ Timeout(t) \/ Relock(t)

Next ==
  \/ MutexInit \/ MutexDestroy \/ CondInit \/ CondDestroy \/ Tick
  \/ \E t \in Threads : Call(t) \/ Progress(t) \/ SpuriousWakeup(t)

Spec == Init /\ [][Next]_vars

(***************************************************************************)
(* Time passes and threads inside a call run.  Nobody has to call.         *)
(***************************************************************************)
FairSpec ==
  Spec /\ WF_vars(Tick) /\ \A t \in Threads : WF_vars(Progress(t))
=============================================================================
