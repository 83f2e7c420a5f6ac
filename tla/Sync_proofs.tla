---------------------------- MODULE Sync_proofs -----------------------------
(***************************************************************************)
(* Proofs about Sync, for any threads, any timeouts and any fineness of    *)
(* the clock.  Inv is the inductive invariant: the types, Exclusion, and   *)
(* that a deadline is exactly the time at which its wait is due.           *)
(***************************************************************************)
EXTENDS SyncProps, TLAPS

(* The deadline of a timed wait is the time its caller asked for.          *)
DeadlineIsDue ==
  \A t \in Threads :
    /\ pc[t] = "timedwait" => deadline[t] \in Timespec
    /\ deadline[t] # NULL => Total(deadline[t]) = due[t]

Inv == TypeOK /\ Exclusion /\ DeadlineIsDue

USE SyncAssumption

-----------------------------------------------------------------------------
(* What map_pthread_error makes of the answers of the error-checking mutex *)
(* and of the condition waits.                                             *)
LEMMA Codes ==
  /\ MapError("OK") = SUCCESS
  /\ MapError("EBUSY") = BUSY
  /\ MapError("ETIMEDOUT") = TIMEOUT
  /\ MapError("EDEADLK") = SYSTEM
  /\ MapError("EPERM") = SYSTEM
<1>1. DOMAIN Mapped = {"OK", "ENOMEM", "EINVAL", "EBUSY", "ETIMEDOUT"}
  BY DEF Mapped
<1>2. /\ Mapped["OK"] = SUCCESS /\ Mapped["EBUSY"] = BUSY
      /\ Mapped["ETIMEDOUT"] = TIMEOUT
  BY DEF Mapped
<1> QED
  BY <1>1, <1>2 DEF MapError

LEMMA CodesDiffer ==
  {BUSY, SYSTEM} \cap {SUCCESS, TIMEOUT} = {}
BY DEF SUCCESS, BUSY, TIMEOUT, SYSTEM

LEMMA SecondsArePositive == NsPerSec \in Nat \ {0}
BY DEF NsPerSec

(* The milliseconds of a timeout are whole seconds and a rest of less than *)
(* one second.                                                             *)
LEMMA SecondsAndRest ==
  ASSUME NEW ms \in Nat
  PROVE  /\ ms \div MsPerSec \in Nat
         /\ (ms % MsPerSec) * NsPerMs \in 0..NsPerSec-1
         /\ ms * NsPerMs =
              (ms \div MsPerSec) * NsPerSec + (ms % MsPerSec) * NsPerMs
<1> DEFINE q == ms \div MsPerSec
           r == ms % MsPerSec
<1>1. q \in Nat /\ r \in 0..MsPerSec-1 /\ ms = q * MsPerSec + r
  BY SMT
<1> HIDE DEF q, r
<1>2. r * NsPerMs \in Nat /\ r * NsPerMs <= (MsPerSec - 1) * NsPerMs
  BY <1>1, SMT
<1>3. (MsPerSec - 1) * NsPerMs <= MsPerSec * NsPerMs - 1
  BY SMT
<1>4. ms * NsPerMs = (q * MsPerSec + r) * NsPerMs
  BY <1>1
<1>5. (q * MsPerSec + r) * NsPerMs = q * (MsPerSec * NsPerMs) + r * NsPerMs
  BY <1>1, SMT
<1>6. (MsPerSec - 1) * NsPerMs \in Int /\ MsPerSec * NsPerMs \in Int
  BY SMT
<1>7. r * NsPerMs \in 0..(MsPerSec * NsPerMs)-1
  BY <1>2, <1>3, <1>6
<1> QED
  BY <1>1, <1>4, <1>5, <1>7 DEF q, r, NsPerSec

(* platform_get_abstime, for any time and timeout: the nanoseconds are     *)
(* below one second and not a nanosecond is lost or gained.                *)
THEOREM DeadlineExact ==
  ASSUME NEW ts \in Timespec, NEW ms \in Nat
  PROVE  /\ AbsTime(ts, ms) \in Timespec
         /\ Total(AbsTime(ts, ms)) = Total(ts) + ms * NsPerMs
<1>1. PICK q \in Nat, n \in 0..NsPerSec-1 :
        /\ Sec(ts, ms) = ts.sec + q /\ Nsec(ts, ms) = ts.nsec + n
        /\ ms * NsPerMs = q * NsPerSec + n
  BY SecondsAndRest DEF Sec, Nsec
<1>2. Sec(ts, ms) = ts.sec + q /\ Nsec(ts, ms) = ts.nsec + n
  BY <1>1
<1>3. NsPerSec \in Nat /\ ts.sec \in Nat /\ ts.nsec \in 0..NsPerSec-1
  BY SecondsArePositive DEF Timespec
<1>4. /\ (ts.sec + q) * NsPerSec = ts.sec * NsPerSec + q * NsPerSec
      /\ (ts.sec + q + 1) * NsPerSec = ts.sec * NsPerSec + q * NsPerSec + NsPerSec
  BY <1>1, <1>3, SMT
<1>5. ts.sec * NsPerSec \in Int /\ q * NsPerSec \in Int
  BY <1>1, <1>3
<1>6. CASE Nsec(ts, ms) >= NsPerSec
  <2>1. AbsTime(ts, ms) = [sec |-> ts.sec + q + 1, nsec |-> (ts.nsec + n) - NsPerSec]
    BY <1>2, <1>6 DEF AbsTime
  <2>2. AbsTime(ts, ms) \in Timespec
    BY <2>1, <1>1, <1>3, <1>6 DEF Timespec
  <2>3. Total(AbsTime(ts, ms)) = (ts.sec + q + 1) * NsPerSec + ((ts.nsec + n) - NsPerSec)
    BY <2>1 DEF Total
  <2> QED
    BY <2>2, <2>3, <1>1, <1>3, <1>4, <1>5 DEF Total
<1>7. CASE ~(Nsec(ts, ms) >= NsPerSec)
  <2>1. AbsTime(ts, ms) = [sec |-> ts.sec + q, nsec |-> ts.nsec + n]
    BY <1>2, <1>7 DEF AbsTime
  <2>2. AbsTime(ts, ms) \in Timespec
    BY <2>1, <1>1, <1>3, <1>7 DEF Timespec
  <2>3. Total(AbsTime(ts, ms)) = (ts.sec + q) * NsPerSec + (ts.nsec + n)
    BY <2>1 DEF Total
  <2> QED
    BY <2>2, <2>3, <1>1, <1>3, <1>4, <1>5 DEF Total
<1> QED
  BY <1>6, <1>7

(* A deadline is reached when the clock has counted its nanoseconds.       *)
LEMMA ReachedInTotal ==
  ASSUME NEW ts \in Timespec, now \in Timespec, Reached(ts)
  PROVE  Total(ts) <= Total(now)
<1>1. /\ NsPerSec \in Nat
      /\ ts.sec \in Nat /\ ts.nsec \in 0..NsPerSec-1
      /\ now.sec \in Nat /\ now.nsec \in 0..NsPerSec-1
  BY SecondsArePositive DEF Timespec
<1>2. CASE ts.sec < now.sec
  <2>1. (ts.sec + 1) * NsPerSec <= now.sec * NsPerSec
    BY <1>1, <1>2, SMT
  <2>2. (ts.sec + 1) * NsPerSec = ts.sec * NsPerSec + NsPerSec
    BY <1>1, SMT
  <2>3. ts.sec * NsPerSec \in Int /\ now.sec * NsPerSec \in Int
    BY <1>1
  <2> QED
    BY <2>1, <2>2, <2>3, <1>1 DEF Total
<1>3. CASE ts.sec = now.sec /\ ts.nsec <= now.nsec
  <2>1. ts.sec * NsPerSec \in Int
    BY <1>1
  <2> QED
    BY <2>1, <1>1, <1>3 DEF Total
<1> QED
  BY <1>2, <1>3 DEF Reached

LEMMA TotalIsNat == ASSUME NEW ts \in Timespec PROVE Total(ts) \in Nat
<1>1. NsPerSec \in Nat /\ ts.sec \in Nat /\ ts.nsec \in Nat
  BY SecondsArePositive DEF Timespec
<1>2. ts.sec * NsPerSec \in Nat
  BY <1>1, SMT
<1> QED
  BY <1>1, <1>2 DEF Total

(* The clock stays a clock.                                                *)
LEMMA TickTyped == ASSUME TypeOK, Tick PROVE now' \in Timespec
<1>1. /\ NsPerSec \in Nat /\ Granule \in 1..NsPerSec
      /\ now.sec \in Nat /\ now.nsec \in 0..NsPerSec-1
      /\ now = [sec |-> now.sec, nsec |-> now.nsec]
  BY SecondsArePositive DEF TypeOK, Timespec, NsPerSec
<1>2. CASE now' = now
  BY <1>2 DEF TypeOK
<1>3. CASE now.nsec + Granule < NsPerSec /\ now' = [now EXCEPT !.nsec = @ + Granule]
  <2>1. now' = [sec |-> now.sec, nsec |-> now.nsec + Granule]
    BY <1>1, <1>3
  <2> QED
    BY <2>1, <1>1, <1>3 DEF Timespec
<1>4. CASE ~(now.nsec + Granule < NsPerSec)
           /\ now' = [sec |-> now.sec + 1, nsec |-> now.nsec + Granule - NsPerSec]
  BY <1>1, <1>4 DEF Timespec
<1> QED
  BY <1>2, <1>3, <1>4 DEF Tick
-----------------------------------------------------------------------------
(* The invariant holds at the start and every step keeps it.               *)
LEMMA InvInit == Init => Inv
<1> SUFFICES ASSUME Init PROVE Inv
  OBVIOUS
<1>1. [sec |-> 0, nsec |-> 0] \in Timespec
  BY SecondsArePositive DEF Timespec
<1>2. TypeOK
  BY <1>1 DEF Init, TypeOK
<1>3. Exclusion
  BY DEF Init, Exclusion
<1>4. DeadlineIsDue
  BY DEF Init, DeadlineIsDue
<1> QED
  BY <1>2, <1>3, <1>4 DEF Inv

(* A timed wait notes a deadline and the same time as due.                 *)
LEMMA TimedWaitNotes ==
  ASSUME TypeOK, NEW t \in Threads, NEW ms \in Timeouts, TimedWait(t, ms)
  PROVE  /\ deadline'[t] \in Timespec /\ Total(deadline'[t]) = due'[t]
         /\ due'[t] \in Nat
         /\ \A u \in Threads \ {t} :
              deadline'[u] = deadline[u] /\ due'[u] = due[u]
         /\ deadline' \in [Threads -> Timespec \cup {NULL}]
         /\ due' \in [Threads -> Nat]
<1>1. ms \in Nat /\ now \in Timespec
  BY DEF TypeOK
<1>2. /\ AbsTime(now, ms) \in Timespec
      /\ Total(AbsTime(now, ms)) = Total(now) + ms * NsPerMs
  BY <1>1, DeadlineExact
<1>3. Total(now) + ms * NsPerMs \in Nat
  <2>1. ms * NsPerMs \in Nat
    BY <1>1, SMT
  <2> QED
    BY <2>1, <1>1, TotalIsNat
<1>4. /\ deadline' = [deadline EXCEPT ![t] = AbsTime(now, ms)]
      /\ due' = [due EXCEPT ![t] = Total(now) + ms * NsPerMs]
  BY DEF TimedWait
<1> QED
  BY <1>2, <1>3, <1>4 DEF TypeOK

LEMMA TypeStep == ASSUME TypeOK, [Next]_vars PROVE TypeOK'
<1>1. CASE UNCHANGED vars
  BY <1>1 DEF vars, objects, waits, beliefs, TypeOK
<1>2. CASE MutexInit \/ CondInit \/ CondDestroy
  BY <1>2 DEF MutexInit, CondInit, CondDestroy, waits, beliefs, TypeOK
<1>3. CASE MutexDestroy
  <2>1. SyncMutexDestroy = BUSY => owner \in Threads
    BY Codes, CodesDiffer DEF SyncMutexDestroy, TypeOK
  <2> QED
    BY <1>3, <2>1 DEF MutexDestroy, waits, TypeOK
<1>4. CASE Tick
  BY <1>4, TickTyped DEF Tick, objects, waits, beliefs, TypeOK
<1>5. ASSUME NEW t \in Threads, Lock(t) \/ Trylock(t) \/ Unlock(t) PROVE TypeOK'
  BY <1>5 DEF Lock, Trylock, Unlock, Goto, ToldItHolds, ToldItReleased,
              objects, waits, beliefs, TypeOK
<1>6. ASSUME NEW t \in Threads, LockReturn(t) PROVE TypeOK'
  BY <1>6 DEF LockReturn, Goto, ToldItHolds, waits, beliefs, TypeOK
<1>7. ASSUME NEW t \in Threads, CondWait(t) \/ TimedSleep(t) PROVE TypeOK'
  BY <1>7 DEF CondWait, TimedSleep, Sleep, Goto, waits, TypeOK
<1>8. ASSUME NEW t \in Threads, NEW ms \in Timeouts, TimedWait(t, ms) PROVE TypeOK'
  BY <1>8, TimedWaitNotes DEF TimedWait, Goto, objects, beliefs, TypeOK
<1>9. ASSUME NEW t \in Threads, TimedWaitFails(t) \/ Relock(t) PROVE TypeOK'
  BY <1>9 DEF TimedWaitFails, Relock, WaitIsOver, ToldItHolds, Goto, objects,
              beliefs, TypeOK
<1>10. ASSUME NEW t \in Threads, Timeout(t) \/ SpuriousWakeup(t) PROVE TypeOK'
  BY <1>10 DEF Timeout, SpuriousWakeup, Goto, objects, waits, beliefs, TypeOK
<1>11. ASSUME NEW t \in Threads, NEW u \in Threads, CondSignal(t, u) PROVE TypeOK'
  BY <1>11 DEF CondSignal, Goto, objects, waits, beliefs, TypeOK
<1>12. ASSUME NEW t \in Threads, CondBroadcast(t) PROVE TypeOK'
  BY <1>12 DEF CondBroadcast, objects, waits, beliefs, TypeOK
<1> QED
  BY <1>1, <1>2, <1>3, <1>4, <1>5, <1>6, <1>7, <1>8, <1>9, <1>10, <1>11,
     <1>12 DEF Next, Call, Progress

LEMMA ExclusionStep == ASSUME TypeOK, Exclusion, [Next]_vars PROVE Exclusion'
<1>1. CASE UNCHANGED <<owner, beliefs>>
  BY <1>1 DEF beliefs, Exclusion
<1>2. CASE MutexDestroy
  <2>1. CASE owner = NULL
    BY <1>2, <2>1, Codes, CodesDiffer DEF MutexDestroy, SyncMutexDestroy, Exclusion
  <2>2. CASE owner # NULL
    <3>1. holds' = holds /\ robbed' = robbed \cup {owner} /\ owner' = NULL
      BY <1>2, <2>2, Codes DEF MutexDestroy, SyncMutexDestroy
    <3>2. holds \ robbed = {owner}
      BY <2>2 DEF Exclusion
    <3> QED
      BY <3>1, <3>2 DEF Exclusion
  <2> QED
    BY <2>1, <2>2
<1>3. ASSUME NEW t \in Threads, LockReturn(t) PROVE Exclusion'
  <2>1. CASE owner = t
    BY <1>3, <2>1, Codes, CodesDiffer
       DEF LockReturn, SyncMutexLock, ToldItHolds, beliefs, Exclusion
  <2>2. CASE owner = NULL
    BY <1>3, <2>2, Codes DEF LockReturn, SyncMutexLock, ToldItHolds, Exclusion
  <2> QED
    BY <1>3, <2>1, <2>2 DEF LockReturn
<1>4. ASSUME NEW t \in Threads, Trylock(t) PROVE Exclusion'
  BY <1>4, Codes, CodesDiffer
     DEF Trylock, SyncMutexTrylock, ToldItHolds, beliefs, Exclusion
<1>5. ASSUME NEW t \in Threads, Unlock(t) PROVE Exclusion'
  BY <1>5, Codes, CodesDiffer DEF Unlock, SyncMutexUnlock, ToldItReleased, Exclusion
<1>6. ASSUME NEW t \in Threads, CondWait(t) \/ TimedSleep(t) PROVE Exclusion'
  BY <1>6 DEF CondWait, TimedSleep, Sleep, Exclusion
<1>7. ASSUME NEW t \in Threads, Relock(t) PROVE Exclusion'
  <2>1. SyncCondWait(t) \in {SUCCESS, TIMEOUT}
    BY Codes DEF SyncCondWait, TypeOK
  <2> QED
    BY <1>7, <2>1 DEF Relock, ToldItHolds, Exclusion
<1>8. CASE MutexInit \/ CondInit \/ CondDestroy \/ Tick
  BY <1>1, <1>8 DEF MutexInit, CondInit, CondDestroy, Tick, objects
<1>9. ASSUME NEW t \in Threads,
             \/ Lock(t) \/ TimedWaitFails(t) \/ Timeout(t) \/ SpuriousWakeup(t)
             \/ CondBroadcast(t)
             \/ \E ms \in Timeouts : TimedWait(t, ms)
             \/ \E u \in Threads : CondSignal(t, u)
      PROVE  Exclusion'
  BY <1>1, <1>9 DEF Lock, TimedWaitFails, Timeout, SpuriousWakeup, CondBroadcast,
                    TimedWait, CondSignal, objects
<1>10. CASE UNCHANGED vars
  BY <1>1, <1>10 DEF vars, objects
<1> QED
  BY <1>2, <1>3, <1>4, <1>5, <1>6, <1>7, <1>8, <1>9, <1>10 DEF Next, Call, Progress

(* A step leaves a thread in a timed wait that has not begun to sleep where *)
(* it is, except that the wait begins.                                      *)
LEMMA DeadlineStep ==
  ASSUME TypeOK, DeadlineIsDue, [Next]_vars PROVE DeadlineIsDue'
<1>1. CASE /\ UNCHANGED <<deadline, due>>
           /\ \A t \in Threads : pc'[t] = "timedwait" => pc[t] = "timedwait"
  BY <1>1 DEF DeadlineIsDue, Total
<1>2. ASSUME NEW t \in Threads, NEW ms \in Timeouts, TimedWait(t, ms)
      PROVE  DeadlineIsDue'
  <2>1. \A u \in Threads \ {t} : pc'[u] = pc[u]
    BY <1>2 DEF TimedWait, Goto, TypeOK
  <2> QED
    BY <1>2, <2>1, TimedWaitNotes DEF DeadlineIsDue, Total
<1>3. ASSUME NEW t \in Threads, TimedWaitFails(t) \/ Relock(t) PROVE DeadlineIsDue'
  <2>1. /\ deadline'[t] = NULL /\ pc'[t] = "idle"
        /\ \A u \in Threads \ {t} :
             pc'[u] = pc[u] /\ deadline'[u] = deadline[u] /\ due'[u] = due[u]
    BY <1>3 DEF TimedWaitFails, Relock, WaitIsOver, Goto, TypeOK
  <2> QED
    BY <2>1 DEF DeadlineIsDue, Total
<1>4. CASE UNCHANGED vars \/ MutexInit \/ MutexDestroy \/ CondInit \/ CondDestroy
           \/ Tick
  BY <1>1, <1>4 DEF vars, MutexInit, MutexDestroy, CondInit, CondDestroy, Tick, waits
<1>5. ASSUME NEW t \in Threads,
             \/ Lock(t) \/ Trylock(t) \/ Unlock(t) \/ CondWait(t) \/ CondBroadcast(t)
             \/ \E u \in Threads : CondSignal(t, u)
      PROVE  DeadlineIsDue'
  BY <1>1, <1>5 DEF Lock, Trylock, Unlock, CondWait, CondBroadcast, CondSignal, Sleep,
                    Goto, waits, TypeOK
<1>6. ASSUME NEW t \in Threads,
             LockReturn(t) \/ TimedSleep(t) \/ Timeout(t) \/ SpuriousWakeup(t)
      PROVE  DeadlineIsDue'
  BY <1>1, <1>6 DEF LockReturn, TimedSleep, Timeout, SpuriousWakeup, Sleep, Goto,
                    waits, TypeOK
<1> QED
  BY <1>2, <1>3, <1>4, <1>5, <1>6 DEF Next, Call, Progress

LEMMA Invariance == Spec => []Inv
<1>1. Inv /\ [Next]_vars => Inv'
  BY TypeStep, ExclusionStep, DeadlineStep DEF Inv
<1> QED
  BY InvInit, <1>1, PTL DEF Spec

(* Every variable keeps its type; in particular the nanoseconds of a        *)
(* deadline stay below one second.                                          *)
THEOREM TypeCorrect == Spec => []TypeOK
<1>1. Inv => TypeOK
  BY DEF Inv
<1> QED
  BY Invariance, <1>1, PTL

(* The codes of sync.c tell every thread whether it holds the mutex, unless *)
(* the mutex is destroyed while it does; and they never tell two others so. *)
THEOREM MutualExclusion == Spec => []Exclusion
<1>1. Inv => Exclusion
  BY DEF Inv
<1> QED
  BY Invariance, <1>1, PTL

(* A program that destroys no mutex while it is held (sthread.c:121-125)    *)
(* never has two threads in the critical sections of one handle.            *)
THEOREM OneHolderUnlessRobbed == Spec => [](robbed = {} => OneHolder)
<1>1. Inv => (robbed = {} => OneHolder)
  <2> SUFFICES ASSUME Exclusion, robbed = {} PROVE OneHolder
    BY DEF Inv
  <2>1. holds = IF owner = NULL THEN {} ELSE {owner}
    BY DEF Exclusion
  <2> QED
    BY <2>1 DEF OneHolder
<1> QED
  BY Invariance, <1>1, PTL

(* Only its own code moves a thread that is about to sleep in a timed wait. *)
LEMMA AboutToSleep ==
  ASSUME Inv, [Next]_vars, NEW t \in Threads, pc[t] = "timedwait", owner = t
  PROVE  pc'[t] \in {"timedwait", "asleep"}
<1>1. CASE UNCHANGED pc
  BY <1>1
<1>2. deadline[t] \in Timespec
  BY DEF Inv, DeadlineIsDue
<1>3. ASSUME NEW u \in Threads, u # t, NEW p, Goto(u, p) PROVE pc'[t] = pc[t]
  BY <1>3 DEF Goto, Inv, TypeOK
<1>4. CASE MutexInit \/ MutexDestroy \/ CondInit \/ CondDestroy \/ Tick \/ UNCHANGED vars
  BY <1>4 DEF MutexInit, MutexDestroy, CondInit, CondDestroy, Tick, vars
<1>5. ASSUME NEW u \in Threads,
             \/ Lock(u) \/ Trylock(u) \/ Unlock(u) \/ CondWait(u)
             \/ \E ms \in Timeouts : TimedWait(u, ms)
      PROVE  pc'[t] = pc[t]
  BY <1>3, <1>5 DEF Lock, Trylock, Unlock, CondWait, TimedWait, Sleep
<1>6. ASSUME NEW u \in Threads, LockReturn(u) \/ Timeout(u) \/ Relock(u) \/ SpuriousWakeup(u)
      PROVE  pc'[t] = pc[t]
  BY <1>3, <1>6 DEF LockReturn, Timeout, Relock, SpuriousWakeup, WaitIsOver
<1>7. ASSUME NEW u \in Threads, TimedSleep(u)
      PROVE  pc'[t] \in {"timedwait", "asleep"}
  <2>1. CASE u = t
    BY <1>7, <2>1 DEF TimedSleep, Sleep, Goto, Inv, TypeOK
  <2> QED
    BY <2>1, <1>3, <1>7 DEF TimedSleep, Sleep
<1>8. ASSUME NEW u \in Threads, TimedWaitFails(u) PROVE pc'[t] = pc[t]
  BY <1>2, <1>3, <1>8 DEF TimedWaitFails, WaitIsOver
<1>9. ASSUME NEW u \in Threads, CondBroadcast(u) PROVE pc'[t] = pc[t]
  BY <1>9 DEF CondBroadcast
<1>10. ASSUME NEW u \in Threads, NEW v \in Threads, CondSignal(u, v)
       PROVE  pc'[t] = pc[t]
  BY <1>3, <1>10 DEF CondSignal
<1> QED
  BY <1>4, <1>5, <1>6, <1>7, <1>8, <1>9, <1>10 DEF Next, Call, Progress

LEMMA OnlyTimeoutTimesOut ==
  ASSUME Inv, [Next]_vars, NEW t \in Threads,
         outcome'[t] # outcome[t], outcome'[t] = "ETIMEDOUT"
  PROVE  Timeout(t)
<1>1. ASSUME UNCHANGED outcome PROVE FALSE
  BY <1>1
<1>2. ASSUME NEW u \in Threads, WaitIsOver(u) PROVE FALSE
  BY <1>2 DEF WaitIsOver, Inv, TypeOK
<1>3. ASSUME NEW u \in Threads, Timeout(u) PROVE Timeout(t)
  BY <1>3 DEF Timeout, Inv, TypeOK
<1>4. ~(MutexInit \/ MutexDestroy \/ CondInit \/ CondDestroy \/ Tick \/ UNCHANGED vars)
  BY <1>1 DEF MutexInit, MutexDestroy, CondInit, CondDestroy, Tick, vars, waits
<1>5. ASSUME NEW u \in Threads, Call(u) PROVE FALSE
  BY <1>1, <1>5 DEF Call, Lock, Trylock, Unlock, CondWait, TimedWait, CondSignal,
                    CondBroadcast, waits
<1>6. ASSUME NEW u \in Threads, LockReturn(u) \/ TimedSleep(u) \/ SpuriousWakeup(u)
      PROVE  FALSE
  BY <1>1, <1>6 DEF LockReturn, TimedSleep, SpuriousWakeup, waits
<1>7. ASSUME NEW u \in Threads, TimedWaitFails(u) \/ Relock(u) PROVE FALSE
  BY <1>2, <1>7 DEF TimedWaitFails, Relock
<1> QED
  BY <1>3, <1>4, <1>5, <1>6, <1>7 DEF Next, Progress

(* A holder's timed wait is accepted and lasts its timeout_ms, whatever the *)
(* clock and the timeout are.                                               *)
THEOREM TimedWaitInFull == Spec => TimedWaitNotCutShort
<1>1. ASSUME Inv, [Next]_vars, NEW t \in Threads,
             outcome'[t] # outcome[t], outcome'[t] = "ETIMEDOUT"
      PROVE  due[t] <= Total(now)
  <2>1. Timeout(t)
    BY <1>1, OnlyTimeoutTimesOut
  <2>2. deadline[t] \in Timespec /\ Total(deadline[t]) = due[t] /\ now \in Timespec
    BY <1>1, <2>1 DEF Timeout, Inv, TypeOK, DeadlineIsDue
  <2> QED
    BY <2>1, <2>2, ReachedInTotal DEF Timeout
<1>2. Inv /\ [Next]_vars =>
        [\A t \in Threads :
           /\ pc[t] = "timedwait" /\ owner = t => pc'[t] \in {"timedwait", "asleep"}
           /\ outcome'[t] # outcome[t] /\ outcome'[t] = "ETIMEDOUT"
                => due[t] <= Total(now)]_vars
  BY <1>1, AboutToSleep
<1> QED
  BY Invariance, <1>2, PTL DEF Spec, TimedWaitNotCutShort
=============================================================================
