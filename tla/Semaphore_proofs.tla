-------------------------- MODULE Semaphore_proofs --------------------------
(***************************************************************************)
(* Proofs about Semaphore, for every finite set of threads, every width of *)
(* the counter and every bound on the permits.  Control speaks of types    *)
(* and of the mutex; NoLostPost is inductive on top of it.                 *)
(***************************************************************************)
EXTENDS SemaphoreProps, FiniteSetTheorems, TLAPS

Control == TypeOK /\ LockDiscipline

USE SemaphoreAssumption

-----------------------------------------------------------------------------
(* Word - 1 values, and the counter stays among them.                      *)
LEMMA CounterWraps ==
  /\ 0 \in Counts
  /\ \A n \in Counts : (n + 1) % Word \in Counts /\ (n + 1) % Word <= n + 1
  /\ \A n \in Counts : n # 0 => (n - 1) % Word = n - 1 /\ n - 1 \in Counts
  /\ \A n \in Counts : AsInt(n) \in -Word..Word-1
<1>1. 0 \in Counts
  BY DEF Counts
<1>2. ASSUME NEW n \in Counts
      PROVE  (n + 1) % Word \in Counts /\ (n + 1) % Word <= n + 1
  BY DEF Counts
<1>3. ASSUME NEW n \in Counts, n # 0
      PROVE  (n - 1) % Word = n - 1 /\ n - 1 \in Counts
  <2>1. n - 1 \in Counts
    BY <1>3 DEF Counts
  <2>2. \A m \in Counts : m % Word = m
    BY DEF Counts
  <2> QED
    BY <2>1, <2>2
<1>4. ASSUME NEW n \in Counts PROVE AsInt(n) \in -Word..Word-1
  BY DEF Counts, AsInt
<1> QED
  BY <1>1, <1>2, <1>3, <1>4

(* Taking the mutex leads to a place where it is held.                     *)
LEMMA HeldIsHeld ==
  ASSUME NEW p \in DOMAIN Held
  PROVE  /\ Held[p] \in HeldPCs
         /\ p \in PCs \ HeldPCs
         /\ p \in {"woken", "wait_lock"} => Held[p] = "wait_held"
BY DEF Held, HeldPCs, PCs

LEMMA PlacesArePlaces ==
  /\ HeldPCs \cup Entries \subseteq PCs
  /\ {"idle", "asleep", "woken", "returned"} \subseteq PCs
  /\ HeldPCs \cap {"idle", "asleep", "woken", "returned"} = {}
  /\ HeldPCs \cap Entries = {}
BY DEF PCs, HeldPCs, Entries, Held

(* A step that moves thread t to p and wakes the threads in woken.         *)
LEMMA LockHandling ==
  ASSUME Control, NEW t \in Threads, NEW p \in PCs,
         NEW woken \in SUBSET At("asleep"),
         pc' = [u \in Threads |-> IF u = t THEN p
                                  ELSE IF u \in woken THEN "woken" ELSE pc[u]],
         \/ lock' = lock /\ (pc[t] \in HeldPCs <=> p \in HeldPCs)
         \/ lock = NULL /\ lock' = t /\ p \in HeldPCs
         \/ pc[t] \in HeldPCs /\ lock' = NULL /\ p \notin HeldPCs
  PROVE  /\ LockDiscipline'
         /\ lock' \in Threads \cup {NULL}
         /\ pc' \in [Threads -> PCs]
BY PlacesArePlaces DEF Control, TypeOK, LockDiscipline, At

LEMMA GotoHandling ==
  ASSUME Control, NEW t \in Threads, NEW p \in PCs, Goto(t, p),
         \/ lock' = lock /\ (pc[t] \in HeldPCs <=> p \in HeldPCs)
         \/ lock = NULL /\ lock' = t /\ p \in HeldPCs
         \/ pc[t] \in HeldPCs /\ lock' = NULL /\ p \notin HeldPCs
  PROVE  /\ LockDiscipline'
         /\ lock' \in Threads \cup {NULL}
         /\ pc' \in [Threads -> PCs]
<1>1. pc' = [u \in Threads |-> IF u = t THEN p
                               ELSE IF u \in {} THEN "woken" ELSE pc[u]]
  BY DEF Goto, Control, TypeOK
<1>2. {} \in SUBSET At("asleep")
  OBVIOUS
<1> HIDE DEF Goto
<1>3. QED
  BY <1>1, <1>2, LockHandling

(* What a call can yield.                                                  *)
LEMMA YieldTyped ==
  ASSUME TypeOK, NEW t \in Threads,
         NEW r \in {SUCCESS, NOMEM, INVALID, BUSY, SYSTEM},
         NEW v \in -Word..Word-1, Yield(t, r, v)
  PROVE  result' \in [Threads ->
           [ret : {SUCCESS, NOMEM, INVALID, BUSY, SYSTEM}, val : -Word..Word-1]]
BY DEF TypeOK, Yield

LEMMA ZeroIsInt == 0 \in -Word..Word-1
OBVIOUS

LEMMA ControlInit == Init => Control
<1>1. Init => TypeOK
  <2>1. NoResult \in [ret : {SUCCESS, NOMEM, INVALID, BUSY, SYSTEM},
                      val : -Word..Word-1]
    BY ZeroIsInt DEF NoResult
  <2> QED
    BY <2>1, CounterWraps, PlacesArePlaces DEF Init, TypeOK
<1>2. Init => LockDiscipline
  BY PlacesArePlaces DEF Init, LockDiscipline
<1> QED
  BY <1>1, <1>2 DEF Control

-----------------------------------------------------------------------------
(* Every step keeps the types and the mutex.                               *)
LEMMA ControlStep == Control /\ [Next]_vars => Control'
<1> SUFFICES ASSUME Control, [Next]_vars PROVE Control'
  OBVIOUS
<1> USE PlacesArePlaces, ZeroIsInt
<1>a. TypeOK /\ LockDiscipline
  BY DEF Control
<1>1. CASE UNCHANGED vars
  BY <1>1, <1>a DEF vars, Control, TypeOK, LockDiscipline
<1>2. ASSUME NEW t \in Threads, Acquire(t) PROVE Control'
  <2>1. /\ Held[pc[t]] \in PCs
        /\ Held[pc[t]] \in HeldPCs
        /\ Goto(t, Held[pc[t]])
        /\ lock = NULL /\ lock' = t
    BY <1>2, HeldIsHeld DEF Acquire
  <2>2. LockDiscipline' /\ lock' \in Threads \cup {NULL} /\ pc' \in [Threads -> PCs]
    BY <2>1, GotoHandling
  <2> QED
    BY <1>2, <1>a, <2>2 DEF Acquire, Control, TypeOK
<1>3. ASSUME NEW t \in Threads, SpuriousWakeup(t) PROVE Control'
  <2>1. LockDiscipline' /\ lock' \in Threads \cup {NULL} /\ pc' \in [Threads -> PCs]
    BY <1>3, GotoHandling DEF SpuriousWakeup
  <2> QED
    BY <1>3, <1>a, <2>1 DEF SpuriousWakeup, Control, TypeOK
<1>4. ASSUME NEW t \in Threads, SemInit(t) PROVE Control'
  <2>1. LockDiscipline' /\ lock' \in Threads \cup {NULL} /\ pc' \in [Threads -> PCs]
    BY <1>4, GotoHandling DEF SemInit, Alone
  <2>2. CASE \E v \in {n \in Counts : n <= Permits} : SyncInit(t, v)
    <3>1. Yield(t, SUCCESS, 0) /\ count' \in Counts /\ internal' = TRUE
      BY <2>2 DEF SyncInit
    <3> QED
      BY <2>1, <3>1, <1>a, YieldTyped DEF Control, TypeOK
  <2>3. CASE SyncInitFails(t)
    <3>1. PICK err \in {"ENOMEM", "EAGAIN"} : Yield(t, MapError(err), 0)
      BY <2>3 DEF SyncInitFails
    <3>2. MapError(err) \in {SUCCESS, NOMEM, INVALID, BUSY, SYSTEM}
      BY DEF MapError, Mapped
    <3>3. UNCHANGED <<count, internal>>
      BY <2>3 DEF SyncInitFails
    <3>4. result' \in [Threads ->
           [ret : {SUCCESS, NOMEM, INVALID, BUSY, SYSTEM}, val : -Word..Word-1]]
      BY <3>1, <3>2, <1>a, YieldTyped
    <3> QED
      BY <2>1, <3>3, <3>4, <1>a DEF Control, TypeOK
  <2> QED
    BY <1>4, <2>2, <2>3 DEF SemInit
<1>5. ASSUME NEW t \in Threads, SemDestroy(t) PROVE Control'
  <2>1. LockDiscipline' /\ lock' \in Threads \cup {NULL} /\ pc' \in [Threads -> PCs]
    BY <1>5, GotoHandling DEF SemDestroy, SyncDestroy, Alone
  <2> QED
    BY <1>5, <1>a, <2>1, CounterWraps, YieldTyped DEF SemDestroy, SyncDestroy, Control, TypeOK
<1>6. ASSUME NEW t \in Threads, Call(t) PROVE Control'
  <2>1. LockDiscipline' /\ lock' \in Threads \cup {NULL} /\ pc' \in [Threads -> PCs]
    BY <1>6, GotoHandling DEF Call
  <2> QED
    BY <1>6, <1>a, <2>1 DEF Call, Control, TypeOK
<1>7. ASSUME NEW t \in Threads, CallInvalid(t) PROVE Control'
  <2>1. LockDiscipline' /\ lock' \in Threads \cup {NULL} /\ pc' \in [Threads -> PCs]
    BY <1>7, GotoHandling DEF CallInvalid
  <2> QED
    BY <1>7, <1>a, <2>1, YieldTyped DEF CallInvalid, Control, TypeOK
<1>8. ASSUME NEW t \in Threads, WaitSleep(t) PROVE Control'
  <2>1. LockDiscipline' /\ lock' \in Threads \cup {NULL} /\ pc' \in [Threads -> PCs]
    BY <1>8, GotoHandling DEF WaitSleep, HeldPCs
  <2> QED
    BY <1>8, <1>a, <2>1 DEF WaitSleep, Control, TypeOK
<1>9. ASSUME NEW t \in Threads, Take(t) PROVE Control'
  <2>1. LockDiscipline' /\ lock' \in Threads \cup {NULL} /\ pc' \in [Threads -> PCs]
    BY <1>9, GotoHandling DEF Take, MayTake, UnlockAndReturn, HeldPCs
  <2>2. count' \in Counts
    BY <1>9, <1>a, CounterWraps DEF Take, MayTake, TypeOK
  <2> QED
    BY <1>9, <1>a, <2>1, <2>2, YieldTyped
    DEF Take, UnlockAndReturn, Control, TypeOK
<1>10. ASSUME NEW t \in Threads, TryBusy(t) PROVE Control'
  <2>1. LockDiscipline' /\ lock' \in Threads \cup {NULL} /\ pc' \in [Threads -> PCs]
    BY <1>10, GotoHandling DEF TryBusy, UnlockAndReturn, HeldPCs
  <2> QED
    BY <1>10, <1>a, <2>1, YieldTyped DEF TryBusy, UnlockAndReturn, Control, TypeOK
<1>11. ASSUME NEW t \in Threads, Post(t) PROVE Control'
  <2>1. LockDiscipline' /\ lock' \in Threads \cup {NULL} /\ pc' \in [Threads -> PCs]
    <3>1. PICK woken \in WakeOne :
            pc' = [u \in Threads |-> IF u = t THEN "returned"
                                     ELSE IF u \in woken THEN "woken" ELSE pc[u]]
      BY <1>11 DEF Post, Signal
    <3>2. woken \in SUBSET At("asleep")
      BY DEF WakeOne
    <3> QED
      BY <1>11, <3>1, <3>2, LockHandling DEF Post, HeldPCs
  <2>2. count' \in Counts
    BY <1>11, <1>a, CounterWraps DEF Post, TypeOK
  <2> QED
    BY <1>11, <1>a, <2>1, <2>2, YieldTyped DEF Post, Control, TypeOK
<1>12. ASSUME NEW t \in Threads, GetValue(t) PROVE Control'
  <2>1. LockDiscipline' /\ lock' \in Threads \cup {NULL} /\ pc' \in [Threads -> PCs]
    BY <1>12, GotoHandling DEF GetValue, UnlockAndReturn, HeldPCs
  <2>2. AsInt(count) \in -Word..Word-1
    BY <1>a, CounterWraps DEF TypeOK
  <2> QED
    BY <1>12, <1>a, <2>1, <2>2, YieldTyped
    DEF GetValue, UnlockAndReturn, Control, TypeOK
<1>13. ASSUME NEW t \in Threads, Return(t) PROVE Control'
  <2>1. LockDiscipline' /\ lock' \in Threads \cup {NULL} /\ pc' \in [Threads -> PCs]
    BY <1>13, GotoHandling DEF Return
  <2> QED
    BY <1>13, <1>a, <2>1 DEF Return, NoResult, Control, TypeOK
<1> QED
  BY <1>1, <1>2, <1>3, <1>4, <1>5, <1>6, <1>7, <1>8, <1>9, <1>10, <1>11, <1>12,
     <1>13 DEF Next, Body

(* Every variable of the semaphore keeps its type: the counter stays within *)
(* its word, and a call answers with a code of the library, never with a    *)
(* raw errno.                                                               *)
THEOREM TypeCorrect == Spec => []TypeOK
<1>1. Control => TypeOK
  BY DEF Control
<1> QED
  BY <1>1, ControlInit, ControlStep, PTL DEF Spec

(* Only the holder of the mutex is between a lock and the next unlock or    *)
(* condition wait of sync_sem_*.                                            *)
THEOREM MutualExclusion == Spec => []LockDiscipline
<1>1. Control => LockDiscipline
  BY DEF Control
<1> QED
  BY <1>1, ControlInit, ControlStep, PTL DEF Spec

-----------------------------------------------------------------------------
(* The waiters under way, counted.                                         *)
LEMMA ComingFinite ==
  /\ IsFiniteSet(Coming) /\ Cardinality(Coming) \in Nat
  /\ IsFiniteSet(Coming') /\ Cardinality(Coming') \in Nat
<1>1. Coming \subseteq Threads /\ Coming' \subseteq Threads
  BY DEF Coming, At
<1> QED
  BY <1>1, FS_Subset, FS_CardinalityType

(* A step that adds no permit, takes no waiter off its way and puts nobody  *)
(* to sleep loses no post.                                                  *)
LEMMA NothingLost ==
  ASSUME NoLostPost, count \in Counts, count' \in Counts, count' <= count,
         Coming \subseteq Coming',
         At("asleep")' \subseteq At("asleep")
  PROVE  NoLostPost'
<1> SUFFICES ASSUME At("asleep")' # {} PROVE count' <= Cardinality(Coming')
  BY DEF NoLostPost
<1>1. count <= Cardinality(Coming)
  BY DEF NoLostPost
<1>2. Cardinality(Coming) <= Cardinality(Coming')
  BY ComingFinite, FS_Subset
<1> QED
  BY <1>1, <1>2, ComingFinite DEF Counts

(* The same for a step of thread t that only changes its place.            *)
LEMMA NothingLostGoto ==
  ASSUME NoLostPost, TypeOK, NEW t \in Threads, NEW p \in PCs, Goto(t, p),
         count' \in Counts, count' <= count, p # "asleep",
         \/ pc[t] \notin {"woken", "wait_held"}
         \/ p \in {"woken", "wait_held"}
  PROVE  NoLostPost'
<1>1. Coming \subseteq Coming'
  BY DEF Coming, At, Goto, TypeOK
<1>2. At("asleep")' \subseteq At("asleep")
  BY DEF At, Goto, TypeOK
<1> QED
  BY <1>1, <1>2, NothingLost DEF TypeOK

LEMMA NoLostPostStep ==
  ASSUME Control, NoLostPost, [Next]_vars
  PROVE  NoLostPost'
<1> USE PlacesArePlaces
<1>a. TypeOK /\ count \in Counts /\ count' \in Counts
  BY ControlStep DEF Control, TypeOK
<1>b. count <= count /\ count \in Nat
  BY <1>a DEF Counts
<1>1. CASE UNCHANGED vars
  BY <1>1 DEF vars, NoLostPost, Coming, At
<1>2. ASSUME NEW t \in Threads, Acquire(t) PROVE NoLostPost'
  <2>1. Held[pc[t]] \in HeldPCs /\ (pc[t] = "woken" => Held[pc[t]] = "wait_held")
    BY <1>2, HeldIsHeld DEF Acquire
  <2>2. pc[t] # "wait_held"
    BY <1>2, HeldIsHeld DEF Acquire, HeldPCs
  <2> QED
    BY <1>2, <1>a, <1>b, <2>1, <2>2, NothingLostGoto DEF Acquire
<1>3. ASSUME NEW t \in Threads, SpuriousWakeup(t) PROVE NoLostPost'
  BY <1>3, <1>a, <1>b, NothingLostGoto DEF SpuriousWakeup
<1>4. ASSUME NEW t \in Threads, SemInit(t) \/ SemDestroy(t) PROVE NoLostPost'
  <2>1. At("asleep")' = {}
    BY <1>4, <1>a DEF SemInit, SemDestroy, SyncDestroy, Alone, Goto, At, TypeOK
  <2> QED
    BY <2>1 DEF NoLostPost
<1>5. ASSUME NEW t \in Threads, Call(t) PROVE NoLostPost'
  <2>1. PICK p \in Entries : Goto(t, p)
    BY <1>5 DEF Call
  <2>2. p \in PCs /\ p # "asleep"
    BY <2>1 DEF Entries
  <2> QED
    BY <1>5, <1>a, <1>b, <2>1, <2>2, NothingLostGoto DEF Call
<1>6. ASSUME NEW t \in Threads, CallInvalid(t) PROVE NoLostPost'
  BY <1>6, <1>a, <1>b, NothingLostGoto DEF CallInvalid
<1>7. ASSUME NEW t \in Threads, WaitSleep(t) PROVE NoLostPost'
  BY <1>7, ComingFinite DEF WaitSleep, NoLostPost
<1>8. ASSUME NEW t \in Threads, Take(t) PROVE NoLostPost'
  <2>1. Goto(t, "returned") /\ count # 0 /\ count' = (count - 1) % Word
    BY <1>8 DEF Take, MayTake, UnlockAndReturn
  <2>2. count' = count - 1
    BY <2>1, <1>a, CounterWraps
  <2>3. CASE pc[t] = "try_held"
    <3>1. count' <= count
      BY <2>2, <1>b
    <3> QED
      BY <2>1, <2>3, <3>1, <1>a, NothingLostGoto
  <2>4. CASE pc[t] = "wait_held"
    <3> SUFFICES ASSUME At("asleep")' # {}
                 PROVE  count' <= Cardinality(Coming')
      BY DEF NoLostPost
    <3>1. t \in Coming /\ Coming' = Coming \ {t} /\ At("asleep") # {}
      BY <2>1, <2>4, <1>a DEF Coming, At, Goto, TypeOK
    <3>2. Cardinality(Coming') = Cardinality(Coming) - 1
      BY <3>1, ComingFinite, FS_RemoveElement
    <3>3. count <= Cardinality(Coming)
      BY <3>1 DEF NoLostPost
    <3> QED
      BY <2>2, <3>2, <3>3, <1>b, ComingFinite
  <2> QED
    BY <1>8, <2>3, <2>4 DEF Take, MayTake
<1>9. ASSUME NEW t \in Threads, TryBusy(t) PROVE NoLostPost'
  BY <1>9, <1>a, <1>b, NothingLostGoto DEF TryBusy, UnlockAndReturn
<1>10. ASSUME NEW t \in Threads, Post(t) PROVE NoLostPost'
  <2> SUFFICES ASSUME At("asleep")' # {} PROVE count' <= Cardinality(Coming')
    BY DEF NoLostPost
  <2>1. PICK woken \in WakeOne :
          pc' = [u \in Threads |-> IF u = t THEN "returned"
                                   ELSE IF u \in woken THEN "woken" ELSE pc[u]]
    BY <1>10 DEF Post, Signal
  <2>2. pc[t] = "post_held" /\ count' <= count + 1
    BY <1>10, <1>a, CounterWraps DEF Post
  <2>3. At("asleep") # {}
    BY <2>1, <2>2, <1>a DEF At, TypeOK, WakeOne
  <2>4. PICK w \in At("asleep") : woken = {w}
    BY <2>1, <2>3 DEF WakeOne
  <2>5. w \notin Coming /\ Coming' = Coming \cup {w}
    BY <2>1, <2>2, <2>4, <1>a DEF Coming, At, TypeOK
  <2>6. Cardinality(Coming') = Cardinality(Coming) + 1
    BY <2>5, ComingFinite, FS_AddElement
  <2>7. count <= Cardinality(Coming)
    BY <2>3 DEF NoLostPost
  <2> QED
    BY <2>2, <2>6, <2>7, <1>a, <1>b, ComingFinite DEF Counts
<1>11. ASSUME NEW t \in Threads, GetValue(t) PROVE NoLostPost'
  BY <1>11, <1>a, <1>b, NothingLostGoto DEF GetValue, UnlockAndReturn
<1>12. ASSUME NEW t \in Threads, Return(t) PROVE NoLostPost'
  BY <1>12, <1>a, <1>b, NothingLostGoto DEF Return
<1> QED
  BY <1>1, <1>2, <1>3, <1>4, <1>5, <1>6, <1>7, <1>8, <1>9, <1>10, <1>11, <1>12
  DEF Next, Body

(* No post is lost, for any number of threads, any width of the counter and *)
(* any use: one signal per post in sync_sem_post is enough.                 *)
THEOREM NoPostIsLost == Spec => []NoLostPost
<1>1. Init => NoLostPost
  BY DEF Init, NoLostPost, At
<1>2. Control /\ NoLostPost /\ [Next]_vars => NoLostPost'
  BY NoLostPostStep
<1> QED
  BY <1>1, <1>2, ControlInit, ControlStep, PTL DEF Spec

-----------------------------------------------------------------------------
(* Semaphore implements CountingSemaphore while the counter cannot leave    *)
(* the positive ints.  The mapping needs two more facts: a thread that is   *)
(* not returning has a blank result, and the counter with the posts under   *)
(* way stays within Permits.                                               *)
BlankResults == \A t \in Threads : pc[t] # "returned" => result[t] = NoResult

Posting == At("post_lock") \cup At("post_held")

WithinPermits == count + Cardinality(Posting) <= Permits

Calls == [t \in Threads |-> CallOf(t)]

LEMMA PostingFinite ==
  /\ IsFiniteSet(Posting) /\ Cardinality(Posting) \in Nat
  /\ IsFiniteSet(Posting') /\ Cardinality(Posting') \in Nat
<1>1. Posting \subseteq Threads /\ Posting' \subseteq Threads
  BY DEF Posting, At
<1> QED
  BY <1>1, FS_Subset, FS_CardinalityType

LEMMA BlankResultsStep ==
  ASSUME Control, BlankResults, [Next]_vars
  PROVE  BlankResults'
<1> SUFFICES ASSUME NEW u \in Threads, pc'[u] # "returned"
             PROVE  result'[u] = NoResult
  BY DEF BlankResults
<1> USE DEF Control, TypeOK, BlankResults, Goto, Yield
<1>1. CASE UNCHANGED vars
  BY <1>1 DEF vars
<1>2. ASSUME NEW t \in Threads, Acquire(t) PROVE result'[u] = NoResult
  <2>1. pc[t] # "returned"
    BY <1>2 DEF Acquire, Held
  <2> QED
    BY <1>2, <2>1 DEF Acquire
<1>3. ASSUME NEW t \in Threads, SpuriousWakeup(t) \/ WaitSleep(t)
      PROVE  result'[u] = NoResult
  BY <1>3 DEF SpuriousWakeup, WaitSleep
<1>4. ASSUME NEW t \in Threads, SemInit(t) PROVE result'[u] = NoResult
  BY <1>4 DEF SemInit, SyncInit, SyncInitFails
<1>5. ASSUME NEW t \in Threads, Call(t) PROVE result'[u] = NoResult
  BY <1>5 DEF Call
<1>6. ASSUME NEW t \in Threads,
             SemDestroy(t) \/ CallInvalid(t) \/ Take(t) \/ TryBusy(t) \/ GetValue(t)
      PROVE  result'[u] = NoResult
  BY <1>6 DEF SemDestroy, SyncDestroy, CallInvalid, Take, TryBusy, GetValue, UnlockAndReturn
<1>7. ASSUME NEW t \in Threads, Post(t) PROVE result'[u] = NoResult
  <2>1. PICK woken \in WakeOne :
          pc' = [v \in Threads |-> IF v = t THEN "returned"
                                   ELSE IF v \in woken THEN "woken" ELSE pc[v]]
    BY <1>7 DEF Post, Signal
  <2>2. woken \subseteq At("asleep")
    BY DEF WakeOne
  <2> QED
    BY <1>7, <2>1, <2>2 DEF Post, At
<1>8. ASSUME NEW t \in Threads, Return(t) PROVE result'[u] = NoResult
  BY <1>8 DEF Return
<1> QED
  BY <1>1, <1>2, <1>3, <1>4, <1>5, <1>6, <1>7, <1>8 DEF Next, Body

(* A step that adds neither a permit nor a post under way. *)
LEMMA NothingAdded ==
  ASSUME WithinPermits, count \in Nat, count' \in Nat, count' <= count,
         Posting' \subseteq Posting
  PROVE  WithinPermits'
<1>1. Cardinality(Posting') <= Cardinality(Posting)
  BY PostingFinite, FS_Subset
<1> QED
  BY <1>1, PostingFinite DEF WithinPermits

LEMMA WithinPermitsStep ==
  ASSUME Control, WithinPermits, Permits < Word, [Next]_vars
  PROVE  WithinPermits'
<1>a. TypeOK /\ count \in Nat /\ count' \in Nat /\ count \in Counts
  BY ControlStep DEF Control, TypeOK, Counts
<1>b. count <= count
  BY <1>a
<1>c. ASSUME NEW t \in Threads, NEW p \in PCs, Goto(t, p), count' <= count,
             pc[t] = "post_lock" \/ p \notin {"post_lock", "post_held"}
      PROVE  WithinPermits'
  <2>1. Posting' \subseteq Posting
    BY <1>a, <1>c DEF Goto, TypeOK, Posting, At
  <2> QED
    BY <1>a, <1>c, <2>1, NothingAdded
<1> USE PlacesArePlaces
<1>1. CASE UNCHANGED vars
  BY <1>1, <1>a DEF vars, WithinPermits, Posting, At
<1>2. ASSUME NEW t \in Threads, Acquire(t) PROVE WithinPermits'
  <2>1. pc[t] # "post_lock" => Held[pc[t]] \notin {"post_lock", "post_held"}
    BY <1>2 DEF Acquire, Held
  <2>2. Held[pc[t]] \in PCs
    BY <1>2, HeldIsHeld DEF Acquire
  <2> QED
    BY <1>2, <1>b, <1>c, <2>1, <2>2 DEF Acquire
<1>3. ASSUME NEW t \in Threads,
             SpuriousWakeup(t) \/ WaitSleep(t) \/ CallInvalid(t) \/ Return(t)
               \/ TryBusy(t) \/ GetValue(t)
      PROVE  WithinPermits'
  BY <1>3, <1>b, <1>c
  DEF SpuriousWakeup, WaitSleep, CallInvalid, Return, TryBusy, GetValue, UnlockAndReturn
<1>4. ASSUME NEW t \in Threads, SemInit(t) \/ SemDestroy(t) PROVE WithinPermits'
  <2>1. Posting = {} /\ Posting' = {}
    BY <1>4, <1>a DEF SemInit, SemDestroy, SyncDestroy, Alone, Goto, TypeOK, Posting, At
  <2>2. count' <= Permits \/ count' <= count
    BY <1>4, <1>b DEF SemInit, SyncInit, SyncInitFails, SemDestroy, SyncDestroy, Counts
  <2> QED
    BY <1>a, <2>1, <2>2, FS_EmptySet DEF WithinPermits
<1>5. ASSUME NEW t \in Threads, Call(t) PROVE WithinPermits'
  <2>1. PICK p \in Entries : (p = "post_lock" => MayPost) /\ Goto(t, p)
    BY <1>5 DEF Call
  <2>2. CASE p = "post_lock"
    <3>1. t \notin Posting /\ Posting' = Posting \cup {t}
      BY <1>5, <1>a, <2>1, <2>2 DEF Call, Goto, TypeOK, Posting, At
    <3>2. Cardinality(Posting') = Cardinality(Posting) + 1
      BY <3>1, PostingFinite, FS_AddElement
    <3>3. count + Cardinality(Posting) < Permits
      BY <2>1, <2>2 DEF MayPost, Posting
    <3> QED
      BY <1>5, <1>a, <3>2, <3>3, PostingFinite DEF Call, WithinPermits
  <2>3. CASE p # "post_lock"
    <3>1. p \in PCs /\ p # "post_held"
      BY <2>1 DEF Entries
    <3> QED
      BY <1>5, <1>b, <1>c, <2>1, <2>3, <3>1 DEF Call
  <2> QED
    BY <2>2, <2>3
<1>6. ASSUME NEW t \in Threads, Take(t) PROVE WithinPermits'
  <2>1. count' = count - 1
    BY <1>6, <1>a, CounterWraps DEF Take, MayTake
  <2>2. count' <= count
    BY <2>1, <1>a
  <2> QED
    BY <1>6, <1>c, <2>2 DEF Take, UnlockAndReturn
<1>7. ASSUME NEW t \in Threads, Post(t) PROVE WithinPermits'
  <2>1. PICK woken \in WakeOne :
          pc' = [u \in Threads |-> IF u = t THEN "returned"
                                   ELSE IF u \in woken THEN "woken" ELSE pc[u]]
    BY <1>7 DEF Post, Signal
  <2>2. woken \subseteq At("asleep")
    BY DEF WakeOne
  <2>3. t \in Posting /\ Posting' = Posting \ {t}
    BY <1>7, <1>a, <2>1, <2>2 DEF Post, TypeOK, Posting, At
  <2>4. Cardinality(Posting') = Cardinality(Posting) - 1
    BY <2>3, PostingFinite, FS_RemoveElement
  <2>5. count' <= count + 1
    BY <1>7, <1>a, CounterWraps DEF Post
  <2> QED
    BY <1>a, <2>4, <2>5, PostingFinite DEF WithinPermits
<1> QED
  BY <1>1, <1>2, <1>3, <1>4, <1>5, <1>6, <1>7 DEF Next, Body

-----------------------------------------------------------------------------
(* The abstract calls after thread t has gone to p with result [r, v],      *)
(* whoever is woken by it.                                                  *)
LEMMA CallsAfter ==
  ASSUME TypeOK, NEW t \in Threads, NEW p \in PCs, NEW r, NEW v,
         NEW woken \in SUBSET At("asleep"),
         pc' = [u \in Threads |-> IF u = t THEN p
                                  ELSE IF u \in woken THEN "woken" ELSE pc[u]],
         result' = [result EXCEPT ![t] = [ret |-> r, val |-> v]]
  PROVE  Calls' = [Calls EXCEPT ![t] = [op |-> OpAt[p], ret |-> r, val |-> v]]
<1>1. ASSUME NEW u \in Threads, u # t PROVE CallOf(u)' = CallOf(u)
  <2>1. OpAt["woken"] = OpAt["asleep"]
    BY DEF OpAt
  <2>2. OpAt[pc'[u]] = OpAt[pc[u]]
    BY <1>1, <2>1 DEF At
  <2>3. result'[u] = result[u]
    BY <1>1 DEF TypeOK
  <2> QED
    BY <2>2, <2>3 DEF CallOf
<1>2. CallOf(t)' = [op |-> OpAt[p], ret |-> r, val |-> v]
  BY DEF CallOf, TypeOK
<1> QED
  BY <1>1, <1>2 DEF Calls

LEMMA CallsAfterGoto ==
  ASSUME TypeOK, NEW t \in Threads, NEW p \in PCs, NEW r, NEW v,
         Goto(t, p), result' = [result EXCEPT ![t] = [ret |-> r, val |-> v]]
  PROVE  Calls' = [Calls EXCEPT ![t] = [op |-> OpAt[p], ret |-> r, val |-> v]]
<1>1. pc' = [u \in Threads |-> IF u = t THEN p
                               ELSE IF u \in {} THEN "woken" ELSE pc[u]]
  BY DEF Goto, TypeOK
<1>2. {} \in SUBSET At("asleep")
  OBVIOUS
<1> HIDE DEF Goto
<1> QED
  BY <1>1, <1>2, CallsAfter

(* A step inside a call that leaves the result alone. *)
LEMMA CallsUnchanged ==
  ASSUME TypeOK, NEW t \in Threads, NEW p \in PCs, Goto(t, p),
         UNCHANGED result, OpAt[p] = OpAt[pc[t]]
  PROVE  Calls' = Calls
<1>1. ASSUME NEW u \in Threads PROVE CallOf(u)' = CallOf(u)
  BY DEF CallOf, Goto, TypeOK
<1> QED
  BY <1>1 DEF Calls

(* The abstract call a place stands for. *)
LEMMA OpOf ==
  ASSUME NEW t \in Threads
  PROVE  /\ pc[t] = "wait_held" => Calls[t].op = "wait"
         /\ pc[t] = "try_held" => Calls[t].op = "trywait"
         /\ pc[t] = "post_held" => Calls[t].op = "post"
         /\ pc[t] = "get_held" => Calls[t].op = "getvalue"
         /\ pc[t] = "returned" => Calls[t].op = "done"
<1>1. Calls[t].op = OpAt[pc[t]]
  BY DEF Calls, CallOf
<1>2. /\ OpAt["wait_held"] = "wait" /\ OpAt["try_held"] = "trywait"
      /\ OpAt["post_held"] = "post" /\ OpAt["get_held"] = "getvalue"
      /\ OpAt["returned"] = "done"
  BY DEF OpAt
<1> QED
  BY <1>1, <1>2

LEMMA IdleIsIdle ==
  ASSUME BlankResults, NEW t \in Threads, pc[t] = "idle"
  PROVE  Calls[t] = Abs!Idle
BY DEF Calls, CallOf, BlankResults, NoResult, SUCCESS, OpAt, Abs!Idle

LEMMA AbsInitial == Init => Abs!AbsInit
BY DEF Init, Abs!AbsInit, Abs!Idle, CallOf, OpAt, NoResult, SUCCESS

(* Each step of the code is a step of the abstract semaphore or changes     *)
(* nothing that a caller could see.                                         *)
LEMMA AbsStep ==
  ASSUME Control, Control', BlankResults, WithinPermits, 2 * Permits < Word,
         [Next]_vars
  PROVE  [Abs!AbsNext]_(Abs!absVars)
<1>a. TypeOK /\ count \in Counts /\ count \in Nat /\ count' \in Nat
  BY DEF Control, TypeOK, Counts
<1>b. count + Cardinality(Posting) <= Permits /\ Cardinality(Posting) \in Nat
  BY PostingFinite DEF WithinPermits
<1>s. ASSUME Calls' = Calls, UNCHANGED <<internal, count>>
      PROVE  UNCHANGED Abs!absVars
  BY <1>s DEF Calls, Abs!absVars
<1> USE PlacesArePlaces
<1>1. CASE UNCHANGED vars
  BY <1>1 DEF vars, CallOf, Abs!absVars
<1>2. ASSUME NEW t \in Threads, Acquire(t) PROVE UNCHANGED Abs!absVars
  <2>1. OpAt[Held[pc[t]]] = OpAt[pc[t]]
    BY <1>2 DEF Acquire, Held, OpAt
  <2>2. Held[pc[t]] \in PCs
    BY <1>2, HeldIsHeld DEF Acquire
  <2> QED
    BY <1>2, <1>a, <1>s, <2>1, <2>2, CallsUnchanged DEF Acquire
<1>3. ASSUME NEW t \in Threads, SpuriousWakeup(t) \/ WaitSleep(t)
      PROVE  UNCHANGED Abs!absVars
  <2>1. OpAt["woken"] = OpAt["asleep"] /\ OpAt["asleep"] = OpAt["wait_held"]
    BY DEF OpAt
  <2> QED
    BY <1>3, <1>a, <1>s, <2>1, CallsUnchanged DEF SpuriousWakeup, WaitSleep
<1>4. ASSUME NEW t \in Threads, SemInit(t) PROVE Abs!Create(t)
  <2>1. Abs!Alone(t) /\ ~internal
    BY <1>4, IdleIsIdle DEF SemInit, Alone, Abs!Alone, Calls
  <2>2. CASE \E v \in {n \in Counts : n <= Permits} : SyncInit(t, v)
    <3>1. count' \in Nat /\ internal' = TRUE
          /\ result' = [result EXCEPT ![t] = [ret |-> 0, val |-> 0]]
      BY <2>2, <1>a DEF SyncInit, Yield, SUCCESS
    <3>2. Calls' = [Calls EXCEPT ![t] = [op |-> "done", ret |-> 0, val |-> 0]]
      BY <1>4, <1>a, <3>1, CallsAfterGoto DEF SemInit, OpAt
    <3> QED
      BY <2>1, <3>1, <3>2 DEF Abs!Create, Abs!Finish, Abs!Done, Calls
  <2>3. CASE SyncInitFails(t)
    <3>1. PICK err \in {"ENOMEM", "EAGAIN"} : Yield(t, MapError(err), 0)
      BY <2>3 DEF SyncInitFails
    <3>2. MapError(err) \in {-1, -7}
      BY DEF MapError, Mapped, NOMEM, SYSTEM
    <3>3. Calls' = [Calls EXCEPT ![t] =
                      [op |-> "done", ret |-> MapError(err), val |-> 0]]
      BY <1>4, <1>a, <3>1, CallsAfterGoto DEF SemInit, Yield, OpAt
    <3> QED
      BY <2>1, <2>3, <3>2, <3>3
      DEF SyncInitFails, Abs!Create, Abs!Finish, Abs!Done, Calls
  <2> QED
    BY <1>4, <2>2, <2>3 DEF SemInit
<1>5. ASSUME NEW t \in Threads, SemDestroy(t) PROVE Abs!Destroy(t)
  <2>1. Abs!Alone(t) /\ internal
    BY <1>5, IdleIsIdle DEF SemDestroy, SyncDestroy, Alone, Abs!Alone, Calls
  <2>2. Calls' = [Calls EXCEPT ![t] = [op |-> "done", ret |-> 0, val |-> 0]]
    BY <1>5, <1>a, CallsAfterGoto DEF SemDestroy, SyncDestroy, Yield, SUCCESS, OpAt
  <2> QED
    BY <1>5, <2>1, <2>2 DEF SemDestroy, SyncDestroy, Abs!Destroy, Abs!Finish, Abs!Done, Calls
<1>6. ASSUME NEW t \in Threads, Call(t) PROVE Abs!Invoke(t)
  <2>1. PICK p \in Entries : Goto(t, p)
    BY <1>6 DEF Call
  <2>2. p \in PCs /\ OpAt[p] \in Abs!Ops
    BY <2>1 DEF Entries, OpAt, Abs!Ops
  <2>3. result' = [result EXCEPT ![t] = [ret |-> 0, val |-> 0]]
    BY <1>6, <1>a DEF Call, BlankResults, NoResult, SUCCESS, TypeOK
  <2>4. Calls' = [Calls EXCEPT ![t] = [op |-> OpAt[p], ret |-> 0, val |-> 0]]
    BY <1>a, <2>1, <2>2, <2>3, CallsAfterGoto
  <2>5. Calls[t] = Abs!Idle
    BY <1>6, IdleIsIdle DEF Call
  <2> QED
    BY <1>6, <2>2, <2>4, <2>5 DEF Call, Abs!Invoke, Abs!Pending, Calls
<1>7. ASSUME NEW t \in Threads, CallInvalid(t) PROVE Abs!Invoke(t)
  <2>1. Calls' = [Calls EXCEPT ![t] = [op |-> "done", ret |-> -2, val |-> 0]]
    BY <1>7, <1>a, CallsAfterGoto DEF CallInvalid, Yield, INVALID, OpAt
  <2>2. Calls[t] = Abs!Idle
    BY <1>7, IdleIsIdle DEF CallInvalid
  <2> QED
    BY <1>7, <2>1, <2>2 DEF CallInvalid, Abs!Invoke, Abs!Finish, Abs!Done, Calls
<1>8. ASSUME NEW t \in Threads, Take(t) PROVE Abs!Take(t)
  <2>1. Calls' = [Calls EXCEPT ![t] = [op |-> "done", ret |-> 0, val |-> 0]]
    BY <1>8, <1>a, CallsAfterGoto DEF Take, UnlockAndReturn, Yield, SUCCESS, OpAt
  <2>2. Calls[t].op \in {"wait", "trywait"}
    BY <1>8, OpOf DEF Take, MayTake
  <2>3. count > 0 /\ count' = count - 1
    BY <1>8, <1>a, CounterWraps DEF Take, MayTake
  <2> QED
    BY <1>8, <2>1, <2>2, <2>3 DEF Take, Abs!Take, Abs!Finish, Abs!Done, Calls
<1>9. ASSUME NEW t \in Threads, TryBusy(t) PROVE Abs!Busy(t)
  <2>1. Calls' = [Calls EXCEPT ![t] = [op |-> "done", ret |-> -3, val |-> 0]]
    BY <1>9, <1>a, CallsAfterGoto DEF TryBusy, UnlockAndReturn, Yield, BUSY, OpAt
  <2>2. Calls[t].op = "trywait"
    BY <1>9, OpOf DEF TryBusy
  <2> QED
    BY <1>9, <2>1, <2>2 DEF TryBusy, Abs!Busy, Abs!Finish, Abs!Done, Calls
<1>10. ASSUME NEW t \in Threads, Post(t) PROVE Abs!Post(t)
  <2>1. PICK woken \in WakeOne :
          pc' = [u \in Threads |-> IF u = t THEN "returned"
                                   ELSE IF u \in woken THEN "woken" ELSE pc[u]]
    BY <1>10 DEF Post, Signal
  <2>2. woken \in SUBSET At("asleep")
    BY DEF WakeOne
  <2>3. result' = [result EXCEPT ![t] = [ret |-> 0, val |-> 0]]
    BY <1>10 DEF Post, Yield, SUCCESS
  <2>4. Calls' = [Calls EXCEPT ![t] =
                    [op |-> OpAt["returned"], ret |-> 0, val |-> 0]]
    BY <1>a, <2>1, <2>2, <2>3, CallsAfter
  <2>5. Calls[t].op = "post"
    BY <1>10, OpOf DEF Post
  <2>6. count' = count + 1
    <3>1. t \in Posting
      BY <1>10 DEF Post, Posting, At
    <3>2. Cardinality(Posting) # 0
      BY <3>1, PostingFinite, FS_EmptySet
    <3>3. count + 1 \in 0..Word-1
      BY <1>a, <1>b, <3>2
    <3>4. \A m \in 0..Word-1 : m % Word = m
      OBVIOUS
    <3> QED
      BY <1>10, <3>3, <3>4 DEF Post
  <2>7. OpAt["returned"] = "done"
    BY DEF OpAt
  <2> QED
    BY <1>10, <2>4, <2>5, <2>6, <2>7
    DEF Post, Abs!Post, Abs!Finish, Abs!Done, Calls
<1>11. ASSUME NEW t \in Threads, GetValue(t) PROVE Abs!GetValue(t)
  <2>1. AsInt(count) = count
    BY <1>a, <1>b DEF AsInt
  <2>2. Calls' = [Calls EXCEPT ![t] = [op |-> "done", ret |-> 0, val |-> count]]
    BY <1>11, <1>a, <2>1, CallsAfterGoto
    DEF GetValue, UnlockAndReturn, Yield, SUCCESS, OpAt
  <2>3. Calls[t].op = "getvalue"
    BY <1>11, OpOf DEF GetValue
  <2> QED
    BY <1>11, <2>2, <2>3
    DEF GetValue, Abs!GetValue, Abs!Finish, Abs!Done, Calls
<1>12. ASSUME NEW t \in Threads, Return(t) PROVE Abs!Return(t)
  <2>1. Calls' = [Calls EXCEPT ![t] = [op |-> "idle", ret |-> 0, val |-> 0]]
    BY <1>12, <1>a, CallsAfterGoto DEF Return, NoResult, SUCCESS, OpAt
  <2>2. Calls[t].op = "done"
    BY <1>12, OpOf DEF Return
  <2> QED
    BY <1>12, <2>1, <2>2 DEF Return, Abs!Return, Abs!Idle, Calls
<1> QED
  BY <1>1, <1>2, <1>3, <1>4, <1>5, <1>6, <1>7, <1>8, <1>9, <1>10, <1>11, <1>12
  DEF Next, Body, Abs!AbsNext

(* The semaphore of sync.c hands out each permit once and loses none, for   *)
(* any number of threads and any width of the counter, as long as the       *)
(* callers keep the counter within the positive ints.                       *)
THEOREM Refinement ==
  ASSUME 2 * Permits < Word
  PROVE  Spec => ImplementsCountingSemaphore
<1> DEFINE Inv == Control /\ BlankResults /\ WithinPermits
<1>1. Init => Inv
  <2>1. Init => BlankResults
    BY DEF Init, BlankResults
  <2>2. Init => Posting = {} /\ count = 0
    BY DEF Init, Posting, At
  <2>3. Init => WithinPermits
    BY <2>2, FS_EmptySet DEF WithinPermits
  <2> QED
    BY <2>1, <2>3, ControlInit
<1>2. Inv /\ [Next]_vars => Inv'
  <2>1. Permits < Word
    OBVIOUS
  <2> QED
    BY <2>1, ControlStep, BlankResultsStep, WithinPermitsStep
<1>3. Inv /\ Inv' /\ [Next]_vars => [Abs!AbsNext]_(Abs!absVars)
  BY AbsStep
<1>4. Init => Abs!AbsInit
  BY AbsInitial
<1> HIDE DEF Inv
<1> QED
  BY <1>1, <1>2, <1>3, <1>4, PTL
  DEF Spec, ImplementsCountingSemaphore, Abs!AbsSpec
=============================================================================
