-------------------------- MODULE TaskQueue_proofs --------------------------
(***************************************************************************)
(* Proofs about TaskQueue, for every number of threads, nodes and tasks    *)
(* and every capacity.  Two inductive invariants, one on top of the other: *)
(* Control speaks of the mutex, the program counters and the two flags     *)
(* only; Data of the list and of the nodes that threads carry, and takes   *)
(* mutual exclusion and the quiet of a queue being destroyed from Control. *)
(* On top of both, the refinement of BoundedQueue.                         *)
(***************************************************************************)
EXTENDS TaskQueueProps, TLAPS

DestroyPCs == {"destroy_lock", "destroy_held", "destroy_free"}

(* task_queue_destroy runs alone, and only once. *)
DestroyAlone ==
  \A t \in Threads : pc[t] \in DestroyPCs =>
    ~live /\ \A u \in Threads \ {t} : pc[u] = "idle"

ControlTypeOK ==
  /\ pc \in [Threads -> PCs]
  /\ lock \in Threads \cup {NULL}
  /\ shutdown \in BOOLEAN
  /\ live \in BOOLEAN

NobodyAsleep ==
  shutdown => \A t \in Threads : pc[t] \notin {"pop_asleep", "push_asleep"}

Control ==
  ControlTypeOK /\ LockDiscipline /\ DestroyAlone /\ NobodyAsleep

-----------------------------------------------------------------------------
(* Taking the mutex leads to a place where it is held.                     *)
LEMMA HeldIsHeld ==
  ASSUME NEW p \in DOMAIN Held
  PROVE  /\ Held[p] \in HeldPCs
         /\ Held[p] \in DestroyPCs => p \in DestroyPCs
         /\ p \in PCs \ HeldPCs
         /\ Held[p] # "destroy_free"
BY DEF Held, HeldPCs, PCs, DestroyPCs

(* Control holds when task_queue_init returns.                             *)
LEMMA ControlInit == Init => Control
BY QueueAssumption DEF Init, Control, ControlTypeOK, LockDiscipline, DestroyAlone, NobodyAsleep,
       PCs, HeldPCs, DestroyPCs, Held

(* A step of thread t that goes to p, waking the threads in woken: what the *)
(* others' program counters can become.                                     *)
LEMMA MoveEffect ==
  ASSUME pc \in [Threads -> PCs], NEW t \in Threads, NEW p \in PCs,
         NEW woken \in SUBSET (At("pop_asleep") \cup At("push_asleep")),
         Move(t, p, woken)
  PROVE  /\ pc' \in [Threads -> PCs]
         /\ pc'[t] = p
         /\ \A u \in Threads \ {t} :
              \/ pc'[u] = pc[u]
              \/ pc[u] = "pop_asleep" /\ pc'[u] = "pop_woken"
              \/ pc[u] = "push_asleep" /\ pc'[u] = "push_woken"
         /\ \A u \in woken \ {t} : pc'[u] \in {"pop_woken", "push_woken"}
BY DEF Move, At, PCs, Held

(* A step of one thread that either keeps the mutex as it was, or takes it  *)
(* free, or gives it back.                                                  *)
LEMMA LockHandling ==
  ASSUME Control, NULL \notin Threads, NEW t \in Threads, NEW p \in PCs,
         NEW woken \in SUBSET (At("pop_asleep") \cup At("push_asleep")),
         Move(t, p, woken),
         \/ lock' = lock /\ (pc[t] \in HeldPCs <=> p \in HeldPCs)
         \/ lock = NULL /\ lock' = t /\ p \in HeldPCs
         \/ lock = t /\ lock' = NULL /\ p \notin HeldPCs
  PROVE  LockDiscipline' /\ lock' \in Threads \cup {NULL}
<1>1. {"pop_asleep", "push_asleep", "pop_woken", "push_woken"} \cap HeldPCs = {}
  BY DEF HeldPCs
<1>2. QED
  BY <1>1, MoveEffect DEF Control, ControlTypeOK, LockDiscipline

Asleep == At("pop_asleep") \cup At("push_asleep")

(* A step inside a call, or into one while the queue is live, that does not *)
(* begin a destroy.                                                         *)
LEMMA ControlMove ==
  ASSUME Control, NULL \notin Threads, NEW t \in Threads, NEW p \in PCs,
         NEW woken \in SUBSET Asleep,
         Move(t, p, woken),
         \/ lock' = lock /\ (pc[t] \in HeldPCs <=> p \in HeldPCs)
         \/ lock = NULL /\ lock' = t /\ p \in HeldPCs
         \/ lock = t /\ lock' = NULL /\ p \notin HeldPCs,
         pc[t] # "idle" \/ live,
         p \in DestroyPCs => pc[t] \in DestroyPCs,
         live' = live,
         \/ shutdown' = shutdown
              /\ (shutdown => p \notin {"pop_asleep", "push_asleep"})
         \/ shutdown' = TRUE /\ woken = Asleep
              /\ p \notin {"pop_asleep", "push_asleep"}
  PROVE  Control'
<1>1. /\ pc' \in [Threads -> PCs]
      /\ pc'[t] = p
      /\ \A u \in Threads \ {t} :
           \/ pc'[u] = pc[u]
           \/ pc[u] = "pop_asleep" /\ pc'[u] = "pop_woken"
           \/ pc[u] = "push_asleep" /\ pc'[u] = "push_woken"
      /\ \A u \in woken \ {t} : pc'[u] \in {"pop_woken", "push_woken"}
  BY MoveEffect DEF Control, ControlTypeOK, Asleep
<1>2. LockDiscipline' /\ lock' \in Threads \cup {NULL}
  BY LockHandling DEF Asleep
<1>3. ControlTypeOK'
  BY <1>1, <1>2 DEF Control, ControlTypeOK
<1>4. DestroyAlone'
  <2> SUFFICES ASSUME NEW d \in Threads, pc'[d] \in DestroyPCs
               PROVE  ~live' /\ \A u \in Threads \ {d} : pc'[u] = "idle"
    BY DEF DestroyAlone
  <2>1. pc[d] \in DestroyPCs
    BY <1>1 DEF DestroyPCs
  <2>2. ~live /\ \A u \in Threads \ {d} : pc[u] = "idle"
    BY <2>1 DEF Control, DestroyAlone
  <2>3. t = d
    BY <2>2
  <2> QED
    BY <1>1, <2>2, <2>3
<1>5. NobodyAsleep'
  BY <1>1 DEF Control, NobodyAsleep, Asleep, At
<1> QED
  BY <1>2, <1>3, <1>4, <1>5 DEF Control

(* The same for a step that wakes nobody and sets no flag. *)
LEMMA ControlGoto ==
  ASSUME Control, NULL \notin Threads, NEW t \in Threads, NEW p \in PCs,
         Goto(t, p), live' = live, shutdown' = shutdown,
         \/ lock' = lock /\ (pc[t] \in HeldPCs <=> p \in HeldPCs)
         \/ lock = NULL /\ lock' = t /\ p \in HeldPCs
         \/ lock = t /\ lock' = NULL /\ p \notin HeldPCs,
         pc[t] # "idle" \/ live,
         p \in DestroyPCs => pc[t] \in DestroyPCs,
         shutdown => p \notin {"pop_asleep", "push_asleep"}
  PROVE  Control'
<1>1. {} \in SUBSET Asleep /\ Move(t, p, {})
  BY DEF Goto
<1>2. QED
  BY <1>1, ControlMove

(* Who is where it holds the mutex is the holder. *)
LEMMA Holder ==
  ASSUME Control, NEW t \in Threads, pc[t] \in HeldPCs
  PROVE  lock = t
BY DEF Control, LockDiscipline

(* Every step preserves Control. *)
LEMMA ControlStep == Control /\ [Next]_vars => Control'
<1> SUFFICES ASSUME Control, [Next]_vars
             PROVE  Control'
  OBVIOUS
<1> USE DEF PCs, Held, HeldPCs, DestroyPCs
<1>a. NULL \notin Threads
  BY QueueAssumption
<1>b. SUBSET Asleep = SUBSET (At("pop_asleep") \cup At("push_asleep"))
  BY DEF Asleep
<1>1. CASE UNCHANGED vars
  BY <1>1 DEF vars, Control, ControlTypeOK, LockDiscipline, DestroyAlone, NobodyAsleep
<1>2. ASSUME NEW t \in Threads, NEW v \in Tasks, PushCall(t, v)
      PROVE  Control'
  BY <1>a, <1>2, ControlGoto DEF PushCall
<1>3. ASSUME NEW t \in Threads, PushNoMemory(t)
      PROVE  Control'
  BY <1>a, <1>3, ControlGoto DEF PushNoMemory
<1>4. ASSUME NEW t \in Threads, PopCall(t)
      PROVE  Control'
  BY <1>a, <1>4, ControlGoto DEF PopCall
<1>5. ASSUME NEW t \in Threads, OwnerCall(t)
      PROVE  Control'
  <2>1. CASE live' = live
    BY <1>a, <1>5, <2>1, ControlGoto DEF OwnerCall
  <2>2. CASE live' # live
    <3>1. /\ live' = FALSE /\ pc[t] = "idle" /\ lock' = lock /\ shutdown' = shutdown
          /\ \A u \in Threads \ {t} : pc[u] = "idle"
          /\ Move(t, "destroy_lock", {})
      BY <1>5, <2>2 DEF OwnerCall, Goto
    <3>2. /\ pc' \in [Threads -> PCs] /\ pc'[t] = "destroy_lock"
          /\ \A u \in Threads \ {t} : pc'[u] = "idle"
      BY <3>1 DEF Move, Control, ControlTypeOK
    <3> QED
      BY <3>1, <3>2
         DEF Control, ControlTypeOK, LockDiscipline, DestroyAlone, NobodyAsleep
  <2> QED
    BY <2>1, <2>2
<1>6. ASSUME NEW t \in Threads, Acquire(t)
      PROVE  Control'
  <2>1. /\ pc[t] \in DOMAIN Held /\ lock = NULL /\ lock' = t
        /\ Goto(t, Held[pc[t]]) /\ live' = live /\ shutdown' = shutdown
    BY <1>6 DEF Acquire
  <2>2. /\ Held[pc[t]] \in HeldPCs
        /\ Held[pc[t]] \in DestroyPCs => pc[t] \in DestroyPCs
    BY <2>1, HeldIsHeld
  <2>3. /\ Held[pc[t]] \in PCs /\ Held[pc[t]] \notin {"pop_asleep", "push_asleep"}
        /\ pc[t] # "idle"
    BY <2>1, <2>2
  <2> HIDE DEF PCs, Held, HeldPCs, DestroyPCs
  <2> QED
    BY <1>a, <2>1, <2>2, <2>3, ControlGoto
<1>7. ASSUME NEW t \in Threads, PushWait(t) \/ PopWait(t)
      PROVE  Control'
  BY <1>a, <1>7, ControlGoto, Holder DEF PushWait, PopWait, Sleep
<1>8. ASSUME NEW t \in Threads, PushRefused(t) \/ PopFails(t) \/ SizeRead(t) \/ DestroyEnd(t)
      PROVE  Control'
  BY <1>a, <1>8, ControlGoto, Holder
     DEF PushRefused, PopFails, SizeRead, DestroyEnd, UnlockAndReturn, list
<1>9. ASSUME NEW t \in Threads, PopCopyOut(t) \/ Return(t)
      PROVE  Control'
  BY <1>a, <1>9, ControlGoto DEF PopCopyOut, Return
<1>10. ASSUME NEW t \in Threads, DestroyStart(t)
       PROVE  Control'
  BY <1>a, <1>10, ControlGoto DEF DestroyStart
<1>11. ASSUME NEW t \in Threads, DestroyFreeNode(t)
       PROVE  Control'
  BY <1>11 DEF DestroyFreeNode, list, Control, ControlTypeOK, LockDiscipline, DestroyAlone,
               NobodyAsleep
<1>12. ASSUME NEW t \in Threads, PushLink(t) \/ PopUnlink(t)
       PROVE  Control'
  <2>1. PICK p \in {"returned", "copy_out"}, woken \in SignalNotEmpty \cup SignalNotFull :
          Move(t, p, woken)
    BY <1>12 DEF PushLink, PopUnlink
  <2>2. woken \in SUBSET Asleep
    BY <2>1 DEF SignalNotEmpty, SignalNotFull, WakeOne, Asleep
  <2>3. /\ lock = t /\ lock' = NULL /\ live' = live /\ shutdown' = shutdown
        /\ pc[t] # "idle"
    BY <1>12, Holder DEF PushLink, PopUnlink
  <2> QED
    BY <1>a, <2>1, <2>2, <2>3, ControlMove
<1>13. ASSUME NEW t \in Threads, ShutdownBroadcast(t)
       PROVE  Control'
  <2>1. Move(t, "returned", Asleep) /\ Asleep \in SUBSET Asleep
    BY <1>13 DEF ShutdownBroadcast, BroadcastSet, Asleep
  <2>2. /\ lock = t /\ lock' = NULL /\ live' = live /\ shutdown' = TRUE
        /\ pc[t] # "idle"
    BY <1>13, Holder DEF ShutdownBroadcast
  <2> QED
    BY <1>a, <2>1, <2>2, ControlMove
<1>14. ASSUME NEW t \in Threads, SpuriousWakeup(t)
       PROVE  Control'
  BY <1>a, <1>14, ControlGoto DEF SpuriousWakeup
<1>15. CASE Terminated
  BY <1>1, <1>15 DEF Terminated
<1> QED
  BY <1>1, <1>2, <1>3, <1>4, <1>5, <1>6, <1>7, <1>8, <1>9, <1>10, <1>11, <1>12,
     <1>13, <1>14, <1>15 DEF Next, Call, Body

LEMMA ControlAlways == Spec => []Control
BY ControlInit, ControlStep, PTL DEF Spec

(* The mutex of scheduler.c excludes: the code between a lock and the next  *)
(* unlock or condition wait is run by the holder, and by nobody else.       *)
THEOREM MutualExclusion == Spec => []LockDiscipline
<1>1. Control => LockDiscipline
  BY DEF Control
<1> QED
  BY <1>1, ControlAlways, PTL

(* After task_queue_shutdown no thread sleeps in push or pop, and none goes *)
(* to sleep, however many were blocked and whatever they wait for.          *)
THEOREM ShutdownLeavesNoSleeper == Spec => []ShutdownWakesAll
<1>1. Control => ShutdownWakesAll
  BY DEF Control, NobodyAsleep, ShutdownWakesAll, At
<1> QED
  BY <1>1, ControlAlways, PTL

-----------------------------------------------------------------------------
(* The list and the nodes.                                                 *)

DataTypeOK ==
  /\ heap \subseteq Nodes
  /\ func \in [Nodes -> Tasks \cup {NULL}]
  /\ next \in [Nodes -> Nodes \cup {NULL}]
  /\ head \in Nodes \cup {NULL}
  /\ tail \in Nodes \cup {NULL}
  /\ count \in Nat
  /\ node \in [Threads -> Nodes \cup {NULL}]
  /\ result \in [Threads -> [ret : Nat \cup {-1}, val : Tasks \cup {NULL}]]
  /\ chain \in Seq(Nodes)

(* task_queue_push links a node that ends a list. *)
FreshNodes ==
  \A t \in Threads : pc[t] \in PushPCs => next[node[t]] = NULL

(* No node of the list has been freed, except by a destroy under way. *)
ListAllocated == At("destroy_free") = {} => InList \subseteq heap

Data ==
  DataTypeOK /\ ListShape /\ PrivateNodes /\ FreshNodes /\ ListAllocated

LEMMA DataInit == Init => Data
BY DEF Init, Data, DataTypeOK, ListShape, PrivateNodes, FreshNodes, ListAllocated,
       NoResult, InList, Range, IsInjective, Carriers, PushPCs, At

(* What the other threads carry does not depend on a step of t. *)
LEMMA OthersStay ==
  ASSUME Control, NEW t \in Threads, NEW p \in PCs, NEW woken \in SUBSET Asleep,
         Move(t, p, woken)
  PROVE  /\ pc'[t] = p
         /\ \A u \in Threads \ {t} :
              /\ pc'[u] \in PushPCs <=> pc[u] \in PushPCs
              /\ pc'[u] \in {"copy_out", "destroy_free"} => pc'[u] = pc[u]
              /\ pc[u] \in {"copy_out", "destroy_free"} => pc'[u] = pc[u]
<1>1. /\ pc'[t] = p
      /\ \A u \in Threads \ {t} :
           \/ pc'[u] = pc[u]
           \/ pc[u] = "pop_asleep" /\ pc'[u] = "pop_woken"
           \/ pc[u] = "push_asleep" /\ pc'[u] = "push_woken"
  BY MoveEffect DEF Control, ControlTypeOK, Asleep
<1>2. QED
  BY <1>1 DEF PushPCs

(* A step that touches neither list nor nodes, and puts none in t's hands. *)
LEMMA DataQuiet ==
  ASSUME Control, Data, NEW t \in Threads, NEW p \in PCs, NEW woken \in SUBSET Asleep,
         Move(t, p, woken),
         p \in PushPCs => pc[t] \in PushPCs,
         p # "copy_out" /\ pc[t] # "destroy_free",
         result' \in [Threads -> [ret : Nat \cup {-1}, val : Tasks \cup {NULL}]],
         UNCHANGED <<heap, func, next, list, node>>
  PROVE  Data'
<1>1. /\ pc'[t] = p
      /\ \A u \in Threads \ {t} :
           /\ pc'[u] \in PushPCs <=> pc[u] \in PushPCs
           /\ pc'[u] \in {"copy_out", "destroy_free"} => pc'[u] = pc[u]
           /\ pc[u] \in {"copy_out", "destroy_free"} => pc'[u] = pc[u]
  BY OthersStay
<1>2. InList' = InList
  BY DEF InList, list
<1>3. DataTypeOK' /\ ListShape'
  BY DEF Data, DataTypeOK, ListShape, list
<1>4. Carriers' \subseteq Carriers
  BY <1>1 DEF Carriers
<1>5. PrivateNodes'
  BY <1>2, <1>4 DEF Data, PrivateNodes
<1>6. FreshNodes'
  BY <1>1 DEF Data, FreshNodes
<1>7. ListAllocated'
  BY <1>1, <1>2 DEF Data, ListAllocated, At
<1> QED
  BY <1>3, <1>5, <1>6, <1>7 DEF Data

LEMMA DataQuietSteps ==
  ASSUME Control, Data, NEW t \in Threads,
         \/ PushNoMemory(t) \/ PopCall(t) \/ OwnerCall(t) \/ Acquire(t)
         \/ PushWait(t) \/ PopWait(t) \/ PopFails(t) \/ SizeRead(t)
         \/ ShutdownBroadcast(t) \/ SpuriousWakeup(t) \/ Return(t)
  PROVE  Data'
<1> USE DEF PCs, Held, HeldPCs, PushPCs
<1>a. {} \in SUBSET Asleep /\ Asleep \in SUBSET Asleep
  OBVIOUS
<1>b. /\ result \in [Threads -> [ret : Nat \cup {-1}, val : Tasks \cup {NULL}]]
      /\ count \in Nat
  BY DEF Data, DataTypeOK
<1>1. CASE PushNoMemory(t) \/ PopFails(t)
  <2>1. /\ Move(t, "returned", {}) /\ pc[t] # "destroy_free"
        /\ UNCHANGED <<heap, func, next, list, node>>
    BY <1>1 DEF PushNoMemory, PopFails, UnlockAndReturn, Goto
  <2>2. result' \in [Threads -> [ret : Nat \cup {-1}, val : Tasks \cup {NULL}]]
    BY <1>1, <1>b DEF PushNoMemory, PopFails, UnlockAndReturn, Yield
  <2> QED
    BY <1>a, <2>1, <2>2, DataQuiet
<1>2. CASE SizeRead(t)
  <2>1. /\ Move(t, "returned", {}) /\ pc[t] # "destroy_free"
        /\ UNCHANGED <<heap, func, next, list, node>>
    BY <1>2 DEF SizeRead, UnlockAndReturn, Goto
  <2>2. result' \in [Threads -> [ret : Nat \cup {-1}, val : Tasks \cup {NULL}]]
    BY <1>2, <1>b DEF SizeRead, UnlockAndReturn, Yield
  <2> QED
    BY <1>a, <2>1, <2>2, DataQuiet
<1>3. CASE ShutdownBroadcast(t)
  <2>1. /\ Move(t, "returned", Asleep) /\ pc[t] # "destroy_free"
        /\ UNCHANGED <<heap, func, next, list, node>>
    BY <1>3 DEF ShutdownBroadcast, BroadcastSet, Asleep
  <2>2. result' \in [Threads -> [ret : Nat \cup {-1}, val : Tasks \cup {NULL}]]
    BY <1>3, <1>b DEF ShutdownBroadcast, Yield
  <2> QED
    BY <1>a, <2>1, <2>2, DataQuiet
<1>4. CASE Return(t)
  <2>1. /\ Move(t, "idle", {}) /\ pc[t] # "destroy_free"
        /\ UNCHANGED <<heap, func, next, list, node>>
    BY <1>4 DEF Return, Goto
  <2>2. result' \in [Threads -> [ret : Nat \cup {-1}, val : Tasks \cup {NULL}]]
    BY <1>4, <1>b DEF Return, NoResult
  <2> QED
    BY <1>a, <2>1, <2>2, DataQuiet
<1>5. CASE Acquire(t)
  <2>1. /\ Move(t, Held[pc[t]], {}) /\ pc[t] \in DOMAIN Held
        /\ UNCHANGED <<heap, func, next, list, node, result>>
    BY <1>5 DEF Acquire, Goto
  <2>2. /\ Held[pc[t]] \in PushPCs => pc[t] \in PushPCs
        /\ Held[pc[t]] \in HeldPCs /\ pc[t] # "destroy_free"
    BY <2>1
  <2>3. Held[pc[t]] \in PCs /\ Held[pc[t]] # "copy_out"
    BY <2>2
  <2> HIDE DEF PCs, Held, HeldPCs, PushPCs
  <2> QED
    BY <1>a, <1>b, <2>1, <2>2, <2>3, DataQuiet
<1>6. CASE PopCall(t) \/ OwnerCall(t) \/ PushWait(t) \/ PopWait(t) \/ SpuriousWakeup(t)
  <2>1. PICK p \in PCs :
          /\ Move(t, p, {}) /\ (p \in PushPCs => pc[t] \in PushPCs)
          /\ p # "copy_out" /\ pc[t] # "destroy_free"
          /\ UNCHANGED <<heap, func, next, list, node, result>>
    BY <1>6 DEF PopCall, OwnerCall, PushWait, PopWait, Sleep, SpuriousWakeup, Goto
  <2> HIDE DEF PCs, Held, HeldPCs, PushPCs
  <2> QED
    BY <1>a, <1>b, <2>1, DataQuiet
<1> QED
  BY <1>1, <1>2, <1>3, <1>4, <1>5, <1>6

(* The list keeps its shape under writes to nodes that are not in it. *)
LEMMA ListKept ==
  ASSUME Data, UNCHANGED list, \A m \in InList : next'[m] = next[m]
  PROVE  ListShape'
<1>1. /\ ListShape /\ chain \in Seq(Nodes)
      /\ head' = head /\ tail' = tail /\ count' = count /\ chain' = chain
  BY DEF Data, DataTypeOK, list
<1>2. \A i \in 1..Len(chain) : chain[i] \in InList
  BY <1>1 DEF InList, Range
<1>3. chain # <<>> => next'[tail] = NULL
  BY <1>1, <1>2 DEF ListShape
<1>4. \A i \in 1..Len(chain)-1 : next'[chain[i]] = chain[i+1]
  BY <1>1, <1>2 DEF ListShape
<1> QED
  BY <1>1, <1>3, <1>4 DEF ListShape

(* task_queue_push before it locks: malloc returns a node nobody knows.    *)
LEMMA DataPushCall ==
  ASSUME Control, Data, NEW t \in Threads, NEW v \in Tasks, PushCall(t, v)
  PROVE  Data'
<1>1. PICK n \in Nodes \ heap :
        /\ heap' = heap \cup {n}
        /\ func' = [func EXCEPT ![n] = v]
        /\ next' = [next EXCEPT ![n] = NULL]
        /\ node' = [node EXCEPT ![t] = n]
        /\ UNCHANGED <<list, result>>
        /\ Move(t, "push_lock", {})
  BY DEF PushCall, Goto
<1>2. /\ pc'[t] = "push_lock"
      /\ \A u \in Threads \ {t} :
           /\ pc'[u] \in PushPCs <=> pc[u] \in PushPCs
           /\ pc'[u] \in {"copy_out", "destroy_free"} => pc'[u] = pc[u]
           /\ pc[u] \in {"copy_out", "destroy_free"} => pc'[u] = pc[u]
  <2>1. "push_lock" \in PCs /\ {} \in SUBSET Asleep
    BY DEF PCs, Held
  <2> QED
    BY <1>1, <2>1, OthersStay
<1>3. At("destroy_free") = {} /\ InList \subseteq heap
  BY DEF PushCall, Control, DestroyAlone, DestroyPCs, At, Data, ListAllocated
<1>4. InList' = InList /\ n \notin InList
  BY <1>1, <1>3 DEF InList, list
<1>5. DataTypeOK'
  BY <1>1 DEF Data, DataTypeOK, list
<1>6. ListShape'
  BY <1>1, <1>3, <1>4, ListKept DEF Data, DataTypeOK
<1>7. Carriers' \ {t} = Carriers \ {t}
  BY <1>2 DEF Carriers
<1>8. PrivateNodes'
  <2>1. \A u \in Carriers' \ {t} : node'[u] = node[u] /\ node[u] \in heap \ InList
    BY <1>1, <1>7 DEF Data, DataTypeOK, PrivateNodes, Carriers
  <2>2. node'[t] = n
    BY <1>1 DEF Data, DataTypeOK
  <2>3. \A u, w \in Carriers' \ {t} : u # w => node'[u] # node'[w]
    BY <1>7, <2>1 DEF Data, PrivateNodes
  <2> QED
    BY <1>1, <1>4, <2>1, <2>2, <2>3 DEF PrivateNodes
<1>9. FreshNodes'
  <2> SUFFICES ASSUME NEW u \in Threads, pc'[u] \in PushPCs
               PROVE  next'[node'[u]] = NULL
    BY DEF FreshNodes
  <2>1. CASE u = t
    BY <1>1, <2>1 DEF Data, DataTypeOK
  <2>2. CASE u # t
    BY <1>1, <1>2, <2>2 DEF Data, DataTypeOK, FreshNodes
  <2> QED
    BY <2>1, <2>2
<1>10. ListAllocated'
  BY <1>1, <1>3, <1>4 DEF ListAllocated
<1> QED
  BY <1>5, <1>6, <1>8, <1>9, <1>10 DEF Data

(* free(node) by the only thread that carries it.                          *)
LEMMA DataDropNode ==
  ASSUME Control, Data, NEW t \in Threads, t \in Carriers, FreeNode(t),
         Move(t, "returned", {}),
         result' \in [Threads -> [ret : Nat \cup {-1}, val : Tasks \cup {NULL}]],
         UNCHANGED <<func, next, list>>
  PROVE  Data'
<1>1. /\ pc'[t] = "returned"
      /\ \A u \in Threads \ {t} :
           /\ pc'[u] \in PushPCs <=> pc[u] \in PushPCs
           /\ pc'[u] \in {"copy_out", "destroy_free"} => pc'[u] = pc[u]
           /\ pc[u] \in {"copy_out", "destroy_free"} => pc'[u] = pc[u]
  <2>1. "returned" \in PCs /\ {} \in SUBSET Asleep
    BY DEF PCs
  <2> QED
    BY <2>1, OthersStay
<1>2. /\ heap' = heap \ {node[t]} /\ node' = [node EXCEPT ![t] = NULL]
      /\ node[t] \in heap \ InList
      /\ InList' = InList
  BY DEF FreeNode, Data, PrivateNodes, InList, list
<1>3. DataTypeOK'
  BY <1>2 DEF Data, DataTypeOK, list
<1>4. ListShape'
  BY ListKept
<1>5. Carriers' = Carriers \ {t}
  BY <1>1 DEF Carriers, PushPCs
<1>6. PrivateNodes'
  <2>1. \A u \in Carriers' : node'[u] = node[u] /\ node[u] # node[t]
    BY <1>2, <1>5 DEF Data, DataTypeOK, PrivateNodes, Carriers
  <2> QED
    BY <1>2, <1>5, <2>1 DEF Data, PrivateNodes
<1>7. FreshNodes'
  BY <1>1, <1>2 DEF Data, DataTypeOK, FreshNodes, PushPCs
<1>8. ListAllocated'
  <2>1. pc[t] # "destroy_free"
    BY DEF Carriers, PushPCs
  <2> QED
    BY <1>1, <1>2, <2>1 DEF Data, ListAllocated, At
<1> QED
  BY <1>3, <1>4, <1>6, <1>7, <1>8 DEF Data

LEMMA DataPushRefused ==
  ASSUME Control, Data, NEW t \in Threads, PushRefused(t)
  PROVE  Data'
<1>1. t \in Carriers /\ FreeNode(t) /\ Move(t, "returned", {})
      /\ UNCHANGED <<func, next, list>>
  BY DEF PushRefused, Carriers, PushPCs, UnlockAndReturn, Goto
<1>2. result' \in [Threads -> [ret : Nat \cup {-1}, val : Tasks \cup {NULL}]]
  BY DEF PushRefused, UnlockAndReturn, Yield, Data, DataTypeOK
<1> QED
  BY <1>1, <1>2, DataDropNode

LEMMA DataPopCopyOut ==
  ASSUME Control, Data, NEW t \in Threads, PopCopyOut(t)
  PROVE  Data'
<1>1. t \in Carriers /\ FreeNode(t) /\ Move(t, "returned", {})
      /\ UNCHANGED <<func, next, list>>
  BY DEF PopCopyOut, Carriers, Goto
<1>2. node[t] \in Nodes
  BY <1>1 DEF Data, DataTypeOK, PrivateNodes
<1>3. result' \in [Threads -> [ret : Nat \cup {-1}, val : Tasks \cup {NULL}]]
  BY <1>2 DEF PopCopyOut, Yield, Data, DataTypeOK
<1> QED
  BY <1>1, <1>3, DataDropNode

LEMMA DataPushLink ==
  ASSUME Control, Data, NULL \notin Nodes, NEW t \in Threads, PushLink(t)
  PROVE  Data'
<1> DEFINE n == node[t]
<1>1. PICK woken \in SignalNotEmpty : Move(t, "returned", woken)
  BY DEF PushLink
<1>2. /\ pc'[t] = "returned"
      /\ \A u \in Threads \ {t} :
           /\ pc'[u] \in PushPCs <=> pc[u] \in PushPCs
           /\ pc'[u] \in {"copy_out", "destroy_free"} => pc'[u] = pc[u]
           /\ pc[u] \in {"copy_out", "destroy_free"} => pc'[u] = pc[u]
  <2>1. "returned" \in PCs /\ woken \in SUBSET Asleep
    BY DEF PCs, SignalNotEmpty, WakeOne, Asleep
  <2> QED
    BY <1>1, <2>1, OthersStay
<1>3. /\ t \in Carriers /\ pc[t] \in PushPCs
      /\ n \in heap \ InList /\ n \in Nodes /\ next[n] = NULL
      /\ chain \in Seq(Nodes) /\ count = Len(chain)
  BY DEF PushLink, Carriers, PushPCs, Data, DataTypeOK, PrivateNodes, FreshNodes, ListShape
<1>4. /\ chain' = Append(chain, n) /\ tail' = n /\ count' = count + 1
      /\ heap' = heap /\ func' = func /\ node' = [node EXCEPT ![t] = NULL]
  BY DEF PushLink
<1>5. /\ chain' \in Seq(Nodes) /\ Len(chain') = Len(chain) + 1
      /\ \A i \in 1..Len(chain) : chain'[i] = chain[i]
      /\ chain'[Len(chain)+1] = n
  BY <1>3, <1>4
<1>6. InList' = InList \cup {n}
  BY <1>3, <1>5 DEF InList, Range
<1>7. \A i \in 1..Len(chain) : chain[i] \in InList
  BY <1>3 DEF InList, Range
<1>8. /\ chain = <<>> => tail = NULL /\ head' = n /\ next' = next
      /\ chain # <<>> => /\ tail = chain[Len(chain)] /\ tail \in Nodes /\ tail \in InList
                         /\ head' = head /\ head = chain[1] /\ head \in Nodes
                         /\ next' = [next EXCEPT ![tail] = n]
  <2>1. CASE chain = <<>>
    BY <2>1 DEF PushLink, Data, ListShape
  <2>2. CASE chain # <<>>
    <3>1. Len(chain) \in 1..Len(chain) /\ 1 \in 1..Len(chain)
      BY <1>3, <2>2
    <3>2. tail = chain[Len(chain)] /\ head = chain[1]
      BY <2>2 DEF Data, ListShape
    <3>3. tail \in InList /\ tail \in Nodes /\ head \in Nodes
      BY <1>3, <1>7, <3>1, <3>2
    <3> QED
      BY <2>2, <3>2, <3>3 DEF PushLink
  <2> QED
    BY <2>1, <2>2
<1>9. DataTypeOK'
  <2>1. next' \in [Nodes -> Nodes \cup {NULL}] /\ head' \in Nodes \cup {NULL}
    BY <1>3, <1>8 DEF Data, DataTypeOK
  <2>2. result' \in [Threads -> [ret : Nat \cup {-1}, val : Tasks \cup {NULL}]]
    BY DEF PushLink, Yield, Data, DataTypeOK
  <2>3. heap' \subseteq Nodes /\ func' \in [Nodes -> Tasks \cup {NULL}]
    BY <1>4 DEF Data, DataTypeOK
  <2>4. node' \in [Threads -> Nodes \cup {NULL}]
    BY <1>4 DEF Data, DataTypeOK
  <2>5. tail' \in Nodes \cup {NULL} /\ count' \in Nat /\ chain' \in Seq(Nodes)
    BY <1>3, <1>4, <1>5
  <2> QED
    BY <2>1, <2>2, <2>3, <2>4, <2>5 DEF DataTypeOK
<1>10. IsInjective(chain')
  <2>1. \A i, j \in 1..Len(chain) : chain[i] = chain[j] => i = j
    BY <1>3 DEF Data, ListShape, IsInjective
  <2>2. \A i \in 1..Len(chain) : chain'[i] # n
    BY <1>3, <1>5, <1>7
  <2>3. \A i, j \in 1..Len(chain)+1 : chain'[i] = chain'[j] => i = j
    <3> SUFFICES ASSUME NEW i \in 1..Len(chain)+1, NEW j \in 1..Len(chain)+1,
                        chain'[i] = chain'[j]
                 PROVE  i = j
      OBVIOUS
    <3>1. i \in 1..Len(chain) \/ i = Len(chain)+1
      BY <1>3
    <3>2. j \in 1..Len(chain) \/ j = Len(chain)+1
      BY <1>3
    <3> QED
      BY <1>5, <2>1, <2>2, <3>1, <3>2
  <2>4. DOMAIN chain' = 1..Len(chain)+1
    BY <1>5
  <2> QED
    BY <2>3, <2>4 DEF IsInjective
<1>11. next'[n] = NULL
  BY <1>3, <1>8 DEF Data, DataTypeOK
<1>12. \A i \in 1..Len(chain')-1 : next'[chain'[i]] = chain'[i+1]
  <2> SUFFICES ASSUME NEW i \in 1..Len(chain)
               PROVE  next'[chain[i]] = chain'[i+1]
    BY <1>3, <1>5
  <2>1. chain # <<>> /\ chain[i] \in Nodes /\ next \in [Nodes -> Nodes \cup {NULL}]
    BY <1>3 DEF Data, DataTypeOK
  <2>2. CASE i = Len(chain)
    BY <1>3, <1>5, <1>8, <2>1, <2>2
  <2>3. CASE i # Len(chain)
    <3>1. i \in 1..Len(chain)-1 /\ i+1 \in 1..Len(chain) /\ Len(chain) \in 1..Len(chain)
      BY <1>3, <2>3
    <3>2. chain[i] # chain[Len(chain)]
      BY <1>3, <2>3, <3>1 DEF Data, ListShape, IsInjective
    <3>3. next[chain[i]] = chain[i+1]
      BY <3>1 DEF Data, ListShape
    <3> QED
      BY <1>5, <1>8, <2>1, <3>1, <3>2, <3>3
  <2> QED
    BY <2>2, <2>3
<1>13. ListShape'
  <2>1. count' = Len(chain') /\ chain' # <<>> /\ tail' = chain'[Len(chain')]
    BY <1>3, <1>4, <1>5
  <2>2. head' = chain'[1]
    BY <1>3, <1>5, <1>8
  <2> QED
    BY <1>4, <1>10, <1>11, <1>12, <2>1, <2>2 DEF ListShape
<1>14. Carriers' = Carriers \ {t}
  BY <1>2 DEF Carriers, PushPCs
<1>15. \A u \in Carriers' : node'[u] = node[u] /\ node[u] # n
  BY <1>3, <1>4, <1>14 DEF Data, DataTypeOK, PrivateNodes, Carriers
<1>16. PrivateNodes'
  BY <1>4, <1>6, <1>14, <1>15 DEF Data, PrivateNodes
<1>17. FreshNodes'
  <2> SUFFICES ASSUME NEW u \in Threads, pc'[u] \in PushPCs
               PROVE  next'[node'[u]] = NULL
    BY DEF FreshNodes
  <2>1. u # t /\ u \in Carriers' /\ u \in Carriers /\ pc[u] \in PushPCs
    BY <1>2, <1>14 DEF PushPCs, Carriers
  <2>2. next[node[u]] = NULL /\ node[u] \notin InList /\ node'[u] = node[u] /\ node[u] \in Nodes
    BY <1>15, <2>1 DEF Data, DataTypeOK, FreshNodes, PrivateNodes
  <2> QED
    BY <1>8, <2>2 DEF Data, DataTypeOK
<1>18. ListAllocated'
  <2>1. pc[t] # "destroy_free"
    BY <1>3 DEF PushPCs
  <2> QED
    BY <1>2, <1>3, <1>4, <1>6, <2>1 DEF Data, ListAllocated, At
<1> QED
  BY <1>9, <1>13, <1>16, <1>17, <1>18 DEF Data

LEMMA DataPopUnlink ==
  ASSUME Control, Data, NULL \notin Nodes, NEW t \in Threads, PopUnlink(t)
  PROVE  Data'
<1>1. PICK woken \in SignalNotFull : Move(t, "copy_out", woken)
  BY DEF PopUnlink
<1>2. /\ pc'[t] = "copy_out"
      /\ \A u \in Threads \ {t} :
           /\ pc'[u] \in PushPCs <=> pc[u] \in PushPCs
           /\ pc'[u] \in {"copy_out", "destroy_free"} => pc'[u] = pc[u]
           /\ pc[u] \in {"copy_out", "destroy_free"} => pc'[u] = pc[u]
  <2>1. "copy_out" \in PCs /\ woken \in SUBSET Asleep
    BY DEF PCs, SignalNotFull, WakeOne, Asleep
  <2> QED
    BY <1>1, <2>1, OthersStay
<1>3. /\ pc[t] \in {"pop_held", "try_held"}
      /\ chain \in Seq(Nodes) /\ count = Len(chain) /\ Len(chain) > 0
      /\ head = chain[1] /\ tail = chain[Len(chain)] /\ next[tail] = NULL
      /\ \A i \in 1..Len(chain)-1 : next[chain[i]] = chain[i+1]
      /\ \A i, j \in 1..Len(chain) : chain[i] = chain[j] => i = j
  <2>1. /\ pc[t] \in {"pop_held", "try_held"} /\ count # 0
        /\ chain \in Seq(Nodes) /\ count = Len(chain)
    BY DEF PopUnlink, Data, DataTypeOK, ListShape
  <2>2. chain # <<>> /\ Len(chain) > 0
    BY <2>1
  <2> QED
    BY <2>1, <2>2 DEF Data, ListShape, IsInjective
<1>4. /\ head' = next[head] /\ count' = count - 1 /\ chain' = Tail(chain)
      /\ tail' = (IF next[head] = NULL THEN NULL ELSE tail)
      /\ node' = [node EXCEPT ![t] = head]
      /\ UNCHANGED <<heap, func, next, result>>
  BY DEF PopUnlink, TailAfterPop
<1>5. /\ chain' \in Seq(Nodes) /\ Len(chain') = Len(chain) - 1
      /\ \A i \in 1..Len(chain)-1 : chain'[i] = chain[i+1]
  BY <1>3, <1>4
<1>6. /\ head \in Nodes /\ head \in InList
      /\ \A i \in 1..Len(chain) : chain[i] \in Nodes /\ chain[i] \in InList
  BY <1>3 DEF InList, Range
<1>7. InList' \subseteq InList \ {head}
  <2> SUFFICES ASSUME NEW i \in DOMAIN chain'
               PROVE  chain'[i] \in InList \ {head}
    BY DEF InList, Range
  <2>1. i \in 1..Len(chain)-1 /\ i+1 \in 1..Len(chain) /\ i+1 # 1 /\ 1 \in 1..Len(chain)
    BY <1>3, <1>5
  <2> QED
    BY <1>3, <1>5, <1>6, <2>1
<1>8. DataTypeOK'
  BY <1>3, <1>4, <1>5, <1>6 DEF Data, DataTypeOK
<1>9. IsInjective(chain')
  <2> SUFFICES ASSUME NEW i \in 1..Len(chain)-1, NEW j \in 1..Len(chain)-1,
                      chain'[i] = chain'[j]
               PROVE  i = j
    BY <1>3, <1>5 DEF IsInjective
  <2>1. i+1 \in 1..Len(chain) /\ j+1 \in 1..Len(chain)
    BY <1>3
  <2>2. i+1 = j+1
    BY <1>3, <1>5, <2>1
  <2> QED
    BY <2>2
<1>10. \A i \in 1..Len(chain')-1 : next'[chain'[i]] = chain'[i+1]
  <2> SUFFICES ASSUME NEW i \in 1..Len(chain)-2
               PROVE  next[chain'[i]] = chain'[i+1]
    BY <1>3, <1>4, <1>5
  <2>1. i \in 1..Len(chain)-1 /\ i+1 \in 1..Len(chain)-1
    BY <1>3
  <2> QED
    BY <1>3, <1>5, <2>1
<1>11. IF chain' = <<>>
       THEN head' = NULL /\ tail' = NULL
       ELSE head' = chain'[1] /\ tail' = chain'[Len(chain')] /\ next'[tail'] = NULL
  <2>1. CASE Len(chain) = 1
    BY <1>3, <1>4, <1>5, <2>1
  <2>2. CASE Len(chain) # 1
    <3>1. /\ 1 \in 1..Len(chain)-1 /\ 2 \in 1..Len(chain)
          /\ Len(chain)-1 \in 1..Len(chain)-1 /\ chain' # <<>>
      BY <1>3, <1>5, <2>2
    <3>2. next[head] = chain[2] /\ chain[2] # NULL
      BY <1>3, <1>6, <3>1
    <3> QED
      BY <1>3, <1>4, <1>5, <3>1, <3>2
  <2> QED
    BY <2>1, <2>2
<1>12. ListShape'
  <2>1. count' = Len(chain')
    BY <1>3, <1>4, <1>5
  <2> QED
    BY <1>9, <1>10, <1>11, <2>1 DEF ListShape
<1>13. pc[t] \notin PushPCs /\ t \notin Carriers /\ pc[t] # "destroy_free"
  BY <1>3 DEF Carriers, PushPCs
<1>14. Carriers' = Carriers \cup {t}
  BY <1>2, <1>13 DEF Carriers
<1>15. lock = t
  BY <1>3, Holder DEF HeldPCs
<1>16. At("destroy_free") = {} /\ InList \subseteq heap
  BY <1>3, <1>15 DEF Control, LockDiscipline, HeldPCs, At, Data, ListAllocated
<1>17. PrivateNodes'
  <2>1. \A u \in Carriers : u # t /\ node'[u] = node[u] /\ node[u] \in heap \ InList
    BY <1>4, <1>13 DEF Data, DataTypeOK, PrivateNodes, Carriers
  <2>2. node'[t] = head
    BY <1>4 DEF Data, DataTypeOK
  <2>3. \A u, w \in Carriers : u # w => node'[u] # node'[w]
    BY <2>1 DEF Data, PrivateNodes
  <2> QED
    BY <1>4, <1>6, <1>7, <1>14, <1>16, <2>1, <2>2, <2>3 DEF PrivateNodes
<1>18. FreshNodes'
  BY <1>2, <1>4 DEF Data, DataTypeOK, FreshNodes, PushPCs
<1>19. ListAllocated'
  BY <1>4, <1>7, <1>16 DEF ListAllocated
<1> QED
  BY <1>8, <1>12, <1>17, <1>18, <1>19 DEF Data

(* task_queue_destroy: no other thread is in a call, so none carries a node. *)
LEMMA DataDestroy ==
  ASSUME Control, Data, NULL \notin Nodes, NEW t \in Threads,
         DestroyStart(t) \/ DestroyFreeNode(t) \/ DestroyEnd(t)
  PROVE  Data'
<1>1. pc[t] \in DestroyPCs /\ \A u \in Threads \ {t} : pc[u] = "idle"
  BY DEF DestroyStart, DestroyFreeNode, DestroyEnd, DestroyPCs, Control, DestroyAlone
<1>2. /\ pc'[t] \in {"destroy_free", "returned"}
      /\ \A u \in Threads \ {t} : pc'[u] = "idle"
  <2>1. CASE DestroyFreeNode(t)
    BY <1>1, <2>1 DEF DestroyFreeNode
  <2>2. CASE DestroyStart(t) \/ DestroyEnd(t)
    BY <1>1, <2>2 DEF DestroyStart, DestroyEnd, UnlockAndReturn, Goto, Move, Control, ControlTypeOK
  <2> QED
    BY <2>1, <2>2
<1>3. Carriers' = {} /\ FreshNodes'
  BY <1>2 DEF Carriers, FreshNodes, PushPCs
<1>4. PrivateNodes'
  BY <1>3 DEF PrivateNodes
<1>5. CASE DestroyStart(t) \/ DestroyFreeNode(t)
  <2>1. UNCHANGED <<func, next, list, result>>
    BY <1>5 DEF DestroyStart, DestroyFreeNode
  <2>2. ListShape'
    BY <2>1, ListKept
  <2>3. heap' \subseteq Nodes /\ node' \in [Threads -> Nodes \cup {NULL}]
    <3>1. CASE DestroyStart(t)
      BY <3>1 DEF DestroyStart, Data, DataTypeOK
    <3>2. CASE DestroyFreeNode(t)
      <4>1. node[t] \in Nodes /\ next[node[t]] \in Nodes \cup {NULL}
        BY <3>2 DEF DestroyFreeNode, Data, DataTypeOK
      <4> QED
        BY <3>2, <4>1 DEF DestroyFreeNode, Data, DataTypeOK
    <3> QED
      BY <1>5, <3>1, <3>2
  <2>4. DataTypeOK'
    BY <2>1, <2>3 DEF Data, DataTypeOK, list
  <2>5. pc'[t] = "destroy_free"
    BY <1>2, <1>5 DEF DestroyStart, DestroyFreeNode, Goto, Move, Control, ControlTypeOK
  <2>6. ListAllocated'
    BY <2>5 DEF ListAllocated, At
  <2> QED
    BY <1>3, <1>4, <2>2, <2>4, <2>6 DEF Data
<1>6. CASE DestroyEnd(t)
  <2>1. /\ head' = NULL /\ tail' = NULL /\ count' = 0 /\ chain' = <<>>
        /\ UNCHANGED <<heap, func, next, node>>
    BY <1>6 DEF DestroyEnd
  <2>2. ListShape' /\ ListAllocated'
    BY <2>1 DEF ListShape, IsInjective, ListAllocated, InList, Range
  <2>3. result' \in [Threads -> [ret : Nat \cup {-1}, val : Tasks \cup {NULL}]]
    BY <1>6 DEF DestroyEnd, UnlockAndReturn, Yield, Data, DataTypeOK
  <2>4. DataTypeOK'
    BY <2>1, <2>3 DEF Data, DataTypeOK
  <2> QED
    BY <1>3, <1>4, <2>2, <2>4 DEF Data
<1> QED
  BY <1>5, <1>6

(* Every step preserves Data, given Control. *)
LEMMA DataStep == Control /\ Data /\ [Next]_vars => Data'
<1> SUFFICES ASSUME Control, Data, [Next]_vars
             PROVE  Data'
  OBVIOUS
<1>a. NULL \notin Nodes
  BY QueueAssumption
<1>1. CASE UNCHANGED vars
  BY <1>1 DEF vars, list, Data, DataTypeOK, ListShape, PrivateNodes, FreshNodes,
              ListAllocated, InList, Carriers, At
<1>2. ASSUME NEW t \in Threads, NEW v \in Tasks, PushCall(t, v)
      PROVE  Data'
  BY <1>2, DataPushCall
<1>3. ASSUME NEW t \in Threads,
             \/ PushNoMemory(t) \/ PopCall(t) \/ OwnerCall(t) \/ Acquire(t)
             \/ PushWait(t) \/ PopWait(t) \/ PopFails(t) \/ SizeRead(t)
             \/ ShutdownBroadcast(t) \/ SpuriousWakeup(t) \/ Return(t)
      PROVE  Data'
  BY <1>3, DataQuietSteps
<1>4. ASSUME NEW t \in Threads, PushRefused(t)
      PROVE  Data'
  BY <1>4, DataPushRefused
<1>5. ASSUME NEW t \in Threads, PopCopyOut(t)
      PROVE  Data'
  BY <1>5, DataPopCopyOut
<1>6. ASSUME NEW t \in Threads, PushLink(t)
      PROVE  Data'
  BY <1>a, <1>6, DataPushLink
<1>7. ASSUME NEW t \in Threads, PopUnlink(t)
      PROVE  Data'
  BY <1>a, <1>7, DataPopUnlink
<1>8. ASSUME NEW t \in Threads, DestroyStart(t) \/ DestroyFreeNode(t) \/ DestroyEnd(t)
      PROVE  Data'
  BY <1>a, <1>8, DataDestroy
<1>9. CASE Terminated
  BY <1>1, <1>9 DEF Terminated
<1> QED
  BY <1>1, <1>2, <1>3, <1>4, <1>5, <1>6, <1>7, <1>8, <1>9 DEF Next, Call, Body

LEMMA DataAlways == Spec => []Data
<1>1. Init => Control /\ Data
  BY ControlInit, DataInit
<1>2. (Control /\ Data) /\ [Next]_vars => (Control /\ Data)'
  BY ControlStep, DataStep
<1> QED
  BY <1>1, <1>2, PTL DEF Spec

(* Every variable keeps its type.                                          *)
THEOREM TypeCorrect == Spec => []TypeOK
<1>1. Control /\ Data => TypeOK
  BY DEF Control, ControlTypeOK, Data, DataTypeOK, TypeOK
<1> QED
  BY <1>1, ControlAlways, DataAlways, PTL

(* The links of the nodes, head, tail and count describe one list after     *)
(* every operation, also while the queue is being destroyed.                *)
THEOREM ListStaysSound == Spec => []ListShape
<1>1. Data => ListShape
  BY DEF Data
<1> QED
  BY <1>1, DataAlways, PTL

(* What a thread carries outside the mutex, the node it is about to push or *)
(* the one it has popped, is allocated, out of the list and only its own.   *)
THEOREM NodesArePrivate == Spec => []PrivateNodes
<1>1. Data => PrivateNodes
  BY DEF Data
<1> QED
  BY <1>1, DataAlways, PTL

(* A push that waited for room re-checks it under the mutex: no number of   *)
(* pushers overfills the queue.                                             *)
THEOREM NeverOverfull == Spec => []CapacityRespected
<1>1. Init => CapacityRespected
  BY QueueAssumption DEF Init, CapacityRespected
<1>2. Data /\ CapacityRespected /\ [Next]_vars => CapacityRespected'
  <2> SUFFICES ASSUME count \in Nat, CapacityRespected, [Next]_vars
               PROVE  CapacityRespected'
    BY DEF Data, DataTypeOK
  <2>1. \/ count' = count
        \/ count' = 0
        \/ count # 0 /\ count' = count - 1
        \/ ~Full /\ count' = count + 1
    BY DEF Next, Call, Body, vars, list, Terminated, PushCall, PushNoMemory, PopCall,
           OwnerCall, Acquire, PushWait, PushRefused, PushLink, PopWait, Sleep, PopFails,
           UnlockAndReturn, PopUnlink, PopCopyOut, SizeRead, ShutdownBroadcast,
           DestroyStart, DestroyFreeNode, DestroyEnd, Return, SpuriousWakeup
  <2> QED
    BY <2>1, QueueAssumption DEF Full, CapacityRespected
<1> QED
  BY <1>1, <1>2, DataAlways, PTL DEF Spec

-----------------------------------------------------------------------------
(* The queue implements the FIFO of BoundedQueue: each step of the code is *)
(* one step of the FIFO or one that no caller can see.                     *)

Queue == [i \in 1..Len(chain) |-> func[chain[i]]]
Calls == [t \in Threads |-> CallOf(t)]

(* A node carries the task it was filled with until it is freed. *)
FilledNodes == \A n \in heap : func[n] \in Tasks

LEMMA FilledNodesStep ==
  ASSUME Data, FilledNodes, [Next]_vars
  PROVE  FilledNodes'
<1>1. \/ heap' \subseteq heap /\ func' = func
      \/ \E n \in Nodes, v \in Tasks : heap' = heap \cup {n} /\ func' = [func EXCEPT ![n] = v]
  BY DEF Next, Call, Body, vars, list, Terminated, PushCall, PushNoMemory, PopCall,
         OwnerCall, Acquire, PushWait, PushRefused, PushLink, PopWait, Sleep, PopFails, FreeNode,
         UnlockAndReturn, PopUnlink, PopCopyOut, SizeRead, ShutdownBroadcast,
         DestroyStart, DestroyFreeNode, DestroyEnd, Return, SpuriousWakeup
<1> QED
  BY <1>1 DEF FilledNodes, Data, DataTypeOK

(* The places at which a call of the given name has not taken effect.      *)
PopPCs == {"pop_lock", "pop_held", "pop_asleep", "pop_woken"}
TryPCs == {"try_lock", "try_held"}
SizePCs == {"size_lock", "size_held"}
ShutPCs == {"shut_lock", "shut_held"}

LEMMA CallAt ==
  ASSUME NEW t \in Threads
  PROVE  /\ pc[t] \in PushPCs =>
              CallOf(t) = [op |-> "push", ret |-> 0, val |-> func[node[t]]]
         /\ pc[t] \in PopPCs => CallOf(t) = [op |-> "pop", ret |-> 0, val |-> NULL]
         /\ pc[t] \in TryPCs => CallOf(t) = [op |-> "try_pop", ret |-> 0, val |-> NULL]
         /\ pc[t] \in SizePCs => CallOf(t) = [op |-> "size", ret |-> 0, val |-> NULL]
         /\ pc[t] \in ShutPCs => CallOf(t) = [op |-> "shutdown", ret |-> 0, val |-> NULL]
         /\ pc[t] \in DestroyPCs => CallOf(t) = [op |-> "destroy", ret |-> 0, val |-> NULL]
         /\ pc[t] = "copy_out" => CallOf(t) = [op |-> "done", ret |-> 0, val |-> func[node[t]]]
         /\ pc[t] = "returned" =>
              CallOf(t) = [op |-> "done", ret |-> result[t].ret, val |-> result[t].val]
         /\ pc[t] = "idle" => CallOf(t) = [op |-> "idle", ret |-> 0, val |-> NULL]
BY DEF CallOf, PushPCs, PopPCs, TryPCs, SizePCs, ShutPCs, DestroyPCs

LEMMA CallAtNext ==
  ASSUME NEW t \in Threads
  PROVE  /\ pc'[t] \in PushPCs =>
              CallOf(t)' = [op |-> "push", ret |-> 0, val |-> func'[node'[t]]]
         /\ pc'[t] \in PopPCs => CallOf(t)' = [op |-> "pop", ret |-> 0, val |-> NULL]
         /\ pc'[t] \in TryPCs => CallOf(t)' = [op |-> "try_pop", ret |-> 0, val |-> NULL]
         /\ pc'[t] \in SizePCs => CallOf(t)' = [op |-> "size", ret |-> 0, val |-> NULL]
         /\ pc'[t] \in ShutPCs => CallOf(t)' = [op |-> "shutdown", ret |-> 0, val |-> NULL]
         /\ pc'[t] \in DestroyPCs => CallOf(t)' = [op |-> "destroy", ret |-> 0, val |-> NULL]
         /\ pc'[t] = "copy_out" => CallOf(t)' = [op |-> "done", ret |-> 0, val |-> func'[node'[t]]]
         /\ pc'[t] = "returned" =>
              CallOf(t)' = [op |-> "done", ret |-> result'[t].ret, val |-> result'[t].val]
         /\ pc'[t] = "idle" => CallOf(t)' = [op |-> "idle", ret |-> 0, val |-> NULL]
BY DEF CallOf, PushPCs, PopPCs, TryPCs, SizePCs, ShutPCs, DestroyPCs

LEMMA PlacesCovered ==
  PCs = PushPCs \cup PopPCs \cup TryPCs \cup SizePCs \cup ShutPCs \cup DestroyPCs
          \cup {"copy_out", "returned", "idle"}
BY DEF PCs, Held, HeldPCs, PushPCs, PopPCs, TryPCs, SizePCs, ShutPCs, DestroyPCs

(* A step of t leaves the calls of the others as they are, if it leaves     *)
(* their nodes and results alone.                                           *)
LEMMA CallsAfter ==
  ASSUME Control, NEW t \in Threads, NEW p \in PCs, NEW woken \in SUBSET Asleep,
         Move(t, p, woken),
         \A u \in Threads \ {t} : node'[u] = node[u] /\ result'[u] = result[u],
         \A u \in Carriers \ {t} : func'[node[u]] = func[node[u]],
         NEW c, CallOf(t)' = c
  PROVE  Calls' = [Calls EXCEPT ![t] = c]
<1>1. ASSUME NEW u \in Threads \ {t}
      PROVE  CallOf(u)' = CallOf(u)
  <2>1. \/ pc'[u] = pc[u]
        \/ pc[u] = "pop_asleep" /\ pc'[u] = "pop_woken"
        \/ pc[u] = "push_asleep" /\ pc'[u] = "push_woken"
    BY MoveEffect DEF Control, ControlTypeOK, Asleep
  <2>2. pc[u] \in PCs
    BY DEF Control, ControlTypeOK
  <2>3. CASE pc[u] \in PushPCs
    <3>1. pc'[u] \in PushPCs /\ func'[node'[u]] = func[node[u]]
      BY <2>1, <2>3 DEF PushPCs, Carriers
    <3> QED
      BY <2>3, <3>1, CallAt, CallAtNext
  <2>4. CASE pc[u] \in PopPCs
    BY <2>1, <2>4, CallAt, CallAtNext DEF PopPCs
  <2>5. CASE pc[u] \in TryPCs \cup SizePCs \cup ShutPCs \cup DestroyPCs
    <3>1. pc'[u] = pc[u]
      BY <2>1, <2>5 DEF TryPCs, SizePCs, ShutPCs, DestroyPCs
    <3> QED
      BY <2>5, <3>1, CallAt, CallAtNext
  <2>6. CASE pc[u] \in {"copy_out", "returned", "idle"}
    <3>1. pc'[u] = pc[u] /\ node'[u] = node[u] /\ result'[u] = result[u]
          /\ (pc[u] = "copy_out" => func'[node[u]] = func[node[u]])
      BY <2>1, <2>6 DEF Carriers
    <3> QED
      BY <2>6, <3>1, CallAt, CallAtNext
  <2> QED
    BY <2>2, <2>3, <2>4, <2>5, <2>6, PlacesCovered
<1> QED
  BY <1>1 DEF Calls

(* The queue of tasks under steps that keep the list and what is in it.    *)
LEMMA QueueKept ==
  ASSUME Data, chain' = chain, \A n \in InList : func'[n] = func[n]
  PROVE  Queue' = Queue
<1>1. \A i \in 1..Len(chain) : chain[i] \in InList
  BY DEF Data, DataTypeOK, InList, Range
<1> QED
  BY <1>1 DEF Queue

(* A step inside a call that no caller can see. *)
LEMMA Unseen ==
  ASSUME Control, Data, NEW t \in Threads,
         \/ Acquire(t) \/ PushWait(t) \/ PopWait(t) \/ SpuriousWakeup(t)
         \/ PopCopyOut(t) \/ DestroyStart(t) \/ DestroyFreeNode(t)
  PROVE  UNCHANGED Abs!absVars
<1>1. /\ UNCHANGED <<func, list, shutdown>>
      /\ \A u \in Threads \ {t} : node'[u] = node[u] /\ result'[u] = result[u]
  BY DEF Acquire, PushWait, PopWait, Sleep, SpuriousWakeup, PopCopyOut, FreeNode, Yield,
         DestroyStart, DestroyFreeNode, Data, DataTypeOK
<1>2. Queue' = Queue
  BY <1>1, QueueKept DEF list
<1>3. CASE DestroyFreeNode(t)
  <2>1. pc' = pc /\ result' = result /\ pc[t] = "destroy_free"
        /\ \A u \in Threads \ {t} : pc[u] = "idle"
    BY <1>3 DEF DestroyFreeNode, Control, DestroyAlone, DestroyPCs
  <2>2. ASSUME NEW u \in Threads PROVE CallOf(u)' = CallOf(u)
    <3>1. CASE u = t
      BY <2>1, <3>1, CallAt, CallAtNext DEF DestroyPCs
    <3>2. CASE u # t
      BY <2>1, <3>2, CallAt, CallAtNext
    <3> QED
      BY <3>1, <3>2
  <2>3. Calls' = Calls
    BY <2>2 DEF Calls
  <2> QED
    BY <1>1, <1>2, <2>3 DEF Abs!absVars, Queue, Calls
<1>4. CASE ~DestroyFreeNode(t)
  <2>1. PICK q \in PCs : Move(t, q, {}) /\ CallOf(t)' = CallOf(t)
    <3>1. CASE Acquire(t)
      <4>1. /\ Goto(t, Held[pc[t]]) /\ pc[t] \in DOMAIN Held
            /\ func'[node'[t]] = func[node[t]]
        BY <3>1 DEF Acquire
      <4>2. /\ Held[pc[t]] \in PCs
            /\ pc[t] \in PushPCs => Held[pc[t]] \in PushPCs
            /\ pc[t] \in PopPCs => Held[pc[t]] \in PopPCs
            /\ pc[t] \in TryPCs => Held[pc[t]] \in TryPCs
            /\ pc[t] \in SizePCs => Held[pc[t]] \in SizePCs
            /\ pc[t] \in ShutPCs => Held[pc[t]] \in ShutPCs
            /\ pc[t] \in DestroyPCs => Held[pc[t]] \in DestroyPCs
            /\ pc[t] \in PushPCs \cup PopPCs \cup TryPCs \cup SizePCs \cup ShutPCs
                            \cup DestroyPCs
        BY <4>1 DEF Held, HeldPCs, PCs, PushPCs, PopPCs, TryPCs, SizePCs, ShutPCs, DestroyPCs
      <4>3. pc'[t] = Held[pc[t]]
        BY <4>1 DEF Goto, Move, Control, ControlTypeOK
      <4>4. CallOf(t)' = CallOf(t)
        BY <4>1, <4>2, <4>3, CallAt, CallAtNext
      <4> QED
        BY <4>1, <4>2, <4>4 DEF Goto
    <3>2. CASE PushWait(t) \/ (SpuriousWakeup(t) /\ pc[t] = "push_asleep")
      <4>1. PICK q \in {"push_asleep", "push_woken"} : Move(t, q, {})
        BY <3>2 DEF PushWait, Sleep, SpuriousWakeup, Goto
      <4>2. /\ pc[t] \in PushPCs /\ pc'[t] \in PushPCs /\ q \in PCs
            /\ func'[node'[t]] = func[node[t]]
        BY <3>2, <4>1 DEF PushWait, Sleep, SpuriousWakeup, Move, PushPCs, PCs, Held,
                          Control, ControlTypeOK
      <4> QED
        BY <4>1, <4>2, CallAt, CallAtNext
    <3>3. CASE PopWait(t) \/ (SpuriousWakeup(t) /\ pc[t] # "push_asleep")
      <4>1. PICK q \in {"pop_asleep", "pop_woken"} : Move(t, q, {})
        BY <3>3 DEF PopWait, Sleep, SpuriousWakeup, Goto
      <4>2. pc[t] \in PopPCs /\ pc'[t] \in PopPCs /\ q \in PCs
        BY <3>3, <4>1 DEF PopWait, Sleep, SpuriousWakeup, Move, PopPCs, PCs, Held,
                          Control, ControlTypeOK
      <4> QED
        BY <4>1, <4>2, CallAt, CallAtNext
    <3>4. CASE PopCopyOut(t)
      <4>1. /\ Move(t, "returned", {}) /\ "returned" \in PCs /\ pc[t] = "copy_out"
            /\ pc'[t] = "returned"
            /\ result'[t] = [ret |-> 0, val |-> func[node[t]]]
        BY <3>4 DEF PopCopyOut, Goto, Move, Yield, PCs, Control, ControlTypeOK, Data, DataTypeOK
      <4> QED
        BY <4>1, CallAt, CallAtNext
    <3>5. CASE DestroyStart(t)
      <4>1. /\ Move(t, "destroy_free", {}) /\ "destroy_free" \in PCs
            /\ pc[t] \in DestroyPCs /\ pc'[t] \in DestroyPCs
        BY <3>5 DEF DestroyStart, Goto, Move, PCs, HeldPCs, DestroyPCs, Control, ControlTypeOK
      <4> QED
        BY <4>1, CallAt, CallAtNext
    <3> QED
      BY <1>4, <3>1, <3>2, <3>3, <3>4, <3>5
  <2>2. {} \in SUBSET Asleep
    OBVIOUS
  <2>3. Calls' = [Calls EXCEPT ![t] = CallOf(t)]
    BY <1>1, <2>1, <2>2, CallsAfter
  <2>4. Calls' = Calls
    BY <2>3 DEF Calls
  <2> QED
    BY <1>1, <1>2, <2>4 DEF Abs!absVars, Queue, Calls
<1> QED
  BY <1>3, <1>4

(* A step that ends with t at "returned" and r, v in its hands. *)
LEMMA CallsReturned ==
  ASSUME Control, Data, NEW t \in Threads, NEW woken \in SUBSET Asleep,
         Move(t, "returned", woken), NEW r, NEW v, Yield(t, r, v),
         \A u \in Threads \ {t} : node'[u] = node[u],
         func' = func
  PROVE  Calls' = [Calls EXCEPT ![t] = [op |-> "done", ret |-> r, val |-> v]]
<1>1. "returned" \in PCs /\ pc'[t] = "returned"
  BY DEF PCs, Move, Control, ControlTypeOK
<1>2. /\ result'[t] = [ret |-> r, val |-> v]
      /\ \A u \in Threads \ {t} : result'[u] = result[u]
  BY DEF Yield, Data, DataTypeOK
<1>3. CallOf(t)' = [op |-> "done", ret |-> r, val |-> v]
  BY <1>1, <1>2, CallAtNext
<1> QED
  BY <1>1, <1>2, <1>3, CallsAfter

(* The steps that enter a call. *)
LEMMA Enters ==
  ASSUME Control, Data, NEW t \in Threads,
         (\E v \in Tasks : PushCall(t, v)) \/ PopCall(t) \/ OwnerCall(t)
  PROVE  Abs!Invoke(t)
<1>1. /\ UNCHANGED <<list, shutdown, result>> /\ pc[t] = "idle" /\ live
      /\ \A u \in Threads \ {t} : node'[u] = node[u]
  BY DEF PushCall, PopCall, OwnerCall, Data, DataTypeOK
<1>2. Calls[t] = Abs!Idle
  BY <1>1, CallAt DEF Calls, Abs!Idle
<1>3. {} \in SUBSET Asleep
  OBVIOUS
<1>4. CASE \E v \in Tasks : PushCall(t, v)
  <2>1. PICK v \in Tasks, n \in Nodes \ heap :
          /\ func' = [func EXCEPT ![n] = v] /\ node' = [node EXCEPT ![t] = n]
          /\ Move(t, "push_lock", {})
    BY <1>4 DEF PushCall, Goto
  <2>2. InList \subseteq heap
    BY <1>1 DEF Data, ListAllocated, At, Control, DestroyAlone, DestroyPCs
  <2>3. Queue' = Queue
    <3>1. \A m \in InList : func'[m] = func[m]
      BY <2>1, <2>2 DEF Data, DataTypeOK
    <3> QED
      BY <1>1, <3>1, QueueKept DEF list
  <2>4. \A u \in Carriers \ {t} : func'[node[u]] = func[node[u]]
    <3>1. \A u \in Carriers : node[u] \in heap /\ node[u] \in Nodes
      BY DEF Data, DataTypeOK, PrivateNodes
    <3> QED
      BY <2>1, <3>1 DEF Data, DataTypeOK
  <2>5. CallOf(t)' = [op |-> "push", ret |-> 0, val |-> v]
    <3>1. pc'[t] \in PushPCs /\ node'[t] = n /\ func'[n] = v
      BY <2>1 DEF Move, PushPCs, Control, ControlTypeOK, Data, DataTypeOK
    <3> QED
      BY <3>1, CallAtNext
  <2>6. "push_lock" \in PCs
    BY DEF PCs, Held
  <2>7. Calls' = [Calls EXCEPT ![t] = [op |-> "push", ret |-> 0, val |-> v]]
    BY <1>1, <1>3, <2>1, <2>4, <2>5, <2>6, CallsAfter
  <2> QED
    BY <1>1, <1>2, <2>3, <2>7 DEF Abs!Invoke, Abs!Pending, Abs!fifo, Queue, Calls
<1>5. CASE PopCall(t) \/ OwnerCall(t)
  <2>1. /\ UNCHANGED <<func, node>>
        /\ \E p \in {"pop_lock", "try_lock", "size_lock", "shut_lock", "destroy_lock"} :
             Move(t, p, {})
    BY <1>5 DEF PopCall, OwnerCall, Goto
  <2>2. PICK p \in {"pop_lock", "try_lock", "size_lock", "shut_lock", "destroy_lock"} :
          Move(t, p, {})
    BY <2>1
  <2>3. p \in PCs /\ pc'[t] = p
    BY <2>2 DEF PCs, Held, Move, Control, ControlTypeOK
  <2>4. PICK o \in {"pop", "try_pop", "size", "shutdown", "destroy"} :
          CallOf(t)' = [op |-> o, ret |-> 0, val |-> NULL]
    BY <2>3, CallAtNext DEF PopPCs, TryPCs, SizePCs, ShutPCs, DestroyPCs
  <2>5. Calls' = [Calls EXCEPT ![t] = [op |-> o, ret |-> 0, val |-> NULL]]
    BY <1>1, <1>3, <2>1, <2>2, <2>3, <2>4, CallsAfter
  <2>6. Queue' = Queue
    BY <1>1, <2>1, QueueKept DEF list
  <2>7. o \in Abs!Ops \ {"push"}
    BY DEF Abs!Ops
  <2> QED
    BY <1>1, <1>2, <2>5, <2>6, <2>7 DEF Abs!Invoke, Abs!Pending, Abs!fifo, Queue, Calls
<1> QED
  BY <1>4, <1>5

(* The steps that answer a call without a change of the FIFO. *)
LEMMA Answers ==
  ASSUME Control, Data, NEW t \in Threads,
         PushNoMemory(t) \/ PushRefused(t) \/ PopFails(t) \/ SizeRead(t)
  PROVE  \/ Abs!NoMemory(t) \/ Abs!PushRefused(t) \/ Abs!PopClosed(t)
         \/ Abs!TryPopEmpty(t) \/ Abs!Size(t)
<1>1. /\ UNCHANGED <<func, list, shutdown>> /\ Move(t, "returned", {})
      /\ \A u \in Threads \ {t} : node'[u] = node[u]
  BY DEF PushNoMemory, PushRefused, FreeNode, PopFails, SizeRead, UnlockAndReturn, Goto,
         Data, DataTypeOK
<1>2. Queue' = Queue /\ {} \in SUBSET Asleep
  BY <1>1, QueueKept DEF list
<1>3. Len(Queue) = count /\ (count = 0 => Queue = <<>>)
  BY DEF Queue, Data, DataTypeOK, ListShape
<1>4. ASSUME NEW r, NEW v, Yield(t, r, v)
      PROVE  Calls' = [Calls EXCEPT ![t] = [op |-> "done", ret |-> r, val |-> v]]
  BY <1>1, <1>2, <1>4, CallsReturned
<1>5. CASE PushNoMemory(t)
  <2>1. Calls[t] = Abs!Idle
    BY <1>5, CallAt DEF PushNoMemory, Calls, Abs!Idle
  <2>2. Calls' = [Calls EXCEPT ![t] = [op |-> "done", ret |-> -1, val |-> NULL]]
    BY <1>4, <1>5 DEF PushNoMemory
  <2> QED
    BY <1>1, <1>2, <2>1, <2>2 DEF Abs!NoMemory, Abs!Finish, Abs!Done, Abs!fifo, Queue, Calls
<1>6. CASE PushRefused(t)
  <2>1. Calls[t].op = "push" /\ shutdown
    BY <1>6, CallAt DEF PushRefused, Calls, PushPCs
  <2>2. Calls' = [Calls EXCEPT ![t] = [op |-> "done", ret |-> -1, val |-> NULL]]
    BY <1>4, <1>6 DEF PushRefused, UnlockAndReturn
  <2> QED
    BY <1>1, <1>2, <2>1, <2>2 DEF Abs!PushRefused, Abs!Finish, Abs!Done, Abs!fifo, Queue, Calls
<1>7. CASE PopFails(t)
  <2>1. /\ Queue = <<>>
        /\ (Calls[t].op = "pop" /\ shutdown) \/ Calls[t].op = "try_pop"
    BY <1>3, <1>7, CallAt DEF PopFails, Calls, PopPCs, TryPCs
  <2>2. Calls' = [Calls EXCEPT ![t] = [op |-> "done", ret |-> -1, val |-> NULL]]
    BY <1>4, <1>7 DEF PopFails, UnlockAndReturn
  <2> QED
    BY <1>1, <1>2, <2>1, <2>2
    DEF Abs!PopClosed, Abs!TryPopEmpty, Abs!Finish, Abs!Done, Abs!fifo, Queue, Calls
<1>8. CASE SizeRead(t)
  <2>1. Calls[t].op = "size"
    BY <1>8, CallAt DEF SizeRead, Calls, SizePCs
  <2>2. Calls' = [Calls EXCEPT ![t] = [op |-> "done", ret |-> Len(Queue), val |-> NULL]]
    BY <1>3, <1>4, <1>8 DEF SizeRead, UnlockAndReturn
  <2> QED
    BY <1>1, <1>2, <2>1, <2>2 DEF Abs!Size, Abs!Finish, Abs!Done, Abs!fifo, Queue, Calls
<1> QED
  BY <1>5, <1>6, <1>7, <1>8

(* The instant at which a push takes effect. *)
LEMMA Pushes ==
  ASSUME Control, Data, NEW t \in Threads, PushLink(t)
  PROVE  Abs!Push(t)
<1>1. PICK woken \in SignalNotEmpty : Move(t, "returned", woken)
  BY DEF PushLink
<1>2. /\ pc[t] = "push_held" /\ ~shutdown /\ ~Full /\ shutdown' = shutdown
      /\ chain' = Append(chain, node[t]) /\ func' = func
      /\ Yield(t, 0, NULL) /\ woken \in SUBSET Asleep
      /\ \A u \in Threads \ {t} : node'[u] = node[u]
  BY DEF PushLink, SignalNotEmpty, WakeOne, Asleep, Data, DataTypeOK
<1>3. Calls' = [Calls EXCEPT ![t] = [op |-> "done", ret |-> 0, val |-> NULL]]
  BY <1>1, <1>2, CallsReturned
<1>4. Calls[t].op = "push" /\ Calls[t].val = func[node[t]]
  <2>1. CallOf(t) = [op |-> "push", ret |-> 0, val |-> func[node[t]]]
    BY <1>2, CallAt DEF PushPCs
  <2> QED
    BY <2>1 DEF Calls
<1>5. chain \in Seq(Nodes) /\ node[t] \in Nodes /\ count = Len(chain)
  BY <1>2 DEF Data, DataTypeOK, PrivateNodes, Carriers, PushPCs, ListShape
<1>6. Queue' = Append(Queue, func[node[t]])
  BY <1>2, <1>5 DEF Queue
<1>7. Capacity > 0 => Len(Queue) < Capacity
  BY <1>2, <1>5, QueueAssumption DEF Full, Queue
<1> QED
  BY <1>2, <1>3, <1>4, <1>6, <1>7
  DEF Abs!Push, Abs!Enqueue, Abs!HasRoom, Abs!Finish, Abs!Done, Queue, Calls

(* Tail as a function. *)
LEMMA TailIs ==
  ASSUME NEW S, NEW q \in Seq(S), Len(q) > 0
  PROVE  Tail(q) = [i \in 1..Len(q)-1 |-> q[i+1]]
<1> DEFINE r == [i \in 1..Len(q)-1 |-> q[i+1]]
<1>1. Len(Tail(q)) = Len(q) - 1 /\ Tail(q) \in Seq(S)
  OBVIOUS
<1>2. \A i \in 1..Len(q)-1 : Tail(q)[i] = q[i+1]
  OBVIOUS
<1>3. r \in Seq(S) /\ Len(r) = Len(q) - 1
  OBVIOUS
<1>4. \A i \in 1..Len(q)-1 : r[i] = q[i+1]
  OBVIOUS
<1> HIDE DEF r
<1>5. Tail(q) = r
  BY <1>1, <1>2, <1>3, <1>4
<1> QED
  BY <1>5 DEF r

(* The instant at which a pop takes effect: it yields the oldest task.      *)
LEMMA Pops ==
  ASSUME Control, Data, FilledNodes, NEW t \in Threads, PopUnlink(t)
  PROVE  Abs!Pop(t)
<1>1. PICK woken \in SignalNotFull : Move(t, "copy_out", woken)
  BY DEF PopUnlink
<1>2. /\ pc[t] \in {"pop_held", "try_held"} /\ count # 0 /\ shutdown' = shutdown
      /\ chain' = Tail(chain) /\ func' = func /\ node'[t] = head
      /\ "copy_out" \in PCs /\ woken \in SUBSET Asleep
      /\ \A u \in Threads \ {t} : node'[u] = node[u] /\ result'[u] = result[u]
  BY DEF PopUnlink, SignalNotFull, WakeOne, Asleep, PCs, Data, DataTypeOK
<1>3. /\ chain \in Seq(Nodes) /\ Len(chain) > 0 /\ head = chain[1]
  BY <1>2 DEF Data, DataTypeOK, ListShape
<1>4. func[head] \in Tasks
  <2>1. lock = t
    BY <1>2, Holder DEF HeldPCs
  <2>2. InList \subseteq heap
    BY <1>2, <2>1 DEF Control, LockDiscipline, HeldPCs, At, Data, ListAllocated
  <2>3. head \in InList
    BY <1>3 DEF InList, Range
  <2> QED
    BY <2>2, <2>3 DEF FilledNodes
<1>5. Calls' = [Calls EXCEPT ![t] = [op |-> "done", ret |-> 0, val |-> func[head]]]
  <2>1. pc'[t] = "copy_out"
    BY <1>1 DEF Move, Control, ControlTypeOK
  <2>2. CallOf(t)' = [op |-> "done", ret |-> 0, val |-> func[head]]
    BY <1>2, <2>1, CallAtNext
  <2> QED
    BY <1>1, <1>2, <2>2, CallsAfter
<1>6. Calls[t].op \in {"pop", "try_pop"}
  BY <1>2, CallAt DEF Calls, PopPCs, TryPCs
<1>7. /\ Queue # <<>> /\ Head(Queue) = func[head]
      /\ Queue' = Tail(Queue)
  <2>1. /\ Queue \in Seq({func[n] : n \in Nodes}) /\ Len(Queue) = Len(chain)
        /\ Queue[1] = func[head]
    BY <1>3 DEF Queue
  <2>2. /\ Len(chain') = Len(chain) - 1
        /\ \A i \in 1..Len(chain)-1 : chain'[i] = chain[i+1]
    BY <1>2, <1>3
  <2>3. Queue' = [i \in 1..Len(Queue)-1 |-> Queue[i+1]]
    BY <1>2, <1>3, <2>1, <2>2 DEF Queue
  <2>4. Tail(Queue) = [i \in 1..Len(Queue)-1 |-> Queue[i+1]]
    BY <1>3, <2>1, TailIs
  <2>5. Queue # <<>> /\ Head(Queue) = func[head]
    BY <1>3, <2>1
  <2> QED
    BY <2>3, <2>4, <2>5
<1> QED
  BY <1>2, <1>4, <1>5, <1>6, <1>7
  DEF Abs!Pop, Abs!Dequeue, Abs!Finish, Abs!Done, Queue, Calls

(* shutdown and destroy, and the return of a call. *)
LEMMA Closes ==
  ASSUME Control, Data, NEW t \in Threads, ShutdownBroadcast(t)
  PROVE  Abs!Shutdown(t)
<1>1. /\ Move(t, "returned", Asleep) /\ Asleep \in SUBSET Asleep /\ Yield(t, 0, NULL)
      /\ UNCHANGED <<func, list, node>> /\ shutdown' = TRUE /\ pc[t] = "shut_held"
  BY DEF ShutdownBroadcast, BroadcastSet, Asleep
<1>2. Calls' = [Calls EXCEPT ![t] = [op |-> "done", ret |-> 0, val |-> NULL]]
  BY <1>1, CallsReturned
<1>3. Queue' = Queue
  BY <1>1, QueueKept DEF list
<1>4. Calls[t].op = "shutdown"
  BY <1>1, CallAt DEF Calls, ShutPCs
<1> QED
  BY <1>1, <1>2, <1>3, <1>4
  DEF Abs!Shutdown, Abs!Close, Abs!Finish, Abs!Done, Queue, Calls

LEMMA Clears ==
  ASSUME Control, Data, NEW t \in Threads, DestroyEnd(t)
  PROVE  Abs!Destroy(t)
<1>1. /\ Move(t, "returned", {}) /\ {} \in SUBSET Asleep /\ Yield(t, 0, NULL)
      /\ UNCHANGED <<func, node>> /\ chain' = <<>> /\ shutdown' = shutdown
      /\ pc[t] \in DestroyPCs
  BY DEF DestroyEnd, UnlockAndReturn, Goto, DestroyPCs
<1>2. Calls' = [Calls EXCEPT ![t] = [op |-> "done", ret |-> 0, val |-> NULL]]
  BY <1>1, CallsReturned
<1>3. Queue' = <<>>
  BY <1>1 DEF Queue
<1>4. Calls[t].op = "destroy"
  BY <1>1, CallAt DEF Calls
<1> QED
  BY <1>1, <1>2, <1>3, <1>4
  DEF Abs!Destroy, Abs!Clear, Abs!Finish, Abs!Done, Queue, Calls

LEMMA Returns ==
  ASSUME Control, Data, NEW t \in Threads, Return(t)
  PROVE  Abs!Return(t)
<1>1. /\ Move(t, "idle", {}) /\ {} \in SUBSET Asleep /\ "idle" \in PCs
      /\ UNCHANGED <<func, list, node, shutdown>> /\ pc[t] = "returned"
      /\ \A u \in Threads \ {t} : result'[u] = result[u]
  BY DEF Return, Goto, PCs, Data, DataTypeOK
<1>2. CallOf(t)' = Abs!Idle
  <2>1. pc'[t] = "idle"
    BY <1>1 DEF Move, Control, ControlTypeOK
  <2> QED
    BY <2>1, CallAtNext DEF Abs!Idle
<1>3. Calls' = [Calls EXCEPT ![t] = Abs!Idle]
  BY <1>1, <1>2, CallsAfter
<1>4. Queue' = Queue
  BY <1>1, QueueKept DEF list
<1>5. Calls[t].op = "done"
  BY <1>1, CallAt DEF Calls
<1> QED
  BY <1>1, <1>3, <1>4, <1>5 DEF Abs!Return, Abs!fifo, Queue, Calls

-----------------------------------------------------------------------------
(* Each step of the code is a step of the FIFO or changes nothing that a    *)
(* caller could see.                                                        *)
LEMMA AbsStep ==
  ASSUME Control, Data, FilledNodes, [Next]_vars
  PROVE  [Abs!AbsNext]_(Abs!absVars)
<1>1. CASE UNCHANGED vars
  <2>1. UNCHANGED <<func, chain, shutdown, pc, node, result>>
    BY <1>1 DEF vars, list
  <2>2. \A u \in Threads : CallOf(u)' = CallOf(u)
    BY <2>1 DEF CallOf
  <2>3. Queue' = Queue
    BY <2>1 DEF Queue
  <2> QED
    BY <2>1, <2>2, <2>3 DEF Abs!absVars, Queue
<1>2. ASSUME NEW t \in Threads,
             \/ Acquire(t) \/ PushWait(t) \/ PopWait(t) \/ SpuriousWakeup(t)
             \/ PopCopyOut(t) \/ DestroyStart(t) \/ DestroyFreeNode(t)
      PROVE  UNCHANGED Abs!absVars
  BY <1>2, Unseen
<1>3. ASSUME NEW t \in Threads,
             (\E v \in Tasks : PushCall(t, v)) \/ PopCall(t) \/ OwnerCall(t)
      PROVE  Abs!AbsNext
  BY <1>3, Enters DEF Abs!AbsNext
<1>4. ASSUME NEW t \in Threads,
             PushNoMemory(t) \/ PushRefused(t) \/ PopFails(t) \/ SizeRead(t)
      PROVE  Abs!AbsNext
  BY <1>4, Answers DEF Abs!AbsNext, Abs!Effect
<1>5. ASSUME NEW t \in Threads, PushLink(t)
      PROVE  Abs!AbsNext
  BY <1>5, Pushes DEF Abs!AbsNext, Abs!Effect
<1>6. ASSUME NEW t \in Threads, PopUnlink(t)
      PROVE  Abs!AbsNext
  BY <1>6, Pops DEF Abs!AbsNext, Abs!Effect
<1>7. ASSUME NEW t \in Threads, ShutdownBroadcast(t)
      PROVE  Abs!AbsNext
  BY <1>7, Closes DEF Abs!AbsNext, Abs!Effect
<1>8. ASSUME NEW t \in Threads, DestroyEnd(t)
      PROVE  Abs!AbsNext
  BY <1>8, Clears DEF Abs!AbsNext, Abs!Effect
<1>9. ASSUME NEW t \in Threads, Return(t)
      PROVE  Abs!AbsNext
  BY <1>9, Returns DEF Abs!AbsNext
<1>10. CASE Terminated
  BY <1>1, <1>10 DEF Terminated
<1> QED
  BY <1>1, <1>2, <1>3, <1>4, <1>5, <1>6, <1>7, <1>8, <1>9, <1>10 DEF Next, Call, Body

(* The linked list under its mutex is a FIFO, for any number of threads,    *)
(* tasks and nodes and every capacity: each task leaves once, in the order  *)
(* in which the tasks were linked, and each call reports what happened to   *)
(* the queue at one instant of it.                                          *)
THEOREM Refinement == Spec => ImplementsBoundedQueue
<1>1. Init => Control /\ Data /\ FilledNodes
  BY ControlInit, DataInit DEF Init, FilledNodes
<1>2. (Control /\ Data /\ FilledNodes) /\ [Next]_vars => (Control /\ Data /\ FilledNodes)'
  BY ControlStep, DataStep, FilledNodesStep
<1>3. Control /\ Data /\ FilledNodes /\ [Next]_vars => [Abs!AbsNext]_(Abs!absVars)
  BY AbsStep
<1>4. Init => Abs!AbsInit
  BY DEF Init, Abs!AbsInit, Abs!FifoInit, Abs!Idle, CallOf
<1> QED
  BY <1>1, <1>2, <1>3, <1>4, PTL DEF Spec, ImplementsBoundedQueue, Abs!AbsSpec
=============================================================================
