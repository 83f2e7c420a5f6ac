------------------------------ MODULE TaskQueue ------------------------------
(***************************************************************************)
(* The task queue as src/src/scheduler.c implements it: a singly linked    *)
(* list of malloc'ed nodes under one mutex, with one condition variable    *)
(* per direction.  A step is what a thread does between two points where   *)
(* another thread could interfere: taking the mutex is a step, the code    *)
(* from there to the unlock or to pthread_cond_wait is another.            *)
(*                                                                         *)
(* The queue starts as task_queue_init leaves it.  The thread that owns it *)
(* (the pool in src/src/thread_pool.c) shuts it down, and destroys it only *)
(* when no other thread is in a call, as thread_pool_destroy does after    *)
(* joining its workers.                                                    *)
(***************************************************************************)
EXTENDS Integers, Sequences, FiniteSets

CONSTANTS
  Producers,  (* threads that call task_queue_push                          *)
  Consumers,  (* threads that call task_queue_pop and task_queue_try_pop    *)
  Owners,     (* threads that call size, shutdown and destroy               *)
  Tasks,      (* the (func, arg) pairs                                      *)
  Nodes,      (* the addresses malloc can return                            *)
  Capacity,
  NULL

Threads == Producers \cup Consumers \cup Owners

ASSUME QueueAssumption ==
  /\ Capacity \in Nat
  /\ NULL \notin Threads \cup Tasks \cup Nodes
  /\ IsFiniteSet(Threads) /\ IsFiniteSet(Nodes)

VARIABLES
  heap,       (* the nodes malloc'ed and not yet freed                      *)
  func, next, (* the fields of a node                                       *)
  head, tail, count, shutdown, lock,   (* task_queue_t; lock: its holder    *)
  live,       (* task_queue_destroy not called: no call may begin after it  *)
  pc, node,   (* per thread: where it is, and its local variable "node"     *)
  result,     (* per thread: what the call it returns from yields           *)
  chain       (* history variable: the nodes of the list, in order          *)

list == <<head, tail, count, chain>>
vars == <<heap, func, next, list, shutdown, lock, live, pc, node, result>>

(* Acquiring the mutex leads from a pc on the left to the one on the right. *)
Held == [push_lock |-> "push_held", push_woken |-> "push_held",
         pop_lock |-> "pop_held", pop_woken |-> "pop_held",
         try_lock |-> "try_held", size_lock |-> "size_held",
         shut_lock |-> "shut_held", destroy_lock |-> "destroy_held"]

HeldPCs == {"push_held", "pop_held", "try_held", "size_held", "shut_held",
            "destroy_held", "destroy_free"}

PCs == DOMAIN Held \cup HeldPCs
         \cup {"idle", "push_asleep", "pop_asleep", "copy_out", "returned"}

At(p) == {t \in Threads : pc[t] = p}

NoResult == [ret |-> 0, val |-> NULL]
Yield(t, r, v) == result' = [result EXCEPT ![t] = [ret |-> r, val |-> v]]

TypeOK ==
  /\ heap \subseteq Nodes
  /\ func \in [Nodes -> Tasks \cup {NULL}]
  /\ next \in [Nodes -> Nodes \cup {NULL}]
  /\ head \in Nodes \cup {NULL}
  /\ tail \in Nodes \cup {NULL}
  /\ count \in Nat
  /\ shutdown \in BOOLEAN
  /\ lock \in Threads \cup {NULL}
  /\ live \in BOOLEAN
  /\ pc \in [Threads -> PCs]
  /\ node \in [Threads -> Nodes \cup {NULL}]
  /\ result \in [Threads -> [ret : Nat \cup {-1}, val : Tasks \cup {NULL}]]
  /\ chain \in Seq(Nodes)

(* As left by task_queue_init. *)
Init ==
  /\ heap = {}
  /\ func = [n \in Nodes |-> NULL]
  /\ next = [n \in Nodes |-> NULL]
  /\ head = NULL /\ tail = NULL /\ count = 0 /\ chain = <<>>
  /\ shutdown = FALSE /\ lock = NULL /\ live = TRUE
  /\ pc = [t \in Threads |-> "idle"]
  /\ node = [t \in Threads |-> NULL]
  /\ result = [t \in Threads |-> NoResult]

-----------------------------------------------------------------------------
(* The pthread primitives.                                                 *)

(* Thread t goes to pc p; the threads in woken leave their condition wait.  *)
Move(t, p, woken) ==
  pc' = [u \in Threads |->
           IF u = t THEN p
           ELSE IF u \notin woken THEN pc[u]
           ELSE IF pc[u] = "push_asleep" THEN "push_woken" ELSE "pop_woken"]

Goto(t, p) == Move(t, p, {})

(* pthread_cond_signal wakes a waiter of its choice, if there is one. *)
WakeOne(asleep) == IF asleep = {} THEN {{}} ELSE {{t} : t \in asleep}

(* pthread_mutex_lock, also the one inside a pthread_cond_wait that ends. *)
Acquire(t) ==
  /\ pc[t] \in DOMAIN Held
  /\ lock = NULL
  /\ lock' = t
  /\ Goto(t, Held[pc[t]])
  /\ UNCHANGED <<heap, func, next, list, shutdown, live, node, result>>

(* pthread_cond_wait: release the mutex and fall asleep in one step. *)
SleepHoldingMutex(t, p) ==
  /\ Goto(t, p)
  /\ UNCHANGED <<heap, func, next, list, shutdown, lock, live, node, result>>

Sleep(t, p) ==
  /\ lock' = NULL
  /\ Goto(t, p)
  /\ UNCHANGED <<heap, func, next, list, shutdown, live, node, result>>

(* POSIX lets pthread_cond_wait return without a signal. *)
SpuriousWakeup(t) ==
  /\ pc[t] \in {"push_asleep", "pop_asleep"}
  /\ Goto(t, IF pc[t] = "push_asleep" THEN "push_woken" ELSE "pop_woken")
  /\ UNCHANGED <<heap, func, next, list, shutdown, lock, live, node, result>>

(* Give the mutex back and return r, with v in the out parameter. *)
UnlockAndReturnWrongCode(t, r, v) ==
  lock' = NULL /\ Goto(t, "returned") /\ Yield(t, 2 * r, v)

UnlockAndReturn(t, r, v) ==
  /\ lock' = NULL
  /\ Goto(t, "returned")
  /\ Yield(t, r, v)

(* The caller gets the result and goes on. *)
Return(t) ==
  /\ pc[t] = "returned"
  /\ Goto(t, "idle")
  /\ result' = [result EXCEPT ![t] = NoResult]
  /\ UNCHANGED <<heap, func, next, list, shutdown, lock, live, node>>

(* free(node) of a node that only thread t refers to. *)
LeakNode(t) ==
  UNCHANGED heap /\ node' = [node EXCEPT ![t] = NULL]

FreeNode(t) ==
  /\ heap' = heap \ {node[t]}
  /\ node' = [node EXCEPT ![t] = NULL]

-----------------------------------------------------------------------------
(* task_queue_push                                                         *)

PushCall(t, v) ==
  /\ live /\ t \in Producers /\ pc[t] = "idle"
  /\ \E n \in Nodes \ heap :
       /\ heap' = heap \cup {n}
       /\ func' = [func EXCEPT ![n] = v]
       /\ next' = [next EXCEPT ![n] = NULL]
       /\ node' = [node EXCEPT ![t] = n]
  /\ Goto(t, "push_lock")
  /\ UNCHANGED <<list, shutdown, lock, live, result>>

(* malloc fails *)
PushNoMemory(t) ==
  /\ live /\ t \in Producers /\ pc[t] = "idle"
  /\ Goto(t, "returned")
  /\ Yield(t, -1, NULL)
  /\ UNCHANGED <<heap, func, next, list, shutdown, lock, live, node>>

Full == Capacity > 0 /\ count >= Capacity

SignalIfWasEmpty == IF count = 0 THEN WakeOne(At("pop_asleep")) ELSE {{}}

SignalNotEmpty == WakeOne(At("pop_asleep"))

PushWait(t) ==
  /\ pc[t] = "push_held"
  /\ Full /\ ~shutdown
  /\ Sleep(t, "push_asleep")

PushRefused(t) ==
  /\ pc[t] = "push_held"
  /\ shutdown
  /\ FreeNode(t)
  /\ UnlockAndReturn(t, -1, NULL)
  /\ UNCHANGED <<func, next, list, shutdown, live>>

PushLink(t) ==
  /\ pc[t] = "push_held"
  /\ ~shutdown /\ ~Full
  /\ IF tail # NULL
     THEN next' = [next EXCEPT ![tail] = node[t]] /\ UNCHANGED head
     ELSE head' = node[t] /\ UNCHANGED next
  /\ tail' = node[t]
  /\ count' = count + 1
  /\ chain' = Append(chain, node[t])
  /\ node' = [node EXCEPT ![t] = NULL]
  /\ \E woken \in SignalNotEmpty : Move(t, "returned", woken)
  /\ lock' = NULL
  /\ Yield(t, 0, NULL)
  /\ UNCHANGED <<heap, func, shutdown, live>>

-----------------------------------------------------------------------------
(* task_queue_pop and task_queue_try_pop                                   *)

PopCall(t) ==
  /\ live /\ t \in Consumers /\ pc[t] = "idle"
  /\ \E p \in {"pop_lock", "try_lock"} : Goto(t, p)
  /\ UNCHANGED <<heap, func, next, list, shutdown, lock, live, node, result>>

PopWait(t) ==
  /\ pc[t] = "pop_held"
  /\ count = 0 /\ ~shutdown
  /\ Sleep(t, "pop_asleep")

PopFailsOnShutdown(t) ==
  /\ \/ pc[t] = "pop_held" /\ shutdown
     \/ pc[t] = "try_held" /\ count = 0
  /\ UnlockAndReturn(t, -1, NULL)
  /\ UNCHANGED <<heap, func, next, list, shutdown, live, node>>

PopFails(t) ==
  /\ \/ pc[t] = "pop_held" /\ count = 0 /\ shutdown
     \/ pc[t] = "try_held" /\ count = 0
  /\ UnlockAndReturn(t, -1, NULL)
  /\ UNCHANGED <<heap, func, next, list, shutdown, live, node>>

StaleTail == tail

TailAfterPop == IF next[head] = NULL THEN NULL ELSE tail

SignalIfWasFull ==
  IF count = Capacity THEN WakeOne(At("push_asleep")) ELSE {{}}

NoSignal == {{}}

SignalNotFull == IF Capacity > 0 THEN WakeOne(At("push_asleep")) ELSE {{}}

(* The node is unlinked under the mutex and read after it is given back. *)
PopUnlink(t) ==
  /\ pc[t] \in {"pop_held", "try_held"}
  /\ count # 0
  /\ node' = [node EXCEPT ![t] = head]
  /\ head' = next[head]
  /\ tail' = TailAfterPop
  /\ count' = count - 1
  /\ chain' = Tail(chain)
  /\ \E woken \in SignalNotFull : Move(t, "copy_out", woken)
  /\ lock' = NULL
  /\ UNCHANGED <<heap, func, next, shutdown, live, result>>

PopCopyOut(t) ==
  /\ pc[t] = "copy_out"
  /\ Yield(t, 0, func[node[t]])
  /\ FreeNode(t)
  /\ Goto(t, "returned")
  /\ UNCHANGED <<func, next, list, shutdown, lock, live>>

-----------------------------------------------------------------------------
(* task_queue_size, task_queue_shutdown, task_queue_destroy                *)

OwnerCall(t) ==
  /\ live /\ t \in Owners /\ pc[t] = "idle"
  /\ \/ \E p \in {"size_lock", "shut_lock"} : Goto(t, p) /\ UNCHANGED live
     \/ /\ \A u \in Threads \ {t} : pc[u] = "idle"
        /\ Goto(t, "destroy_lock")
        /\ live' = FALSE
  /\ UNCHANGED <<heap, func, next, list, shutdown, lock, node, result>>

SizeRead(t) ==
  /\ pc[t] = "size_held"
  /\ UnlockAndReturn(t, count, NULL)
  /\ UNCHANGED <<heap, func, next, list, shutdown, live, node>>

OnlyPoppers == At("pop_asleep")

BroadcastSet == At("pop_asleep") \cup At("push_asleep")

ShutdownBroadcast(t) ==
  /\ pc[t] = "shut_held"
  /\ shutdown' = TRUE
  /\ Move(t, "returned", BroadcastSet)
  /\ lock' = NULL
  /\ Yield(t, 0, NULL)
  /\ UNCHANGED <<heap, func, next, list, live, node>>

DestroyStart(t) ==
  /\ pc[t] = "destroy_held"
  /\ node' = [node EXCEPT ![t] = head]
  /\ Goto(t, "destroy_free")
  /\ UNCHANGED <<heap, func, next, list, shutdown, lock, live, result>>

DestroyFreeNode(t) ==
  /\ pc[t] = "destroy_free"
  /\ node[t] # NULL
  /\ heap' = heap \ {node[t]}
  /\ node' = [node EXCEPT ![t] = next[node[t]]]
  /\ UNCHANGED <<func, next, list, shutdown, lock, live, pc, result>>

DestroyEnd(t) ==
  /\ pc[t] = "destroy_free"
  /\ node[t] = NULL
  /\ head' = NULL /\ tail' = NULL /\ count' = 0 /\ chain' = <<>>
  /\ UnlockAndReturn(t, 0, NULL)
  /\ UNCHANGED <<heap, func, next, shutdown, live, node>>

-----------------------------------------------------------------------------
(* What thread t does inside a call once it holds, or needs, no mutex. *)
Body(t) ==
  \/ PushWait(t) \/ PushRefused(t) \/ PushLink(t)
  \/ PopWait(t) \/ PopFails(t) \/ PopUnlink(t) \/ PopCopyOut(t)
  \/ SizeRead(t) \/ ShutdownBroadcast(t)
  \/ DestroyStart(t) \/ DestroyFreeNode(t) \/ DestroyEnd(t)
  \/ Return(t)

Call(t) ==
  \/ \E v \in Tasks : PushCall(t, v)
  \/ PushNoMemory(t) \/ PopCall(t) \/ OwnerCall(t)

(* The queue is gone and every call has returned. *)
Terminated ==
  /\ ~live
  /\ \A t \in Threads : pc[t] = "idle"
  /\ UNCHANGED vars

Next ==
  \/ \E t \in Threads : Call(t) \/ Acquire(t) \/ Body(t) \/ SpuriousWakeup(t)
  \/ Terminated

Spec == Init /\ [][Next]_vars

(***************************************************************************)
(* A thread inside a call keeps running, and one that keeps finding the    *)
(* mutex free gets it in the end.  Nobody has to call, and no condition    *)
(* wait ends without a signal.                                             *)
(***************************************************************************)
Fairness ==
  \A t \in Threads : WF_vars(Body(t)) /\ SF_vars(Acquire(t))

FairSpec == Spec /\ Fairness
=============================================================================
