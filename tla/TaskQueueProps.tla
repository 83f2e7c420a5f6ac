--------------------------- MODULE TaskQueueProps ---------------------------
(***************************************************************************)
(* The properties of TaskQueue: invariants of the list, of the nodes and   *)
(* of the two condition variables, and the refinement of BoundedQueue.     *)
(***************************************************************************)
EXTENDS TaskQueue, Functions

InList == Range(chain)

(* The threads whose variable "node" is the only reference to its node: in  *)
(* push before the node is linked, in pop once it is unlinked.              *)
PushPCs == {"push_lock", "push_held", "push_asleep", "push_woken"}
Carriers == {t \in Threads : pc[t] \in PushPCs \cup {"copy_out"}}

(* The mutex of scheduler.c excludes: a thread is between lock and unlock   *)
(* exactly when it is the holder.                                           *)
LockDiscipline == \A t \in Threads : pc[t] \in HeldPCs <=> lock = t

(* head, tail, next and count describe one list without cycles or shared    *)
(* nodes: what push links at the tail and pop unlinks at the head stays in  *)
(* step, the reset of tail by the pop of the last node included.            *)
ListShape ==
  /\ count = Len(chain)
  /\ IF chain = <<>>
     THEN head = NULL /\ tail = NULL
     ELSE head = chain[1] /\ tail = chain[Len(chain)] /\ next[tail] = NULL
  /\ \A i \in 1..Len(chain)-1 : next[chain[i]] = chain[i+1]
  /\ IsInjective(chain)

(* A node in the hands of a thread is allocated, out of the list and in     *)
(* nobody else's hands: what pop reads and frees after it gave the mutex    *)
(* back can be neither changed nor freed by another thread.                 *)
PrivateNodes ==
  \A t \in Carriers :
    /\ node[t] \in heap \ InList
    /\ \A u \in Carriers \ {t} : node[u] # node[t]

(* Every malloc'ed node is in the list or in the hands of exactly one       *)
(* thread: none is freed while reachable, none is leaked by a refused push, *)
(* by a pop, or by task_queue_destroy.                                      *)
NodeOwnership ==
  /\ PrivateNodes
  /\ At("destroy_free") = {} => heap = InList \cup {node[t] : t \in Carriers}
  /\ ~live /\ (\A t \in Threads : pc[t] = "idle") => heap = {}

(* A bounded queue never holds more than capacity tasks, whatever the       *)
(* pushers woken together find when they get the mutex back.                *)
CapacityRespected == Capacity > 0 => count <= Capacity

(* No wakeup of not_empty is lost: while a popper sleeps on an open queue,  *)
(* each queued task has a popper already on its way to it.  One signal per  *)
(* push is enough although another thread may take the task first.          *)
NoLostTask ==
  At("pop_asleep") # {} =>
    count <= Cardinality(At("pop_woken") \cup At("pop_held"))

(* No wakeup of not_full is lost: while a pusher sleeps, each free slot has *)
(* a pusher already on its way to it.                                       *)
NoLostRoom ==
  At("push_asleep") # {} =>
    Capacity - count <= Cardinality(At("push_woken") \cup At("push_held"))

(* task_queue_shutdown wakes everybody and nobody falls asleep after it.    *)
ShutdownWakesAll == shutdown => At("pop_asleep") \cup At("push_asleep") = {}

(* A call blocked or caught by task_queue_shutdown returns.                 *)
ShutdownReleases ==
  \A t \in Threads : shutdown /\ pc[t] # "idle" ~> pc[t] = "idle"

-----------------------------------------------------------------------------
(* The abstract call thread t is in.  A call takes effect in the step that  *)
(* gives the mutex back.                                                    *)
CallOf(t) ==
  CASE pc[t] \in {"push_lock", "push_held", "push_asleep", "push_woken"} ->
         [op |-> "push", ret |-> 0, val |-> func[node[t]]]
    [] pc[t] \in {"pop_lock", "pop_held", "pop_asleep", "pop_woken"} ->
         [op |-> "pop", ret |-> 0, val |-> NULL]
    [] pc[t] \in {"try_lock", "try_held"} ->
         [op |-> "try_pop", ret |-> 0, val |-> NULL]
    [] pc[t] \in {"size_lock", "size_held"} ->
         [op |-> "size", ret |-> 0, val |-> NULL]
    [] pc[t] \in {"shut_lock", "shut_held"} ->
         [op |-> "shutdown", ret |-> 0, val |-> NULL]
    [] pc[t] \in {"destroy_lock", "destroy_held", "destroy_free"} ->
         [op |-> "destroy", ret |-> 0, val |-> NULL]
    [] pc[t] = "copy_out" ->
         [op |-> "done", ret |-> 0, val |-> func[node[t]]]
    [] pc[t] = "returned" ->
         [op |-> "done", ret |-> result[t].ret, val |-> result[t].val]
    [] OTHER -> [op |-> "idle", ret |-> 0, val |-> NULL]

Abs == INSTANCE BoundedQueue
         WITH queue <- [i \in 1..Len(chain) |-> func[chain[i]]],
              call <- [t \in Threads |-> CallOf(t)]

(* The linked list under its mutex is the FIFO of BoundedQueue: tasks leave *)
(* in the order they were linked, each once, and a call reports what        *)
(* happened to the queue at one instant of it.                              *)
ImplementsBoundedQueue == Abs!AbsSpec

(* Under the fairness of threads and mutex, the queue also makes the        *)
(* progress BoundedQueue promises: no signal too few on either side.        *)
ImplementsProgress == Abs!AbsFairness
=============================================================================
