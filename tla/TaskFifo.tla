------------------------------ MODULE TaskFifo ------------------------------
(***************************************************************************)
(* What the task queue of src/src/scheduler.c does to its contents, free   *)
(* of threads, locks and list nodes: a bounded FIFO that can be closed.    *)
(* Each operator is the effect of one successful call.  BoundedQueue adds  *)
(* the calls of threads to it, ThreadPool uses it as the pool's queue.     *)
(***************************************************************************)
EXTENDS Integers, Sequences

CONSTANTS
  Tasks,      (* what a push hands over: the pair (func, arg) of a node     *)
  Capacity    (* task_queue_t.capacity; 0 means unbounded                   *)

ASSUME CapacityAssumption == Capacity \in Nat

VARIABLES
  queue,      (* the tasks between head and tail, head first                *)
  shutdown    (* task_queue_t.shutdown                                      *)

fifo == <<queue, shutdown>>

FifoTypeOK ==
  /\ queue \in Seq(Tasks)
  /\ shutdown \in BOOLEAN

FifoInit ==
  /\ queue = <<>>
  /\ shutdown = FALSE

(* The wait condition of task_queue_push, negated. *)
HasRoom == Capacity > 0 => Len(queue) < Capacity

Enqueue(v) ==
  /\ ~shutdown
  /\ HasRoom
  /\ queue' = Append(queue, v)
  /\ UNCHANGED shutdown

Dequeue(v) ==
  /\ queue # <<>>
  /\ v = Head(queue)
  /\ queue' = Tail(queue)
  /\ UNCHANGED shutdown

(* task_queue_shutdown: what is queued stays queued. *)
Close ==
  /\ shutdown' = TRUE
  /\ UNCHANGED queue

(* task_queue_destroy: what is still queued is freed, unread. *)
Clear ==
  /\ queue' = <<>>
  /\ UNCHANGED shutdown
=============================================================================
