----------------------------- MODULE PoolService ----------------------------
(***************************************************************************)
(* What the thread pool of thread_pool.c promises to the threads that call *)
(* it, without workers, counters and locks: accepted tasks wait in a FIFO  *)
(* and are started in its order, each once, at most Limit at the same      *)
(* time; every call takes effect at one instant between its invocation and *)
(* its return.  ThreadPool implements this specification.                  *)
(***************************************************************************)
EXTENDS TaskFifo, FiniteSets

CONSTANTS
  Threads,    (* the callers, running tasks included                        *)
  Creators,   (* who may be the one that creates the pool                   *)
  Limit,      (* num_threads                                                *)
  NULL        (* no task                                                    *)

VARIABLES
  running,    (* the tasks that have been started and have not returned     *)
  finished,   (* the tasks that have returned                               *)
  life,       (* "open", "closing" when somebody ends the pool, "gone"      *)
  op, arg,    (* the call each thread is in, the task it submits            *)
  owed,       (* the tasks that each thread_pool_wait must see finished     *)
  result      (* what the call that returned last has returned              *)

serviceVars == <<fifo, running, finished, life, op, arg, owed, result>>

(* The tasks the pool has accepted so far. *)
Known == {queue[i] : i \in 1..Len(queue)} \cup running \cup finished

(* "accepted" is a submit whose task is in the queue, "teardown" the destroy *)
(* that ends the pool, "undo" a creation that fails half-way.                *)
Submitting == {t \in Threads : op[t] \in {"submit", "accepted"}}

ServiceInit ==
  /\ FifoInit
  /\ running = {} /\ finished = {} /\ life = "open"
  /\ \E c \in Creators : op = [t \in Threads |-> IF t = c THEN "create" ELSE "idle"]
  /\ arg = [t \in Threads |-> NULL] /\ owed = [t \in Threads |-> {}]
  /\ result = "none"

(* The call of thread t becomes o, another call or another stage of it. *)
Become(t, from, o) == op[t] = from /\ op' = [op EXCEPT ![t] = o]

Answer(t, from, r) == Become(t, from, "idle") /\ result' = r

-----------------------------------------------------------------------------
(* A new submit: no wait that is under way owes anything any more. *)
CallSubmit(t, v) ==
  /\ v \notin Known /\ \A u \in Threads : arg[u] # v
  /\ Become(t, "idle", "submit")
  /\ arg' = [arg EXCEPT ![t] = v]
  /\ owed' = [u \in Threads |-> {}]
  /\ UNCHANGED <<fifo, running, finished, life, result>>

Accept(t) ==
  /\ Enqueue(arg[t])
  /\ Become(t, "submit", "accepted")
  /\ UNCHANGED <<running, finished, life, arg, owed, result>>

Acknowledge(t) ==
  /\ Answer(t, "accepted", "SUCCESS")
  /\ arg' = [arg EXCEPT ![t] = NULL]
  /\ UNCHANGED <<fifo, running, finished, life, owed>>

(* SYSTEM: there is no memory, or the queue was closed after all. *)
Refuse(t) ==
  /\ \/ life # "open" /\ Answer(t, "submit", "SHUTDOWN")
     \/ Answer(t, "submit", "SYSTEM")
  /\ arg' = [arg EXCEPT ![t] = NULL]
  /\ UNCHANGED <<fifo, running, finished, life, owed>>

CallWait(t) ==
  /\ Become(t, "idle", "wait")
  /\ owed' = [owed EXCEPT ![t] = IF Submitting = {} THEN Known ELSE {}]
  /\ UNCHANGED <<fifo, running, finished, life, arg, result>>

FinishWait(t) ==
  /\ owed[t] \subseteq finished
  /\ Answer(t, "wait", "SUCCESS")
  /\ owed' = [owed EXCEPT ![t] = {}]
  /\ UNCHANGED <<fifo, running, finished, life, arg>>

CallDestroy(t) ==
  /\ Become(t, "idle", "destroy")
  /\ UNCHANGED <<fifo, running, finished, life, arg, owed, result>>

-----------------------------------------------------------------------------
(* The first destroy, or a creation that fails, ends the pool. *)
BeginEnd(t) ==
  /\ life = "open" /\ life' = "closing"
  /\ Become(t, "destroy", "teardown") \/ Become(t, "create", "undo")
  /\ UNCHANGED <<fifo, running, finished, arg, owed, result>>

AlreadyEnding(t) ==
  /\ life # "open"
  /\ Answer(t, "destroy", "SUCCESS")
  /\ UNCHANGED <<fifo, running, finished, life, arg, owed>>

CloseQueue(t) ==
  /\ op[t] \in {"teardown", "undo"}
  /\ Close
  /\ UNCHANGED <<running, finished, life, op, arg, owed, result>>

(* The pool ends when all it has accepted is finished, a creation that has *)
(* no memory before there is a queue to close.                             *)
End(t) ==
  /\ life # "gone" /\ life' = "gone"
  /\ \/ shutdown /\ Answer(t, "teardown", "SUCCESS")
     \/ shutdown /\ Answer(t, "undo", "NULL")
     \/ Answer(t, "create", "NULL")
  /\ queue = <<>> /\ running = {}
  /\ UNCHANGED <<fifo, running, finished, arg, owed>>

Created(t) ==
  /\ life = "open" /\ Answer(t, "create", "SUCCESS")
  /\ UNCHANGED <<fifo, running, finished, life, arg, owed>>

-----------------------------------------------------------------------------
Start ==
  /\ Cardinality(running) < Limit
  /\ \E v \in Tasks : Dequeue(v) /\ running' = running \cup {v}
  /\ UNCHANGED <<finished, life, op, arg, owed, result>>

Finish ==
  /\ \E v \in running : running' = running \ {v} /\ finished' = finished \cup {v}
  /\ UNCHANGED <<fifo, life, op, arg, owed, result>>

ServiceNext ==
  \/ \E t \in Threads :
       \/ \E v \in Tasks : CallSubmit(t, v)
       \/ Accept(t) \/ Acknowledge(t) \/ Refuse(t)
       \/ CallWait(t) \/ FinishWait(t) \/ CallDestroy(t)
       \/ BeginEnd(t) \/ AlreadyEnding(t) \/ CloseQueue(t) \/ End(t) \/ Created(t)
  \/ Start \/ Finish

(* Nothing is called, started or answered once the pool is gone. *)
ServiceSpec ==
  ServiceInit /\ [][life # "gone" /\ ServiceNext]_serviceVars
=============================================================================
