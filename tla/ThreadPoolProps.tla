--------------------------- MODULE ThreadPoolProps ---------------------------
(***************************************************************************)
(* The properties of ThreadPool: what becomes of a submitted task, what    *)
(* thread_pool_wait may conclude from the counters, what is left when      *)
(* thread_pool_destroy frees the pool.                                     *)
(***************************************************************************)
EXTENDS ThreadPool

(* The workers that have popped a task they have not counted yet.          *)
Busy == {w \in Workers : task[w] # NULL /\ pc[w] # "exited"}

(* The tasks in the queue or past it: counted by their submitter, or about  *)
(* to be.                                                                   *)
Accepted == acked \cup {arg[t] : t \in At("submit_count")}

(* How many places a task is in: the queue, a worker that has not run it    *)
(* to its end, the past.                                                    *)
Copies(v) ==
  Cardinality({i \in 1..Len(queue) : queue[i] = v})
  + Cardinality({w \in Busy : task[w] = v /\ pc[w] \notin {"active_dec", "completed_inc"}})
  + runs[v]

(* Every task whose push succeeded is queued, or held by one worker, or has *)
(* run exactly once; no other task is anywhere.  Shutdown, the drain after  *)
(* it and the freeing of the queue lose none and run none twice: once the   *)
(* pool is freed every accepted task has run, and task_queue_destroy has    *)
(* found no node to free.                                                   *)
RunOnce == \A v \in Tasks : Copies(v) = (IF v \in Accepted THEN 1 ELSE 0)

(* The atomics agree with the queue and the workers although no lock keeps  *)
(* them together: what was submitted, counting the submitters that pushed   *)
(* and have not counted, is completed, queued, or in a worker's hands;      *)
(* active_tasks is the number of workers inside a task.                     *)
Accounting ==
  /\ submitted + Cardinality(At("submit_count"))
       = completed + Len(queue) + Cardinality(Busy)
  /\ active = Cardinality({w \in Busy : pc[w] \notin
                             {"state_check", "active_inc", "completed_inc"}})

(* wait_lock closes the window between the loads of thread_pool_wait and    *)
(* its sleep, and the broadcast leaves no sleeper out: while a client       *)
(* sleeps although nothing is left to complete, a worker is still about to  *)
(* broadcast.                                                               *)
NoLostWakeup ==
  At("wait_asleep") # {} /\ completed >= submitted =>
    At("notify_lock") \cup At("notify") # {}

(* thread_pool_destroy, and a thread_pool_create that fails half-way, free  *)
(* nothing another thread still uses: every worker that was started has     *)
(* left its loop and, if the callers keep the rules, no client is inside a  *)
(* call.                                                                    *)
NoUseAfterFree ==
  freed => /\ \A w \in Workers : pc[w] \in {"unstarted", "exited"}
           /\ usage # "overlap" => \A c \in Clients : pc[c] = "idle"

(* Of all the clients that destroy the pool at the same time, one joins the *)
(* workers and frees the memory.                                            *)
SingleTeardown ==
  Cardinality({c \in Clients : pc[c] \in TeardownPCs}) + (IF freed THEN 1 ELSE 0) <= 1

(* Whoever joins the workers, thread_pool_destroy or a thread_pool_create   *)
(* that could not start all of them, waits for no worker that itself waits  *)
(* for ever: one that sleeps in task_queue_pop has been told to leave, or   *)
(* there is a task to wake it.                                              *)
NoJoinDeadlock ==
  At("destroy_join") \cup At("abort_join") # {} =>
    At("pop") = {} \/ queue # <<>> \/ shutdown

(* A thread_pool_wait that no submit overlaps returns only when every task  *)
(* acknowledged before it has run to its end.                               *)
WaitExactWhenQuiet ==
  [][\A c \in quiet : WaitReturn(c) => \A v \in due[c] : runs[v] = 1]_vars

(* "Wait for all tasks to complete" (Readme.md:83), for the tasks whose     *)
(* submit had returned when the wait began, whoever else submits meanwhile. *)
WaitCoversAccepted ==
  [][\A c \in Clients : WaitReturn(c) => \A v \in due[c] : runs[v] = 1]_vars

(* A submit refused because the pool shuts down reports                     *)
(* STHREAD_ERROR_SHUTDOWN, "Pool shutting down" (Readme.md:140).            *)
RefusalSaysShutdown ==
  [][\A t \in Threads : pc[t] = "submit_push" /\ pc'[t] # "submit_push"
       /\ shutdown => result' = "SHUTDOWN"]_vars

-----------------------------------------------------------------------------
(* The one way waits and tasks can hang: every worker is blocked in a task  *)
(* that submits to the full queue only workers drain.                       *)
AllWorkersBlocked == ~HasRoom /\ \A w \in Workers : pc[w] = "submit_push"

(* A client in thread_pool_wait gets out of it.                             *)
WaitReturns ==
  \A c \in Clients :
    pc[c] = "wait_lock" ~> pc[c] = "idle" \/ AllWorkersBlocked

(* A task whose submit returned SUCCESS is run to its end, whether the pool *)
(* is destroyed meanwhile or not.                                           *)
AcceptedRuns ==
  \A v \in Tasks : v \in acked ~> runs[v] = 1 \/ AllWorkersBlocked

(* thread_pool_destroy returns, also when every worker is blocked inside a  *)
(* task that submits to the full queue.                                     *)
DestroyTerminates == \A c \in Clients : pc[c] = "destroy_cas" ~> freed

-----------------------------------------------------------------------------
(* The call of a thread at p, as PoolService sees it.                       *)
CallAt(p) ==
  CASE p \in {"submit_check", "submit_push"} -> "submit"
    [] p = "submit_count" -> "accepted"
    [] p \in WaitPCs -> "wait"
    [] p = "destroy_cas" -> "destroy"
    [] p \in TeardownPCs -> "teardown"
    [] p \in {"create_alloc", "create_start"} -> "create"
    [] p \in {"abort_shutdown", "abort_join", "abort_free"} -> "undo"
    [] OTHER -> "idle"

(* A task is running from the pop on until its function has returned.       *)
Running ==
  {task[w] : w \in {u \in Busy : pc[u] \notin {"active_dec", "completed_inc"}}}

Finished == {v \in Tasks : runs[v] # 0}

Life == IF freed THEN "gone" ELSE IF state = "RUNNING" THEN "open" ELSE "closing"

Service == INSTANCE PoolService WITH
  Creators <- Clients, Limit <- Cardinality(Workers),
  running <- Running, finished <- Finished, life <- Life,
  op <- [t \in Threads |-> CallAt(pc[t])],
  owed <- [t \in Threads |-> IF t \in quiet THEN due[t] ELSE {}]

(* Workers, atomics and locks amount to the service that PoolService       *)
(* describes: an accepted task is started in the order of acceptance, once, *)
(* and never more tasks run than there are workers; whoever is told that a  *)
(* task was accepted or refused is told the truth; the pool is gone only    *)
(* when everything accepted is finished, and one destroy sees to that.      *)
ImplementsPoolService == Service!ServiceSpec
=============================================================================
