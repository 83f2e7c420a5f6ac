---------------------------- MODULE BoundedQueue ----------------------------
(***************************************************************************)
(* What the task queue promises to the threads that call it: every call    *)
(* takes effect at one instant between its invocation and its return, on   *)
(* the FIFO of TaskFifo.  A push blocks while the queue is full, a pop     *)
(* while it is empty, neither once it has been shut down.  TaskQueue, the  *)
(* mutex, condition variables and linked list of scheduler.c, implements   *)
(* this specification.                                                     *)
(***************************************************************************)
EXTENDS TaskFifo

CONSTANTS
  Threads,    (* the threads that call the queue                            *)
  NULL        (* no task                                                    *)

VARIABLE call (* the call each thread is in, and its outcome once decided   *)

absVars == <<queue, shutdown, call>>

(* The C entry points; "done" is a call whose outcome is decided. *)
Ops == {"push", "pop", "try_pop", "size", "shutdown", "destroy"}

Idle == [op |-> "idle", ret |-> 0, val |-> NULL]
Pending(o, v) == [op |-> o, ret |-> 0, val |-> v]

(* ret is the C return code (the count for task_queue_size), val *out_func. *)
Done(r, v) == [op |-> "done", ret |-> r, val |-> v]

CallTypeOK ==
  call \in [Threads -> [op : Ops \cup {"idle", "done"},
                        ret : Nat \cup {-1},
                        val : Tasks \cup {NULL}]]

AbsInit ==
  /\ FifoInit
  /\ call = [t \in Threads |-> Idle]

Invoke(t) ==
  /\ call[t] = Idle
  /\ \/ \E v \in Tasks : call' = [call EXCEPT ![t] = Pending("push", v)]
     \/ \E o \in Ops \ {"push"} : call' = [call EXCEPT ![t] = Pending(o, NULL)]
  /\ UNCHANGED fifo

Finish(t, r, v) == call' = [call EXCEPT ![t] = Done(r, v)]

(* The malloc of a node failed: refused before the queue is looked at. *)
NoMemory(t) ==
  /\ call[t] = Idle
  /\ Finish(t, -1, NULL)
  /\ UNCHANGED fifo

Push(t) ==
  /\ call[t].op = "push"
  /\ Enqueue(call[t].val)
  /\ Finish(t, 0, NULL)

PushRefused(t) ==
  /\ call[t].op = "push"
  /\ shutdown
  /\ Finish(t, -1, NULL)
  /\ UNCHANGED fifo

Pop(t) ==
  /\ call[t].op \in {"pop", "try_pop"}
  /\ \E v \in Tasks : Dequeue(v) /\ Finish(t, 0, v)

(* pop fails only on a closed queue that has been drained. *)
PopClosed(t) ==
  /\ call[t].op = "pop"
  /\ shutdown /\ queue = <<>>
  /\ Finish(t, -1, NULL)
  /\ UNCHANGED fifo

TryPopEmpty(t) ==
  /\ call[t].op = "try_pop"
  /\ queue = <<>>
  /\ Finish(t, -1, NULL)
  /\ UNCHANGED fifo

Size(t) ==
  /\ call[t].op = "size"
  /\ Finish(t, Len(queue), NULL)
  /\ UNCHANGED fifo

Shutdown(t) ==
  /\ call[t].op = "shutdown"
  /\ Close
  /\ Finish(t, 0, NULL)

Destroy(t) ==
  /\ call[t].op = "destroy"
  /\ Clear
  /\ Finish(t, 0, NULL)

Return(t) ==
  /\ call[t].op = "done"
  /\ call' = [call EXCEPT ![t] = Idle]
  /\ UNCHANGED fifo

Effect(t) ==
  Push(t) \/ PushRefused(t) \/ Pop(t) \/ PopClosed(t) \/ TryPopEmpty(t)
  \/ Size(t) \/ Shutdown(t) \/ Destroy(t)

AbsNext ==
  \E t \in Threads : Invoke(t) \/ NoMemory(t) \/ Effect(t) \/ Return(t)

AbsSpec == AbsInit /\ [][AbsNext]_absVars

(***************************************************************************)
(* Progress promised to the callers as a group: as long as some push finds *)
(* room, or some pop finds a task, or is told of the shutdown, one of them *)
(* gets through.  Which one is not promised: signals and lock hand-over    *)
(* choose freely.                                                          *)
(***************************************************************************)
AbsFairness ==
  /\ WF_absVars(\E t \in Threads : Push(t))
  /\ WF_absVars(\E t \in Threads : Pop(t))
  /\ \A t \in Threads : WF_absVars(PushRefused(t) \/ PopClosed(t))

FairAbsSpec == AbsSpec /\ AbsFairness
=============================================================================
