--------------------------- MODULE SemaphoreProps ---------------------------
(***************************************************************************)
(* The properties of Semaphore: its mutex, its condition variable, and the *)
(* refinement of CountingSemaphore.                                        *)
(***************************************************************************)
EXTENDS Semaphore

(* The mutex of sync_sem_t excludes, and every return of sync_sem_*, the    *)
(* early one of trywait included, gives it back: a thread is between lock   *)
(* and unlock exactly when it is the holder.                                *)
LockDiscipline == \A t \in Threads : pc[t] \in HeldPCs <=> lock = t

(* The threads on their way to a permit that a wait promised them. *)
Coming == At("woken") \cup At("wait_held")

(* No post is lost: while a thread sleeps in sync_sem_wait, each permit has *)
(* a waiter already on its way to it.  One signal per post is enough        *)
(* although trywait and late waiters may take the permit first, and the     *)
(* wrap-around of the counter does not strand anyone either.                *)
NoLostPost == At("asleep") # {} => count <= Cardinality(Coming)

-----------------------------------------------------------------------------
(* The abstract call thread t is in.  A call takes effect in the step that  *)
(* gives the mutex back.                                                    *)
OpAt == [idle |-> "idle",
         wait_lock |-> "wait", wait_held |-> "wait",
         asleep |-> "wait", woken |-> "wait",
         try_lock |-> "trywait", try_held |-> "trywait",
         post_lock |-> "post", post_held |-> "post",
         get_lock |-> "getvalue", get_held |-> "getvalue",
         returned |-> "done"]

CallOf(t) ==
  [op |-> OpAt[pc[t]], ret |-> result[t].ret, val |-> result[t].val]

Abs == INSTANCE CountingSemaphore
         WITH value <- count,
              open <- internal,
              call <- [t \in Threads |-> CallOf(t)]

(* As long as the callers keep the counter within the positive ints, the    *)
(* counter under its mutex is the semaphore of CountingSemaphore: no permit *)
(* is handed out twice or lost, and getvalue and trywait report what was    *)
(* true at one instant of the call.                                         *)
ImplementsCountingSemaphore == Abs!AbsSpec

(* Under the fairness of threads and mutex, a thread for which a permit     *)
(* stays available gets through sync_sem_wait: no signal too few in         *)
(* sync_sem_post.                                                           *)
ImplementsProgress == Abs!AbsFairness
=============================================================================
