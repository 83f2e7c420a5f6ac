----------------------------- MODULE ThreadPool -----------------------------
(***************************************************************************)
(* The thread pool of src/src/thread_pool.c behind the calls of            *)
(* src/src/sthread.c: workers that pop and run tasks, clients (and, if     *)
(* allowed, running tasks) that submit, clients that wait and destroy.     *)
(* The queue is taken at its specification, TaskFifo; the atomics of the   *)
(* pool, wait_lock and wait_cond are modelled access by access.            *)
(*                                                                         *)
(* One client creates the pool, worker by worker; the life of the pool     *)
(* ends when it is freed, by thread_pool_destroy or by a creation that     *)
(* failed.                                                                 *)
(***************************************************************************)
EXTENDS TaskFifo, FiniteSets

CONSTANTS
  Workers, Clients,
  Usages,     (* the ways programs use the pool, see "usage"                *)
  NULL

Threads == Workers \cup Clients

ASSUME PoolAssumption ==
  /\ Workers \cap Clients = {} /\ IsFiniteSet(Workers)
  /\ Workers # {}     (* thread_pool_create turns 0 into at least 1 *)
  /\ NULL \notin Threads \cup Tasks
  /\ Usages \subseteq {"plain", "nested", "overlap"}
  /\ Capacity > 0     (* thread_pool_create turns 0 into 1024 *)

VARIABLES
  usage,          (* "nested": running tasks submit to their own pool;      *)
                  (* "overlap": clients call while another one destroys;    *)
                  (* "plain": neither                                       *)
  state, active, completed, submitted,   (* the atomics of thread_pool_t    *)
  wait_lock,      (* the holder of the mutex                                *)
  freed,          (* thread_pool_destroy has freed the pool                 *)
  pc, arg,        (* per thread: where it is; the task it submits           *)
  task,           (* per worker: the task it popped, until it is counted    *)
  seen,           (* per client: the counters thread_pool_wait has loaded   *)
  result,         (* what the call that returned last has returned          *)
  acked, runs,    (* history: the tasks whose submit returned SUCCESS; how  *)
                  (* often each task has run to its end                     *)
  due, quiet      (* history: the tasks acked when a wait began; the waits  *)
                  (* that no submit has overlapped so far                   *)

gate == <<usage, state, wait_lock, freed>>
counters == <<active, completed, submitted>>
locals == <<arg, task, seen, result>>
history == <<acked, runs, due, quiet>>
vars == <<fifo, gate, counters, pc, locals, history>>

SubmitPCs == {"submit_check", "submit_push", "submit_count"}
WaitPCs == {"wait_lock", "wait_load", "wait_asleep", "wait_woken"}
TeardownPCs == {"destroy_shutdown", "destroy_join", "destroy_terminate",
                "destroy_free"}
CreatePCs == {"create_alloc", "create_start", "abort_shutdown", "abort_join",
              "abort_free"}
WorkerPCs == {"unstarted", "pop", "state_check", "active_inc", "running", "active_dec",
              "completed_inc", "notify_lock", "notify", "exited"}

At(p) == {t \in Threads : pc[t] = p}

Unread == -1
Loads == Nat \cup {Unread}

TypeOK ==
  /\ FifoTypeOK
  /\ usage \in Usages
  /\ state \in {"RUNNING", "SHUTDOWN", "TERMINATED"}
  /\ active \in Nat /\ completed \in Nat /\ submitted \in Nat
  /\ wait_lock \in Threads \cup {NULL}
  /\ freed \in BOOLEAN
  /\ pc \in [Threads -> SubmitPCs \cup WaitPCs \cup TeardownPCs \cup WorkerPCs
                        \cup CreatePCs \cup {"idle", "destroy_cas"}]
  /\ arg \in [Threads -> Tasks \cup {NULL}]
  /\ task \in [Workers -> Tasks \cup {NULL}]
  /\ seen \in [Clients -> [completed : Loads, submitted : Loads]]
  /\ result \in {"none", "NULL", "SUCCESS", "SHUTDOWN", "SYSTEM"}
  /\ acked \subseteq Tasks
  /\ runs \in [Tasks -> Nat]
  /\ due \in [Clients -> SUBSET Tasks]
  /\ quiet \subseteq Clients

NothingLoaded == [completed |-> Unread, submitted |-> Unread]

Init ==
  /\ FifoInit
  /\ usage \in Usages
  /\ state = "RUNNING" /\ wait_lock = NULL /\ freed = FALSE
  /\ active = 0 /\ completed = 0 /\ submitted = 0
  /\ \E creator \in Clients :
       pc = [t \in Threads |-> IF t = creator THEN "create_alloc"
                               ELSE IF t \in Workers THEN "unstarted" ELSE "idle"]
  /\ arg = [t \in Threads |-> NULL]
  /\ task = [w \in Workers |-> NULL]
  /\ seen = [c \in Clients |-> NothingLoaded]
  /\ result = "none"
  /\ acked = {} /\ runs = [v \in Tasks |-> 0]
  /\ due = [c \in Clients |-> {}] /\ quiet = {}

(* Thread t goes on, as long as the pool is there. *)
Step(t, from, to) == ~freed /\ pc[t] = from /\ pc' = [pc EXCEPT ![t] = to]

(* The call thread t is in returns r. *)
Return(t, from, r) ==
  /\ Step(t, from, IF t \in Workers THEN "running" ELSE "idle")
  /\ result' = r

Add(a, c, s) ==
  active' = active + a /\ completed' = completed + c /\ submitted' = submitted + s

(* A client calls nothing before it has the pool, and, unless usage says    *)
(* otherwise, nothing while somebody destroys it.                           *)
MayCall(c) ==
  \A d \in Clients :
    /\ pc[d] \notin CreatePCs
    /\ usage = "overlap" \/ pc[d] \notin TeardownPCs \cup {"destroy_cas"}

(* Each member of Tasks stands for one submission. *)
Fresh == {v \in Tasks : v \notin acked /\ runs[v] = 0
                        /\ \A t \in Threads : arg[t] # v}

-----------------------------------------------------------------------------
(* thread_pool_submit; a task that submits is a worker "running".          *)

SubmitCall(t, v) ==
  /\ IF t \in Workers THEN usage = "nested" ELSE MayCall(t)
  /\ v \in Fresh
  /\ Step(t, IF t \in Workers THEN "running" ELSE "idle", "submit_check")
  /\ arg' = [arg EXCEPT ![t] = v]
  /\ quiet' = {}
  /\ UNCHANGED <<fifo, gate, counters, task, seen, result, acked, runs, due>>

GiveUp(t, from, r) ==
  /\ Return(t, from, r)
  /\ arg' = [arg EXCEPT ![t] = NULL]
  /\ UNCHANGED <<fifo, gate, counters, task, seen, history>>

SubmitCheck(t) ==
  /\ state = "RUNNING"
  /\ Step(t, "submit_check", "submit_push")
  /\ UNCHANGED <<fifo, gate, counters, locals, history>>

SubmitTooLate(t) == state # "RUNNING" /\ GiveUp(t, "submit_check", "SHUTDOWN")

SubmitNoMemoryCounted(t) ==
  /\ state = "RUNNING"
  /\ Return(t, "submit_check", "SYSTEM")
  /\ Add(0, 0, 1)
  /\ arg' = [arg EXCEPT ![t] = NULL]
  /\ UNCHANGED <<fifo, gate, task, seen, history>>

(* malloc, the first thing task_queue_push does, fails. *)
SubmitNoMemory(t) == state = "RUNNING" /\ GiveUp(t, "submit_check", "SYSTEM")

SubmitPush(t) ==
  /\ Enqueue(arg[t])
  /\ Step(t, "submit_push", "submit_count")
  /\ UNCHANGED <<gate, counters, locals, history>>

RefusedOnlyWithRoom(t) ==
  shutdown /\ HasRoom /\ GiveUp(t, "submit_push", "SYSTEM")

PushResultIgnored(t) == shutdown /\ GiveUp(t, "submit_push", "SUCCESS")

(* task_queue_push finds the queue shut down: at once or while it is full. *)
SubmitRefused(t) == shutdown /\ GiveUp(t, "submit_push", "SYSTEM")

CountForgotten(t) == Add(0, 0, 0)

CountSubmitted(t) == Add(0, 0, 1)

SubmitCount(t) ==
  /\ CountSubmitted(t)
  /\ acked' = acked \cup {arg[t]}
  /\ arg' = [arg EXCEPT ![t] = NULL]
  /\ Return(t, "submit_count", "SUCCESS")
  /\ UNCHANGED <<fifo, gate, task, seen, runs, due, quiet>>

-----------------------------------------------------------------------------
(* thread_pool_wait                                                        *)

WaitCall(c) ==
  /\ MayCall(c)
  /\ Step(c, "idle", "wait_lock")
  /\ due' = [due EXCEPT ![c] = acked]
  /\ quiet' = IF \E t \in Threads : pc[t] \in SubmitPCs
              THEN quiet \ {c} ELSE quiet \cup {c}
  /\ UNCHANGED <<fifo, gate, counters, locals, acked, runs>>

(* The first acquisition, or the one that ends a pthread_cond_wait. *)
WaitLock(c) ==
  /\ \E p \in {"wait_lock", "wait_woken"} : Step(c, p, "wait_load")
  /\ wait_lock = NULL /\ wait_lock' = c
  /\ UNCHANGED <<fifo, usage, state, freed, counters, locals, history>>

(* The operands of "<" are two atomic loads, in an order C leaves open. *)
WaitLoad(c) ==
  /\ ~freed /\ pc[c] = "wait_load"
  /\ \/ seen[c].completed = Unread /\ seen' = [seen EXCEPT ![c].completed = completed]
     \/ seen[c].submitted = Unread /\ seen' = [seen EXCEPT ![c].submitted = submitted]
  /\ UNCHANGED <<fifo, gate, counters, pc, arg, task, result, history>>

Decided(c) == seen[c].completed # Unread /\ seen[c].submitted # Unread

WaitSleep(c) ==
  /\ Decided(c) /\ seen[c].completed < seen[c].submitted
  /\ Step(c, "wait_load", "wait_asleep")
  /\ wait_lock' = NULL
  /\ seen' = [seen EXCEPT ![c] = NothingLoaded]
  /\ UNCHANGED <<fifo, usage, state, freed, counters, arg, task, result, history>>

WaitReturn(c) ==
  /\ Decided(c) /\ seen[c].completed >= seen[c].submitted
  /\ Return(c, "wait_load", "SUCCESS")
  /\ wait_lock' = NULL
  /\ seen' = [seen EXCEPT ![c] = NothingLoaded]
  /\ due' = [due EXCEPT ![c] = {}] /\ quiet' = quiet \ {c}
  /\ UNCHANGED <<fifo, usage, state, freed, counters, arg, task, acked, runs>>

SpuriousWakeup(c) ==
  /\ Step(c, "wait_asleep", "wait_woken")
  /\ UNCHANGED <<fifo, gate, counters, locals, history>>

-----------------------------------------------------------------------------
(* worker_thread                                                           *)

WorkerPop(w) ==
  /\ \E v \in Tasks : Dequeue(v) /\ task' = [task EXCEPT ![w] = v]
  /\ Step(w, "pop", "state_check")
  /\ UNCHANGED <<gate, counters, arg, seen, result, history>>

NothingLeftIgnored == shutdown

(* When task_queue_pop returns -1. *)
NothingLeft == shutdown /\ queue = <<>>

WorkerExit(w) ==
  /\ NothingLeft
  /\ Step(w, "pop", "exited")
  /\ UNCHANGED <<fifo, gate, counters, locals, history>>

QuitsOnShutdown == state # "RUNNING"

Quits == state = "TERMINATED"

WorkerCheckUncounted(w) ==
  /\ Step(w, "state_check", IF Quits THEN "exited" ELSE "running")
  /\ UNCHANGED <<fifo, gate, counters, locals, history>>

WorkerCheck(w) ==
  /\ Step(w, "state_check", IF Quits THEN "exited" ELSE "active_inc")
  /\ UNCHANGED <<fifo, gate, counters, locals, history>>

WorkerBegin(w) ==
  /\ Step(w, "active_inc", "running")
  /\ Add(1, 0, 0)
  /\ UNCHANGED <<fifo, gate, locals, history>>

(* func(task_arg) returns *)
TaskReturns(w) ==
  /\ Step(w, "running", "active_dec")
  /\ runs' = [runs EXCEPT ![task[w]] = @ + 1]
  /\ UNCHANGED <<fifo, gate, counters, locals, acked, due, quiet>>

WorkerEnd(w) ==
  /\ Step(w, "active_dec", "completed_inc")
  /\ Add(-1, 0, 0)
  /\ UNCHANGED <<fifo, gate, locals, history>>

WorkerComplete(w) ==
  /\ Step(w, "completed_inc", "notify_lock")
  /\ Add(0, 1, 0)
  /\ task' = [task EXCEPT ![w] = NULL]
  /\ UNCHANGED <<fifo, gate, arg, seen, result, history>>

WakeWaiters(w, woken) ==
  pc' = [t \in Threads |-> IF t = w THEN "pop"
                           ELSE IF t \in woken THEN "wait_woken" ELSE pc[t]]

NotifyUnlocked(w) ==
  /\ pc[w] = "notify_lock"
  /\ WakeWaiters(w, At("wait_asleep"))
  /\ UNCHANGED <<fifo, gate, counters, locals, history>>

NotifyLock(w) ==
  /\ Step(w, "notify_lock", "notify")
  /\ wait_lock = NULL /\ wait_lock' = w
  /\ UNCHANGED <<fifo, usage, state, freed, counters, locals, history>>

OneWaiter ==
  IF At("wait_asleep") = {} THEN {{}} ELSE {{c} : c \in At("wait_asleep")}

Woken == {At("wait_asleep")}

(* Broadcast, unlock, back to the top of the loop. *)
Notify(w) ==
  /\ pc[w] = "notify"
  /\ \E woken \in Woken : WakeWaiters(w, woken)
  /\ wait_lock' = NULL
  /\ UNCHANGED <<fifo, usage, state, freed, counters, locals, history>>

-----------------------------------------------------------------------------
(* thread_pool_destroy                                                     *)

DestroyCall(c) ==
  /\ MayCall(c)
  /\ usage = "overlap" \/ \A d \in Clients : pc[d] = "idle"
  /\ Step(c, "idle", "destroy_cas")
  /\ UNCHANGED <<fifo, gate, counters, locals, history>>

MayTearDown == state = "RUNNING"

(* Only the thread whose compare-exchange succeeds tears the pool down. *)
DestroyCas(c) ==
  /\ MayTearDown
  /\ Step(c, "destroy_cas", "destroy_shutdown")
  /\ state' = "SHUTDOWN"
  /\ UNCHANGED <<fifo, usage, wait_lock, freed, counters, locals, history>>

DestroyLost(c) ==
  /\ ~MayTearDown
  /\ Return(c, "destroy_cas", "SUCCESS")
  /\ UNCHANGED <<fifo, gate, counters, arg, task, seen, history>>

DestroyShutdown(c) ==
  /\ Step(c, "destroy_shutdown", "destroy_join")
  /\ Close
  /\ UNCHANGED <<gate, counters, locals, history>>

SomeExited == \E w \in Workers : pc[w] = "exited"

AllExited == \A w \in Workers : pc[w] \in {"unstarted", "exited"}

DestroyJoin(c) ==
  /\ AllExited
  /\ Step(c, "destroy_join", "destroy_terminate")
  /\ UNCHANGED <<fifo, gate, counters, locals, history>>

DestroyTerminate(c) ==
  /\ Step(c, "destroy_terminate", "destroy_free")
  /\ state' = "TERMINATED"
  /\ UNCHANGED <<fifo, usage, wait_lock, freed, counters, locals, history>>

FreePool(c, from, r) ==
  /\ Return(c, from, r)
  /\ Clear
  /\ freed' = TRUE
  /\ UNCHANGED <<usage, state, wait_lock, counters, arg, task, seen, history>>

DestroyFree(c) == FreePool(c, "destroy_free", "SUCCESS")

-----------------------------------------------------------------------------
(* thread_pool_create; the other clients have no pool to call until it      *)
(* returns one.                                                             *)

CreateInit(c) ==
  /\ Step(c, "create_alloc", "create_start")
  /\ UNCHANGED <<fifo, gate, counters, locals, history>>

(* An allocation or the init of a mutex or condition variable fails. *)
CreateNoMemory(c) == FreePool(c, "create_alloc", "NULL")

(* pthread_create succeeds: the worker may run at once. *)
CreateWorker(c) ==
  /\ ~freed /\ pc[c] = "create_start"
  /\ \E w \in At("unstarted") : pc' = [pc EXCEPT ![w] = "pop"]
  /\ UNCHANGED <<fifo, gate, counters, locals, history>>

CreateReturn(c) ==
  /\ At("unstarted") = {}
  /\ Return(c, "create_start", "SUCCESS")
  /\ UNCHANGED <<fifo, gate, counters, arg, task, seen, history>>

(* pthread_create fails for the next worker. *)
CreateFails(c) ==
  /\ At("unstarted") # {}
  /\ Step(c, "create_start", "abort_shutdown")
  /\ state' = "SHUTDOWN"
  /\ UNCHANGED <<fifo, usage, wait_lock, freed, counters, locals, history>>

AbortNoShutdown(c) ==
  /\ Step(c, "abort_shutdown", "abort_join")
  /\ UNCHANGED <<fifo, gate, counters, locals, history>>

AbortShutdown(c) ==
  /\ Step(c, "abort_shutdown", "abort_join")
  /\ Close
  /\ UNCHANGED <<gate, counters, locals, history>>

(* The workers started so far are joined. *)
AbortJoin(c) ==
  /\ AllExited
  /\ Step(c, "abort_join", "abort_free")
  /\ UNCHANGED <<fifo, gate, counters, locals, history>>

AbortFree(c) == FreePool(c, "abort_free", "NULL")

-----------------------------------------------------------------------------
SubmitStep(t) ==
  \/ SubmitCheck(t) \/ SubmitTooLate(t) \/ SubmitRefused(t) \/ SubmitCount(t)

ClientStep(c) ==
  \/ WaitLoad(c) \/ WaitSleep(c) \/ WaitReturn(c)
  \/ DestroyCas(c) \/ DestroyLost(c) \/ DestroyShutdown(c) \/ DestroyJoin(c)
  \/ DestroyTerminate(c) \/ DestroyFree(c)

CreateStep(c) ==
  \/ CreateInit(c) \/ CreateWorker(c) \/ CreateReturn(c)
  \/ AbortShutdown(c) \/ AbortJoin(c) \/ AbortFree(c)

WorkerStep(w) ==
  \/ WorkerExit(w) \/ WorkerCheck(w) \/ WorkerBegin(w) \/ WorkerEnd(w)
  \/ WorkerComplete(w) \/ Notify(w)

SubmitNext(t) ==
  \/ \E v \in Tasks : SubmitCall(t, v)
  \/ SubmitNoMemory(t) \/ SubmitPush(t) \/ SubmitStep(t)

ClientNext(c) ==
  \/ WaitCall(c) \/ DestroyCall(c)
  \/ WaitLock(c) \/ ClientStep(c) \/ SpuriousWakeup(c)
  \/ CreateStep(c) \/ CreateNoMemory(c) \/ CreateFails(c)

WorkerNext(w) ==
  WorkerPop(w) \/ TaskReturns(w) \/ NotifyLock(w) \/ WorkerStep(w)

(* The pool is gone. *)
Freed == freed /\ UNCHANGED vars

Next ==
  \/ \E t \in Threads : SubmitNext(t)
  \/ \E c \in Clients : ClientNext(c)
  \/ \E w \in Workers : WorkerNext(w)
  \/ Freed

Spec == Init /\ [][Next]_vars

(***************************************************************************)
(* A thread inside the library keeps running and gets a mutex that keeps   *)
(* coming free; a task returns, however often it submits; the queue makes  *)
(* the progress BoundedQueue promises, to its callers as a group.  Nobody  *)
(* has to call, no malloc or pthread_create has to fail, no condition wait *)
(* ends without a signal.                                                  *)
(***************************************************************************)
Fairness ==
  /\ WF_vars(\E t \in Threads : SubmitPush(t))
  /\ WF_vars(\E w \in Workers : WorkerPop(w))
  /\ \A c \in Clients :
       WF_vars(SubmitStep(c) \/ ClientStep(c) \/ CreateStep(c)) /\ SF_vars(WaitLock(c))
  /\ \A w \in Workers :
       /\ WF_vars(SubmitStep(w) \/ WorkerStep(w))
       /\ SF_vars(NotifyLock(w)) /\ SF_vars(TaskReturns(w))

FairSpec == Spec /\ Fairness
=============================================================================
