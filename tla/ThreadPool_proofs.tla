------------------------- MODULE ThreadPool_proofs --------------------------
(***************************************************************************)
(* Proofs about ThreadPool, for every finite set of workers, any clients,  *)
(* any tasks and any capacity.  Control says who may be where while the    *)
(* pool is created, used and taken down; Waking is inductive on top of it. *)
(***************************************************************************)
EXTENDS ThreadPoolProps, FiniteSetTheorems, TLAPS

USE PoolAssumption

ClientPCs == SubmitPCs \cup WaitPCs \cup TeardownPCs \cup CreatePCs
               \cup {"idle", "destroy_cas"}

(* Where a client is that joins the workers and frees the pool.            *)
EndPCs == TeardownPCs \cup {"abort_shutdown", "abort_join", "abort_free"}

Ending == {c \in Clients : pc[c] \in EndPCs}

Places ==
  /\ usage \in Usages /\ freed \in BOOLEAN /\ shutdown \in BOOLEAN
  /\ pc \in [Threads -> ClientPCs \cup WorkerPCs]
  /\ \A c \in Clients : pc[c] \in ClientPCs
  /\ \A w \in Workers : pc[w] \in SubmitPCs \cup WorkerPCs

(* The creator is alone; without overlap so is a client that destroys.     *)
Alone ==
  \A c, d \in Clients : c # d =>
    /\ pc[c] \in CreatePCs => pc[d] = "idle"
    /\ usage # "overlap" /\ pc[c] \in TeardownPCs \cup {"destroy_cas"}
         => pc[d] = "idle"

(* One client ends the pool: it has set state, it shuts the queue down     *)
(* before it joins, and what follows the join finds all workers gone.      *)
Teardown ==
  /\ \A c, d \in Ending : c = d
  /\ Ending # {} => ~freed /\ state # "RUNNING"
  /\ \A c \in Clients :
       /\ pc[c] \in {"create_alloc", "create_start"} => state = "RUNNING"
       /\ pc[c] = "create_alloc" => AllExited
       /\ pc[c] \in {"destroy_join", "destroy_terminate", "destroy_free",
                    "abort_join", "abort_free"} => shutdown
       /\ pc[c] \in {"destroy_terminate", "destroy_free", "abort_free"} => AllExited
  /\ state = "TERMINATED" => AllExited
  /\ freed => AllExited /\ (usage # "overlap" => \A c \in Clients : pc[c] = "idle")

Control == Places /\ Alone /\ Teardown

-----------------------------------------------------------------------------
(* A worker goes from one place of its loop to another.                    *)
LEMMA WorkerMoves ==
  ASSUME Control, NEW w \in Workers, ~freed,
         NEW q \in (SubmitPCs \cup WorkerPCs) \ {"unstarted"},
         pc[w] \notin {"unstarted", "exited"},
         pc' = [pc EXCEPT ![w] = q],
         UNCHANGED <<usage, state, freed, shutdown>>
  PROVE  Control'
<1>1. /\ \A c \in Clients : pc'[c] = pc[c]
      /\ \A u \in Workers \ {w} : pc'[u] = pc[u]
      /\ pc'[w] = q
  BY DEF Control, Places, Threads
<1>2. ~AllExited
  BY DEF AllExited
<1>3. Places'
  BY <1>1 DEF Control, Places, Threads, ClientPCs
<1>4. Alone'
  BY <1>1 DEF Control, Alone
<1>5. Teardown'
  <2>1. Ending' = Ending
    BY <1>1 DEF Ending
  <2> QED
    BY <1>1, <1>2, <2>1 DEF Control, Teardown
<1> QED
  BY <1>3, <1>4, <1>5 DEF Control

(* A client goes from one place to another and leaves the pool's life     *)
(* alone.                                                                  *)
LEMMA ClientMoves ==
  ASSUME Control, NEW c \in Clients, ~freed,
         NEW q \in ClientPCs \ (EndPCs \cup CreatePCs),
         pc[c] \notin EndPCs \cup CreatePCs,
         pc[c] = "idle" => MayCall(c),
         q = "destroy_cas" => usage = "overlap" \/ \A d \in Clients : pc[d] = "idle",
         pc' = [pc EXCEPT ![c] = q],
         UNCHANGED <<usage, state, freed, shutdown>>
  PROVE  Control'
<1>1. /\ \A d \in Clients \ {c} : pc'[d] = pc[d]
      /\ \A u \in Workers : pc'[u] = pc[u]
      /\ pc'[c] = q
  BY DEF Control, Places, Threads
<1>2. AllExited' <=> AllExited
  BY <1>1 DEF AllExited
<1>3. Places'
  BY <1>1 DEF Control, Places, Threads
<1>4. Alone'
  <2> SUFFICES ASSUME NEW e \in Clients, NEW d \in Clients, e # d
               PROVE  /\ pc'[e] \in CreatePCs => pc'[d] = "idle"
                      /\ usage # "overlap" /\ pc'[e] \in TeardownPCs \cup {"destroy_cas"}
                           => pc'[d] = "idle"
    BY DEF Alone
  <2>1. CASE e # c /\ d # c
    BY <1>1, <2>1 DEF Control, Alone
  <2>2. CASE e = c
    BY <1>1, <2>2 DEF Control, Alone, MayCall, EndPCs
  <2>3. CASE d = c
    BY <1>1, <2>3 DEF Control, Alone, MayCall
  <2> QED
    BY <2>1, <2>2, <2>3
<1>5. Teardown'
  <2>1. Ending' = Ending
    BY <1>1 DEF Ending
  <2> QED
    BY <1>1, <1>2, <2>1 DEF Control, Teardown, EndPCs, CreatePCs, TeardownPCs
<1> QED
  BY <1>3, <1>4, <1>5 DEF Control

LEMMA SubmitMoves ==
  ASSUME Control, NEW t \in Threads, ~freed, pc[t] \in SubmitPCs,
         NEW q \in SubmitPCs \cup {IF t \in Workers THEN "running" ELSE "idle"},
         pc' = [pc EXCEPT ![t] = q],
         UNCHANGED <<usage, state, freed, shutdown>>
  PROVE  Control'
<1>1. CASE t \in Workers
  <2>1. q \in (SubmitPCs \cup WorkerPCs) \ {"unstarted"} /\ pc[t] \notin {"unstarted", "exited"}
    BY <1>1 DEF SubmitPCs, WorkerPCs
  <2> QED
    BY <1>1, <2>1, WorkerMoves
<1>2. CASE t \in Clients
  <2>1. /\ q \in ClientPCs \ (EndPCs \cup CreatePCs) /\ q # "destroy_cas"
        /\ pc[t] \notin EndPCs \cup CreatePCs /\ pc[t] # "idle"
    BY <1>2 DEF SubmitPCs, ClientPCs, EndPCs, TeardownPCs, CreatePCs
  <2> QED
    BY <1>2, <2>1, ClientMoves
<1> QED
  BY <1>1, <1>2 DEF Threads

(* A client goes on with what it does alone.                               *)
LEMMA AloneMoves ==
  ASSUME Control, NEW c \in Clients, NEW q \in ClientPCs,
         pc' = [pc EXCEPT ![c] = q],
         \/ pc[c] \in CreatePCs /\ q \notin TeardownPCs \cup {"destroy_cas"}
         \/ pc[c] \in TeardownPCs \cup {"destroy_cas"} /\ q \notin CreatePCs,
         UNCHANGED usage, freed' \in BOOLEAN, shutdown' \in BOOLEAN
  PROVE  /\ Places' /\ Alone'
         /\ \A d \in Clients \ {c} : pc'[d] = pc[d]
         /\ \A u \in Workers : pc'[u] = pc[u]
         /\ pc'[c] = q
         /\ AllExited' <=> AllExited
<1>1. /\ \A d \in Clients \ {c} : pc'[d] = pc[d]
      /\ \A u \in Workers : pc'[u] = pc[u]
      /\ pc'[c] = q
  BY DEF Control, Places, Threads
<1>2. AllExited' <=> AllExited
  BY <1>1 DEF AllExited
<1>3. Places'
  BY <1>1 DEF Control, Places, Threads
<1>4. Alone'
  <2> SUFFICES ASSUME NEW e \in Clients, NEW d \in Clients, e # d
               PROVE  /\ pc'[e] \in CreatePCs => pc'[d] = "idle"
                      /\ usage # "overlap" /\ pc'[e] \in TeardownPCs \cup {"destroy_cas"}
                           => pc'[d] = "idle"
    BY DEF Alone
  <2>1. CASE e # c /\ d # c
    BY <1>1, <2>1 DEF Control, Alone
  <2>2. CASE e = c
    BY <1>1, <2>2 DEF Control, Alone
  <2>3. CASE d = c
    <3>1. pc[c] # "idle"
      BY DEF CreatePCs, TeardownPCs
    <3> QED
      BY <1>1, <2>3, <3>1 DEF Control, Alone
  <2> QED
    BY <2>1, <2>2, <2>3
<1> QED
  BY <1>1, <1>2, <1>3, <1>4

LEMMA SubmitControl ==
  ASSUME Control, NEW t \in Threads, SubmitNext(t)
  PROVE  Control'
<1>1. ASSUME NEW v \in Tasks, SubmitCall(t, v) PROVE Control'
  <2>1. /\ ~freed /\ pc' = [pc EXCEPT ![t] = "submit_check"]
        /\ pc[t] = IF t \in Workers THEN "running" ELSE "idle"
        /\ IF t \in Workers THEN usage = "nested" ELSE MayCall(t)
        /\ UNCHANGED <<usage, state, freed, shutdown>>
    BY <1>1 DEF SubmitCall, Step, fifo, gate
  <2>2. CASE t \in Workers
    <3>1. "submit_check" \in (SubmitPCs \cup WorkerPCs) \ {"unstarted"}
      BY DEF SubmitPCs
    <3> QED
      BY <2>1, <2>2, <3>1, WorkerMoves
  <2>3. CASE t \in Clients
    <3>1. /\ t \notin Workers /\ "submit_check" \in ClientPCs \ (EndPCs \cup CreatePCs)
          /\ "idle" \notin EndPCs \cup CreatePCs
      BY <2>3 DEF SubmitPCs, ClientPCs, EndPCs, TeardownPCs, CreatePCs
    <3> QED
      BY <2>1, <2>3, <3>1, ClientMoves
  <2> QED
    BY <2>2, <2>3 DEF Threads
<1>2. ASSUME NEW p \in SubmitPCs, NEW q \in SubmitPCs \cup {IF t \in Workers THEN "running" ELSE "idle"},
             Step(t, p, q), UNCHANGED <<usage, state, freed, shutdown>>
      PROVE  Control'
  BY <1>2, SubmitMoves DEF Step
<1>3. ASSUME NEW p \in SubmitPCs, NEW r, GiveUp(t, p, r) PROVE Control'
  BY <1>2, <1>3 DEF GiveUp, Return, gate, fifo
<1>4. /\ {"submit_check", "submit_push", "submit_count"} \subseteq SubmitPCs
  BY DEF SubmitPCs
<1>5. ASSUME SubmitCheck(t) PROVE Control'
  BY <1>2, <1>4, <1>5 DEF SubmitCheck, gate, fifo
<1>6. ASSUME SubmitTooLate(t) \/ SubmitRefused(t) \/ SubmitNoMemory(t) PROVE Control'
  BY <1>3, <1>4, <1>6 DEF SubmitTooLate, SubmitRefused, SubmitNoMemory
<1>7. ASSUME SubmitPush(t) PROVE Control'
  BY <1>2, <1>4, <1>7 DEF SubmitPush, Enqueue, gate
<1>8. ASSUME SubmitCount(t) PROVE Control'
  BY <1>2, <1>4, <1>8 DEF SubmitCount, Return, gate, fifo
<1> QED
  BY <1>1, <1>5, <1>6, <1>7, <1>8 DEF SubmitNext, SubmitStep

LEMMA WorkerControl ==
  ASSUME Control, NEW w \in Workers, WorkerNext(w)
  PROVE  Control'
<1>1. ASSUME NEW p \in WorkerPCs \ {"unstarted", "exited"}, NEW q \in WorkerPCs \ {"unstarted"},
             Step(w, p, q), UNCHANGED <<usage, state, freed, shutdown>>
      PROVE  Control'
  BY <1>1, WorkerMoves DEF Step
<1>2. WorkerPCs \ {"unstarted", "exited"} =
        {"pop", "state_check", "active_inc", "running", "active_dec",
         "completed_inc", "notify_lock", "notify"}
  BY DEF WorkerPCs
<1>3. WorkerPCs \ {"unstarted"} =
        {"pop", "state_check", "active_inc", "running", "active_dec",
         "completed_inc", "notify_lock", "notify", "exited"}
  BY DEF WorkerPCs
<1>4. ASSUME WorkerPop(w) PROVE Control'
  BY <1>1, <1>2, <1>3, <1>4 DEF WorkerPop, Dequeue, gate
<1>5. ASSUME WorkerExit(w) PROVE Control'
  BY <1>1, <1>2, <1>3, <1>5 DEF WorkerExit, gate, fifo
<1>6. ASSUME WorkerCheck(w) PROVE Control'
  BY <1>1, <1>2, <1>3, <1>6 DEF WorkerCheck, gate, fifo
<1>7. ASSUME WorkerBegin(w) PROVE Control'
  BY <1>1, <1>2, <1>3, <1>7 DEF WorkerBegin, gate, fifo
<1>8. ASSUME TaskReturns(w) PROVE Control'
  BY <1>1, <1>2, <1>3, <1>8 DEF TaskReturns, gate, fifo
<1>9. ASSUME WorkerEnd(w) PROVE Control'
  BY <1>1, <1>2, <1>3, <1>9 DEF WorkerEnd, gate, fifo
<1>10. ASSUME WorkerComplete(w) PROVE Control'
  BY <1>1, <1>2, <1>3, <1>10 DEF WorkerComplete, gate, fifo
<1>11. ASSUME NotifyLock(w) PROVE Control'
  BY <1>1, <1>2, <1>3, <1>11 DEF NotifyLock, fifo
<1>12. ASSUME Notify(w) PROVE Control'
  <2>1. PICK woken \in Woken : WakeWaiters(w, woken)
    BY <1>12 DEF Notify
  <2>2. /\ pc[w] = "notify" /\ pc'[w] = "pop"
        /\ \A u \in Workers \ {w} : pc'[u] = IF u \in woken THEN "wait_woken" ELSE pc[u]
        /\ \A c \in Clients : pc'[c] = IF c \in woken THEN "wait_woken" ELSE pc[c]
        /\ UNCHANGED <<usage, state, freed, shutdown>>
        /\ pc' = [t \in Threads |-> pc'[t]]
    BY <1>12, <2>1 DEF Notify, WakeWaiters, Threads, fifo
  <2>3. woken = At("wait_asleep")
    BY DEF Woken
  <2>4. /\ \A u \in Workers \ {w} : pc'[u] = pc[u]
        /\ \A c \in Clients : \/ pc'[c] = pc[c]
                              \/ pc[c] = "wait_asleep" /\ pc'[c] = "wait_woken"
    BY <2>2, <2>3 DEF At, Control, Places, WorkerPCs, SubmitPCs
  <2>5. ~AllExited /\ ~freed
    BY <2>2 DEF AllExited, Control, Teardown
  <2>6. Places'
    <3>1. {"pop"} \subseteq WorkerPCs /\ {"wait_woken"} \subseteq ClientPCs
      BY DEF WorkerPCs, ClientPCs, WaitPCs
    <3> QED
      BY <2>2, <2>4, <3>1 DEF Control, Places, Threads, ClientPCs
  <2>7. Alone'
    BY <2>2, <2>4 DEF Control, Alone, CreatePCs, TeardownPCs
  <2>8. Teardown'
    <3>1. Ending' = Ending
      BY <2>4 DEF Ending, EndPCs, TeardownPCs
    <3> QED
      BY <2>2, <2>4, <2>5, <3>1 DEF Control, Teardown
  <2> QED
    BY <2>6, <2>7, <2>8 DEF Control
<1> QED
  BY <1>4, <1>5, <1>6, <1>7, <1>8, <1>9, <1>10, <1>11, <1>12 DEF WorkerNext, WorkerStep

LEMMA WaitControl ==
  ASSUME Control, NEW c \in Clients,
         \/ WaitCall(c) \/ DestroyCall(c) \/ WaitLock(c) \/ WaitLoad(c)
         \/ WaitSleep(c) \/ WaitReturn(c) \/ SpuriousWakeup(c) \/ DestroyLost(c)
  PROVE  Control'
<1>1. ASSUME NEW p \in WaitPCs \cup {"destroy_cas"}, NEW q \in WaitPCs \cup {"idle"},
             Step(c, p, q), UNCHANGED <<usage, state, freed, shutdown>>
      PROVE  Control'
  <2>1. /\ p \notin EndPCs \cup CreatePCs /\ p # "idle"
        /\ q \in ClientPCs \ (EndPCs \cup CreatePCs) /\ q # "destroy_cas"
    BY DEF WaitPCs, ClientPCs, EndPCs, TeardownPCs, CreatePCs
  <2> QED
    BY <1>1, <2>1, ClientMoves DEF Step
<1>2. WaitPCs = {"wait_lock", "wait_load", "wait_asleep", "wait_woken"} /\ c \notin Workers
  BY DEF WaitPCs
<1>3. ASSUME WaitCall(c) PROVE Control'
  <2>1. /\ "wait_lock" \in ClientPCs \ (EndPCs \cup CreatePCs)
        /\ "idle" \notin EndPCs \cup CreatePCs
    BY DEF WaitPCs, ClientPCs, EndPCs, TeardownPCs, CreatePCs
  <2> QED
    BY <1>3, <2>1, ClientMoves DEF WaitCall, Step, gate, fifo
<1>4. ASSUME DestroyCall(c) PROVE Control'
  <2>1. /\ "destroy_cas" \in ClientPCs \ (EndPCs \cup CreatePCs)
        /\ "idle" \notin EndPCs \cup CreatePCs
    BY DEF ClientPCs, EndPCs, TeardownPCs, CreatePCs
  <2> QED
    BY <1>4, <2>1, ClientMoves DEF DestroyCall, Step, gate, fifo
<1>5. ASSUME WaitLock(c) PROVE Control'
  BY <1>1, <1>2, <1>5 DEF WaitLock, fifo
<1>6. ASSUME WaitLoad(c) PROVE Control'
  <2>1. UNCHANGED <<usage, state, freed, shutdown, pc>>
    BY <1>6 DEF WaitLoad, gate, fifo
  <2> QED
    BY <2>1 DEF Control, Places, Alone, Teardown, Ending, AllExited
<1>7. ASSUME WaitSleep(c) PROVE Control'
  BY <1>1, <1>2, <1>7 DEF WaitSleep, fifo
<1>8. ASSUME WaitReturn(c) PROVE Control'
  BY <1>1, <1>2, <1>8 DEF WaitReturn, Return, fifo
<1>9. ASSUME SpuriousWakeup(c) PROVE Control'
  BY <1>1, <1>2, <1>9 DEF SpuriousWakeup, gate, fifo
<1>10. ASSUME DestroyLost(c) PROVE Control'
  BY <1>1, <1>2, <1>10 DEF DestroyLost, Return, gate, fifo
<1> QED
  BY <1>3, <1>4, <1>5, <1>6, <1>7, <1>8, <1>9, <1>10

LEMMA EndControl ==
  ASSUME Control, NEW c \in Clients,
         \/ DestroyCas(c) \/ DestroyShutdown(c) \/ DestroyJoin(c) \/ DestroyTerminate(c)
         \/ AbortShutdown(c) \/ AbortJoin(c)
  PROVE  Control'
<1>1. c \notin Workers /\ TRUE \in BOOLEAN /\ freed \in BOOLEAN /\ shutdown \in BOOLEAN
  BY DEF Control, Places
<1>2. TeardownPCs = {"destroy_shutdown", "destroy_join", "destroy_terminate", "destroy_free"}
  BY DEF TeardownPCs
<1>3. CreatePCs = {"create_alloc", "create_start", "abort_shutdown", "abort_join", "abort_free"}
  BY DEF CreatePCs
<1>4. ASSUME NEW p, NEW q \in TeardownPCs \cup CreatePCs, Step(c, p, q),
             \/ p \in CreatePCs /\ q \in CreatePCs
             \/ p \in TeardownPCs \cup {"destroy_cas"} /\ q \in TeardownPCs,
             UNCHANGED <<usage, freed>>, shutdown' \in BOOLEAN
      PROVE  /\ Places' /\ Alone'
             /\ \A d \in Clients \ {c} : pc'[d] = pc[d]
             /\ pc[c] = p /\ pc'[c] = q /\ ~freed
             /\ AllExited' <=> AllExited
  <2>1. q \in ClientPCs /\ freed' \in BOOLEAN
    BY <1>1, <1>4 DEF ClientPCs
  <2>2. /\ pc[c] = p /\ ~freed /\ pc' = [pc EXCEPT ![c] = q]
        /\ p \in CreatePCs => q \notin TeardownPCs \cup {"destroy_cas"}
        /\ p \notin CreatePCs => q \notin CreatePCs
    BY <1>2, <1>3, <1>4 DEF Step
  <2> QED
    BY <1>4, <2>1, <2>2, AloneMoves
<1>5. ASSUME NEW p \in EndPCs, NEW q \in EndPCs, pc[c] = p, pc'[c] = q,
             \A d \in Clients \ {c} : pc'[d] = pc[d]
      PROVE  Ending' = Ending
  BY <1>5 DEF Ending
<1>6. EndPCs = {"destroy_shutdown", "destroy_join", "destroy_terminate", "destroy_free",
                "abort_shutdown", "abort_join", "abort_free"}
  BY DEF EndPCs, TeardownPCs
<1>7. ASSUME DestroyCas(c) PROVE Control'
  <2>1. Step(c, "destroy_cas", "destroy_shutdown") /\ state = "RUNNING" /\ state' = "SHUTDOWN"
    BY <1>7 DEF DestroyCas, MayTearDown
  <2>2. UNCHANGED <<usage, freed, shutdown>>
    BY <1>7 DEF DestroyCas, fifo
  <2>3. /\ Places' /\ Alone'
        /\ \A d \in Clients \ {c} : pc'[d] = pc[d]
        /\ pc[c] = "destroy_cas" /\ pc'[c] = "destroy_shutdown" /\ ~freed
        /\ AllExited' <=> AllExited
    BY <1>1, <1>2, <1>4, <2>1, <2>2
  <2>4. Ending = {} /\ Ending' = {c}
    BY <1>6, <2>1, <2>3 DEF Ending, Control, Teardown
  <2>5. Teardown'
    <3>1. \A d \in Clients : d # c => pc[d] \notin CreatePCs
      BY <2>3 DEF Control, Alone
    <3> QED
      BY <1>3, <2>1, <2>2, <2>3, <2>4, <3>1 DEF Control, Teardown
  <2> QED
    BY <2>3, <2>5 DEF Control
<1>8. ASSUME NEW p \in EndPCs, NEW q \in EndPCs, Step(c, p, q),
             p \in CreatePCs <=> q \in CreatePCs,
             UNCHANGED <<usage, freed>>,
             shutdown' \in BOOLEAN /\ (shutdown => shutdown'),
             q \in {"destroy_join", "destroy_terminate", "destroy_free",
                    "abort_join", "abort_free"} => shutdown',
             q \in {"destroy_terminate", "destroy_free", "abort_free"} => AllExited,
             \/ state' = state
             \/ state' = "TERMINATED" /\ AllExited
      PROVE  Control'
  <2>1. /\ Places' /\ Alone'
        /\ \A d \in Clients \ {c} : pc'[d] = pc[d]
        /\ pc[c] = p /\ pc'[c] = q /\ ~freed
        /\ AllExited' <=> AllExited
    <3>1. \/ p \in CreatePCs /\ q \in CreatePCs
          \/ p \in TeardownPCs \cup {"destroy_cas"} /\ q \in TeardownPCs
      BY <1>2, <1>3, <1>6, <1>8
    <3>2. q \in TeardownPCs \cup CreatePCs
      BY <3>1
    <3> QED
      BY <1>4, <1>8, <3>1, <3>2
  <2>2. Ending' = Ending /\ c \in Ending
    BY <1>5, <2>1 DEF Ending
  <2>3. \A d \in Clients \ {c} : pc[d] \notin EndPCs \cup {"create_alloc", "create_start"}
    BY <1>3, <1>6, <2>1, <2>2 DEF Control, Alone, Teardown, Ending
  <2>4. Teardown'
    BY <1>6, <1>8, <2>1, <2>2, <2>3 DEF Control, Teardown
  <2> QED
    BY <2>1, <2>4 DEF Control
<1>9. ASSUME DestroyShutdown(c) PROVE Control'
  BY <1>1, <1>2, <1>3, <1>6, <1>8, <1>9 DEF DestroyShutdown, Close, gate
<1>10. ASSUME DestroyJoin(c) PROVE Control'
  <2>1. shutdown
    BY <1>10 DEF DestroyJoin, Step, Control, Teardown
  <2> QED
    BY <1>1, <1>2, <1>3, <1>6, <1>8, <1>10, <2>1 DEF DestroyJoin, gate, fifo
<1>11. ASSUME DestroyTerminate(c) PROVE Control'
  <2>1. AllExited /\ shutdown
    BY <1>11 DEF DestroyTerminate, Step, Control, Teardown
  <2> QED
    BY <1>1, <1>2, <1>3, <1>6, <1>8, <1>11, <2>1 DEF DestroyTerminate, fifo
<1>12. ASSUME AbortShutdown(c) PROVE Control'
  BY <1>1, <1>2, <1>3, <1>6, <1>8, <1>12 DEF AbortShutdown, Close, gate
<1>13. ASSUME AbortJoin(c) PROVE Control'
  <2>1. shutdown
    BY <1>13 DEF AbortJoin, Step, Control, Teardown
  <2> QED
    BY <1>1, <1>2, <1>3, <1>6, <1>8, <1>13, <2>1 DEF AbortJoin, gate, fifo
<1> QED
  BY <1>7, <1>9, <1>10, <1>11, <1>12, <1>13

LEMMA CreateControl ==
  ASSUME Control, NEW c \in Clients,
         CreateInit(c) \/ CreateWorker(c) \/ CreateReturn(c) \/ CreateFails(c)
  PROVE  Control'
<1>1. c \notin Workers /\ freed \in BOOLEAN /\ shutdown \in BOOLEAN
  BY DEF Control, Places
<1>2. CreatePCs = {"create_alloc", "create_start", "abort_shutdown", "abort_join", "abort_free"}
  BY DEF CreatePCs
<1>3. EndPCs = {"destroy_shutdown", "destroy_join", "destroy_terminate", "destroy_free",
                "abort_shutdown", "abort_join", "abort_free"}
  BY DEF EndPCs, TeardownPCs
<1>4. pc[c] \in CreatePCs /\ \A d \in Clients \ {c} : pc[d] = "idle"
  <2>1. pc[c] \in CreatePCs
    BY <1>2 DEF CreateInit, CreateWorker, CreateReturn, CreateFails, Return, Step
  <2> QED
    BY <2>1 DEF Control, Alone
<1>5. ASSUME NEW p, NEW q \in {"create_start", "idle", "abort_shutdown"}, Step(c, p, q),
             p \in {"create_alloc", "create_start"},
             UNCHANGED <<usage, freed, shutdown>>
      PROVE  /\ Places' /\ Alone'
             /\ \A d \in Clients \ {c} : pc'[d] = "idle"
             /\ pc'[c] = q /\ ~freed /\ state # "TERMINATED"
  <2>1. q \in ClientPCs /\ q \notin TeardownPCs \cup {"destroy_cas"} /\ freed' \in BOOLEAN
    BY <1>1, <1>5 DEF ClientPCs, CreatePCs, TeardownPCs
  <2>2. pc[c] = p /\ ~freed /\ pc' = [pc EXCEPT ![c] = q]
    BY <1>5 DEF Step
  <2>3. /\ Places' /\ Alone'
        /\ \A d \in Clients \ {c} : pc'[d] = pc[d]
        /\ pc'[c] = q
    BY <1>1, <1>4, <1>5, <2>1, <2>2, AloneMoves
  <2>4. state = "RUNNING"
    BY <1>5, <2>2 DEF Control, Teardown
  <2> QED
    BY <1>4, <2>2, <2>3, <2>4
<1>6. ASSUME CreateInit(c) \/ CreateReturn(c) PROVE Control'
  <2>1. PICK p \in {"create_alloc", "create_start"}, q \in {"create_start", "idle"} :
          Step(c, p, q)
    BY <1>1, <1>6 DEF CreateInit, CreateReturn, Return
  <2>2. UNCHANGED <<usage, freed, shutdown, state>> /\ state = "RUNNING"
    BY <1>6, <2>1 DEF CreateInit, CreateReturn, gate, fifo, Step, Control, Teardown
  <2>3. /\ Places' /\ Alone'
        /\ \A d \in Clients \ {c} : pc'[d] = "idle"
        /\ pc'[c] = q /\ ~freed
    BY <1>5, <2>1, <2>2
  <2>4. Teardown'
    <3>1. Ending' = {}
      BY <1>3, <2>1, <2>3 DEF Ending
    <3> QED
      BY <2>1, <2>2, <2>3, <3>1 DEF Teardown
  <2> QED
    BY <2>3, <2>4 DEF Control
<1>7. ASSUME CreateFails(c) PROVE Control'
  <2>1. /\ Step(c, "create_start", "abort_shutdown")
        /\ UNCHANGED <<usage, freed, shutdown>> /\ state' = "SHUTDOWN"
    BY <1>7 DEF CreateFails, fifo
  <2>2. /\ Places' /\ Alone'
        /\ \A d \in Clients \ {c} : pc'[d] = "idle"
        /\ pc'[c] = "abort_shutdown" /\ ~freed
    BY <1>5, <2>1
  <2>3. Teardown'
    <3>1. Ending' = {c}
      BY <1>3, <2>2 DEF Ending
    <3> QED
      BY <2>1, <2>2, <3>1 DEF Teardown
  <2> QED
    BY <2>2, <2>3 DEF Control
<1>8. ASSUME CreateWorker(c) PROVE Control'
  <2>1. PICK w \in At("unstarted") : pc' = [pc EXCEPT ![w] = "pop"]
    BY <1>8 DEF CreateWorker
  <2>2. /\ pc[c] = "create_start" /\ ~freed
        /\ UNCHANGED <<usage, freed, shutdown, state>>
    BY <1>8 DEF CreateWorker, gate, fifo
  <2>3. w \in Workers /\ pc[w] = "unstarted"
    BY <2>1 DEF At, Threads, Control, Places, ClientPCs, SubmitPCs, WaitPCs, TeardownPCs, CreatePCs
  <2>4. /\ \A d \in Clients : pc'[d] = pc[d]
        /\ \A u \in Workers \ {w} : pc'[u] = pc[u]
        /\ pc'[w] = "pop"
    BY <2>1, <2>3 DEF Control, Places, Threads
  <2>5. Places'
    BY <2>1, <2>2, <2>3, <2>4 DEF Control, Places, Threads, WorkerPCs
  <2>6. Alone'
    BY <2>2, <2>4 DEF Control, Alone
  <2>7. Teardown'
    <3>1. Ending = {} /\ Ending' = {}
      BY <1>3, <1>4, <2>2, <2>4 DEF Ending
    <3>2. state = "RUNNING"
      BY <2>2 DEF Control, Teardown
    <3> QED
      BY <1>4, <2>2, <2>4, <3>1, <3>2 DEF Teardown
  <2> QED
    BY <2>5, <2>6, <2>7 DEF Control
<1> QED
  BY <1>6, <1>7, <1>8

LEMMA FreeControl ==
  ASSUME Control, NEW c \in Clients, NEW r,
         NEW p \in {"create_alloc", "destroy_free", "abort_free"}, FreePool(c, p, r)
  PROVE  Control'
<1>1. /\ ~freed /\ freed' = TRUE /\ pc[c] = p /\ pc' = [pc EXCEPT ![c] = "idle"]
      /\ UNCHANGED <<usage, state, shutdown>>
  BY DEF FreePool, Return, Step, Clear, Control, Places
<1>2. /\ Places' /\ Alone'
      /\ \A d \in Clients \ {c} : pc'[d] = pc[d]
      /\ pc'[c] = "idle"
      /\ AllExited' <=> AllExited
  <2>1. "idle" \in ClientPCs \ (TeardownPCs \cup CreatePCs \cup {"destroy_cas"})
    BY DEF ClientPCs, TeardownPCs, CreatePCs
  <2>2. p \in CreatePCs \cup TeardownPCs
    BY DEF CreatePCs, TeardownPCs
  <2>3. freed' \in BOOLEAN /\ shutdown' \in BOOLEAN
    BY <1>1 DEF Control, Places
  <2> QED
    BY <1>1, <2>1, <2>2, <2>3, AloneMoves
<1>3. AllExited
  BY <1>1 DEF Control, Teardown
<1>4. \A d \in Clients \ {c} :
        /\ pc[d] \notin EndPCs \cup CreatePCs
        /\ usage # "overlap" => pc[d] = "idle"
  <2>1. CASE p = "destroy_free"
    <3>1. c \in Ending /\ p \in TeardownPCs
      BY <1>1, <2>1 DEF Ending, EndPCs, TeardownPCs
    <3>2. ASSUME NEW d \in Clients \ {c}, pc[d] \in EndPCs \cup CreatePCs PROVE FALSE
      <4>1. CASE pc[d] \in EndPCs
        BY <3>1, <4>1 DEF Ending, Control, Teardown
      <4>2. CASE pc[d] \in CreatePCs
        BY <1>1, <2>1, <3>2, <4>2 DEF Control, Alone
      <4> QED
        BY <3>2, <4>1, <4>2
    <3> QED
      BY <1>1, <3>1, <3>2 DEF Control, Alone
  <2>2. CASE p # "destroy_free"
    <3>1. p \in CreatePCs /\ "idle" \notin EndPCs \cup CreatePCs
      BY <2>2 DEF CreatePCs, EndPCs, TeardownPCs
    <3> QED
      BY <1>1, <3>1 DEF Control, Alone
  <2> QED
    BY <2>1, <2>2
<1>5. Teardown'
  <2>1. Ending' = {}
    BY <1>2, <1>4 DEF Ending, EndPCs, TeardownPCs
  <2>2. \A d \in Clients : pc'[d] \notin {"create_alloc", "create_start", "destroy_join",
          "abort_join", "destroy_terminate", "destroy_free", "abort_free"}
    BY <1>2, <1>4 DEF CreatePCs, EndPCs, TeardownPCs
  <2> QED
    BY <1>1, <1>2, <1>3, <1>4, <2>1, <2>2 DEF Teardown
<1> QED
  BY <1>2, <1>5 DEF Control

LEMMA ControlInit == Init => Control
<1> HAVE Init
<1> PICK creator \in Clients :
      pc = [t \in Threads |-> IF t = creator THEN "create_alloc"
                              ELSE IF t \in Workers THEN "unstarted" ELSE "idle"]
  BY DEF Init
<1>1. /\ \A c \in Clients : pc[c] = IF c = creator THEN "create_alloc" ELSE "idle"
      /\ \A w \in Workers : pc[w] = "unstarted"
  BY DEF Threads
<1>2. Places
  <2>1. {"create_alloc", "idle"} \subseteq ClientPCs /\ "unstarted" \in WorkerPCs
    BY DEF ClientPCs, CreatePCs, WorkerPCs
  <2> QED
    BY <1>1, <2>1 DEF Init, FifoInit, Places, Threads
<1>3. Alone
  BY <1>1 DEF Alone, CreatePCs, TeardownPCs
<1>4. Teardown
  <2>1. Ending = {}
    BY <1>1 DEF Ending, EndPCs, TeardownPCs
  <2> QED
    BY <1>1, <2>1 DEF Init, Teardown, AllExited
<1> QED
  BY <1>2, <1>3, <1>4 DEF Control

LEMMA ControlStep == Control /\ [Next]_vars => Control'
<1> SUFFICES ASSUME Control, [Next]_vars PROVE Control'
  OBVIOUS
<1>1. ASSUME NEW t \in Threads, SubmitNext(t) PROVE Control'
  BY <1>1, SubmitControl
<1>2. ASSUME NEW w \in Workers, WorkerNext(w) PROVE Control'
  BY <1>2, WorkerControl
<1>3. ASSUME NEW c \in Clients, ClientNext(c) PROVE Control'
  <2>1. CASE \/ WaitCall(c) \/ DestroyCall(c) \/ WaitLock(c) \/ WaitLoad(c)
             \/ WaitSleep(c) \/ WaitReturn(c) \/ SpuriousWakeup(c) \/ DestroyLost(c)
    BY <2>1, WaitControl
  <2>2. CASE \/ DestroyCas(c) \/ DestroyShutdown(c) \/ DestroyJoin(c)
             \/ DestroyTerminate(c) \/ AbortShutdown(c) \/ AbortJoin(c)
    BY <2>2, EndControl
  <2>3. CASE CreateInit(c) \/ CreateWorker(c) \/ CreateReturn(c) \/ CreateFails(c)
    BY <2>3, CreateControl
  <2>4. CASE DestroyFree(c) \/ AbortFree(c) \/ CreateNoMemory(c)
    BY <2>4, FreeControl DEF DestroyFree, AbortFree, CreateNoMemory
  <2> QED
    BY <1>3, <2>1, <2>2, <2>3, <2>4 DEF ClientNext, ClientStep, CreateStep
<1>4. ASSUME UNCHANGED vars PROVE Control'
  BY <1>4 DEF vars, fifo, gate, Control, Places, Alone, Teardown, Ending, AllExited
<1> QED
  BY <1>1, <1>2, <1>3, <1>4 DEF Next, Freed

LEMMA ControlInvariant == Spec => []Control
BY ControlInit, ControlStep, PTL DEF Spec

(* Of any number of clients that destroy the pool at the same time, one    *)
(* joins the workers and frees the memory.                                 *)
THEOREM OneTearsDown == Spec => []SingleTeardown
<1>1. Control => SingleTeardown
  <2> HAVE Control
  <2> DEFINE S == {c \in Clients : pc[c] \in TeardownPCs}
  <2>1. S \subseteq Ending
    BY DEF Ending, EndPCs
  <2>2. CASE S = {}
    BY <2>2, FS_EmptySet DEF SingleTeardown
  <2>3. CASE S # {}
    <3>1. PICK c \in Clients : c \in S
      BY <2>3
    <3>2. ~freed /\ S = {c}
      BY <2>1, <3>1 DEF Control, Teardown
    <3>3. Cardinality(S) = 1
      BY <3>2, FS_Singleton
    <3> QED
      BY <3>2, <3>3 DEF SingleTeardown
  <2> QED
    BY <2>2, <2>3
<1> QED
  BY ControlInvariant, <1>1, PTL

(* When the pool is freed, also by a creation that failed half-way, every  *)
(* worker that was started has left its loop and no client is inside a     *)
(* call, if the callers keep the rules.                                    *)
THEOREM FreedIsUnused == Spec => []NoUseAfterFree
<1>1. Control => NoUseAfterFree
  BY DEF Control, Teardown, NoUseAfterFree, AllExited
<1> QED
  BY ControlInvariant, <1>1, PTL

(* Whoever joins the workers has told them to leave.                       *)
THEOREM JoinedAreToldToLeave == Spec => []NoJoinDeadlock
<1>1. Control => NoJoinDeadlock
  <2> SUFFICES ASSUME Control, NEW t \in Threads, pc[t] \in {"destroy_join", "abort_join"}
               PROVE  shutdown
    BY DEF NoJoinDeadlock, At
  <2>1. t \in Clients
    BY DEF Threads, Control, Places, SubmitPCs, WorkerPCs
  <2> QED
    BY <2>1 DEF Control, Teardown
<1> QED
  BY ControlInvariant, <1>1, PTL

-----------------------------------------------------------------------------
(* Why no wakeup is lost.  A client decides to sleep while it holds        *)
(* wait_lock, on counts that were true when it loaded them; whoever has    *)
(* completed a task since then still has to take the lock to broadcast.    *)
Loaded(c) ==
  /\ pc[c] # "wait_load" => seen[c] = NothingLoaded
  /\ seen[c].submitted <= submitted
  /\ seen[c].completed \notin {Unread, completed} => At("notify_lock") # {}

Waking ==
  /\ completed \in Nat /\ submitted \in Nat
  /\ seen \in [Clients -> [completed : Loads, submitted : Loads]]
  /\ \A c \in Clients : pc[c] = "wait_load" => wait_lock = c
  /\ \A w \in Workers : pc[w] = "notify" => wait_lock = w
  /\ \A c \in Clients : Loaded(c)
  /\ NoLostWakeup

(* Steps that have nothing to do with wait_lock, among them the one that   *)
(* counts a completed task.                                                *)
LEMMA OthersWaking ==
  ASSUME Control, Waking, NEW t \in Threads, NEW q,
         pc' = [pc EXCEPT ![t] = q],
         pc[t] \notin {"wait_load", "notify_lock", "notify"},
         q \notin {"wait_load", "wait_asleep", "notify"},
         UNCHANGED <<wait_lock, seen>>,
         \/ completed' = completed
         \/ completed' = completed + 1 /\ q = "notify_lock",
         submitted' \in Nat, submitted <= submitted'
  PROVE  Waking'
<1>1. pc'[t] = q /\ \A u \in Threads \ {t} : pc'[u] = pc[u]
  BY DEF Control, Places
<1>2. /\ At("notify_lock") \subseteq At("notify_lock")'
      /\ At("notify") \subseteq At("notify")'
      /\ At("wait_asleep")' \subseteq At("wait_asleep")
      /\ q = "notify_lock" => t \in At("notify_lock")'
  BY <1>1 DEF At
<1>3. /\ completed' \in Nat /\ completed \in Nat /\ submitted \in Nat
      /\ completed' # completed => At("notify_lock")' # {}
  BY <1>2 DEF Waking
<1>4. NoLostWakeup'
  BY <1>2, <1>3 DEF Waking, NoLostWakeup
<1>5. ASSUME NEW c \in Clients PROVE Loaded(c)'
  <2>1. seen[c].submitted \in Int /\ c \in Threads
    BY DEF Waking, Loads, Unread, Threads
  <2>2. pc'[c] # "wait_load" => pc[c] # "wait_load"
    BY <1>1, <2>1
  <2>3. seen[c].submitted <= submitted'
    BY <1>3, <2>1 DEF Waking, Loaded
  <2>4. seen[c].completed \notin {Unread, completed'} => At("notify_lock")' # {}
    BY <1>2, <1>3 DEF Waking, Loaded
  <2> QED
    BY <2>2, <2>3, <2>4 DEF Waking, Loaded
<1>6. /\ \A c \in Clients : pc'[c] = "wait_load" => wait_lock' = c
      /\ \A w \in Workers : pc'[w] = "notify" => wait_lock' = w
  BY <1>1 DEF Waking, Threads
<1> QED
  BY <1>3, <1>4, <1>5, <1>6 DEF Waking

LEMMA WaitLockWaking ==
  ASSUME Control, Waking, NEW c \in Clients, WaitLock(c)
  PROVE  Waking'
<1>1. /\ c \in Threads /\ pc[c] \in {"wait_lock", "wait_woken"} /\ pc'[c] = "wait_load"
      /\ \A u \in Threads \ {c} : pc'[u] = pc[u]
      /\ wait_lock = NULL /\ wait_lock' = c
      /\ UNCHANGED <<completed, submitted, seen>>
  BY DEF WaitLock, Step, Control, Places, Threads, counters, locals
<1>2. /\ At("notify_lock")' = At("notify_lock") /\ At("notify")' = At("notify")
      /\ At("wait_asleep")' = At("wait_asleep")
  BY <1>1 DEF At
<1>3. ASSUME NEW u \in Threads, u # c PROVE pc'[u] \notin {"wait_load", "notify"}
  BY <1>1, <1>3 DEF Waking, Threads, Control, Places, ClientPCs, SubmitPCs, WaitPCs,
                    TeardownPCs, CreatePCs, WorkerPCs
<1>4. \A d \in Clients : Loaded(d)'
  BY <1>1, <1>2 DEF Waking, Loaded, Threads
<1>5. NoLostWakeup'
  BY <1>1, <1>2 DEF Waking, NoLostWakeup
<1> QED
  BY <1>1, <1>3, <1>4, <1>5 DEF Waking, Threads

LEMMA WaitLoadWaking ==
  ASSUME Control, Waking, NEW c \in Clients, WaitLoad(c)
  PROVE  Waking'
<1>1. /\ pc[c] = "wait_load"
      /\ UNCHANGED <<pc, wait_lock, completed, submitted>>
  BY DEF WaitLoad, gate, counters
<1>2. seen[c] \in [completed : Loads, submitted : Loads] /\ completed \in Loads /\ submitted \in Loads
  BY DEF Waking, Loads
<1>3. seen' \in [Clients -> [completed : Loads, submitted : Loads]]
  BY <1>2 DEF WaitLoad, Waking
<1>4. /\ \A d \in Clients \ {c} : seen'[d] = seen[d]
      /\ seen'[c].completed \in {seen[c].completed, completed}
      /\ seen'[c].submitted \in {seen[c].submitted, submitted}
  BY <1>2 DEF WaitLoad, Waking
<1>5. At("notify_lock")' = At("notify_lock") /\ NoLostWakeup'
  BY <1>1 DEF At, Waking, NoLostWakeup
<1>6. \A d \in Clients : Loaded(d)'
  <2>1. Loaded(c)'
    BY <1>1, <1>2, <1>4, <1>5 DEF Waking, Loaded
  <2>2. ASSUME NEW d \in Clients \ {c} PROVE Loaded(d)'
    BY <1>1, <1>4, <1>5 DEF Waking, Loaded
  <2> QED
    BY <2>1, <2>2
<1> QED
  BY <1>1, <1>3, <1>5, <1>6 DEF Waking

(* Client c leaves the critical section, to sleep only when the counts it  *)
(* has loaded tell it to.                                                  *)
LEMMA LeavesWaking ==
  ASSUME Control, Waking, NEW c \in Clients, NEW q \in {"wait_asleep", "idle"},
         Step(c, "wait_load", q), wait_lock' = NULL,
         seen' = [seen EXCEPT ![c] = NothingLoaded],
         UNCHANGED <<completed, submitted>>,
         q = "wait_asleep" => Decided(c) /\ seen[c].completed < seen[c].submitted
  PROVE  Waking'
<1>1. /\ c \in Threads /\ pc[c] = "wait_load" /\ pc'[c] = q
      /\ \A u \in Threads \ {c} : pc'[u] = pc[u]
  BY DEF Step, Control, Places, Threads
<1>2. NothingLoaded \in [completed : Loads, submitted : Loads]
  BY DEF NothingLoaded, Loads
<1>3. /\ seen' \in [Clients -> [completed : Loads, submitted : Loads]]
      /\ seen'[c] = NothingLoaded
      /\ \A d \in Clients \ {c} : seen'[d] = seen[d]
  BY <1>2 DEF Waking
<1>4. ASSUME NEW u \in Threads, u # c PROVE pc'[u] \notin {"wait_load", "notify"}
  BY <1>1, <1>4 DEF Waking, Threads, Control, Places, ClientPCs, SubmitPCs, WaitPCs,
                    TeardownPCs, CreatePCs, WorkerPCs
<1>5. /\ At("notify_lock")' = At("notify_lock")
      /\ At("notify")' = At("notify")
      /\ q # "wait_asleep" => At("wait_asleep")' = At("wait_asleep")
  BY <1>1 DEF At
<1>6. NoLostWakeup'
  <2>1. CASE q = "wait_asleep"
    <3>1. completed \in Nat /\ submitted \in Nat /\ seen[c].completed \in Int /\ seen[c].submitted \in Int
      BY DEF Waking, Loads, Unread
    <3>2. seen[c].completed # Unread /\ seen[c].completed < submitted
      BY <2>1, <3>1 DEF Waking, Loaded, Decided
    <3>3. completed >= submitted => At("notify_lock") # {}
      BY <3>1, <3>2 DEF Waking, Loaded
    <3> QED
      BY <1>5, <3>3 DEF NoLostWakeup
  <2>2. CASE q # "wait_asleep"
    BY <1>5, <2>2 DEF Waking, NoLostWakeup
  <2> QED
    BY <2>1, <2>2
<1>7. \A d \in Clients : Loaded(d)'
  <2>1. Loaded(c)'
    <3>1. NothingLoaded.completed = Unread /\ NothingLoaded.submitted = -1
      BY DEF NothingLoaded, Unread
    <3> QED
      BY <1>3, <3>1 DEF Waking, Loaded
  <2>2. ASSUME NEW d \in Clients \ {c} PROVE Loaded(d)'
    BY <1>1, <1>3, <1>5 DEF Waking, Loaded, Threads
  <2> QED
    BY <2>1, <2>2
<1> QED
  BY <1>1, <1>3, <1>4, <1>6, <1>7 DEF Waking, Threads

LEMMA NotifyLockWaking ==
  ASSUME Control, Waking, NEW w \in Workers, NotifyLock(w)
  PROVE  Waking'
<1>1. /\ w \in Threads /\ pc[w] = "notify_lock" /\ pc'[w] = "notify"
      /\ \A u \in Threads \ {w} : pc'[u] = pc[u]
      /\ wait_lock = NULL /\ wait_lock' = w
      /\ UNCHANGED <<completed, submitted, seen>>
  BY DEF NotifyLock, Step, Control, Places, Threads, counters, locals
<1>2. w \in At("notify")'
  BY <1>1 DEF At
<1>3. ASSUME NEW u \in Threads, u # w PROVE pc[u] \notin {"wait_load", "notify"}
  BY <1>1, <1>3 DEF Waking, Threads, Control, Places, ClientPCs, SubmitPCs, WaitPCs,
                    TeardownPCs, CreatePCs, WorkerPCs
<1>4. NoLostWakeup'
  BY <1>2 DEF NoLostWakeup
<1>5. ASSUME NEW c \in Clients PROVE Loaded(c)'
  <2>1. pc[c] # "wait_load"
    BY <1>1, <1>3 DEF Threads
  <2>2. seen[c].completed = Unread
    BY <2>1 DEF Waking, Loaded, NothingLoaded
  <2> QED
    BY <1>1, <2>1, <2>2 DEF Waking, Loaded
<1> QED
  BY <1>1, <1>3, <1>4, <1>5 DEF Waking, Threads

LEMMA NotifyWaking ==
  ASSUME Control, Waking, NEW w \in Workers, Notify(w)
  PROVE  Waking'
<1>1. PICK woken \in Woken : WakeWaiters(w, woken)
  BY DEF Notify
<1>2. woken = At("wait_asleep")
  BY DEF Woken
<1>3. /\ pc[w] = "notify" /\ wait_lock = w /\ wait_lock' = NULL
      /\ UNCHANGED <<completed, submitted, seen>>
  BY DEF Notify, Waking, counters, locals
<1>4. \A u \in Threads :
        pc'[u] = IF u = w THEN "pop" ELSE IF pc[u] = "wait_asleep" THEN "wait_woken" ELSE pc[u]
  BY <1>1, <1>2 DEF WakeWaiters, At
<1>5. At("wait_asleep")' = {} /\ At("notify_lock")' = At("notify_lock")
  BY <1>3, <1>4 DEF At, Threads
<1>6. ASSUME NEW u \in Threads, u # w PROVE pc[u] \notin {"wait_load", "notify"}
  BY <1>3, <1>6 DEF Waking, Threads, Control, Places, ClientPCs, SubmitPCs, WaitPCs,
                    TeardownPCs, CreatePCs, WorkerPCs
<1>7. ASSUME NEW c \in Clients PROVE Loaded(c)'
  <2>1. pc[c] # "wait_load" /\ c # w
    BY <1>3, <1>6 DEF Threads
  <2> QED
    BY <1>3, <1>5, <2>1 DEF Waking, Loaded
<1> QED
  BY <1>3, <1>4, <1>5, <1>6, <1>7 DEF Waking, NoLostWakeup, Threads

LEMMA WakingInit == Init => Waking
<1> HAVE Init
<1>1. NothingLoaded \in [completed : Loads, submitted : Loads]
  BY DEF NothingLoaded, Loads
<1>2. PICK creator \in Clients :
        pc = [t \in Threads |-> IF t = creator THEN "create_alloc"
                                ELSE IF t \in Workers THEN "unstarted" ELSE "idle"]
  BY DEF Init
<1>3. \A t \in Threads : pc[t] \notin {"wait_load", "wait_asleep", "notify"}
  BY <1>2
<1>4. NothingLoaded.completed = Unread /\ NothingLoaded.submitted = -1
  BY DEF NothingLoaded, Unread
<1>5. At("wait_asleep") = {}
  BY <1>3 DEF At
<1> QED
  BY <1>1, <1>3, <1>4, <1>5 DEF Init, Waking, Loaded, NoLostWakeup, Threads

LEMMA WakingStep == Control /\ Waking /\ [Next]_vars => Waking'
<1> SUFFICES ASSUME Control, Waking, [Next]_vars PROVE Waking'
  OBVIOUS
<1> DEFINE Elsewhere == {"wait_load", "notify_lock", "notify"}
<1>1. ASSUME NEW t \in Threads, NEW p, NEW q, Step(t, p, q), p \notin Elsewhere,
             q \notin {"wait_load", "wait_asleep", "notify"},
             UNCHANGED <<wait_lock, seen, completed, submitted>>
      PROVE  Waking'
  <2>1. submitted' \in Nat /\ submitted <= submitted'
    BY <1>1 DEF Waking
  <2> QED
    BY <1>1, <2>1, OthersWaking DEF Step
<1>2. ASSUME NEW t \in Threads, SubmitNext(t) PROVE Waking'
  <2>1. ASSUME SubmitCount(t) PROVE Waking'
    <3>1. submitted' = submitted + 1 /\ UNCHANGED <<wait_lock, seen, completed>>
      BY <2>1 DEF SubmitCount, CountSubmitted, Add, gate, Waking
    <3>2. submitted' \in Nat /\ submitted <= submitted'
      BY <3>1 DEF Waking
    <3>3. pc[t] = "submit_count" /\ pc' = [pc EXCEPT ![t] = IF t \in Workers THEN "running" ELSE "idle"]
      BY <2>1 DEF SubmitCount, Return, Step
    <3> QED
      BY <3>1, <3>2, <3>3, OthersWaking
  <2>2. ASSUME NEW v \in Tasks, SubmitCall(t, v) PROVE Waking'
    BY <1>1, <2>2 DEF SubmitCall, gate, counters
  <2>3. ASSUME SubmitCheck(t) PROVE Waking'
    BY <1>1, <2>3 DEF SubmitCheck, gate, counters, locals
  <2>4. ASSUME NEW p \in {"submit_check", "submit_push"}, NEW r, GiveUp(t, p, r) PROVE Waking'
    BY <1>1, <2>4 DEF GiveUp, Return, gate, counters
  <2>5. ASSUME SubmitPush(t) PROVE Waking'
    BY <1>1, <2>5 DEF SubmitPush, gate, counters, locals
  <2> QED
    BY <1>2, <2>1, <2>2, <2>3, <2>4, <2>5
       DEF SubmitNext, SubmitStep, SubmitTooLate, SubmitRefused, SubmitNoMemory
<1>3. ASSUME NEW w \in Workers, WorkerNext(w) PROVE Waking'
  <2>1. w \in Threads
    BY DEF Threads
  <2>2. ASSUME WorkerPop(w) \/ WorkerExit(w) \/ WorkerCheck(w) \/ TaskReturns(w) PROVE Waking'
    BY <1>1, <2>1, <2>2 DEF WorkerPop, WorkerExit, WorkerCheck, TaskReturns, gate, counters, locals
  <2>3. ASSUME WorkerBegin(w) \/ WorkerEnd(w) PROVE Waking'
    <3>1. UNCHANGED <<completed, submitted>>
      BY <2>3 DEF WorkerBegin, WorkerEnd, Add, Waking
    <3> QED
      BY <1>1, <2>1, <2>3, <3>1 DEF WorkerBegin, WorkerEnd, gate, locals
  <2>4. ASSUME WorkerComplete(w) PROVE Waking'
    <3>1. completed' = completed + 1 /\ submitted' = submitted /\ UNCHANGED <<wait_lock, seen>>
      BY <2>4 DEF WorkerComplete, Add, Waking, gate
    <3>2. submitted' \in Nat /\ submitted <= submitted'
      BY <3>1 DEF Waking
    <3>3. pc[w] = "completed_inc" /\ pc' = [pc EXCEPT ![w] = "notify_lock"]
      BY <2>4 DEF WorkerComplete, Step
    <3> QED
      BY <2>1, <3>1, <3>2, <3>3, OthersWaking
  <2> QED
    BY <1>3, <2>2, <2>3, <2>4, NotifyLockWaking, NotifyWaking DEF WorkerNext, WorkerStep
<1>4. ASSUME NEW c \in Clients, ClientNext(c) PROVE Waking'
  <2>1. c \in Threads
    BY DEF Threads
  <2>2. ASSUME WaitCall(c) \/ DestroyCall(c) \/ SpuriousWakeup(c) PROVE Waking'
    BY <1>1, <2>1, <2>2 DEF WaitCall, DestroyCall, SpuriousWakeup, gate, counters, locals
  <2>3. ASSUME \/ DestroyCas(c) \/ DestroyLost(c) \/ DestroyShutdown(c)
               \/ DestroyJoin(c) \/ DestroyTerminate(c)
        PROVE  Waking'
    BY <1>1, <2>1, <2>3 DEF DestroyCas, DestroyLost, DestroyShutdown, DestroyJoin,
                            DestroyTerminate, Return, gate, counters, locals
  <2>4. ASSUME \/ CreateInit(c) \/ CreateReturn(c) \/ CreateFails(c)
               \/ AbortShutdown(c) \/ AbortJoin(c)
        PROVE  Waking'
    BY <1>1, <2>1, <2>4 DEF CreateInit, CreateReturn, CreateFails, AbortShutdown, AbortJoin,
                            Return, gate, counters, locals
  <2>5. ASSUME DestroyFree(c) \/ AbortFree(c) \/ CreateNoMemory(c) PROVE Waking'
    BY <1>1, <2>1, <2>5 DEF DestroyFree, AbortFree, CreateNoMemory, FreePool, Return, counters
  <2>6. ASSUME CreateWorker(c) PROVE Waking'
    <3>1. PICK w \in At("unstarted") : pc' = [pc EXCEPT ![w] = "pop"]
      BY <2>6 DEF CreateWorker
    <3>2. w \in Threads /\ pc[w] = "unstarted"
      BY DEF At
    <3>3. UNCHANGED <<wait_lock, seen, completed, submitted>>
      BY <2>6 DEF CreateWorker, gate, counters, locals
    <3>4. submitted' \in Nat /\ submitted <= submitted'
      BY <3>3 DEF Waking
    <3> QED
      BY <3>1, <3>2, <3>3, <3>4, OthersWaking
  <2>7. ASSUME WaitSleep(c) \/ WaitReturn(c) PROVE Waking'
    BY <2>7, LeavesWaking DEF WaitSleep, WaitReturn, Return, counters
  <2> QED
    BY <1>4, <2>2, <2>3, <2>4, <2>5, <2>6, <2>7, WaitLockWaking, WaitLoadWaking
       DEF ClientNext, ClientStep, CreateStep
<1>5. ASSUME UNCHANGED vars PROVE Waking'
  <2>1. UNCHANGED <<pc, wait_lock, seen, completed, submitted>>
    BY <1>5 DEF vars, gate, counters, locals
  <2> QED
    BY <2>1 DEF Waking, Loaded, NoLostWakeup, At
<1> QED
  BY <1>2, <1>3, <1>4, <1>5 DEF Next, Freed

(* For any number of workers and clients: while a client sleeps although   *)
(* nothing is left to complete, a worker is still about to broadcast.      *)
THEOREM NoWakeupLost == Spec => []NoLostWakeup
<1>1. Waking => NoLostWakeup
  BY DEF Waking
<1> QED
  BY ControlInvariant, WakingInit, WakingStep, <1>1, PTL DEF Spec
=============================================================================
