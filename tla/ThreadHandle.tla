---------------------------- MODULE ThreadHandle ----------------------------
(***************************************************************************)
(* The thread handles of src/src/sthread.c: sthread_create, _join, _detach *)
(* and _self.  A handle is a malloc'ed record with a pthread_t; the pthread *)
(* itself is an external object.                                           *)
(*                                                                         *)
(* The callers' duty, which nothing in the code enforces: a thread is      *)
(* joined or detached once (POSIX leaves a second time undefined), a handle *)
(* is not passed again once a join or a detach has been called on it, and  *)
(* joins do not wait for each other in a circle, which is modelled by       *)
(* numbering the threads: a thread creates and joins only higher ones.     *)
(* Thread 0 is the one that runs main.                                     *)
(***************************************************************************)
EXTENDS Integers

CONSTANTS
  N,        (* the threads are 0..N                                         *)
  Handles,  (* the blocks of memory malloc can return                       *)
  NULL

ASSUME ThreadHandleAssumption ==
  /\ N \in Nat
  /\ NULL \notin Handles \cup Int
  /\ NULL \notin [thread : 0..N \cup {NULL}, detached : BOOLEAN]

VARIABLES
  heap,     (* per block: the struct sthread_handle in it, or NULL: free    *)
  life,     (* per thread: not started, running or ended                    *)
  var,      (* per thread: the sthread_t variable given to sthread_create,  *)
            (* NULL until it is set and, as history, from its last use on   *)
  mine,     (* per thread: what sthread_self has returned to it, likewise   *)
  pc,       (* per thread: where it is in sthread_create, _join or _detach  *)
  arg,      (* per thread: the handle and the thread that this call is about *)
  claimed   (* history: the threads that somebody joins or detaches         *)

memory == <<heap, var, mine>>
vars == <<memory, life, pc, arg, claimed>>

Threads == 0..N

Live(h) == heap[h] # NULL

NoArg == [handle |-> NULL, thread |-> NULL]

TypeOK ==
  /\ heap \in [Handles -> {NULL} \cup
                 [thread : Threads \cup {NULL}, detached : BOOLEAN]]
  /\ life \in [Threads -> {"unborn", "running", "ended"}]
  /\ var \in [Threads -> Handles \cup {NULL}]
  /\ mine \in [Threads -> Handles \cup {NULL}]
  /\ pc \in [Threads -> {"idle", "create", "store", "join", "free"}]
  /\ arg \in [Threads ->
       [handle : Handles \cup {NULL}, thread : Threads \cup {NULL}]]
  /\ claimed \subseteq Threads

Init ==
  /\ heap = [h \in Handles |-> NULL]
  /\ life = [t \in Threads |-> IF t = 0 THEN "running" ELSE "unborn"]
  /\ var = [t \in Threads |-> NULL]
  /\ mine = [t \in Threads |-> NULL]
  /\ pc = [t \in Threads |-> "idle"]
  /\ arg = [t \in Threads |-> NoArg]
  /\ claimed = {}

Runs(a) == life[a] = "running" /\ pc[a] = "idle"

Enter(a, p, h, t) ==
  /\ pc' = [pc EXCEPT ![a] = p]
  /\ arg' = [arg EXCEPT ![a] = [handle |-> h, thread |-> t]]

Goto(a, p) == pc' = [pc EXCEPT ![a] = p] /\ UNCHANGED arg

Leave(a) ==
  /\ pc' = [pc EXCEPT ![a] = "idle"]
  /\ arg' = [arg EXCEPT ![a] = NoArg]

Set(h, handle) == heap' = [heap EXCEPT ![h] = handle]

(* A handle without its pthread_t: malloc'ed memory holds anything. *)
NewHandleUninitialised(t) == [thread |-> N + 1, detached |-> FALSE]

NewHandle(t) == [thread |-> t, detached |-> FALSE]

-----------------------------------------------------------------------------
(* sthread_create.  Without memory nothing happens.                         *)

InCreation == {arg[a].thread : a \in {b \in Threads : pc[b] = "create"}}

CreateCall(a, t, h) ==
  /\ Runs(a)
  /\ a < t /\ life[t] = "unborn" /\ t \notin InCreation
  /\ ~Live(h)
  /\ Set(h, NewHandle(NULL))
  /\ Enter(a, "create", h, t)
  /\ UNCHANGED <<life, var, mine, claimed>>

(* pthread_create: from here on the new thread may run. *)
CreateThread(a) ==
  LET t == arg[a].thread IN
  /\ pc[a] = "create"
  /\ Set(arg[a].handle, [heap[arg[a].handle] EXCEPT !.thread = t])
  /\ life' = [life EXCEPT ![t] = "running"]
  /\ Goto(a, "store")
  /\ UNCHANGED <<var, mine, claimed>>

CreateFails(a) ==
  /\ pc[a] = "create"
  /\ Set(arg[a].handle, NULL)
  /\ Leave(a)
  /\ UNCHANGED <<var, mine, life, claimed>>

CreateStore(a) ==
  /\ pc[a] = "store"
  /\ var' = [var EXCEPT ![arg[a].thread] = arg[a].handle]
  /\ Leave(a)
  /\ UNCHANGED <<heap, mine, life, claimed>>

(* The thread's function returns. *)
ThreadEnds(t) ==
  /\ Runs(t) /\ t # 0
  /\ life' = [life EXCEPT ![t] = "ended"]
  /\ UNCHANGED <<memory, pc, arg, claimed>>

-----------------------------------------------------------------------------
(* sthread_self, _join, _detach                                             *)

Self(a, h) ==
  /\ Runs(a) /\ mine[a] = NULL
  /\ ~Live(h)
  /\ Set(h, NewHandle(a))
  /\ mine' = [mine EXCEPT ![a] = h]
  /\ UNCHANGED <<life, var, pc, arg, claimed>>

(* Thread a passes the handle that sthread_create has stored for t, or its *)
(* own, and forgets it.                                                    *)
UsesHandleOf(a, t) ==
  /\ Runs(a) /\ var[t] # NULL /\ t \notin claimed
  /\ claimed' = claimed \cup {t}
  /\ var' = [var EXCEPT ![t] = NULL]
  /\ UNCHANGED mine

UsesOwnHandle(a) ==
  /\ Runs(a) /\ mine[a] # NULL
  /\ mine' = [mine EXCEPT ![a] = NULL]
  /\ UNCHANGED var

JoinCheckFreesFirst(a, h, t) ==
  /\ IF heap[h].detached THEN UNCHANGED <<pc, arg>> ELSE Enter(a, "join", h, t)
  /\ Set(h, NULL)
  /\ UNCHANGED life

(* A handle that says it is detached is refused (INVALID). *)
JoinCheck(a, h, t) ==
  /\ IF heap[h].detached THEN UNCHANGED <<pc, arg>> ELSE Enter(a, "join", h, t)
  /\ UNCHANGED <<heap, life>>

Join(a) ==
  \/ \E t \in a+1..N : UsesHandleOf(a, t) /\ JoinCheck(a, var[t], t)
  \/ UsesOwnHandle(a) /\ JoinCheck(a, mine[a], a) /\ UNCHANGED claimed

JoinReturnsKeepingHandle(a) ==
  /\ pc[a] = "join"
  /\ \/ life[arg[a].thread] = "ended" /\ Goto(a, "free")
     \/ arg[a].thread = a /\ Leave(a)
  /\ UNCHANGED <<memory, life, claimed>>

JoinBlocksOnItself(a) ==
  /\ pc[a] = "join"
  /\ life[arg[a].thread] = "ended"
  /\ Goto(a, "free")
  /\ UNCHANGED <<memory, life, claimed>>

(* pthread_join: at the end of the thread, or EDEADLK at once.  The handle *)
(* is freed in both cases.                                                 *)
JoinReturns(a) ==
  /\ pc[a] = "join"
  /\ life[arg[a].thread] = "ended" \/ arg[a].thread = a
  /\ Goto(a, "free")
  /\ UNCHANGED <<memory, life, claimed>>

DetachCheck(a, h, t) ==
  /\ Set(h, [heap[h] EXCEPT !.detached = TRUE])
  /\ Enter(a, "free", h, t)
  /\ UNCHANGED life

(* pthread_detach succeeds, whether the thread is running or has ended. *)
Detach(a) ==
  \/ \E t \in Threads : UsesHandleOf(a, t) /\ DetachCheck(a, var[t], t)
  \/ /\ a \notin claimed /\ claimed' = claimed \cup {a}
     /\ UsesOwnHandle(a) /\ DetachCheck(a, mine[a], a)

Free(a) ==
  /\ pc[a] = "free"
  /\ Set(arg[a].handle, NULL)
  /\ Leave(a)
  /\ UNCHANGED <<life, var, mine, claimed>>

-----------------------------------------------------------------------------
Next ==
  \E a \in Threads :
    \/ \E t \in Threads, h \in Handles : CreateCall(a, t, h)
    \/ CreateThread(a) \/ CreateFails(a) \/ CreateStore(a) \/ ThreadEnds(a)
    \/ \E h \in Handles : Self(a, h)
    \/ Join(a) \/ JoinReturns(a) \/ Detach(a) \/ Free(a)

Spec == Init /\ [][Next]_vars

(* Calls in progress go on, and every thread's function returns, also when *)
(* the thread has made calls again and again before.                       *)
FairSpec ==
  Spec /\ \A a \in Threads :
    /\ WF_vars(CreateThread(a) \/ CreateStore(a) \/ JoinReturns(a) \/ Free(a))
    /\ SF_vars(ThreadEnds(a))
=============================================================================
