------------------------- MODULE ThreadHandleProps --------------------------
(***************************************************************************)
(* What src/src/sthread.c promises the users of its thread handles.        *)
(***************************************************************************)
EXTENDS ThreadHandle

(* Who has handle h and may still use or free it: a call in progress, the  *)
(* variable that sthread_create has set, or a thread that called           *)
(* sthread_self.                                                           *)
Owners(h) ==
  {<<"call", a>> : a \in {b \in Threads : arg[b].handle = h}} \cup
  {<<"variable", t>> : t \in {u \in Threads : var[u] = h}} \cup
  {<<"self", a>> : a \in {b \in Threads : mine[b] = h}}

(* A handle is allocated exactly as long as it has an owner, and it never  *)
(* has two: no call reads a freed handle, none is freed twice, none is     *)
(* lost by a pthread_create or a pthread_join that fails (sthread.c:36-37, *)
(* :55-60), and the new thread can do nothing to the handle that its       *)
(* creator still has to store (:40).  Two kinds of owner can keep theirs   *)
(* for good, for there is no call that only frees a handle: the "variable" *)
(* of a thread that detached itself through sthread_self, and a thread     *)
(* that ends without passing what sthread_self gave it (:82-90).           *)
OneOwner ==
  \A h \in Handles :
    /\ Live(h) <=> Owners(h) # {}
    /\ \A o1, o2 \in Owners(h) : o1 = o2

(* The handle that a caller may still pass stands for the thread it was    *)
(* made for, and is not marked detached: the check of sthread.c:51 never   *)
(* refuses a legal join and cannot catch an illegal one, because           *)
(* sthread_detach frees the handle in which it has set the mark.           *)
HandleIsForItsThread ==
  \A t \in Threads :
    /\ var[t] # NULL => heap[var[t]] = [thread |-> t, detached |-> FALSE]
    /\ mine[t] # NULL => heap[mine[t]] = [thread |-> t, detached |-> FALSE]
    /\ pc[t] = "join" =>
         heap[arg[t].handle] = [thread |-> arg[t].thread, detached |-> FALSE]

(* sthread_join returns: when the thread has ended, or, called by a thread *)
(* on its own handle, with an error.                                       *)
JoinComesBack == \A a \in Threads : pc[a] = "join" ~> pc[a] = "idle"
=============================================================================
