------------------------- MODULE CountingSemaphore -------------------------
(***************************************************************************)
(* What the semaphore of src/include/sthread.h promises to the threads     *)
(* that call it: a number of permits that every call changes or reads at   *)
(* one instant between its invocation and its return.  A wait blocks while *)
(* there is none.  Semaphore, the mutex, condition variable and unsigned   *)
(* counter of sync.c, implements this specification.                       *)
(***************************************************************************)
EXTENDS Integers

CONSTANT Threads

VARIABLES
  value,      (* the permits                                                *)
  open,       (* between a successful init and the destroy                  *)
  call        (* the call each thread is in, and its outcome once decided   *)

absVars == <<value, open, call>>

Ops == {"wait", "trywait", "post", "getvalue"}

Idle == [op |-> "idle", ret |-> 0, val |-> 0]
Pending(o) == [op |-> o, ret |-> 0, val |-> 0]
Done(r, v) == [op |-> "done", ret |-> r, val |-> v]

AbsInit ==
  /\ value = 0 /\ open = FALSE
  /\ call = [t \in Threads |-> Idle]

Finish(t, r, v) == call' = [call EXCEPT ![t] = Done(r, v)]

(* A call on a semaphore that is not there answers STHREAD_ERROR_INVALID. *)
Invoke(t) ==
  /\ call[t] = Idle
  /\ IF open THEN \E o \in Ops : call' = [call EXCEPT ![t] = Pending(o)]
             ELSE Finish(t, -2, 0)
  /\ UNCHANGED <<value, open>>

(* Init and destroy belong to a thread that has the semaphore for itself. *)
Alone(t) == \A u \in Threads : call[u] = Idle

Create(t) ==
  /\ Alone(t) /\ ~open
  /\ \/ value' \in Nat /\ open' = TRUE /\ Finish(t, 0, 0)
     \/ \E r \in {-1, -7} : Finish(t, r, 0) /\ UNCHANGED <<value, open>>

Destroy(t) ==
  /\ Alone(t) /\ open
  /\ value' = 0 /\ open' = FALSE
  /\ Finish(t, 0, 0)

Take(t) ==
  /\ call[t].op \in {"wait", "trywait"}
  /\ value > 0
  /\ value' = value - 1
  /\ Finish(t, 0, 0)
  /\ UNCHANGED open

Busy(t) ==
  /\ call[t].op = "trywait"
  /\ value = 0
  /\ Finish(t, -3, 0)
  /\ UNCHANGED <<value, open>>

Post(t) ==
  /\ call[t].op = "post"
  /\ value' = value + 1
  /\ Finish(t, 0, 0)
  /\ UNCHANGED open

GetValue(t) ==
  /\ call[t].op = "getvalue"
  /\ Finish(t, 0, value)
  /\ UNCHANGED <<value, open>>

Return(t) ==
  /\ call[t].op = "done"
  /\ call' = [call EXCEPT ![t] = Idle]
  /\ UNCHANGED <<value, open>>

AbsNext ==
  \E t \in Threads :
    \/ Invoke(t) \/ Create(t) \/ Destroy(t)
    \/ Take(t) \/ Busy(t) \/ Post(t) \/ GetValue(t) \/ Return(t)

AbsSpec == AbsInit /\ [][AbsNext]_absVars

(***************************************************************************)
(* A thread that from some point on could always take a permit takes one,  *)
(* and a post takes effect.  A thread that finds permits again and again   *)
(* is promised nothing: others may be faster every time.                   *)
(***************************************************************************)
AbsFairness ==
  \A t \in Threads : WF_absVars(Take(t)) /\ WF_absVars(Post(t))
=============================================================================
