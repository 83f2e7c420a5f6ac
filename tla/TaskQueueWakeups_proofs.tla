----------------------- MODULE TaskQueueWakeups_proofs -----------------------
(***************************************************************************)
(* Proofs that no wakeup of the task queue is lost and that no node is     *)
(* leaked or freed too early, on top of the invariants Control and Data of *)
(* TaskQueue_proofs.                                                       *)
(***************************************************************************)
EXTENDS TaskQueue_proofs, FiniteSetTheorems

(* The threads on their way to a queued task, and to a free slot. *)
TaskSeekers == At("pop_woken") \cup At("pop_held")
RoomSeekers == At("push_woken") \cup At("push_held")

LEMMA SeekersCounted ==
  /\ IsFiniteSet(TaskSeekers) /\ Cardinality(TaskSeekers) \in Nat
  /\ IsFiniteSet(TaskSeekers') /\ Cardinality(TaskSeekers') \in Nat
  /\ IsFiniteSet(RoomSeekers) /\ Cardinality(RoomSeekers) \in Nat
  /\ IsFiniteSet(RoomSeekers') /\ Cardinality(RoomSeekers') \in Nat
<1>1. /\ TaskSeekers \subseteq Threads /\ RoomSeekers \subseteq Threads
      /\ TaskSeekers' \subseteq Threads /\ RoomSeekers' \subseteq Threads
  BY DEF TaskSeekers, RoomSeekers, At
<1>2. /\ IsFiniteSet(TaskSeekers) /\ IsFiniteSet(RoomSeekers)
      /\ IsFiniteSet(TaskSeekers') /\ IsFiniteSet(RoomSeekers')
  BY <1>1, QueueAssumption, FS_Subset
<1> QED
  BY <1>2, FS_CardinalityType

(* The other threads stay on their way, and the woken ones join them.       *)
LEMMA SeekersMove ==
  ASSUME Control, NEW t \in Threads, NEW p \in PCs, NEW woken \in SUBSET Asleep,
         Move(t, p, woken)
  PROVE  /\ TaskSeekers \ {t} \subseteq TaskSeekers'
         /\ RoomSeekers \ {t} \subseteq RoomSeekers'
         /\ p \in {"pop_woken", "pop_held"} => t \in TaskSeekers'
         /\ p \in {"push_woken", "push_held"} => t \in RoomSeekers'
         /\ p # "pop_asleep" => At("pop_asleep")' \subseteq At("pop_asleep") \ woken
         /\ p # "push_asleep" => At("push_asleep")' \subseteq At("push_asleep") \ woken
         /\ (woken \ {t}) \cap At("pop_asleep") \subseteq TaskSeekers'
         /\ (woken \ {t}) \cap At("push_asleep") \subseteq RoomSeekers'
BY DEF Move, At, Control, ControlTypeOK, Asleep, TaskSeekers, RoomSeekers

(* A set that loses one member, keeps its size, or gains one. *)
LEMMA SizeAfterStep ==
  ASSUME NEW S, NEW T, IsFiniteSet(S), IsFiniteSet(T), NEW t, S \ {t} \subseteq T
  PROVE  /\ Cardinality(S) - 1 <= Cardinality(T)
         /\ t \in T \/ t \notin S => Cardinality(S) <= Cardinality(T)
         /\ \A u \in T : u # t /\ u \notin S /\ (t \in T \/ t \notin S) =>
              Cardinality(S) + 1 <= Cardinality(T)
<1>1. Cardinality(S) \in Nat /\ Cardinality(T) \in Nat
  BY FS_CardinalityType
<1>2. /\ IsFiniteSet(S \ {t})
      /\ Cardinality(S \ {t}) = IF t \in S THEN Cardinality(S) - 1 ELSE Cardinality(S)
  BY FS_RemoveElement
<1>3. Cardinality(S \ {t}) <= Cardinality(T)
  BY FS_Subset
<1>4. t \in T \/ t \notin S => Cardinality(S) <= Cardinality(T)
  <2>1. t \in T \/ t \notin S => S \subseteq T
    OBVIOUS
  <2> QED
    BY <2>1, FS_Subset
<1>5. ASSUME NEW u \in T, u # t, u \notin S, t \in T \/ t \notin S
      PROVE  Cardinality(S) + 1 <= Cardinality(T)
  <2>1. S \cup {u} \subseteq T
    BY <1>5
  <2>2. Cardinality(S \cup {u}) = Cardinality(S) + 1
    BY <1>5, FS_AddElement
  <2> QED
    BY <2>1, <2>2, FS_Subset
<1> QED
  BY <1>1, <1>2, <1>3, <1>4, <1>5

-----------------------------------------------------------------------------
(* A step that neither adds a task or a slot, nor loses a thread on its way *)
(* to one, nor puts one to sleep while there is one.                        *)
LEMMA WakeupsQuiet ==
  ASSUME Control, NoLostTask, NoLostRoom, count \in Nat,
         NEW t \in Threads, NEW p \in PCs, NEW woken \in SUBSET Asleep,
         Move(t, p, woken), count' = count,
         pc[t] \in {"pop_woken", "pop_held"} =>
           p \in {"pop_woken", "pop_held"} \/ (p = "pop_asleep" /\ count = 0),
         pc[t] \in {"push_woken", "push_held"} =>
           p \in {"push_woken", "push_held"} \/ (p = "push_asleep" /\ Full),
         p = "pop_asleep" => pc[t] \in {"pop_woken", "pop_held"},
         p = "push_asleep" => pc[t] \in {"push_woken", "push_held"}
  PROVE  NoLostTask' /\ NoLostRoom'
<1>1. /\ TaskSeekers \ {t} \subseteq TaskSeekers'
      /\ RoomSeekers \ {t} \subseteq RoomSeekers'
      /\ p \in {"pop_woken", "pop_held"} => t \in TaskSeekers'
      /\ p \in {"push_woken", "push_held"} => t \in RoomSeekers'
      /\ p # "pop_asleep" => At("pop_asleep")' \subseteq At("pop_asleep")
      /\ p # "push_asleep" => At("push_asleep")' \subseteq At("push_asleep")
  BY SeekersMove
<1>2. NoLostTask'
  <2>1. CASE p = "pop_asleep"
    BY <2>1, SeekersCounted DEF NoLostTask, TaskSeekers
  <2>2. CASE p # "pop_asleep"
    <3>1. t \in TaskSeekers' \/ t \notin TaskSeekers
      BY <1>1, <2>2 DEF TaskSeekers, At
    <3>2. Cardinality(TaskSeekers) <= Cardinality(TaskSeekers')
      BY <1>1, <3>1, SeekersCounted, SizeAfterStep
    <3>3. At("pop_asleep")' # {} => At("pop_asleep") # {}
      BY <1>1, <2>2
    <3> QED
      BY <3>2, <3>3, SeekersCounted DEF NoLostTask, TaskSeekers
  <2> QED
    BY <2>1, <2>2
<1>3. NoLostRoom'
  <2>1. CASE p = "push_asleep"
    <3>1. Capacity - count' <= 0
      BY <2>1, QueueAssumption DEF Full, PCs, Held
    <3> QED
      BY <3>1, SeekersCounted, QueueAssumption DEF NoLostRoom, RoomSeekers
  <2>2. CASE p # "push_asleep"
    <3>1. t \in RoomSeekers' \/ t \notin RoomSeekers
      BY <1>1, <2>2 DEF RoomSeekers, At
    <3>2. Cardinality(RoomSeekers) <= Cardinality(RoomSeekers')
      BY <1>1, <3>1, SeekersCounted, SizeAfterStep
    <3>3. At("push_asleep")' # {} => At("push_asleep") # {}
      BY <1>1, <2>2
    <3> QED
      BY <3>2, <3>3, SeekersCounted, QueueAssumption DEF NoLostRoom, RoomSeekers
  <2> QED
    BY <2>1, <2>2
<1> QED
  BY <1>2, <1>3

(* task_queue_push: one more task, one more thread on its way to it. *)
LEMMA WakeupsPushLink ==
  ASSUME Control, NoLostTask, NoLostRoom, count \in Nat,
         NEW t \in Threads, PushLink(t)
  PROVE  NoLostTask' /\ NoLostRoom'
<1>1. PICK woken \in SignalNotEmpty : Move(t, "returned", woken)
  BY DEF PushLink
<1>2. /\ "returned" \in PCs /\ woken \in SUBSET Asleep
      /\ pc[t] = "push_held" /\ count' = count + 1
  BY DEF PCs, SignalNotEmpty, WakeOne, Asleep, PushLink
<1>3. /\ TaskSeekers \ {t} \subseteq TaskSeekers'
      /\ RoomSeekers \ {t} \subseteq RoomSeekers'
      /\ At("pop_asleep")' \subseteq At("pop_asleep") \ woken
      /\ At("push_asleep")' \subseteq At("push_asleep")
      /\ (woken \ {t}) \cap At("pop_asleep") \subseteq TaskSeekers'
  BY <1>1, <1>2, SeekersMove
<1>4. NoLostTask'
  <2> SUFFICES ASSUME At("pop_asleep")' # {}
               PROVE  count' <= Cardinality(TaskSeekers')
    BY DEF NoLostTask, TaskSeekers
  <2>1. PICK u \in At("pop_asleep") : woken = {u}
    BY <1>3 DEF SignalNotEmpty, WakeOne
  <2>2. u # t /\ u \notin TaskSeekers /\ t \notin TaskSeekers /\ u \in TaskSeekers'
    BY <1>2, <1>3, <2>1 DEF At, TaskSeekers
  <2>3. Cardinality(TaskSeekers) + 1 <= Cardinality(TaskSeekers')
    BY <1>3, <2>2, SeekersCounted, SizeAfterStep
  <2>4. count <= Cardinality(TaskSeekers)
    BY <1>3 DEF NoLostTask, TaskSeekers
  <2> QED
    BY <1>2, <2>3, <2>4, SeekersCounted
<1>5. NoLostRoom'
  <2> SUFFICES ASSUME At("push_asleep")' # {}
               PROVE  Capacity - count' <= Cardinality(RoomSeekers')
    BY DEF NoLostRoom, RoomSeekers
  <2>1. Cardinality(RoomSeekers) - 1 <= Cardinality(RoomSeekers')
    BY <1>3, SeekersCounted, SizeAfterStep
  <2>2. Capacity - count <= Cardinality(RoomSeekers)
    BY <1>3 DEF NoLostRoom, RoomSeekers
  <2> QED
    BY <1>2, <2>1, <2>2, SeekersCounted, QueueAssumption
<1> QED
  BY <1>4, <1>5

(* The removal of a task: one more slot, one more thread on its way to it.  *)
LEMMA WakeupsPopUnlink ==
  ASSUME Control, NoLostTask, NoLostRoom, count \in Nat, count' \in Nat,
         NEW t \in Threads, PopUnlink(t)
  PROVE  NoLostTask' /\ NoLostRoom'
<1>1. PICK woken \in SignalNotFull : Move(t, "copy_out", woken)
  BY DEF PopUnlink
<1>2. /\ "copy_out" \in PCs /\ woken \in SUBSET Asleep
      /\ pc[t] \in {"pop_held", "try_held"} /\ count' = count - 1
  BY DEF PCs, SignalNotFull, WakeOne, Asleep, PopUnlink
<1>3. /\ TaskSeekers \ {t} \subseteq TaskSeekers'
      /\ RoomSeekers \ {t} \subseteq RoomSeekers'
      /\ At("pop_asleep")' \subseteq At("pop_asleep")
      /\ At("push_asleep")' \subseteq At("push_asleep") \ woken
      /\ (woken \ {t}) \cap At("push_asleep") \subseteq RoomSeekers'
  BY <1>1, <1>2, SeekersMove
<1>4. NoLostTask'
  <2> SUFFICES ASSUME At("pop_asleep")' # {}
               PROVE  count' <= Cardinality(TaskSeekers')
    BY DEF NoLostTask, TaskSeekers
  <2>1. Cardinality(TaskSeekers) - 1 <= Cardinality(TaskSeekers')
    BY <1>3, SeekersCounted, SizeAfterStep
  <2>2. count <= Cardinality(TaskSeekers)
    BY <1>3 DEF NoLostTask, TaskSeekers
  <2> QED
    BY <1>2, <2>1, <2>2, SeekersCounted
<1>5. NoLostRoom'
  <2> SUFFICES ASSUME At("push_asleep")' # {}
               PROVE  Capacity - count' <= Cardinality(RoomSeekers')
    BY DEF NoLostRoom, RoomSeekers
  <2>1. CASE Capacity = 0
    BY <2>1, SeekersCounted
  <2>2. CASE Capacity > 0
    <3>1. PICK u \in At("push_asleep") : woken = {u}
      BY <1>3, <2>2 DEF SignalNotFull, WakeOne
    <3>2. u # t /\ u \notin RoomSeekers /\ t \notin RoomSeekers /\ u \in RoomSeekers'
      BY <1>2, <1>3, <3>1 DEF At, RoomSeekers
    <3>3. Cardinality(RoomSeekers) + 1 <= Cardinality(RoomSeekers')
      BY <1>3, <3>2, SeekersCounted, SizeAfterStep
    <3>4. Capacity - count <= Cardinality(RoomSeekers)
      BY <1>3 DEF NoLostRoom, RoomSeekers
    <3> QED
      BY <1>2, <3>3, <3>4, SeekersCounted, QueueAssumption
  <2> QED
    BY <2>1, <2>2, QueueAssumption
<1> QED
  BY <1>4, <1>5

(* The calls and the steps that leave the list alone. *)
LEMMA WakeupsQuietSteps ==
  ASSUME Control, Control', NoLostTask, NoLostRoom, count \in Nat, NEW t \in Threads,
         \/ \E v \in Tasks : PushCall(t, v)
         \/ PushNoMemory(t) \/ PopCall(t) \/ OwnerCall(t) \/ Acquire(t)
         \/ PushWait(t) \/ PopWait(t) \/ PopFails(t) \/ SizeRead(t)
         \/ SpuriousWakeup(t) \/ Return(t) \/ PopCopyOut(t) \/ DestroyStart(t),
         ~shutdown'
  PROVE  NoLostTask' /\ NoLostRoom'
<1> USE DEF PCs, Held, HeldPCs
<1>1. count' = count /\ shutdown' = shutdown
  BY DEF list, PushCall, PushNoMemory, PopCall, OwnerCall, Acquire, PushWait, PopWait, Sleep,
         PopFails, UnlockAndReturn, SizeRead, SpuriousWakeup, Return, PopCopyOut, DestroyStart
<1>2. PICK p \in PCs :
        /\ Move(t, p, {})
        /\ pc[t] \in {"pop_woken", "pop_held"} =>
             p \in {"pop_woken", "pop_held"} \/ (p = "pop_asleep" /\ count = 0)
        /\ pc[t] \in {"push_woken", "push_held"} =>
             p \in {"push_woken", "push_held"} \/ (p = "push_asleep" /\ Full)
        /\ p = "pop_asleep" => pc[t] \in {"pop_woken", "pop_held"}
        /\ p = "push_asleep" => pc[t] \in {"push_woken", "push_held"}
  <2>1. CASE Acquire(t)
    BY <2>1 DEF Acquire, Goto
  <2>2. CASE PushWait(t) \/ PopWait(t)
    BY <2>2 DEF PushWait, PopWait, Sleep, Goto
  <2>3. CASE \/ \E v \in Tasks : PushCall(t, v)
             \/ PushNoMemory(t) \/ PopCall(t) \/ OwnerCall(t) \/ SizeRead(t)
             \/ SpuriousWakeup(t) \/ Return(t) \/ PopCopyOut(t) \/ DestroyStart(t)
    BY <2>3 DEF PushCall, PushNoMemory, PopCall, OwnerCall, SizeRead, UnlockAndReturn,
                SpuriousWakeup, Return, PopCopyOut, DestroyStart, Goto
  <2>4. CASE PopFails(t)
    BY <1>1, <2>4 DEF PopFails, UnlockAndReturn, Goto
  <2> QED
    BY <2>1, <2>2, <2>3, <2>4
<1>3. {} \in SUBSET Asleep
  OBVIOUS
<1> HIDE DEF PCs, Held, HeldPCs
<1> QED
  BY <1>1, <1>2, <1>3, WakeupsQuiet

(* Every step preserves both, given Control and Data. *)
LEMMA WakeupsStep ==
  ASSUME Control, Control', Data, Data', NoLostTask, NoLostRoom, [Next]_vars
  PROVE  NoLostTask' /\ NoLostRoom'
<1>a. count \in Nat /\ count' \in Nat
  BY DEF Data, DataTypeOK
<1>1. CASE UNCHANGED vars
  BY <1>1 DEF vars, list, NoLostTask, NoLostRoom, At
<1>2. ASSUME At("pop_asleep")' = {}, At("push_asleep")' = {}
      PROVE  NoLostTask' /\ NoLostRoom'
  BY <1>2 DEF NoLostTask, NoLostRoom
<1>3. CASE shutdown'
  BY <1>2, <1>3 DEF Control, NobodyAsleep, At
<1>4. ASSUME NEW t \in Threads, ~shutdown',
             \/ \E v \in Tasks : PushCall(t, v)
             \/ PushNoMemory(t) \/ PopCall(t) \/ OwnerCall(t) \/ Acquire(t)
             \/ PushWait(t) \/ PopWait(t) \/ PopFails(t) \/ SizeRead(t)
             \/ SpuriousWakeup(t) \/ Return(t) \/ PopCopyOut(t) \/ DestroyStart(t)
      PROVE  NoLostTask' /\ NoLostRoom'
  BY <1>a, <1>4, WakeupsQuietSteps
<1>5. ASSUME NEW t \in Threads, PushLink(t)
      PROVE  NoLostTask' /\ NoLostRoom'
  BY <1>a, <1>5, WakeupsPushLink
<1>6. ASSUME NEW t \in Threads, PopUnlink(t)
      PROVE  NoLostTask' /\ NoLostRoom'
  BY <1>a, <1>6, WakeupsPopUnlink
<1>7. ASSUME NEW t \in Threads, ~shutdown', PushRefused(t) \/ ShutdownBroadcast(t)
      PROVE  FALSE
  BY <1>7 DEF PushRefused, ShutdownBroadcast
<1>8. ASSUME NEW t \in Threads, DestroyFreeNode(t) \/ DestroyEnd(t)
      PROVE  NoLostTask' /\ NoLostRoom'
  <2>1. pc[t] \in DestroyPCs /\ \A u \in Threads \ {t} : pc[u] = "idle"
    BY <1>8 DEF DestroyFreeNode, DestroyEnd, DestroyPCs, Control, DestroyAlone
  <2>2. /\ pc'[t] \in {"destroy_free", "returned"}
        /\ \A u \in Threads \ {t} : pc'[u] = "idle"
    BY <1>8, <2>1
       DEF DestroyFreeNode, DestroyEnd, UnlockAndReturn, Goto, Move, Control, ControlTypeOK
  <2> QED
    BY <1>2, <2>2 DEF At
<1>9. CASE Terminated
  BY <1>1, <1>9 DEF Terminated
<1> QED
  BY <1>1, <1>3, <1>4, <1>5, <1>6, <1>7, <1>8, <1>9 DEF Next, Call, Body

LEMMA WakeupsAlways == Spec => [](NoLostTask /\ NoLostRoom)
<1>1. Init => NoLostTask /\ NoLostRoom
  BY DEF Init, NoLostTask, NoLostRoom, At
<1>2. /\ Control /\ Control' /\ Data /\ Data' /\ NoLostTask /\ NoLostRoom /\ [Next]_vars
      => NoLostTask' /\ NoLostRoom'
  BY WakeupsStep
<1> QED
  BY <1>1, <1>2, ControlAlways, DataAlways, PTL DEF Spec

(* One signal of not_empty per push is enough: no popper sleeps on an open  *)
(* queue beside a task that nobody is on the way to, whoever takes a task   *)
(* before the thread that was woken for it, and however many there are.     *)
THEOREM NotEmptyIsSignalled == Spec => []NoLostTask
BY WakeupsAlways, PTL

(* One signal of not_full per removal is enough, for every capacity.        *)
THEOREM NotFullIsSignalled == Spec => []NoLostRoom
BY WakeupsAlways, PTL

-----------------------------------------------------------------------------
(* The nodes, all of them.                                                 *)

CarriedNodes == {node[t] : t \in Carriers}

(* While no destroy is freeing the list. *)
AllReachable == At("destroy_free") = {} => heap = InList \cup CarriedNodes

(* task_queue_destroy has freed the list up to the node it stands at. *)
FreedUpTo(k, n) ==
  /\ heap = {chain[i] : i \in k..Len(chain)}
  /\ n = IF k <= Len(chain) THEN chain[k] ELSE NULL

RestReachable ==
  \A d \in Threads : pc[d] = "destroy_free" =>
    \E k \in 1..Len(chain)+1 : FreedUpTo(k, node[d])

NothingLeft ==
  ~live /\ (\A t \in Threads : pc[t] \notin DestroyPCs) =>
    /\ heap = {} /\ chain = <<>>
    /\ \A t \in Threads : pc[t] \in {"idle", "returned"}

Ownership == AllReachable /\ RestReachable /\ NothingLeft

(* A step outside task_queue_destroy is taken in a live queue, but for the  *)
(* return of the destroy itself.                                            *)
LEMMA DestroyedIsQuiet ==
  ASSUME Control, Ownership, NEW t \in Threads, ~live,
         pc[t] \notin DestroyPCs \cup {"idle", "returned"}
  PROVE  FALSE
BY DEF Control, DestroyAlone, Ownership, NothingLeft, DestroyPCs

(* What a step of t, in a call of a live queue, leaves of the two parts     *)
(* about a queue being destroyed.                                           *)
LEMMA OwnershipLive ==
  ASSUME Control, Ownership, NEW t \in Threads, NEW p \in PCs, NEW woken \in SUBSET Asleep,
         Move(t, p, woken), pc[t] \notin DestroyPCs, p \notin DestroyPCs,
         live, live' = live
  PROVE  At("destroy_free") = {} /\ RestReachable' /\ NothingLeft'
<1>1. \A d \in Threads : pc[d] \notin DestroyPCs
  BY DEF Control, DestroyAlone
<1>2. \A d \in Threads : pc'[d] \notin DestroyPCs
  BY <1>1, MoveEffect DEF Control, ControlTypeOK, Asleep, DestroyPCs
<1> QED
  BY <1>1, <1>2 DEF RestReachable, NothingLeft, DestroyPCs, At

(* A step that changes neither list nor heap nor what t carries.           *)
LEMMA OwnershipQuiet ==
  ASSUME Control, Ownership, NEW t \in Threads, NEW p \in PCs, NEW woken \in SUBSET Asleep,
         Move(t, p, woken), UNCHANGED <<heap, list, node, next>>,
         pc[t] \in PushPCs \cup {"copy_out"} <=> p \in PushPCs \cup {"copy_out"},
         p # "destroy_free" /\ pc[t] # "destroy_free"
  PROVE  AllReachable' /\ RestReachable'
<1>1. /\ pc'[t] = p
      /\ \A u \in Threads \ {t} :
           /\ pc'[u] \in PushPCs <=> pc[u] \in PushPCs
           /\ pc'[u] \in {"copy_out", "destroy_free"} => pc'[u] = pc[u]
           /\ pc[u] \in {"copy_out", "destroy_free"} => pc'[u] = pc[u]
  BY OthersStay
<1>2. Carriers' = Carriers
  BY <1>1 DEF Carriers
<1>3. InList' = InList /\ CarriedNodes' = CarriedNodes
  BY <1>2 DEF InList, CarriedNodes, list
<1>4. \A u \in Threads : pc'[u] = "destroy_free" <=> pc[u] = "destroy_free"
  BY <1>1
<1>5. AllReachable'
  BY <1>3, <1>4 DEF Ownership, AllReachable, At
<1>6. RestReachable'
  BY <1>4 DEF Ownership, RestReachable, FreedUpTo, list
<1> QED
  BY <1>5, <1>6

LEMMA OwnershipQuietSteps ==
  ASSUME Control, Ownership, NEW t \in Threads,
         \/ PushNoMemory(t) \/ PopCall(t) \/ OwnerCall(t) \/ Acquire(t)
         \/ PushWait(t) \/ PopWait(t) \/ PopFails(t) \/ SizeRead(t)
         \/ ShutdownBroadcast(t) \/ SpuriousWakeup(t) \/ Return(t)
  PROVE  Ownership'
<1> USE DEF PCs, Held, HeldPCs, PushPCs
<1>1. UNCHANGED <<heap, list, node, next>>
  BY DEF PushNoMemory, PopCall, OwnerCall, Acquire, PushWait, PopWait, Sleep, PopFails,
         UnlockAndReturn, SizeRead, ShutdownBroadcast, SpuriousWakeup, Return
<1>2. PICK p \in PCs, woken \in SUBSET Asleep :
        /\ Move(t, p, woken)
        /\ pc[t] \in PushPCs \cup {"copy_out"} <=> p \in PushPCs \cup {"copy_out"}
        /\ p # "destroy_free" /\ pc[t] # "destroy_free"
  <2>1. CASE Acquire(t)
    BY <2>1 DEF Acquire, Goto
  <2>2. CASE PushNoMemory(t) \/ PopCall(t) \/ OwnerCall(t)
    BY <2>2 DEF PushNoMemory, PopCall, OwnerCall, Goto
  <2>3. CASE PushWait(t) \/ PopWait(t) \/ PopFails(t) \/ SizeRead(t)
    BY <2>3 DEF PushWait, PopWait, Sleep, PopFails, SizeRead, UnlockAndReturn, Goto
  <2>4. CASE ShutdownBroadcast(t)
    BY <2>4 DEF ShutdownBroadcast, BroadcastSet, Asleep
  <2>5. CASE SpuriousWakeup(t) \/ Return(t)
    BY <2>5 DEF SpuriousWakeup, Return, Goto
  <2> QED
    BY <2>1, <2>2, <2>3, <2>4, <2>5
<1> HIDE DEF PCs, Held, HeldPCs, PushPCs
<1>3. AllReachable' /\ RestReachable'
  BY <1>1, <1>2, OwnershipQuiet
<1>4. NothingLeft'
  <2>1. CASE live'
    BY <2>1 DEF NothingLeft
  <2>2. CASE ~live' /\ live
    <3>1. pc'[t] = "destroy_lock"
      BY <2>2 DEF PushNoMemory, PopCall, OwnerCall, Acquire, PushWait, PopWait, Sleep, PopFails,
           UnlockAndReturn, SizeRead, ShutdownBroadcast, SpuriousWakeup, Return, Goto, Move,
           Control, ControlTypeOK
    <3> QED
      BY <3>1 DEF NothingLeft, DestroyPCs
  <2>3. CASE ~live /\ pc[t] \in DestroyPCs
    <3>1. Acquire(t) /\ pc[t] = "destroy_lock"
      BY <2>3 DEF PushNoMemory, PopCall, OwnerCall, Acquire, PushWait, PopWait, PopFails,
           SizeRead, ShutdownBroadcast, SpuriousWakeup, Return, DestroyPCs, Held
    <3>2. pc'[t] = "destroy_held"
      BY <3>1 DEF Acquire, Goto, Move, Control, ControlTypeOK, Held
    <3> QED
      BY <3>2 DEF NothingLeft, DestroyPCs
  <2>4. CASE ~live /\ pc[t] \notin DestroyPCs
    <3>1. Return(t) /\ pc'[t] = "idle" /\ \A u \in Threads \ {t} : pc'[u] = pc[u]
      <4>1. pc[t] \in {"idle", "returned"}
        BY <2>4, DestroyedIsQuiet
      <4>2. Return(t)
        BY <2>4, <4>1 DEF PushNoMemory, PopCall, OwnerCall, Acquire, PushWait, PopWait, PopFails,
           SizeRead, ShutdownBroadcast, SpuriousWakeup, Held
      <4> QED
        BY <4>2 DEF Return, Goto, Move, Control, ControlTypeOK
    <3>2. \A u \in Threads : pc[u] \notin DestroyPCs
      BY <3>1 DEF Return, Control, DestroyAlone, DestroyPCs
    <3> QED
      BY <1>1, <2>4, <3>1, <3>2 DEF Ownership, NothingLeft, list
  <2> QED
    BY <2>1, <2>2, <2>3, <2>4 DEF Control, ControlTypeOK
<1> QED
  BY <1>3, <1>4 DEF Ownership

(* malloc: one more node, in the hands of t. *)
LEMMA OwnershipPushCall ==
  ASSUME Control, Data, Ownership, NEW t \in Threads, NEW v \in Tasks, PushCall(t, v)
  PROVE  Ownership'
<1>1. PICK n \in Nodes \ heap :
        /\ heap' = heap \cup {n} /\ node' = [node EXCEPT ![t] = n]
        /\ UNCHANGED <<list, live>> /\ live /\ pc[t] = "idle"
        /\ Move(t, "push_lock", {})
  BY DEF PushCall, Goto
<1>2. "push_lock" \in PCs /\ {} \in SUBSET Asleep /\ "push_lock" \notin DestroyPCs
      /\ pc[t] \notin DestroyPCs
  BY <1>1 DEF PCs, Held, DestroyPCs
<1>3. At("destroy_free") = {} /\ RestReachable' /\ NothingLeft'
  BY <1>1, <1>2, OwnershipLive
<1>4. t \notin Carriers /\ Carriers' = Carriers \cup {t}
  BY <1>1, <1>2, OthersStay DEF Carriers, PushPCs
<1>5. CarriedNodes' = CarriedNodes \cup {n}
  <2>1. node'[t] = n /\ \A u \in Carriers : node'[u] = node[u]
    BY <1>1, <1>4 DEF Data, DataTypeOK, Carriers
  <2> QED
    BY <1>4, <2>1 DEF CarriedNodes
<1>6. InList' = InList
  BY <1>1 DEF InList, list
<1> QED
  BY <1>1, <1>3, <1>5, <1>6 DEF Ownership, AllReachable

(* free: the node t carried, which is nobody else's. *)
LEMMA OwnershipDropNode ==
  ASSUME Control, Data, Ownership, NEW t \in Threads, PushRefused(t) \/ PopCopyOut(t)
  PROVE  Ownership'
<1>1. /\ FreeNode(t) /\ UNCHANGED <<list, live>> /\ Move(t, "returned", {})
      /\ pc[t] \in PushPCs \cup {"copy_out"}
  BY DEF PushRefused, PopCopyOut, UnlockAndReturn, Goto, PushPCs
<1>2. "returned" \in PCs /\ {} \in SUBSET Asleep /\ "returned" \notin DestroyPCs
      /\ pc[t] \notin DestroyPCs /\ live
  <2>1. pc[t] \notin DestroyPCs \cup {"idle", "returned"}
    BY <1>1 DEF DestroyPCs, PushPCs
  <2>2. live
    BY <2>1, DestroyedIsQuiet
  <2> QED
    BY <2>1, <2>2 DEF PCs, DestroyPCs
<1>3. At("destroy_free") = {} /\ RestReachable' /\ NothingLeft'
  BY <1>1, <1>2, OwnershipLive
<1>4. t \in Carriers /\ Carriers' = Carriers \ {t}
  BY <1>1, <1>2, OthersStay DEF Carriers, PushPCs
<1>5. CarriedNodes' = CarriedNodes \ {node[t]} /\ node[t] \notin InList
  <2>1. \A u \in Carriers \ {t} : node'[u] = node[u] /\ node[u] # node[t]
    BY <1>1, <1>4 DEF FreeNode, Data, DataTypeOK, PrivateNodes, Carriers
  <2>2. node[t] \notin InList
    BY <1>4 DEF Data, PrivateNodes
  <2> QED
    BY <1>4, <2>1, <2>2 DEF CarriedNodes
<1>6. InList' = InList /\ heap' = heap \ {node[t]}
  BY <1>1 DEF InList, list, FreeNode
<1> QED
  BY <1>3, <1>5, <1>6 DEF Ownership, AllReachable

(* The hand-over of a node from t to the list. *)
LEMMA OwnershipPushLink ==
  ASSUME Control, Data, Ownership, NEW t \in Threads, PushLink(t)
  PROVE  Ownership'
<1>1. PICK woken \in SignalNotEmpty : Move(t, "returned", woken)
  BY DEF PushLink
<1>2. /\ pc[t] = "push_held" /\ chain' = Append(chain, node[t])
      /\ heap' = heap /\ node' = [node EXCEPT ![t] = NULL] /\ live' = live
  BY DEF PushLink
<1>3. "returned" \in PCs /\ woken \in SUBSET Asleep /\ "returned" \notin DestroyPCs
      /\ pc[t] \notin DestroyPCs /\ live
  <2>1. pc[t] \notin DestroyPCs \cup {"idle", "returned"}
    BY <1>2 DEF DestroyPCs
  <2>2. live
    BY <2>1, DestroyedIsQuiet
  <2>3. woken \in SUBSET Asleep
    BY DEF SignalNotEmpty, WakeOne, Asleep
  <2> QED
    BY <2>1, <2>2, <2>3 DEF PCs, DestroyPCs
<1>4. At("destroy_free") = {} /\ RestReachable' /\ NothingLeft'
  BY <1>1, <1>2, <1>3, OwnershipLive
<1>5. t \in Carriers /\ Carriers' = Carriers \ {t}
  BY <1>1, <1>2, <1>3, OthersStay DEF Carriers, PushPCs
<1>6. CarriedNodes = CarriedNodes' \cup {node[t]}
  <2>1. \A u \in Carriers \ {t} : node'[u] = node[u]
    BY <1>2, <1>5 DEF Data, DataTypeOK, Carriers
  <2> QED
    BY <1>5, <2>1 DEF CarriedNodes
<1>7. InList' = InList \cup {node[t]}
  <2>1. chain \in Seq(Nodes) /\ node[t] \in Nodes
    BY <1>5 DEF Data, DataTypeOK, PrivateNodes
  <2>2. /\ Len(chain') = Len(chain) + 1 /\ chain' \in Seq(Nodes)
        /\ \A i \in 1..Len(chain) : chain'[i] = chain[i]
        /\ chain'[Len(chain)+1] = node[t]
    BY <1>2, <2>1
  <2> QED
    BY <2>1, <2>2 DEF InList, Range
<1> QED
  BY <1>2, <1>4, <1>6, <1>7 DEF Ownership, AllReachable

(* The hand-over of a node from the list to t. *)
LEMMA OwnershipPopUnlink ==
  ASSUME Control, Data, Ownership, NEW t \in Threads, PopUnlink(t)
  PROVE  Ownership'
<1>1. PICK woken \in SignalNotFull : Move(t, "copy_out", woken)
  BY DEF PopUnlink
<1>2. /\ pc[t] \in {"pop_held", "try_held"} /\ chain' = Tail(chain) /\ count # 0
      /\ heap' = heap /\ node' = [node EXCEPT ![t] = head] /\ live' = live
  BY DEF PopUnlink
<1>3. "copy_out" \in PCs /\ woken \in SUBSET Asleep /\ "copy_out" \notin DestroyPCs
      /\ pc[t] \notin DestroyPCs /\ live
  <2>1. pc[t] \notin DestroyPCs \cup {"idle", "returned"}
    BY <1>2 DEF DestroyPCs
  <2>2. live
    BY <2>1, DestroyedIsQuiet
  <2>3. woken \in SUBSET Asleep
    BY DEF SignalNotFull, WakeOne, Asleep
  <2> QED
    BY <2>1, <2>2, <2>3 DEF PCs, DestroyPCs
<1>4. At("destroy_free") = {} /\ RestReachable' /\ NothingLeft'
  BY <1>1, <1>2, <1>3, OwnershipLive
<1>5. t \notin Carriers /\ Carriers' = Carriers \cup {t}
  BY <1>1, <1>2, <1>3, OthersStay DEF Carriers, PushPCs
<1>6. CarriedNodes' = CarriedNodes \cup {head}
  <2>1. node'[t] = head /\ \A u \in Carriers : node'[u] = node[u]
    BY <1>2, <1>5 DEF Data, DataTypeOK, Carriers
  <2> QED
    BY <1>5, <2>1 DEF CarriedNodes
<1>7. InList = InList' \cup {head}
  <2>1. chain \in Seq(Nodes) /\ Len(chain) > 0 /\ head = chain[1]
    BY <1>2 DEF Data, DataTypeOK, ListShape
  <2>2. /\ Len(chain') = Len(chain) - 1 /\ chain' \in Seq(Nodes)
        /\ \A i \in 1..Len(chain)-1 : chain'[i] = chain[i+1]
    BY <1>2, <2>1
  <2>3. InList \subseteq InList' \cup {head}
    <3> SUFFICES ASSUME NEW i \in 1..Len(chain)
                 PROVE  chain[i] \in InList' \cup {head}
      BY <2>1 DEF InList, Range
    <3>1. CASE i = 1
      BY <2>1, <3>1
    <3>2. CASE i # 1
      <4>1. i-1 \in 1..Len(chain)-1 /\ chain[i] = chain'[i-1]
        BY <2>1, <2>2, <3>2
      <4> QED
        BY <2>2, <4>1 DEF InList, Range
    <3> QED
      BY <3>1, <3>2
  <2>4. InList' \subseteq InList
    <3> SUFFICES ASSUME NEW i \in 1..Len(chain)-1
                 PROVE  chain'[i] \in InList
      BY <2>2 DEF InList, Range
    <3> QED
      BY <2>1, <2>2 DEF InList, Range
  <2>5. head \in InList
    BY <2>1 DEF InList, Range
  <2> QED
    BY <2>3, <2>4, <2>5
<1> QED
  BY <1>2, <1>4, <1>6, <1>7 DEF Ownership, AllReachable

(* task_queue_destroy: the walk along next frees every node of the list,   *)
(* each once.                                                               *)
LEMMA OwnershipDestroy ==
  ASSUME Control, Data, Ownership, NULL \notin Nodes, NEW t \in Threads,
         DestroyStart(t) \/ DestroyFreeNode(t) \/ DestroyEnd(t)
  PROVE  Ownership'
<1>1. /\ pc[t] \in DestroyPCs /\ ~live /\ live' = live
      /\ \A u \in Threads \ {t} : pc[u] = "idle"
  BY DEF DestroyStart, DestroyFreeNode, DestroyEnd, DestroyPCs, Control, DestroyAlone
<1>2. /\ pc'[t] = (IF DestroyEnd(t) THEN "returned" ELSE "destroy_free")
      /\ \A u \in Threads \ {t} : pc'[u] = "idle"
  <2>1. CASE DestroyFreeNode(t)
    BY <1>1, <2>1 DEF DestroyFreeNode, DestroyEnd
  <2>2. CASE DestroyStart(t)
    BY <1>1, <2>2 DEF DestroyStart, DestroyEnd, Goto, Move, Control, ControlTypeOK
  <2>3. CASE DestroyEnd(t)
    BY <1>1, <2>3 DEF DestroyEnd, UnlockAndReturn, Goto, Move, Control, ControlTypeOK
  <2> QED
    BY <2>1, <2>2, <2>3
<1>3. Carriers = {} /\ Carriers' = {}
  BY <1>1, <1>2 DEF Carriers, PushPCs, DestroyPCs
<1>4. CarriedNodes = {} /\ CarriedNodes' = {}
  BY <1>3 DEF CarriedNodes
<1>5. /\ chain \in Seq(Nodes) /\ Len(chain) \in Nat /\ next \in [Nodes -> Nodes \cup {NULL}]
      /\ node \in [Threads -> Nodes \cup {NULL}]
      /\ \A i \in 1..Len(chain) : chain[i] \in Nodes
      /\ \A i, j \in 1..Len(chain) : chain[i] = chain[j] => i = j
      /\ \A i \in 1..Len(chain)-1 : next[chain[i]] = chain[i+1]
      /\ Len(chain) > 0 => head = chain[1] /\ next[chain[Len(chain)]] = NULL
      /\ Len(chain) = 0 => head = NULL
  <2>1. chain \in Seq(Nodes) /\ ListShape
    BY DEF Data, DataTypeOK
  <2>2. /\ Len(chain) \in Nat /\ (Len(chain) > 0 <=> chain # <<>>)
        /\ \A i \in 1..Len(chain) : chain[i] \in Nodes
    BY <2>1
  <2>3. \A i, j \in 1..Len(chain) : chain[i] = chain[j] => i = j
    BY <2>1 DEF ListShape, IsInjective
  <2>4. /\ Len(chain) > 0 => head = chain[1] /\ next[chain[Len(chain)]] = NULL
        /\ Len(chain) = 0 => head = NULL
    BY <2>1, <2>2 DEF ListShape
  <2> QED
    BY <2>1, <2>2, <2>3, <2>4 DEF Data, DataTypeOK, ListShape
<1>6. CASE DestroyStart(t)
  <2>1. /\ pc[t] = "destroy_held" /\ heap' = heap /\ chain' = chain
        /\ node'[t] = head
    BY <1>5, <1>6 DEF DestroyStart, list
  <2>2. At("destroy_free") = {}
    BY <1>1, <2>1 DEF At
  <2>3. heap = {chain[i] : i \in 1..Len(chain)}
    BY <1>4, <1>5, <2>2 DEF Ownership, AllReachable, InList, Range
  <2>4. FreedUpTo(1, node[t])'
    BY <1>5, <2>1, <2>3 DEF FreedUpTo
  <2>5. ~DestroyEnd(t)
    BY <2>1 DEF DestroyEnd
  <2>6. pc'[t] = "destroy_free" /\ 1 \in 1..Len(chain')+1
    BY <1>2, <1>5, <2>1, <2>5
  <2>7. RestReachable'
    BY <1>2, <2>4, <2>6 DEF RestReachable
  <2> QED
    BY <2>6, <2>7 DEF Ownership, AllReachable, NothingLeft, At, DestroyPCs
<1>7. CASE DestroyFreeNode(t)
  <2>1. /\ pc[t] = "destroy_free" /\ node[t] # NULL /\ chain' = chain
        /\ heap' = heap \ {node[t]} /\ node'[t] = next[node[t]]
    BY <1>5, <1>7 DEF DestroyFreeNode, list
  <2>2. PICK k \in 1..Len(chain)+1 : FreedUpTo(k, node[t])
    BY <2>1 DEF Ownership, RestReachable
  <2>3. k \in 1..Len(chain) /\ node[t] = chain[k] /\ k+1 \in 1..Len(chain)+1
    BY <1>5, <2>1, <2>2 DEF FreedUpTo
  <2>4. heap' = {chain[i] : i \in (k+1)..Len(chain)}
    <3>1. heap = {chain[i] : i \in k..Len(chain)}
      BY <2>2 DEF FreedUpTo
    <3>2. \A i \in k..Len(chain) : i = k \/ (i \in (k+1)..Len(chain) /\ chain[i] # chain[k])
      BY <1>5, <2>3
    <3>3. \A i \in (k+1)..Len(chain) : i \in k..Len(chain)
      BY <1>5, <2>3
    <3> QED
      BY <2>1, <2>3, <3>1, <3>2, <3>3
  <2>5. node'[t] = IF k+1 <= Len(chain) THEN chain[k+1] ELSE NULL
    <3>1. CASE k = Len(chain)
      BY <1>5, <2>1, <2>3, <3>1
    <3>2. CASE k # Len(chain)
      <4>1. k \in 1..Len(chain)-1 /\ k+1 <= Len(chain)
        BY <1>5, <2>3, <3>2
      <4> QED
        BY <1>5, <2>1, <2>3, <4>1
    <3> QED
      BY <3>1, <3>2
  <2>6. FreedUpTo(k+1, node[t])'
    BY <2>1, <2>4, <2>5 DEF FreedUpTo
  <2>7. ~DestroyEnd(t)
    BY <2>1 DEF DestroyEnd
  <2>8. pc'[t] = "destroy_free" /\ k+1 \in 1..Len(chain')+1
    BY <1>2, <2>1, <2>3, <2>7
  <2>9. RestReachable'
    BY <1>2, <2>6, <2>8 DEF RestReachable
  <2> QED
    BY <2>8, <2>9 DEF Ownership, AllReachable, NothingLeft, At, DestroyPCs
<1>8. CASE DestroyEnd(t)
  <2>1. /\ pc[t] = "destroy_free" /\ node[t] = NULL /\ heap' = heap /\ chain' = <<>>
        /\ pc'[t] = "returned"
    BY <1>2, <1>8 DEF DestroyEnd
  <2>2. PICK k \in 1..Len(chain)+1 : FreedUpTo(k, node[t])
    BY <2>1 DEF Ownership, RestReachable
  <2>3. k = Len(chain)+1
    BY <1>5, <2>1, <2>2 DEF FreedUpTo
  <2>4. heap' = {}
    BY <1>5, <2>1, <2>2, <2>3 DEF FreedUpTo
  <2>5. InList' = {}
    BY <2>1 DEF InList, Range
  <2> QED
    BY <1>2, <1>4, <2>1, <2>4, <2>5
       DEF Ownership, AllReachable, RestReachable, NothingLeft
<1> QED
  BY <1>6, <1>7, <1>8

(* Every step preserves Ownership, given Control and Data. *)
LEMMA OwnershipStep ==
  ASSUME Control, Data, Ownership, [Next]_vars
  PROVE  Ownership'
<1>a. NULL \notin Nodes
  BY QueueAssumption
<1>1. CASE UNCHANGED vars
  BY <1>1 DEF vars, list, Ownership, AllReachable, RestReachable, FreedUpTo, NothingLeft,
              InList, CarriedNodes, Carriers, At
<1>2. ASSUME NEW t \in Threads, NEW v \in Tasks, PushCall(t, v)
      PROVE  Ownership'
  BY <1>2, OwnershipPushCall
<1>3. ASSUME NEW t \in Threads,
             \/ PushNoMemory(t) \/ PopCall(t) \/ OwnerCall(t) \/ Acquire(t)
             \/ PushWait(t) \/ PopWait(t) \/ PopFails(t) \/ SizeRead(t)
             \/ ShutdownBroadcast(t) \/ SpuriousWakeup(t) \/ Return(t)
      PROVE  Ownership'
  BY <1>3, OwnershipQuietSteps
<1>4. ASSUME NEW t \in Threads, PushRefused(t) \/ PopCopyOut(t)
      PROVE  Ownership'
  BY <1>4, OwnershipDropNode
<1>5. ASSUME NEW t \in Threads, PushLink(t)
      PROVE  Ownership'
  BY <1>5, OwnershipPushLink
<1>6. ASSUME NEW t \in Threads, PopUnlink(t)
      PROVE  Ownership'
  BY <1>6, OwnershipPopUnlink
<1>7. ASSUME NEW t \in Threads, DestroyStart(t) \/ DestroyFreeNode(t) \/ DestroyEnd(t)
      PROVE  Ownership'
  BY <1>a, <1>7, OwnershipDestroy
<1>8. CASE Terminated
  BY <1>1, <1>8 DEF Terminated
<1> QED
  BY <1>1, <1>2, <1>3, <1>4, <1>5, <1>6, <1>7, <1>8 DEF Next, Call, Body

LEMMA OwnershipAlways == Spec => []Ownership
<1>1. Init => Ownership
  BY DEF Init, Ownership, AllReachable, RestReachable, NothingLeft, InList, CarriedNodes,
         Carriers, PushPCs, Range
<1>2. Control /\ Data /\ Ownership /\ [Next]_vars => Ownership'
  BY OwnershipStep
<1> QED
  BY <1>1, <1>2, ControlAlways, DataAlways, PTL DEF Spec

(* Every malloc'ed node is in the list or with one thread, until destroy    *)
(* frees what is left; afterwards nothing is left.                          *)
THEOREM NoNodeLeaks == Spec => []NodeOwnership
<1>1. Data /\ Ownership => NodeOwnership
  BY DEF Data, Ownership, AllReachable, NothingLeft, NodeOwnership, CarriedNodes, DestroyPCs
<1> QED
  BY <1>1, DataAlways, OwnershipAlways, PTL
=============================================================================
