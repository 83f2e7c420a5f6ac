----------------------- MODULE ThreadPoolTasks_proofs -----------------------
(***************************************************************************)
(* What ThreadPool does to its tasks and counters, on top of the Control   *)
(* of ThreadPool_proofs: every accepted task is in one place (RunOnce),    *)
(* the atomics agree with the queue and the workers (Accounting), with     *)
(* that every variable keeps its type, and the pool does what PoolService  *)
(* promises.                                                               *)
(***************************************************************************)
EXTENDS ThreadPool_proofs, FunctionTheorems

USE PoolAssumption

(* How often u is in the sequence s.                                       *)
Positions(s, u) == {i \in 1..Len(s) : s[i] = u}

LEMMA PositionsFinite ==
  ASSUME NEW s \in Seq(Tasks), NEW u
  PROVE  IsFiniteSet(Positions(s, u)) /\ Cardinality(Positions(s, u)) \in Nat
<1>1. IsFiniteSet(1..Len(s)) /\ Positions(s, u) \in SUBSET (1..Len(s))
  BY FS_Interval DEF Positions
<1> QED
  BY <1>1, FS_Subset, FS_CardinalityType

LEMMA PositionsAppend ==
  ASSUME NEW s \in Seq(Tasks), NEW v \in Tasks, NEW u
  PROVE  Cardinality(Positions(Append(s, v), u)) =
           IF u = v THEN Cardinality(Positions(s, u)) + 1
           ELSE Cardinality(Positions(s, u))
<1>1. /\ Len(Append(s, v)) = Len(s) + 1 /\ Len(s) \in Nat
      /\ Append(s, v)[Len(s) + 1] = v
      /\ \A i \in 1..Len(s) : Append(s, v)[i] = s[i]
  OBVIOUS
<1>2. IsFiniteSet(Positions(s, u)) /\ Len(s) + 1 \notin Positions(s, u)
  <2>1. Len(s) + 1 \notin 1..Len(s)
    BY <1>1
  <2> QED
    BY <2>1, PositionsFinite DEF Positions
<1>3. CASE u = v
  <2>1. Positions(Append(s, v), u) = Positions(s, u) \cup {Len(s) + 1}
    BY <1>1, <1>3 DEF Positions
  <2> QED
    BY <1>2, <1>3, <2>1, FS_AddElement
<1>4. CASE u # v
  <2>1. Positions(Append(s, v), u) = Positions(s, u)
    BY <1>1, <1>4 DEF Positions
  <2> QED
    BY <1>4, <2>1
<1> QED
  BY <1>3, <1>4

LEMMA PositionsTail ==
  ASSUME NEW s \in Seq(Tasks), s # <<>>, NEW u
  PROVE  Cardinality(Positions(Tail(s), u)) =
           IF u = Head(s) THEN Cardinality(Positions(s, u)) - 1
           ELSE Cardinality(Positions(s, u))
<1> DEFINE S == Positions(s, u)
           T == Positions(Tail(s), u)
           f == [i \in T |-> i + 1]
<1>1. /\ Tail(s) \in Seq(Tasks) /\ Len(Tail(s)) = Len(s) - 1 /\ Len(s) \in Nat \ {0}
      /\ \A i \in 1..Len(s) - 1 : Tail(s)[i] = s[i + 1]
      /\ Head(s) = s[1]
  OBVIOUS
<1>2. f \in Bijection(T, S \ {1})
  <2>1. f \in [T -> S \ {1}]
    BY <1>1 DEF Positions
  <2>2. \A a, b \in T : f[a] = f[b] => a = b
    BY DEF Positions
  <2>3. \A j \in S \ {1} : \E i \in T : f[i] = j
    <3> SUFFICES ASSUME NEW j \in S \ {1} PROVE j - 1 \in T /\ (j - 1) + 1 = j
      OBVIOUS
    <3> QED
      BY <1>1 DEF Positions
  <2> QED
    BY <2>1, <2>2, <2>3, Fun_IsBij
<1>3. Cardinality(T) = Cardinality(S \ {1})
  <2>1. ExistsBijection(T, S \ {1})
    BY <1>2, Fun_ExistsBij
  <2>2. IsFiniteSet(T)
    BY <1>1, PositionsFinite
  <2> QED
    BY <2>1, <2>2, FS_Bijection
<1>4. 1 \in S <=> u = Head(s)
  BY <1>1 DEF Positions
<1>5. IsFiniteSet(S)
  BY PositionsFinite
<1>6. Cardinality(S \ {1}) = IF 1 \in S THEN Cardinality(S) - 1 ELSE Cardinality(S)
  BY <1>5, FS_RemoveElement
<1> QED
  BY <1>3, <1>4, <1>6

-----------------------------------------------------------------------------
(* Where a worker has a task, and where the task has run already.          *)
TaskPCs == SubmitPCs \cup {"state_check", "active_inc", "running", "active_dec",
                           "completed_inc"}
RunPCs == {"active_dec", "completed_inc"}
IdlePCs == {"state_check", "active_inc", "completed_inc"}

Submitting == At("submit_count")
Inside == {w \in Busy : pc[w] \notin IdlePCs}
Runners(v) == {w \in Busy : task[w] = v /\ pc[w] \notin RunPCs}

(* Who holds which task; a task that is being submitted is nowhere else in *)
(* anybody's hands.                                                        *)
Hold ==
  /\ queue \in Seq(Tasks) /\ acked \subseteq Tasks /\ runs \in [Tasks -> Nat]
  /\ task \in [Workers -> Tasks \cup {NULL}]
  /\ arg \in [Threads -> Tasks \cup {NULL}]
  /\ \A w \in Workers : task[w] # NULL <=> pc[w] \in TaskPCs
  /\ \A t \in Threads : arg[t] # NULL <=> pc[t] \in SubmitPCs
  /\ \A t, u \in Threads : arg[t] # NULL =>
       arg[t] \notin acked /\ (arg[u] = arg[t] => u = t)

(* A worker leaves only an empty queue that is shut down, and before       *)
(* thread_pool_create has returned nothing is queued.                      *)
Drained ==
  /\ \A w \in Workers : pc[w] = "exited" => shutdown /\ queue = <<>>
  /\ \A c \in Clients : pc[c] \in CreatePCs =>
       queue = <<>> /\ \A w \in Workers : pc[w] \in {"unstarted", "pop", "exited"}
  /\ (\A c \in Clients : pc[c] \notin CreatePCs) /\ ~freed =>
       \A w \in Workers : pc[w] # "unstarted"

Counts ==
  /\ submitted \in Nat /\ completed \in Nat /\ IsFiniteSet(Submitting)
  /\ Accounting

Tasking == Hold /\ Counts /\ RunOnce

(* RunOnce and Accounting in the words of this module.                     *)
LEMMA InOtherWords ==
  /\ RunOnce <=> \A v \in Tasks :
       Cardinality(Positions(queue, v)) + Cardinality(Runners(v)) + runs[v]
         = IF v \in Accepted THEN 1 ELSE 0
  /\ Accounting <=>
       /\ submitted + Cardinality(Submitting)
            = completed + Len(queue) + Cardinality(Busy)
       /\ active = Cardinality(Inside)
BY DEF RunOnce, Copies, Positions, Runners, RunPCs, Accounting, Inside, IdlePCs, Submitting

LEMMA InOtherWordsNext ==
  /\ RunOnce' <=> \A v \in Tasks :
       Cardinality(Positions(queue', v)) + Cardinality(Runners(v)') + runs'[v]
         = IF v \in Accepted' THEN 1 ELSE 0
  /\ Accounting' <=>
       /\ submitted' + Cardinality(Submitting')
            = completed' + Len(queue') + Cardinality(Busy')
       /\ active' = Cardinality(Inside')
BY DEF RunOnce, Copies, Positions, Runners, RunPCs, Accounting, Inside, IdlePCs, Submitting

LEMMA WorkersFinite ==
  ASSUME NEW S \in SUBSET Workers
  PROVE  IsFiniteSet(S) /\ Cardinality(S) \in Nat
BY FS_Subset, FS_CardinalityType

(* A step that moves nobody from one of these classes of places to another *)
(* and no task.                                                            *)
SameClass(t) ==
  /\ pc'[t] \in SubmitPCs <=> pc[t] \in SubmitPCs
  /\ pc'[t] = "submit_count" <=> pc[t] = "submit_count"
  /\ pc'[t] \in TaskPCs <=> pc[t] \in TaskPCs
  /\ pc'[t] \in RunPCs <=> pc[t] \in RunPCs
  /\ pc'[t] \in IdlePCs <=> pc[t] \in IdlePCs

LEMMA NothingMoves ==
  ASSUME Tasking, \A t \in Threads : SameClass(t),
         UNCHANGED <<queue, task, arg, runs, acked, active, completed, submitted>>
  PROVE  Tasking'
<1>1. Hold'
  BY DEF Tasking, Hold, SameClass, Threads
<1>2. \A w \in Workers : (task[w] # NULL => pc[w] # "exited") /\ (task'[w] # NULL => pc'[w] # "exited")
  BY <1>1 DEF Tasking, Hold, TaskPCs, SubmitPCs
<1>3. Busy' = Busy /\ Inside' = Inside /\ \A v \in Tasks : Runners(v)' = Runners(v)
  BY <1>2 DEF Busy, Inside, Runners, SameClass, Threads
<1>4. Submitting' = Submitting /\ Accepted' = Accepted
  BY DEF Submitting, Accepted, At, SameClass
<1>5. RunOnce'
  BY <1>3, <1>4, InOtherWords, InOtherWordsNext DEF Tasking
<1>6. Counts'
  BY <1>3, <1>4, InOtherWords, InOtherWordsNext DEF Tasking, Counts
<1> QED
  BY <1>1, <1>5, <1>6 DEF Tasking

-----------------------------------------------------------------------------
(* The steps that move tasks or change counters.                           *)

(* Thread t moves to q: others stay where they are.                        *)
LEMMA OneMoves ==
  ASSUME Places, NEW t \in Threads, NEW p, NEW q, Step(t, p, q)
  PROVE  /\ pc[t] = p /\ pc'[t] = q /\ ~freed
         /\ \A u \in Threads \ {t} : pc'[u] = pc[u]
BY DEF Places, Step

LEMMA SameAccepted ==
  ASSUME Submitting' = Submitting, acked' = acked,
         \A u \in Submitting : arg'[u] = arg[u]
  PROVE  Accepted' = Accepted
<1>1. /\ \A x : x \in Accepted <=> x \in acked \/ \E u \in Submitting : x = arg[u]
      /\ \A x : x \in Accepted' <=> x \in acked' \/ \E u \in Submitting' : x = arg'[u]
  BY DEF Accepted, Submitting
<1>2. \A x : x \in Accepted' <=> x \in Accepted
  BY <1>1
<1> QED
  BY <1>2

LEMMA SubmitCallTasking ==
  ASSUME Control, Tasking, NEW t \in Threads, NEW v \in Tasks, SubmitCall(t, v)
  PROVE  Tasking'
<1> DEFINE p == IF t \in Workers THEN "running" ELSE "idle"
<1>1. /\ pc[t] = p /\ pc'[t] = "submit_check"
      /\ \A u \in Threads \ {t} : pc'[u] = pc[u]
  BY OneMoves DEF SubmitCall, Control
<1>2. /\ arg'[t] = v /\ \A u \in Threads \ {t} : arg'[u] = arg[u]
      /\ arg' \in [Threads -> Tasks \cup {NULL}]
      /\ v \notin acked /\ \A u \in Threads : arg[u] # v
      /\ UNCHANGED <<queue, task, runs, acked, active, completed, submitted>>
  BY DEF SubmitCall, Fresh, Tasking, Hold, fifo, counters
<1>3. v # NULL /\ "submit_check" \in SubmitPCs /\ p \notin SubmitPCs
  BY DEF SubmitPCs
<1>4. Hold'
  <2>1. \A w \in Workers : task'[w] # NULL <=> pc'[w] \in TaskPCs
    BY <1>1, <1>2, <1>3 DEF Tasking, Hold, TaskPCs, Threads
  <2>2. \A u \in Threads : arg'[u] # NULL <=> pc'[u] \in SubmitPCs
    BY <1>1, <1>2, <1>3 DEF Tasking, Hold
  <2>3. \A x, u \in Threads : arg'[x] # NULL =>
          arg'[x] \notin acked' /\ (arg'[u] = arg'[x] => u = x)
    BY <1>2 DEF Tasking, Hold
  <2> QED
    BY <1>2, <2>1, <2>2, <2>3 DEF Tasking, Hold
<1>5. Busy' = Busy /\ Inside' = Inside /\ \A u \in Tasks : Runners(u)' = Runners(u)
  BY <1>1, <1>2 DEF Busy, Inside, Runners, RunPCs, IdlePCs, Threads
<1>6. Submitting' = Submitting /\ Accepted' = Accepted
  <2>1. Submitting' = Submitting /\ t \notin Submitting
    BY <1>1 DEF Submitting, At
  <2>2. \A u \in Submitting : arg'[u] = arg[u]
    BY <1>2, <2>1 DEF Submitting, At
  <2> QED
    BY <1>2, <2>1, <2>2, SameAccepted
<1> QED
  BY <1>2, <1>4, <1>5, <1>6, InOtherWords, InOtherWordsNext DEF Tasking, Counts

LEMMA GiveUpTasking ==
  ASSUME Control, Tasking, NEW t \in Threads, NEW p \in {"submit_check", "submit_push"}, NEW r,
         GiveUp(t, p, r)
  PROVE  Tasking'
<1> DEFINE q == IF t \in Workers THEN "running" ELSE "idle"
<1>1. /\ pc[t] = p /\ pc'[t] = q
      /\ \A u \in Threads \ {t} : pc'[u] = pc[u]
  BY OneMoves DEF GiveUp, Return, Control
<1>2. /\ arg'[t] = NULL /\ \A u \in Threads \ {t} : arg'[u] = arg[u]
      /\ arg' \in [Threads -> Tasks \cup {NULL}]
      /\ UNCHANGED <<queue, task, runs, acked, active, completed, submitted>>
  BY DEF GiveUp, Tasking, Hold, fifo, counters, history
<1>3. p \in SubmitPCs /\ q \notin SubmitPCs
  BY DEF SubmitPCs
<1>4. Hold'
  <2>1. \A w \in Workers : task'[w] # NULL <=> pc'[w] \in TaskPCs
    BY <1>1, <1>2, <1>3 DEF Tasking, Hold, TaskPCs, Threads
  <2>2. \A u \in Threads : arg'[u] # NULL <=> pc'[u] \in SubmitPCs
    BY <1>1, <1>2, <1>3 DEF Tasking, Hold
  <2>3. \A x, u \in Threads : arg'[x] # NULL =>
          arg'[x] \notin acked' /\ (arg'[u] = arg'[x] => u = x)
    BY <1>2 DEF Tasking, Hold
  <2> QED
    BY <1>2, <2>1, <2>2, <2>3 DEF Tasking, Hold
<1>5. Busy' = Busy /\ Inside' = Inside /\ \A u \in Tasks : Runners(u)' = Runners(u)
  BY <1>1, <1>2 DEF Busy, Inside, Runners, RunPCs, IdlePCs, Threads
<1>6. Submitting' = Submitting /\ Accepted' = Accepted
  <2>1. Submitting' = Submitting /\ t \notin Submitting
    BY <1>1 DEF Submitting, At
  <2>2. \A u \in Submitting : arg'[u] = arg[u]
    BY <1>2, <2>1 DEF Submitting, At
  <2> QED
    BY <1>2, <2>1, <2>2, SameAccepted
<1> QED
  BY <1>2, <1>4, <1>5, <1>6, InOtherWords, InOtherWordsNext DEF Tasking, Counts

LEMMA SubmitPushTasking ==
  ASSUME Control, Tasking, NEW t \in Threads, SubmitPush(t)
  PROVE  Tasking'
<1> DEFINE v == arg[t]
<1>1. /\ pc[t] = "submit_push" /\ pc'[t] = "submit_count"
      /\ \A u \in Threads \ {t} : pc'[u] = pc[u]
  BY OneMoves DEF SubmitPush, Control
<1>2. /\ UNCHANGED <<task, arg, runs, acked, active, completed, submitted>>
      /\ queue' = Append(queue, v)
  BY DEF SubmitPush, Enqueue, counters, locals, history
<1>3. {"submit_push", "submit_count"} \subseteq SubmitPCs
  BY DEF SubmitPCs
<1>4. v \in Tasks /\ v # NULL
  BY <1>1, <1>3 DEF Tasking, Hold
<1>5. Hold'
  <2>1. \A w \in Workers : task'[w] # NULL <=> pc'[w] \in TaskPCs
    BY <1>1, <1>2, <1>3 DEF Tasking, Hold, TaskPCs, Threads
  <2>2. \A u \in Threads : arg'[u] # NULL <=> pc'[u] \in SubmitPCs
    BY <1>1, <1>2, <1>3 DEF Tasking, Hold
  <2>3. queue' \in Seq(Tasks)
    BY <1>2, <1>4 DEF Tasking, Hold
  <2> QED
    BY <1>2, <2>1, <2>2, <2>3 DEF Tasking, Hold
<1>6. Busy' = Busy /\ Inside' = Inside /\ \A u \in Tasks : Runners(u)' = Runners(u)
  BY <1>1, <1>2 DEF Busy, Inside, Runners, RunPCs, IdlePCs, Threads
<1>7. /\ Submitting' = Submitting \cup {t} /\ t \notin Submitting
      /\ Accepted' = Accepted \cup {v} /\ v \notin Accepted
  <2>1. Submitting' = Submitting \cup {t} /\ t \notin Submitting /\ Submitting \subseteq Threads
    BY <1>1 DEF Submitting, At
  <2>2. Accepted = acked \cup {arg[u] : u \in Submitting}
    BY DEF Accepted, Submitting
  <2>3. Accepted' = acked \cup {arg[u] : u \in Submitting'}
    BY <1>2 DEF Accepted, Submitting
  <2>4. v \notin acked /\ \A u \in Submitting : arg[u] # v
    BY <1>4, <2>1 DEF Tasking, Hold
  <2> QED
    BY <2>1, <2>2, <2>3, <2>4
<1>8. RunOnce'
  <2> SUFFICES ASSUME NEW u \in Tasks
               PROVE  Cardinality(Positions(queue', u)) + Cardinality(Runners(u)') + runs'[u]
                        = IF u \in Accepted' THEN 1 ELSE 0
    BY InOtherWordsNext
  <2>1. Cardinality(Positions(queue, u)) + Cardinality(Runners(u)) + runs[u]
          = IF u \in Accepted THEN 1 ELSE 0
    BY InOtherWords DEF Tasking
  <2>2. Cardinality(Positions(queue', u)) =
          IF u = v THEN Cardinality(Positions(queue, u)) + 1 ELSE Cardinality(Positions(queue, u))
    BY <1>2, <1>4, PositionsAppend DEF Tasking, Hold
  <2>3. Cardinality(Positions(queue, u)) \in Nat /\ Cardinality(Runners(u)) \in Nat /\ runs[u] \in Nat
    BY PositionsFinite, WorkersFinite DEF Tasking, Hold, Runners, Busy
  <2> QED
    BY <1>2, <1>6, <1>7, <2>1, <2>2, <2>3
<1>9. Counts'
  <2>1. IsFiniteSet(Submitting') /\ Cardinality(Submitting') = Cardinality(Submitting) + 1
    BY <1>7, FS_AddElement DEF Tasking, Counts
  <2>2. Len(queue') = Len(queue) + 1 /\ Len(queue) \in Nat
    BY <1>2, <1>4 DEF Tasking, Hold
  <2>3. Cardinality(Submitting) \in Nat /\ Cardinality(Busy) \in Nat
    BY FS_CardinalityType, WorkersFinite DEF Tasking, Counts, Busy
  <2> QED
    BY <1>2, <1>6, <2>1, <2>2, <2>3, InOtherWords, InOtherWordsNext DEF Tasking, Counts
<1> QED
  BY <1>5, <1>8, <1>9 DEF Tasking

LEMMA SubmitCountTasking ==
  ASSUME Control, Tasking, NEW t \in Threads, SubmitCount(t)
  PROVE  Tasking'
<1> DEFINE v == arg[t]
           q == IF t \in Workers THEN "running" ELSE "idle"
<1>1. /\ pc[t] = "submit_count" /\ pc'[t] = q
      /\ \A u \in Threads \ {t} : pc'[u] = pc[u]
  BY OneMoves DEF SubmitCount, Return, Control
<1>2. /\ arg'[t] = NULL /\ \A u \in Threads \ {t} : arg'[u] = arg[u]
      /\ arg' \in [Threads -> Tasks \cup {NULL}]
      /\ acked' = acked \cup {v}
      /\ UNCHANGED <<queue, task, runs>>
  BY DEF SubmitCount, Tasking, Hold, fifo
<1>3. active' = active /\ completed' = completed /\ submitted' = submitted + 1
  <2>1. active \in Nat
    <3>1. Inside \subseteq Workers
      BY DEF Inside, Busy
    <3> QED
      BY <3>1, WorkersFinite, InOtherWords DEF Tasking, Counts
  <2> QED
    BY <2>1 DEF SubmitCount, CountSubmitted, Add, Tasking, Counts
<1>4. "submit_count" \in SubmitPCs /\ q \notin SubmitPCs
  BY DEF SubmitPCs
<1>5. v \in Tasks /\ v # NULL
  BY <1>1, <1>4 DEF Tasking, Hold
<1>6. Hold'
  <2>1. \A w \in Workers : task'[w] # NULL <=> pc'[w] \in TaskPCs
    BY <1>1, <1>2, <1>4 DEF Tasking, Hold, TaskPCs, Threads
  <2>2. \A u \in Threads : arg'[u] # NULL <=> pc'[u] \in SubmitPCs
    BY <1>1, <1>2, <1>4 DEF Tasking, Hold
  <2>3. \A x, u \in Threads : arg'[x] # NULL =>
          arg'[x] \notin acked' /\ (arg'[u] = arg'[x] => u = x)
    BY <1>2, <1>5 DEF Tasking, Hold
  <2> QED
    BY <1>2, <1>5, <2>1, <2>2, <2>3 DEF Tasking, Hold
<1>7. Busy' = Busy /\ Inside' = Inside /\ \A u \in Tasks : Runners(u)' = Runners(u)
  BY <1>1, <1>2 DEF Busy, Inside, Runners, RunPCs, IdlePCs, Threads
<1>8. Submitting' = Submitting \ {t} /\ t \in Submitting
  BY <1>1 DEF Submitting, At
<1>9. Accepted' = Accepted
  <2>1. /\ \A x : x \in Accepted <=> x \in acked \/ \E u \in Submitting : x = arg[u]
        /\ \A x : x \in Accepted' <=> x \in acked' \/ \E u \in Submitting' : x = arg'[u]
    BY DEF Accepted, Submitting
  <2>2. \A u \in Submitting \ {t} : arg'[u] = arg[u]
    BY <1>2 DEF Submitting, At
  <2>3. \A x : x \in Accepted' <=> x \in Accepted
    BY <1>2, <1>8, <2>1, <2>2
  <2> QED
    BY <2>3
<1>10. Counts'
  <2>1. IsFiniteSet(Submitting') /\ Cardinality(Submitting') = Cardinality(Submitting) - 1
    BY <1>8, FS_RemoveElement DEF Tasking, Counts
  <2>2. Len(queue) \in Nat
    BY DEF Tasking, Hold
  <2>3. Cardinality(Submitting) \in Nat /\ Cardinality(Busy) \in Nat
    BY FS_CardinalityType, WorkersFinite DEF Tasking, Counts, Busy
  <2> QED
    BY <1>2, <1>3, <1>7, <2>1, <2>2, <2>3, InOtherWords, InOtherWordsNext DEF Tasking, Counts
<1> QED
  BY <1>2, <1>6, <1>7, <1>9, <1>10, InOtherWords, InOtherWordsNext DEF Tasking

Bit(b) == IF b THEN 1 ELSE 0

(* The sets of workers are finite, so one worker more or less counts.      *)
LEMMA OneWorker ==
  ASSUME NEW S \in SUBSET Workers, NEW T \in SUBSET Workers, NEW w \in Workers,
         \A u \in Workers \ {w} : u \in T <=> u \in S
  PROVE  /\ Cardinality(S) \in Nat /\ Cardinality(T) \in Nat
         /\ Cardinality(T) = (Cardinality(S) + Bit(w \in T)) - Bit(w \in S)
<1>1. IsFiniteSet(S) /\ Cardinality(S) \in Nat /\ Cardinality(T) \in Nat
  BY WorkersFinite
<1>2. CASE w \in T <=> w \in S
  <2>1. T = S
    BY <1>2
  <2> QED
    BY <1>1, <1>2, <2>1 DEF Bit
<1>3. CASE w \in T /\ w \notin S
  <2>1. T = S \cup {w}
    BY <1>3
  <2>2. Cardinality(T) = Cardinality(S) + 1
    BY <1>1, <1>3, <2>1, FS_AddElement
  <2> QED
    BY <1>1, <1>3, <2>2 DEF Bit
<1>4. CASE w \notin T /\ w \in S
  <2>1. T = S \ {w}
    BY <1>4
  <2>2. Cardinality(T) = Cardinality(S) - 1
    BY <1>1, <1>4, <2>1, FS_RemoveElement
  <2> QED
    BY <1>1, <1>4, <2>2 DEF Bit
<1> QED
  BY <1>2, <1>3, <1>4

LEMMA CountsOK ==
  ASSUME Tasking
  PROVE  /\ active \in Nat /\ submitted \in Nat /\ completed \in Nat
         /\ Len(queue) \in Nat
         /\ Cardinality(Submitting) \in Nat /\ Cardinality(Busy) \in Nat
<1>1. Inside \subseteq Workers /\ Busy \subseteq Workers
  BY DEF Inside, Busy
<1>2. active \in Nat /\ Cardinality(Busy) \in Nat
  BY <1>1, WorkersFinite, InOtherWords DEF Tasking, Counts
<1>3. Cardinality(Submitting) \in Nat
  BY FS_CardinalityType DEF Tasking, Counts
<1> QED
  BY <1>2, <1>3 DEF Tasking, Hold, Counts

(* Worker w goes from p to q, taking, keeping or putting away its task.    *)
LEMMA WorkerHolds ==
  ASSUME Tasking, NEW w \in Workers, NEW p \in WorkerPCs, NEW q \in WorkerPCs,
         pc[w] = p, pc'[w] = q,
         \A u \in Threads \ {w} : pc'[u] = pc[u],
         task' \in [Workers -> Tasks \cup {NULL}],
         task'[w] # NULL <=> q \in TaskPCs,
         \A u \in Workers \ {w} : task'[u] = task[u],
         queue' \in Seq(Tasks), runs' \in [Tasks -> Nat],
         UNCHANGED <<arg, acked>>
  PROVE  /\ Hold' /\ Submitting' = Submitting /\ Accepted' = Accepted
         /\ task[w] # NULL <=> p \in TaskPCs
         /\ Cardinality(Busy) \in Nat
         /\ Cardinality(Busy') =
              (Cardinality(Busy) + Bit(q \in TaskPCs)) - Bit(p \in TaskPCs)
         /\ Cardinality(Inside) \in Nat
         /\ Cardinality(Inside') =
              (Cardinality(Inside) + Bit(q \in TaskPCs \ IdlePCs)) - Bit(p \in TaskPCs \ IdlePCs)
         /\ \A v \in Tasks :
              /\ Cardinality(Runners(v)) \in Nat
              /\ Cardinality(Runners(v)') =
                   (Cardinality(Runners(v)) + Bit(q \in TaskPCs \ RunPCs /\ task'[w] = v))
                     - Bit(p \in TaskPCs \ RunPCs /\ task[w] = v)
<1>1. WorkerPCs \cap SubmitPCs = {} /\ w \in Threads /\ "exited" \notin TaskPCs
  BY DEF WorkerPCs, SubmitPCs, Threads, TaskPCs
<1>2. /\ \A u \in Workers : task'[u] # NULL <=> pc'[u] \in TaskPCs
      /\ \A u \in Workers : task[u] # NULL <=> pc[u] \in TaskPCs
  BY DEF Tasking, Hold, Threads
<1>3. Hold'
  <2>1. \A u \in Threads : arg'[u] # NULL <=> pc'[u] \in SubmitPCs
    BY <1>1 DEF Tasking, Hold
  <2> QED
    BY <1>2, <2>1 DEF Tasking, Hold
<1>4. Submitting' = Submitting
  BY <1>1 DEF Submitting, At, SubmitPCs
<1>5. Accepted' = Accepted
  BY <1>4, SameAccepted
<1>6. /\ \A u : u \in Busy <=> u \in Workers /\ pc[u] \in TaskPCs
      /\ \A u : u \in Busy' <=> u \in Workers /\ pc'[u] \in TaskPCs
  BY <1>1, <1>2 DEF Busy
<1>7. /\ Cardinality(Busy) \in Nat
      /\ Cardinality(Busy') = (Cardinality(Busy) + Bit(q \in TaskPCs)) - Bit(p \in TaskPCs)
  <2>1. /\ Busy \in SUBSET Workers /\ Busy' \in SUBSET Workers
        /\ \A u \in Workers \ {w} : u \in Busy' <=> u \in Busy
        /\ w \in Busy' <=> q \in TaskPCs
        /\ w \in Busy <=> p \in TaskPCs
    BY <1>6 DEF Threads
  <2>2. /\ Cardinality(Busy) \in Nat
        /\ Cardinality(Busy') = (Cardinality(Busy) + Bit(w \in Busy')) - Bit(w \in Busy)
    BY <2>1, OneWorker
  <2> QED
    BY <2>1, <2>2 DEF Bit
<1>8. /\ Cardinality(Inside) \in Nat
      /\ Cardinality(Inside') =
           (Cardinality(Inside) + Bit(q \in TaskPCs \ IdlePCs)) - Bit(p \in TaskPCs \ IdlePCs)
  <2>1. /\ Inside \in SUBSET Workers /\ Inside' \in SUBSET Workers
        /\ \A u \in Workers \ {w} : u \in Inside' <=> u \in Inside
        /\ w \in Inside' <=> q \in TaskPCs \ IdlePCs
        /\ w \in Inside <=> p \in TaskPCs \ IdlePCs
    BY <1>6 DEF Inside, Threads
  <2>2. /\ Cardinality(Inside) \in Nat
        /\ Cardinality(Inside') = (Cardinality(Inside) + Bit(w \in Inside')) - Bit(w \in Inside)
    BY <2>1, OneWorker
  <2> QED
    BY <2>1, <2>2 DEF Bit
<1>9. ASSUME NEW v \in Tasks
      PROVE  /\ Cardinality(Runners(v)) \in Nat
             /\ Cardinality(Runners(v)') =
                  (Cardinality(Runners(v)) + Bit(q \in TaskPCs \ RunPCs /\ task'[w] = v))
                    - Bit(p \in TaskPCs \ RunPCs /\ task[w] = v)
  <2>1. /\ Runners(v) \in SUBSET Workers /\ Runners(v)' \in SUBSET Workers
        /\ \A u \in Workers \ {w} : u \in Runners(v)' <=> u \in Runners(v)
        /\ w \in Runners(v)' <=> (q \in TaskPCs \ RunPCs /\ task'[w] = v)
        /\ w \in Runners(v) <=> (p \in TaskPCs \ RunPCs /\ task[w] = v)
    BY <1>6 DEF Runners, Threads
  <2>2. \A R, RN \in SUBSET Workers : (\A u \in Workers \ {w} : u \in RN <=> u \in R) =>
          /\ Cardinality(R) \in Nat
          /\ Cardinality(RN) = (Cardinality(R) + (IF w \in RN THEN 1 ELSE 0))
                                 - (IF w \in R THEN 1 ELSE 0)
    <3> SUFFICES ASSUME NEW R \in SUBSET Workers, NEW RN \in SUBSET Workers,
                        \A u \in Workers \ {w} : u \in RN <=> u \in R
                 PROVE  /\ Cardinality(R) \in Nat
                        /\ Cardinality(RN) = (Cardinality(R) + (IF w \in RN THEN 1 ELSE 0))
                                               - (IF w \in R THEN 1 ELSE 0)
      OBVIOUS
    <3> QED
      BY OneWorker DEF Bit
  <2>3. /\ Cardinality(Runners(v)) \in Nat
        /\ Cardinality(Runners(v)') =
             (Cardinality(Runners(v)) + (IF w \in Runners(v)' THEN 1 ELSE 0))
               - (IF w \in Runners(v) THEN 1 ELSE 0)
    BY <2>1, <2>2
  <2> QED
    BY <2>1, <2>3 DEF Bit
<1> QED
  BY <1>2, <1>3, <1>4, <1>5, <1>7, <1>8, <1>9

LEMMA WorkerPCsSorted ==
  /\ {"pop", "state_check", "active_inc", "running", "active_dec", "completed_inc",
      "notify_lock"} \subseteq WorkerPCs
  /\ {"state_check", "active_inc", "running", "active_dec", "completed_inc"} \subseteq TaskPCs
  /\ {"unstarted", "pop", "notify_lock", "notify", "exited"} \cap TaskPCs = {}
  /\ RunPCs = {"active_dec", "completed_inc"}
  /\ IdlePCs = {"state_check", "active_inc", "completed_inc"}
BY DEF WorkerPCs, TaskPCs, SubmitPCs, RunPCs, IdlePCs

LEMMA WorkerPopTasking ==
  ASSUME Control, Tasking, NEW w \in Workers, WorkerPop(w)
  PROVE  Tasking'
<1>1. /\ pc[w] = "pop" /\ pc'[w] = "state_check"
      /\ \A u \in Threads \ {w} : pc'[u] = pc[u]
  BY OneMoves DEF WorkerPop, Control, Threads
<1>2. /\ queue # <<>> /\ queue \in Seq(Tasks) /\ queue' = Tail(queue)
      /\ queue' \in Seq(Tasks) /\ Len(queue') = Len(queue) - 1
      /\ task' = [task EXCEPT ![w] = Head(queue)]
      /\ UNCHANGED <<arg, runs, acked>>
  BY DEF WorkerPop, Dequeue, history, Tasking, Hold
<1>3. UNCHANGED <<active, completed, submitted>>
  BY DEF WorkerPop, counters
<1>4. /\ task'[w] = Head(queue) /\ Head(queue) # NULL
      /\ \A u \in Workers \ {w} : task'[u] = task[u]
      /\ task' \in [Workers -> Tasks \cup {NULL}] /\ runs' \in [Tasks -> Nat]
  BY <1>2 DEF Tasking, Hold
<1>5. /\ "pop" \in WorkerPCs /\ "state_check" \in WorkerPCs
      /\ "pop" \notin TaskPCs /\ "state_check" \in TaskPCs
      /\ "pop" \notin TaskPCs \ IdlePCs
      /\ "state_check" \notin TaskPCs \ IdlePCs
      /\ "pop" \notin TaskPCs \ RunPCs
      /\ "state_check" \in TaskPCs \ RunPCs
  BY WorkerPCsSorted
<1>6. /\ Hold' /\ Submitting' = Submitting /\ Accepted' = Accepted
      /\ Cardinality(Busy') = Cardinality(Busy) + 1
      /\ Cardinality(Inside') = Cardinality(Inside)
      /\ \A u \in Tasks :
           /\ Cardinality(Runners(u)) \in Nat
           /\ Cardinality(Runners(u)') = IF u = Head(queue) THEN Cardinality(Runners(u)) + 1 ELSE Cardinality(Runners(u))
  BY <1>1, <1>2, <1>4, <1>5, WorkerHolds DEF Bit
<1>7. RunOnce'
  <2> SUFFICES ASSUME NEW u \in Tasks
               PROVE  Cardinality(Positions(queue', u)) + Cardinality(Runners(u)') + runs'[u]
                        = IF u \in Accepted' THEN 1 ELSE 0
    BY InOtherWordsNext
  <2>1. Cardinality(Positions(queue, u)) + Cardinality(Runners(u)) + runs[u]
          = IF u \in Accepted THEN 1 ELSE 0
    BY InOtherWords DEF Tasking
  <2>2. /\ Cardinality(Positions(queue', u)) =
             IF u = Head(queue) THEN Cardinality(Positions(queue, u)) - 1
             ELSE Cardinality(Positions(queue, u))
        /\ Cardinality(Positions(queue, u)) \in Nat /\ runs[u] \in Nat
    BY <1>2, PositionsTail, PositionsFinite DEF Tasking, Hold
  <2> QED
    BY <1>2, <1>6, <2>1, <2>2
<1>8. Accounting'
  BY <1>2, <1>3, <1>6, CountsOK, InOtherWords, InOtherWordsNext DEF Tasking, Counts
<1> QED
  BY <1>2, <1>3, <1>6, <1>7, <1>8, CountsOK DEF Tasking, Counts

LEMMA WorkerBeginTasking ==
  ASSUME Control, Tasking, NEW w \in Workers, WorkerBegin(w)
  PROVE  Tasking'
<1>1. /\ pc[w] = "active_inc" /\ pc'[w] = "running"
      /\ \A u \in Threads \ {w} : pc'[u] = pc[u]
  BY OneMoves DEF WorkerBegin, Control, Threads
<1>2. UNCHANGED <<queue, task, arg, runs, acked>>
  BY DEF WorkerBegin, fifo, locals, history
<1>3. active' = active + 1 /\ UNCHANGED <<completed, submitted>>
  BY CountsOK DEF WorkerBegin, Add
<1>4. /\ task[w] # NULL /\ task' \in [Workers -> Tasks \cup {NULL}]
      /\ queue' \in Seq(Tasks) /\ runs' \in [Tasks -> Nat]
  BY <1>1, <1>2, WorkerPCsSorted DEF Tasking, Hold
<1>5. /\ "active_inc" \in WorkerPCs /\ "running" \in WorkerPCs
      /\ "active_inc" \in TaskPCs /\ "running" \in TaskPCs
      /\ "active_inc" \notin TaskPCs \ IdlePCs
      /\ "running" \in TaskPCs \ IdlePCs
      /\ "active_inc" \in TaskPCs \ RunPCs
      /\ "running" \in TaskPCs \ RunPCs
  BY WorkerPCsSorted
<1>6. /\ Hold' /\ Submitting' = Submitting /\ Accepted' = Accepted
      /\ Cardinality(Busy') = Cardinality(Busy)
      /\ Cardinality(Inside') = Cardinality(Inside) + 1
      /\ \A u \in Tasks :
           /\ Cardinality(Runners(u)) \in Nat
           /\ Cardinality(Runners(u)') = Cardinality(Runners(u))
  <2>1. /\ Hold' /\ Submitting' = Submitting /\ Accepted' = Accepted
        /\ Cardinality(Busy) \in Nat
        /\ Cardinality(Busy') =
             (Cardinality(Busy) + Bit("running" \in TaskPCs)) - Bit("active_inc" \in TaskPCs)
        /\ Cardinality(Inside) \in Nat
        /\ Cardinality(Inside') = (Cardinality(Inside) + Bit("running" \in TaskPCs \ IdlePCs))
                                    - Bit("active_inc" \in TaskPCs \ IdlePCs)
    BY <1>1, <1>2, <1>4, <1>5, WorkerHolds
  <2>2. ASSUME NEW u \in Tasks
        PROVE  /\ Cardinality(Runners(u)) \in Nat
               /\ Cardinality(Runners(u)') =
                    (Cardinality(Runners(u)) + Bit("running" \in TaskPCs \ RunPCs /\ task'[w] = u))
                      - Bit("active_inc" \in TaskPCs \ RunPCs /\ task[w] = u)
    BY <1>1, <1>2, <1>4, <1>5, WorkerHolds
  <2> QED
    BY <1>2, <1>4, <1>5, <2>1, <2>2 DEF Bit
<1>7. RunOnce'
  BY <1>2, <1>6, InOtherWords, InOtherWordsNext DEF Tasking
<1>8. Accounting'
  BY <1>2, <1>3, <1>6, CountsOK, InOtherWords, InOtherWordsNext DEF Tasking, Counts
<1> QED
  BY <1>2, <1>3, <1>6, <1>7, <1>8, CountsOK DEF Tasking, Counts

LEMMA WorkerEndTasking ==
  ASSUME Control, Tasking, NEW w \in Workers, WorkerEnd(w)
  PROVE  Tasking'
<1>1. /\ pc[w] = "active_dec" /\ pc'[w] = "completed_inc"
      /\ \A u \in Threads \ {w} : pc'[u] = pc[u]
  BY OneMoves DEF WorkerEnd, Control, Threads
<1>2. UNCHANGED <<queue, task, arg, runs, acked>>
  BY DEF WorkerEnd, fifo, locals, history
<1>3. active' = active - 1 /\ UNCHANGED <<completed, submitted>>
  BY CountsOK DEF WorkerEnd, Add
<1>4. /\ task[w] # NULL /\ task' \in [Workers -> Tasks \cup {NULL}]
      /\ queue' \in Seq(Tasks) /\ runs' \in [Tasks -> Nat]
  BY <1>1, <1>2, WorkerPCsSorted DEF Tasking, Hold
<1>5. /\ "active_dec" \in WorkerPCs /\ "completed_inc" \in WorkerPCs
      /\ "active_dec" \in TaskPCs /\ "completed_inc" \in TaskPCs
      /\ "active_dec" \in TaskPCs \ IdlePCs
      /\ "completed_inc" \notin TaskPCs \ IdlePCs
      /\ "active_dec" \notin TaskPCs \ RunPCs
      /\ "completed_inc" \notin TaskPCs \ RunPCs
  BY WorkerPCsSorted
<1>6. /\ Hold' /\ Submitting' = Submitting /\ Accepted' = Accepted
      /\ Cardinality(Busy') = Cardinality(Busy)
      /\ Cardinality(Inside') = Cardinality(Inside) - 1
      /\ \A u \in Tasks :
           /\ Cardinality(Runners(u)) \in Nat
           /\ Cardinality(Runners(u)') = Cardinality(Runners(u))
  BY <1>1, <1>2, <1>4, <1>5, WorkerHolds DEF Bit
<1>7. RunOnce'
  BY <1>2, <1>6, InOtherWords, InOtherWordsNext DEF Tasking
<1>8. Accounting'
  BY <1>2, <1>3, <1>6, CountsOK, InOtherWords, InOtherWordsNext DEF Tasking, Counts
<1> QED
  BY <1>2, <1>3, <1>6, <1>7, <1>8, CountsOK DEF Tasking, Counts

LEMMA TaskReturnsTasking ==
  ASSUME Control, Tasking, NEW w \in Workers, TaskReturns(w)
  PROVE  Tasking'
<1>1. /\ pc[w] = "running" /\ pc'[w] = "active_dec"
      /\ \A u \in Threads \ {w} : pc'[u] = pc[u]
  BY OneMoves DEF TaskReturns, Control, Threads
<1>2. UNCHANGED <<queue, task, arg, acked>> /\ runs' = [runs EXCEPT ![task[w]] = @ + 1]
  BY DEF TaskReturns, fifo, locals
<1>3. UNCHANGED <<active, completed, submitted>>
  BY DEF TaskReturns, counters
<1>4. /\ task[w] # NULL /\ task' \in [Workers -> Tasks \cup {NULL}]
      /\ queue' \in Seq(Tasks) /\ runs' \in [Tasks -> Nat] /\ task[w] \in Tasks
  BY <1>1, <1>2, WorkerPCsSorted DEF Tasking, Hold
<1>5. /\ "running" \in WorkerPCs /\ "active_dec" \in WorkerPCs
      /\ "running" \in TaskPCs /\ "active_dec" \in TaskPCs
      /\ "running" \in TaskPCs \ IdlePCs
      /\ "active_dec" \in TaskPCs \ IdlePCs
      /\ "running" \in TaskPCs \ RunPCs
      /\ "active_dec" \notin TaskPCs \ RunPCs
  BY WorkerPCsSorted
<1>6. /\ Hold' /\ Submitting' = Submitting /\ Accepted' = Accepted
      /\ Cardinality(Busy') = Cardinality(Busy)
      /\ Cardinality(Inside') = Cardinality(Inside)
      /\ \A u \in Tasks :
           /\ Cardinality(Runners(u)) \in Nat
           /\ Cardinality(Runners(u)') = IF u = task[w] THEN Cardinality(Runners(u)) - 1 ELSE Cardinality(Runners(u))
  <2>1. /\ Hold' /\ Submitting' = Submitting /\ Accepted' = Accepted
        /\ Cardinality(Busy) \in Nat
        /\ Cardinality(Busy') =
             (Cardinality(Busy) + Bit("active_dec" \in TaskPCs)) - Bit("running" \in TaskPCs)
        /\ Cardinality(Inside) \in Nat
        /\ Cardinality(Inside') = (Cardinality(Inside) + Bit("active_dec" \in TaskPCs \ IdlePCs))
                                    - Bit("running" \in TaskPCs \ IdlePCs)
    BY <1>1, <1>2, <1>4, <1>5, WorkerHolds
  <2>2. ASSUME NEW u \in Tasks
        PROVE  /\ Cardinality(Runners(u)) \in Nat
               /\ Cardinality(Runners(u)') =
                    (Cardinality(Runners(u)) + Bit("active_dec" \in TaskPCs \ RunPCs /\ task'[w] = u))
                      - Bit("running" \in TaskPCs \ RunPCs /\ task[w] = u)
    BY <1>1, <1>2, <1>4, <1>5, WorkerHolds
  <2> QED
    BY <1>2, <1>4, <1>5, <2>1, <2>2 DEF Bit
<1>7. RunOnce'
  <2> SUFFICES ASSUME NEW u \in Tasks
               PROVE  Cardinality(Positions(queue', u)) + Cardinality(Runners(u)') + runs'[u]
                        = IF u \in Accepted' THEN 1 ELSE 0
    BY InOtherWordsNext
  <2>1. Cardinality(Positions(queue, u)) + Cardinality(Runners(u)) + runs[u]
          = IF u \in Accepted THEN 1 ELSE 0
    BY InOtherWords DEF Tasking
  <2>2. Cardinality(Positions(queue, u)) \in Nat /\ runs[u] \in Nat
    BY PositionsFinite DEF Tasking, Hold
  <2>3. runs'[u] = IF u = task[w] THEN runs[u] + 1 ELSE runs[u]
    BY <1>2 DEF Tasking, Hold
  <2> QED
    BY <1>2, <1>6, <2>1, <2>2, <2>3
<1>8. Accounting'
  BY <1>2, <1>3, <1>6, CountsOK, InOtherWords, InOtherWordsNext DEF Tasking, Counts
<1> QED
  BY <1>2, <1>3, <1>6, <1>7, <1>8, CountsOK DEF Tasking, Counts

LEMMA WorkerCompleteTasking ==
  ASSUME Control, Tasking, NEW w \in Workers, WorkerComplete(w)
  PROVE  Tasking'
<1>1. /\ pc[w] = "completed_inc" /\ pc'[w] = "notify_lock"
      /\ \A u \in Threads \ {w} : pc'[u] = pc[u]
  BY OneMoves DEF WorkerComplete, Control, Threads
<1>2. UNCHANGED <<queue, arg, runs, acked>> /\ task' = [task EXCEPT ![w] = NULL]
  BY DEF WorkerComplete, fifo, history
<1>3. completed' = completed + 1 /\ UNCHANGED <<active, submitted>>
  BY CountsOK DEF WorkerComplete, Add
<1>4. /\ task'[w] = NULL /\ \A u \in Workers \ {w} : task'[u] = task[u]
      /\ task' \in [Workers -> Tasks \cup {NULL}]
      /\ queue' \in Seq(Tasks) /\ runs' \in [Tasks -> Nat]
  BY <1>2 DEF Tasking, Hold
<1>5. /\ "completed_inc" \in WorkerPCs /\ "notify_lock" \in WorkerPCs
      /\ "completed_inc" \in TaskPCs /\ "notify_lock" \notin TaskPCs
      /\ "completed_inc" \notin TaskPCs \ IdlePCs
      /\ "notify_lock" \notin TaskPCs \ IdlePCs
      /\ "completed_inc" \notin TaskPCs \ RunPCs
      /\ "notify_lock" \notin TaskPCs \ RunPCs
  BY WorkerPCsSorted
<1>6. /\ Hold' /\ Submitting' = Submitting /\ Accepted' = Accepted
      /\ Cardinality(Busy') = Cardinality(Busy) - 1
      /\ Cardinality(Inside') = Cardinality(Inside)
      /\ \A u \in Tasks :
           /\ Cardinality(Runners(u)) \in Nat
           /\ Cardinality(Runners(u)') = Cardinality(Runners(u))
  BY <1>1, <1>2, <1>4, <1>5, WorkerHolds DEF Bit
<1>7. RunOnce'
  BY <1>2, <1>6, InOtherWords, InOtherWordsNext DEF Tasking
<1>8. Accounting'
  BY <1>2, <1>3, <1>6, CountsOK, InOtherWords, InOtherWordsNext DEF Tasking, Counts
<1> QED
  BY <1>2, <1>3, <1>6, <1>7, <1>8, CountsOK DEF Tasking, Counts

-----------------------------------------------------------------------------
(* The steps that move no task: between places without one, from one check *)
(* of a submit to the next, from one place before a task to the next.      *)
EmptyPCs ==
  {"idle", "destroy_cas", "unstarted", "pop", "notify_lock", "notify", "exited"}
    \cup WaitPCs \cup TeardownPCs \cup CreatePCs

Alike(p, q) ==
  \/ {p, q} \subseteq EmptyPCs
  \/ {p, q} \subseteq {"submit_check", "submit_push"}
  \/ {p, q} \subseteq {"state_check", "active_inc"}

LEMMA AlikeIsSameClass ==
  ASSUME NEW t, Alike(pc[t], pc'[t])
  PROVE  SameClass(t)
<1>1. CASE {pc[t], pc'[t]} \subseteq EmptyPCs
  BY <1>1 DEF EmptyPCs, SameClass, SubmitPCs, TaskPCs, RunPCs, IdlePCs, WaitPCs, TeardownPCs,
              CreatePCs
<1>2. CASE {pc[t], pc'[t]} \subseteq {"submit_check", "submit_push"}
  BY <1>2 DEF SameClass, SubmitPCs, TaskPCs, RunPCs, IdlePCs
<1>3. CASE {pc[t], pc'[t]} \subseteq {"state_check", "active_inc"}
  BY <1>3 DEF SameClass, SubmitPCs, TaskPCs, RunPCs, IdlePCs
<1> QED
  BY <1>1, <1>2, <1>3 DEF Alike

LEMMA QuietTasking ==
  ASSUME Control, Tasking, NEW t \in Threads, NEW p, NEW q, Step(t, p, q), Alike(p, q),
         UNCHANGED <<queue, task, arg, runs, acked, active, completed, submitted>>
  PROVE  Tasking'
<1>1. \A u \in Threads : SameClass(u)
  <2>1. pc[t] = p /\ pc'[t] = q /\ \A u \in Threads \ {t} : pc'[u] = pc[u]
    BY OneMoves DEF Control
  <2>2. SameClass(t)
    BY <2>1, AlikeIsSameClass
  <2>3. \A u \in Threads \ {t} : SameClass(u)
    BY <2>1 DEF SameClass
  <2> QED
    BY <2>2, <2>3
<1> QED
  BY <1>1, NothingMoves

LEMMA NotifyTasking ==
  ASSUME Control, Tasking, NEW w \in Workers, Notify(w)
  PROVE  Tasking'
<1>1. \A t \in Threads : t = w \/ pc'[t] = pc[t] \/ (pc[t] = "wait_asleep" /\ pc'[t] = "wait_woken")
  BY DEF Notify, Woken, WakeWaiters, At
<1>2. pc[w] = "notify" /\ pc'[w] = "pop" /\ w \in Threads
  BY DEF Notify, WakeWaiters, Threads
<1>3. ASSUME NEW t \in Threads PROVE SameClass(t)
  <2>1. CASE t = w
    BY <1>2, <2>1, AlikeIsSameClass DEF Alike, EmptyPCs
  <2>2. CASE pc'[t] = pc[t]
    BY <2>2 DEF SameClass
  <2>3. CASE pc[t] = "wait_asleep" /\ pc'[t] = "wait_woken"
    BY <2>3, AlikeIsSameClass DEF Alike, EmptyPCs, WaitPCs
  <2> QED
    BY <1>1, <2>1, <2>2, <2>3
<1>4. UNCHANGED <<queue, task, arg, runs, acked, active, completed, submitted>>
  BY DEF Notify, fifo, counters, locals, history
<1> QED
  BY <1>3, <1>4, NothingMoves

(* The last worker that leaves finds the queue empty: freeing the pool     *)
(* frees no task.                                                          *)
LEMMA NothingToFree ==
  ASSUME Control, Drained, NEW c \in Clients, ~freed,
         pc[c] \in {"create_alloc", "abort_free", "destroy_free"}
  PROVE  queue = <<>>
<1>1. CASE pc[c] \in CreatePCs
  BY <1>1 DEF Drained
<1>2. CASE pc[c] \notin CreatePCs
  <2>1. pc[c] = "destroy_free"
    BY <1>2 DEF CreatePCs
  <2>2. \A d \in Clients : pc[d] \notin CreatePCs
    BY <1>2, <2>1 DEF Control, Alone
  <2>3. \A w \in Workers : pc[w] = "exited"
    BY <2>1, <2>2 DEF Drained, Control, Teardown, AllExited
  <2> QED
    BY <2>3 DEF Drained
<1> QED
  BY <1>1, <1>2

LEMMA FreeTasking ==
  ASSUME Control, Tasking, Drained, NEW c \in Clients, NEW r,
         NEW p \in {"create_alloc", "abort_free", "destroy_free"}, FreePool(c, p, r)
  PROVE  Tasking'
<1>1. c \in Threads /\ c \notin Workers
  BY DEF Threads
<1>2. Step(c, p, "idle") /\ Alike(p, "idle")
  BY <1>1 DEF FreePool, Return, Alike, EmptyPCs, TeardownPCs, CreatePCs
<1>3. queue = <<>>
  BY <1>2, NothingToFree DEF Step
<1>4. UNCHANGED <<queue, task, arg, runs, acked, active, completed, submitted>>
  BY <1>3 DEF FreePool, Clear, counters, history
<1> QED
  BY <1>1, <1>2, <1>4, QuietTasking

LEMMA TaskingStep == Control /\ Drained /\ Tasking /\ [Next]_vars => Tasking'
<1> SUFFICES ASSUME Control, Drained, Tasking, [Next]_vars PROVE Tasking'
  OBVIOUS
<1>1. ASSUME NEW t \in Threads, SubmitNext(t) PROVE Tasking'
  <2>1. ASSUME SubmitCheck(t) PROVE Tasking'
    <3>1. Step(t, "submit_check", "submit_push") /\ Alike("submit_check", "submit_push")
      BY <2>1 DEF SubmitCheck, Alike
    <3>2. UNCHANGED <<queue, task, arg, runs, acked, active, completed, submitted>>
      BY <2>1 DEF SubmitCheck, fifo, counters, locals, history
    <3> QED
      BY <3>1, <3>2, QuietTasking
  <2> QED
    BY <1>1, <2>1, SubmitCallTasking, GiveUpTasking, SubmitPushTasking, SubmitCountTasking
       DEF SubmitNext, SubmitStep, SubmitTooLate, SubmitRefused, SubmitNoMemory
<1>2. ASSUME NEW w \in Workers, WorkerNext(w) PROVE Tasking'
  <2>1. w \in Threads /\ pc \in [Threads -> ClientPCs \cup WorkerPCs]
    BY DEF Threads, Control, Places
  <2>2. ASSUME WorkerCheck(w) PROVE Tasking'
    <3>1. ~Quits
      BY <2>2 DEF WorkerCheck, Step, Quits, Control, Teardown, AllExited
    <3>2. Step(w, "state_check", "active_inc") /\ Alike("state_check", "active_inc")
      BY <2>2, <3>1 DEF WorkerCheck, Alike
    <3>3. UNCHANGED <<queue, task, arg, runs, acked, active, completed, submitted>>
      BY <2>2 DEF WorkerCheck, fifo, counters, locals, history
    <3> QED
      BY <2>1, <3>2, <3>3, QuietTasking
  <2>3. ASSUME WorkerExit(w) \/ NotifyLock(w) PROVE Tasking'
    <3>1. \/ Step(w, "pop", "exited") /\ Alike("pop", "exited")
          \/ Step(w, "notify_lock", "notify") /\ Alike("notify_lock", "notify")
      BY <2>3 DEF WorkerExit, NotifyLock, Alike, EmptyPCs
    <3>2. UNCHANGED <<queue, task, arg, runs, acked, active, completed, submitted>>
      BY <2>3 DEF WorkerExit, NotifyLock, fifo, counters, locals, history
    <3> QED
      BY <2>1, <3>1, <3>2, QuietTasking
  <2> QED
    BY <1>2, <2>2, <2>3, WorkerPopTasking, WorkerBeginTasking, WorkerEndTasking,
       TaskReturnsTasking, WorkerCompleteTasking, NotifyTasking
       DEF WorkerNext, WorkerStep
<1>3. ASSUME NEW c \in Clients, ClientNext(c) PROVE Tasking'
  <2>1. c \in Threads /\ c \notin Workers
    BY DEF Threads
  <2>2. ASSUME NEW p \in EmptyPCs, NEW q \in EmptyPCs, Step(c, p, q),
               UNCHANGED <<queue, task, arg, runs, acked, active, completed, submitted>>
        PROVE  Tasking'
    <3>1. Alike(p, q)
      BY DEF Alike
    <3> QED
      BY <2>1, <2>2, <3>1, QuietTasking
  <2>3. ASSUME \/ WaitCall(c) \/ WaitLock(c) \/ WaitSleep(c) \/ WaitReturn(c)
               \/ SpuriousWakeup(c)
        PROVE  Tasking'
    <3>1. UNCHANGED <<queue, task, arg, runs, acked, active, completed, submitted>>
      BY <2>3 DEF WaitCall, WaitLock, WaitSleep, WaitReturn, SpuriousWakeup,
                  fifo, counters, locals, history
    <3>2. {"idle"} \cup WaitPCs \subseteq EmptyPCs
      BY DEF EmptyPCs
    <3>3. \E p, q \in {"idle"} \cup WaitPCs : Step(c, p, q)
      BY <2>1, <2>3 DEF WaitCall, WaitLock, WaitSleep, WaitReturn, SpuriousWakeup, Return, WaitPCs
    <3> QED
      BY <2>2, <3>1, <3>2, <3>3
  <2>4. ASSUME \/ DestroyCall(c) \/ DestroyCas(c) \/ DestroyLost(c) \/ DestroyShutdown(c)
               \/ DestroyJoin(c) \/ DestroyTerminate(c)
        PROVE  Tasking'
    <3>1. UNCHANGED <<queue, task, arg, runs, acked, active, completed, submitted>>
      BY <2>4 DEF DestroyCall, DestroyCas, DestroyLost, DestroyShutdown, DestroyJoin,
                  DestroyTerminate, Close, fifo, counters, locals, history
    <3>2. {"idle", "destroy_cas"} \cup TeardownPCs \subseteq EmptyPCs
      BY DEF EmptyPCs
    <3>3. \E p, q \in {"idle", "destroy_cas"} \cup TeardownPCs : Step(c, p, q)
      BY <2>1, <2>4 DEF DestroyCall, DestroyCas, DestroyLost, DestroyShutdown, DestroyJoin,
                        DestroyTerminate, Return, TeardownPCs
    <3> QED
      BY <2>2, <3>1, <3>2, <3>3
  <2>5. ASSUME \/ CreateInit(c) \/ CreateReturn(c) \/ CreateFails(c)
               \/ AbortShutdown(c) \/ AbortJoin(c)
        PROVE  Tasking'
    <3>1. UNCHANGED <<queue, task, arg, runs, acked, active, completed, submitted>>
      BY <2>5 DEF CreateInit, CreateReturn, CreateFails, AbortShutdown, AbortJoin,
                  Close, fifo, counters, locals, history
    <3>2. {"idle"} \cup CreatePCs \subseteq EmptyPCs
      BY DEF EmptyPCs
    <3>3. \E p, q \in {"idle"} \cup CreatePCs : Step(c, p, q)
      BY <2>1, <2>5 DEF CreateInit, CreateReturn, CreateFails, AbortShutdown, AbortJoin,
                        Return, CreatePCs
    <3> QED
      BY <2>2, <3>1, <3>2, <3>3
  <2>6. ASSUME CreateWorker(c) PROVE Tasking'
    <3>1. PICK w \in At("unstarted") : pc' = [pc EXCEPT ![w] = "pop"]
      BY <2>6 DEF CreateWorker
    <3>2. w \in Threads /\ Step(w, "unstarted", "pop") /\ Alike("unstarted", "pop")
      BY <2>6, <3>1 DEF At, CreateWorker, Step, Alike, EmptyPCs
    <3>3. UNCHANGED <<queue, task, arg, runs, acked, active, completed, submitted>>
      BY <2>6 DEF CreateWorker, fifo, counters, locals, history
    <3> QED
      BY <3>2, <3>3, QuietTasking
  <2>7. ASSUME WaitLoad(c) PROVE Tasking'
    <3>1. UNCHANGED <<queue, task, arg, runs, acked, active, completed, submitted, pc>>
      BY <2>7 DEF WaitLoad, fifo, counters, history
    <3> QED
      BY <3>1, NothingMoves DEF SameClass
  <2> QED
    BY <1>3, <2>3, <2>4, <2>5, <2>6, <2>7, FreeTasking
       DEF ClientNext, ClientStep, CreateStep, DestroyFree, AbortFree, CreateNoMemory
<1>4. ASSUME UNCHANGED vars PROVE Tasking'
  <2>1. UNCHANGED <<queue, task, arg, runs, acked, active, completed, submitted, pc>>
    BY <1>4 DEF vars, fifo, counters, locals, history
  <2> QED
    BY <2>1, NothingMoves DEF SameClass
<1> QED
  BY <1>1, <1>2, <1>3, <1>4 DEF Next, Freed

-----------------------------------------------------------------------------
(* The queue of a pool in use: somebody may push or pop.                   *)
InUse ==
  /\ \A w \in Workers : pc[w] # "exited"
  /\ \A c \in Clients : pc[c] \notin CreatePCs

LEMMA OneMoveDrained ==
  ASSUME Control, Drained, NEW t \in Threads, NEW p, NEW q, Step(t, p, q),
         q # "unstarted", q \in CreatePCs => p \in CreatePCs,
         p \in CreatePCs /\ q \notin CreatePCs => freed' \/ At("unstarted") = {},
         t \in Workers => q \in {"pop", "exited"} \/ p \notin {"unstarted", "pop", "exited"} \/ InUse,
         q = "exited" => shutdown /\ queue = <<>>,
         queue' = queue \/ (InUse /\ q # "exited"),
         shutdown => shutdown'
  PROVE  Drained'
<1>1. pc[t] = p /\ pc'[t] = q /\ ~freed /\ \A u \in Threads \ {t} : pc'[u] = pc[u]
  BY OneMoves DEF Control
<1>2. Workers \subseteq Threads /\ Clients \subseteq Threads
  BY DEF Threads
<1>3. ASSUME NEW w \in Workers, pc'[w] = "exited" PROVE shutdown' /\ queue' = <<>>
  BY <1>1, <1>2, <1>3 DEF Drained, InUse
<1>4. ASSUME NEW c \in Clients, pc'[c] \in CreatePCs
      PROVE  queue' = <<>> /\ \A w \in Workers : pc'[w] \in {"unstarted", "pop", "exited"}
  <2>1. pc[c] \in CreatePCs
    BY <1>1, <1>2, <1>4
  <2>2. ~InUse
    BY <2>1 DEF InUse
  <2>3. queue' = <<>> /\ \A w \in Workers : pc[w] \in {"unstarted", "pop", "exited"}
    BY <2>1, <2>2 DEF Drained
  <2> QED
    BY <1>1, <1>2, <2>2, <2>3
<1>5. ASSUME \A c \in Clients : pc'[c] \notin CreatePCs, ~freed', NEW w \in Workers
      PROVE  pc'[w] # "unstarted"
  <2>1. CASE \A c \in Clients : pc[c] \notin CreatePCs
    BY <1>1, <1>2, <2>1 DEF Drained
  <2>2. CASE \E c \in Clients : pc[c] \in CreatePCs
    <3>1. At("unstarted") = {}
      BY <1>1, <1>2, <1>5, <2>2
    <3> QED
      BY <1>1, <1>2, <3>1 DEF At
  <2> QED
    BY <2>1, <2>2
<1> QED
  BY <1>3, <1>4, <1>5 DEF Drained

(* Nobody uses the queue while the pool is being created.                  *)
LEMMA SubmittersInUse ==
  ASSUME Control, Drained, NEW t \in Threads, ~shutdown,
         pc[t] \in {"submit_push", "submit_check", "submit_count"}
  PROVE  InUse
<1>1. \A w \in Workers : pc[w] # "exited"
  BY DEF Drained
<1>2. ASSUME NEW c \in Clients, pc[c] \in CreatePCs PROVE FALSE
  <2>1. CASE t \in Workers
    BY <1>2, <2>1 DEF Drained
  <2>2. CASE t \in Clients
    BY <1>2, <2>2 DEF Control, Alone, CreatePCs
  <2> QED
    BY <2>1, <2>2 DEF Threads
<1> QED
  BY <1>1, <1>2 DEF InUse

LEMMA DrainedStep == Control /\ Drained /\ [Next]_vars => Drained'
<1> SUFFICES ASSUME Control, Drained, [Next]_vars PROVE Drained'
  OBVIOUS
<1>0. /\ Workers \subseteq Threads /\ Clients \subseteq Threads
      /\ \A c \in Clients : c \notin Workers
  BY DEF Threads
<1>1. ASSUME NEW t \in Threads, SubmitNext(t) PROVE Drained'
  <2>1. ASSUME NEW p \in SubmitPCs \cup {"running", "idle"},
               NEW q \in SubmitPCs \cup {"running", "idle"},
               Step(t, p, q), queue' = queue \/ InUse, shutdown' = shutdown
        PROVE  Drained'
    BY <2>1, OneMoveDrained DEF SubmitPCs, CreatePCs
  <2>2. ASSUME SubmitPush(t) PROVE Drained'
    <3>1. InUse
      BY <2>2, SubmittersInUse DEF SubmitPush, Step, Enqueue
    <3> QED
      BY <2>1, <2>2, <3>1 DEF SubmitPush, Enqueue, SubmitPCs
  <2>3. ASSUME NEW p \in SubmitPCs, NEW r, GiveUp(t, p, r) PROVE Drained'
    BY <2>1, <2>3 DEF GiveUp, Return, fifo
  <2> QED
    BY <1>1, <2>1, <2>2, <2>3
       DEF SubmitNext, SubmitStep, SubmitCall, SubmitCheck, SubmitTooLate, SubmitRefused,
           SubmitNoMemory, SubmitCount, Return, fifo, SubmitPCs
<1>2. ASSUME NEW w \in Workers, WorkerNext(w) PROVE Drained'
  <2>1. ASSUME WorkerPop(w) PROVE Drained'
    <3>1. /\ queue # <<>> /\ shutdown' = shutdown /\ Step(w, "pop", "state_check")
      BY <2>1 DEF WorkerPop, Dequeue
    <3>2. InUse
      BY <3>1 DEF Drained, InUse
    <3> QED
      BY <1>0, <3>1, <3>2, OneMoveDrained DEF CreatePCs
  <2>2. ASSUME WorkerExit(w) PROVE Drained'
    <3>1. /\ Step(w, "pop", "exited") /\ shutdown /\ queue = <<>> /\ UNCHANGED <<queue, shutdown>>
      BY <2>2 DEF WorkerExit, NothingLeft, fifo
    <3>2. w \in Threads /\ "pop" \notin CreatePCs /\ "exited" \notin CreatePCs
      BY <1>0 DEF CreatePCs
    <3>3. /\ pc[w] = "pop" /\ pc'[w] = "exited" /\ ~freed
          /\ \A u \in Threads \ {w} : pc'[u] = pc[u]
      BY <3>1, <3>2, OneMoves DEF Control
    <3>4. \A c \in Clients : c \in Threads \ {w}
      BY <1>0
    <3>5. queue' = queue /\ shutdown'
      BY <3>1
    <3>6. freed' = freed
      BY <2>2 DEF WorkerExit, gate
    <3> QED
      BY <1>0, <3>1, <3>3, <3>4, <3>5, <3>6 DEF Drained
  <2>3. ASSUME NEW p \in WorkerPCs \ {"unstarted", "pop", "exited"},
               NEW q \in WorkerPCs \ {"unstarted", "exited"},
               Step(w, p, q), UNCHANGED <<queue, shutdown>>
        PROVE  Drained'
    BY <1>0, <2>3, OneMoveDrained DEF CreatePCs, WorkerPCs
  <2>4. ASSUME WorkerCheck(w) PROVE Drained'
    <3>1. ~Quits
      BY <2>4 DEF WorkerCheck, Step, Quits, Control, Teardown, AllExited
    <3>2. Step(w, "state_check", "active_inc") /\ UNCHANGED <<queue, shutdown>>
      BY <2>4, <3>1 DEF WorkerCheck, fifo
    <3> QED
      BY <2>3, <3>2 DEF WorkerPCs
  <2>5. ASSUME \/ WorkerBegin(w) \/ TaskReturns(w) \/ WorkerEnd(w) \/ WorkerComplete(w)
               \/ NotifyLock(w)
        PROVE  Drained'
    <3>1. /\ \E p, q \in {"active_inc", "running", "active_dec", "completed_inc", "notify_lock",
                           "notify"} : Step(w, p, q)
          /\ UNCHANGED <<queue, shutdown>>
      BY <2>5 DEF WorkerBegin, TaskReturns, WorkerEnd, WorkerComplete, NotifyLock, fifo
    <3> QED
      BY <2>3, <3>1 DEF WorkerPCs
  <2>6. ASSUME Notify(w) PROVE Drained'
    <3>1. /\ \A t \in Threads :
                \/ t = w /\ pc[t] = "notify" /\ pc'[t] = "pop"
                \/ pc'[t] = pc[t]
                \/ pc[t] = "wait_asleep" /\ pc'[t] = "wait_woken"
          /\ UNCHANGED <<queue, shutdown, freed>>
      BY <2>6 DEF Notify, Woken, WakeWaiters, At, fifo
    <3> QED
      BY <1>0, <3>1 DEF Drained, CreatePCs
  <2> QED
    BY <1>2, <2>1, <2>2, <2>4, <2>5, <2>6 DEF WorkerNext, WorkerStep
<1>3. ASSUME NEW c \in Clients, ClientNext(c) PROVE Drained'
  <2>1. c \in Threads /\ c \notin Workers
    BY <1>0
  <2>2. ASSUME NEW p, NEW q, Step(c, p, q), q \notin {"unstarted", "exited"},
               q \in CreatePCs => p \in CreatePCs, p \in CreatePCs => q \in CreatePCs \/ freed',
               queue' = queue, shutdown => shutdown'
        PROVE  Drained'
    BY <2>1, <2>2, OneMoveDrained
  <2>3. ASSUME \/ WaitCall(c) \/ WaitLock(c) \/ WaitSleep(c) \/ WaitReturn(c)
               \/ SpuriousWakeup(c)
        PROVE  Drained'
    BY <2>1, <2>2, <2>3 DEF WaitCall, WaitLock, WaitSleep, WaitReturn, SpuriousWakeup, Return,
                            fifo, CreatePCs
  <2>4. ASSUME \/ DestroyCall(c) \/ DestroyCas(c) \/ DestroyLost(c) \/ DestroyShutdown(c)
               \/ DestroyJoin(c) \/ DestroyTerminate(c)
        PROVE  Drained'
    BY <2>1, <2>2, <2>4 DEF DestroyCall, DestroyCas, DestroyLost, DestroyShutdown, DestroyJoin,
                            DestroyTerminate, Return, Close, fifo, CreatePCs
  <2>5. ASSUME CreateInit(c) \/ CreateFails(c) \/ AbortShutdown(c) \/ AbortJoin(c)
        PROVE  Drained'
    BY <2>2, <2>5 DEF CreateInit, CreateFails, AbortShutdown, AbortJoin, Close, fifo, CreatePCs
  <2>6. ASSUME CreateReturn(c) PROVE Drained'
    <3>1. /\ At("unstarted") = {} /\ UNCHANGED <<queue, shutdown>>
          /\ Step(c, "create_start", "idle")
      BY <2>1, <2>6 DEF CreateReturn, Return, fifo
    <3> QED
      BY <2>1, <3>1, OneMoveDrained DEF CreatePCs
  <2>7. ASSUME CreateWorker(c) PROVE Drained'
    <3>1. PICK w \in At("unstarted") : pc' = [pc EXCEPT ![w] = "pop"]
      BY <2>7 DEF CreateWorker
    <3>2. w \in Threads /\ Step(w, "unstarted", "pop") /\ UNCHANGED <<queue, shutdown>>
      BY <2>7, <3>1 DEF At, CreateWorker, Step, fifo
    <3> QED
      BY <3>2, OneMoveDrained DEF CreatePCs
  <2>8. ASSUME NEW p \in {"create_alloc", "abort_free", "destroy_free"}, NEW r, FreePool(c, p, r)
        PROVE  Drained'
    <3>1. /\ Step(c, p, "idle") /\ freed' /\ shutdown' = shutdown /\ queue' = <<>>
      BY <2>1, <2>8 DEF FreePool, Return, Clear
    <3>2. queue = <<>>
      BY <3>1, NothingToFree DEF Step
    <3> QED
      BY <2>2, <3>1, <3>2 DEF CreatePCs
  <2>9. ASSUME WaitLoad(c) PROVE Drained'
    BY <2>9 DEF WaitLoad, fifo, gate, Drained
  <2> QED
    BY <1>3, <2>3, <2>4, <2>5, <2>6, <2>7, <2>8, <2>9
       DEF ClientNext, ClientStep, CreateStep, DestroyFree, AbortFree, CreateNoMemory
<1>4. ASSUME UNCHANGED vars PROVE Drained'
  BY <1>4 DEF vars, fifo, gate, Drained
<1> QED
  BY <1>1, <1>2, <1>3, <1>4 DEF Next, Freed

LEMMA TasksInit == Init => Drained /\ Tasking
<1> SUFFICES ASSUME Init PROVE Drained /\ Tasking
  OBVIOUS
<1>1. PICK creator \in Clients :
        pc = [t \in Threads |-> IF t = creator THEN "create_alloc"
                                ELSE IF t \in Workers THEN "unstarted" ELSE "idle"]
  BY DEF Init
<1>2. /\ \A w \in Workers : pc[w] = "unstarted" /\ task[w] = NULL
      /\ \A t \in Threads : pc[t] \in {"create_alloc", "unstarted", "idle"} /\ arg[t] = NULL
      /\ pc[creator] = "create_alloc"
  BY <1>1 DEF Threads, Init
<1>3. /\ queue = <<>> /\ acked = {} /\ runs = [v \in Tasks |-> 0]
      /\ active = 0 /\ completed = 0 /\ submitted = 0
  BY DEF Init, FifoInit
<1>4. Drained
  BY <1>2, <1>3 DEF Drained, CreatePCs
<1>5. Hold
  BY <1>2, <1>3 DEF Hold, TaskPCs, SubmitPCs, Init
<1>6. /\ Submitting = {} /\ Busy = {} /\ Inside = {} /\ Accepted = {}
      /\ \A v \in Tasks : Runners(v) = {} /\ Positions(queue, v) = {}
  BY <1>2, <1>3 DEF Submitting, Busy, Inside, Accepted, Runners, Positions, At
<1>7. Counts
  BY <1>3, <1>6, InOtherWords, FS_EmptySet DEF Counts
<1>8. RunOnce
  <2>1. \A v \in Tasks : runs[v] = 0 /\ Cardinality(Runners(v)) = 0
                         /\ Cardinality(Positions(queue, v)) = 0
    BY <1>3, <1>6, FS_EmptySet
  <2> QED
    BY <1>6, <2>1, InOtherWords
<1> QED
  BY <1>4, <1>5, <1>7, <1>8 DEF Tasking

LEMMA TasksInvariant == Spec => [](Drained /\ Tasking)
<1>1. Control /\ Drained /\ Tasking /\ [Next]_vars => Drained' /\ Tasking'
  BY TaskingStep, DrainedStep
<1> QED
  BY TasksInit, ControlInvariant, <1>1, PTL DEF Spec

(* For any number of workers, clients and tasks: a task whose push         *)
(* succeeded is queued, or held by one worker, or has run exactly once,    *)
(* and freeing the pool loses none.                                        *)
THEOREM TasksRunOnce == Spec => []RunOnce
<1>1. Tasking => RunOnce
  BY DEF Tasking
<1> QED
  BY TasksInvariant, <1>1, PTL

(* The three atomics agree with the queue and the workers' hands.          *)
THEOREM CountersAgree == Spec => []Accounting
<1>1. Tasking => Accounting
  BY DEF Tasking, Counts
<1> QED
  BY TasksInvariant, <1>1, PTL

-----------------------------------------------------------------------------
(* The types of the variables that Control, Waking and Tasking leave open. *)
Others ==
  /\ state \in {"RUNNING", "SHUTDOWN", "TERMINATED"}
  /\ wait_lock \in Threads \cup {NULL}
  /\ result \in {"none", "NULL", "SUCCESS", "SHUTDOWN", "SYSTEM"}
  /\ due \in [Clients -> SUBSET Tasks]
  /\ quiet \subseteq Clients

LEMMA OthersInit == Init => Others
BY DEF Init, Others

LEMMA OthersStep == acked \subseteq Tasks /\ Others /\ [Next]_vars => Others'
<1> SUFFICES ASSUME acked \subseteq Tasks, Others, [Next]_vars PROVE Others'
  OBVIOUS
<1>1. ASSUME NEW t \in Threads, SubmitNext(t) PROVE Others'
  <2>1. ASSUME \/ \E v \in Tasks : SubmitCall(t, v)
               \/ SubmitCheck(t) \/ SubmitPush(t) \/ SubmitCount(t)
        PROVE  Others'
    BY <2>1 DEF SubmitCall, SubmitCheck, SubmitPush, SubmitCount, Return, gate, locals,
                history, Others
  <2>2. ASSUME NEW r \in {"SHUTDOWN", "SYSTEM"}, NEW p, GiveUp(t, p, r) PROVE Others'
    BY <2>2 DEF GiveUp, Return, gate, history, Others
  <2> QED
    BY <1>1, <2>1, <2>2
       DEF SubmitNext, SubmitStep, SubmitTooLate, SubmitRefused, SubmitNoMemory
<1>2. ASSUME NEW w \in Workers, WorkerNext(w) PROVE Others'
  <2>1. w \in Threads
    BY DEF Threads
  <2>2. ASSUME WorkerPop(w) \/ WorkerExit(w) \/ WorkerCheck(w) \/ TaskReturns(w) PROVE Others'
    BY <2>2 DEF WorkerPop, WorkerExit, WorkerCheck, TaskReturns, gate, locals, history, Others
  <2>3. ASSUME WorkerBegin(w) \/ WorkerEnd(w) \/ WorkerComplete(w) PROVE Others'
    BY <2>3 DEF WorkerBegin, WorkerEnd, WorkerComplete, gate, locals, history, Others
  <2>4. ASSUME NotifyLock(w) \/ Notify(w) PROVE Others'
    BY <2>1, <2>4 DEF NotifyLock, Notify, locals, history, Others
  <2> QED
    BY <1>2, <2>2, <2>3, <2>4 DEF WorkerNext, WorkerStep
<1>3. ASSUME NEW c \in Clients, ClientNext(c) PROVE Others'
  <2>1. c \in Threads
    BY DEF Threads
  <2>2. ASSUME WaitCall(c) PROVE Others'
    BY <2>2 DEF WaitCall, gate, locals, Others
  <2>3. ASSUME WaitLock(c) \/ WaitLoad(c) \/ WaitSleep(c) \/ SpuriousWakeup(c) PROVE Others'
    BY <2>1, <2>3 DEF WaitLock, WaitLoad, WaitSleep, SpuriousWakeup, gate, locals, history, Others
  <2>4. ASSUME WaitReturn(c) PROVE Others'
    BY <2>4 DEF WaitReturn, Return, Others
  <2>5. ASSUME \/ DestroyCall(c) \/ DestroyCas(c) \/ DestroyLost(c) \/ DestroyShutdown(c)
               \/ DestroyJoin(c) \/ DestroyTerminate(c)
        PROVE  Others'
    BY <2>5 DEF DestroyCall, DestroyCas, DestroyLost, DestroyShutdown, DestroyJoin,
                DestroyTerminate, Return, gate, locals, history, Others
  <2>6. ASSUME \/ CreateInit(c) \/ CreateWorker(c) \/ CreateReturn(c) \/ CreateFails(c)
               \/ AbortShutdown(c) \/ AbortJoin(c)
        PROVE  Others'
    BY <2>6 DEF CreateInit, CreateWorker, CreateReturn, CreateFails, AbortShutdown, AbortJoin,
                Return, gate, locals, history, Others
  <2>7. ASSUME NEW p, NEW r \in {"NULL", "SUCCESS"}, FreePool(c, p, r) PROVE Others'
    BY <2>7 DEF FreePool, Return, history, Others
  <2> QED
    BY <1>3, <2>2, <2>3, <2>4, <2>5, <2>6, <2>7
       DEF ClientNext, ClientStep, CreateStep, DestroyFree, AbortFree, CreateNoMemory
<1>4. ASSUME UNCHANGED vars PROVE Others'
  BY <1>4 DEF vars, gate, locals, history, Others
<1> QED
  BY <1>1, <1>2, <1>3, <1>4 DEF Next, Freed

(* Every variable keeps its type: in particular no counter goes below      *)
(* zero, and the queue only ever holds tasks somebody submitted.           *)
THEOREM TypeCorrect == Spec => []TypeOK
<1>1. Spec => []Waking
  BY ControlInvariant, WakingInit, WakingStep, PTL DEF Spec
<1>2. Spec => []Others
  <2>1. Tasking => acked \subseteq Tasks
    BY DEF Tasking, Hold
  <2> QED
    BY TasksInvariant, OthersInit, OthersStep, <2>1, PTL DEF Spec
<1>3. Control /\ Waking /\ Tasking /\ Others => TypeOK
  <2> SUFFICES ASSUME Control, Waking, Tasking, Others PROVE TypeOK
    OBVIOUS
  <2>1. FifoTypeOK /\ usage \in Usages /\ freed \in BOOLEAN
    BY DEF Control, Places, Tasking, Hold, FifoTypeOK
  <2>2. pc \in [Threads -> SubmitPCs \cup WaitPCs \cup TeardownPCs \cup WorkerPCs
                           \cup CreatePCs \cup {"idle", "destroy_cas"}]
    BY DEF Control, Places, ClientPCs
  <2>3. active \in Nat /\ completed \in Nat /\ submitted \in Nat
    BY CountsOK
  <2> QED
    BY <2>1, <2>2, <2>3 DEF TypeOK, Others, Waking, Tasking, Hold
<1> QED
  BY ControlInvariant, TasksInvariant, <1>1, <1>2, <1>3, PTL

-----------------------------------------------------------------------------
(* What a wait without a concurrent submit may rely on: nobody is inside   *)
(* submit, so what it has loaded of submitted is still true.               *)
Undisturbed ==
  /\ quiet # {} => \A t \in Threads : pc[t] \notin SubmitPCs
  /\ \A c \in Clients : due[c] \subseteq acked /\ seen[c].completed <= completed
  /\ \A c \in quiet : seen[c].submitted \in {Unread, submitted}

LEMMA OthersUndisturbed ==
  ASSUME Control, Undisturbed, Waking, completed' \in Nat,
         UNCHANGED <<seen, due, quiet, submitted>>,
         acked \subseteq acked', completed <= completed',
         \A t \in Threads : pc'[t] \in SubmitPCs => pc[t] \in SubmitPCs
  PROVE  Undisturbed'
<1>1. ASSUME NEW c \in Clients PROVE due[c] \subseteq acked' /\ seen[c].completed <= completed'
  <2>1. seen[c].completed \in Int /\ completed \in Int
    BY DEF Waking, Loads, Unread
  <2> QED
    BY <2>1 DEF Undisturbed
<1> QED
  BY <1>1 DEF Undisturbed

LEMMA UndisturbedInit == Init => Undisturbed
<1> SUFFICES ASSUME Init PROVE Undisturbed
  OBVIOUS
<1>1. quiet = {} /\ due = [c \in Clients |-> {}] /\ completed = 0
      /\ \A c \in Clients : seen[c].completed = -1
  BY DEF Init, NothingLoaded, Unread
<1> QED
  BY <1>1 DEF Undisturbed

LEMMA SubmitUndisturbed ==
  ASSUME Control, Undisturbed, Waking, NEW t \in Threads, SubmitNext(t)
  PROVE  Undisturbed'
<1>1. ASSUME NEW v \in Tasks, SubmitCall(t, v) PROVE Undisturbed'
  BY <1>1 DEF SubmitCall, counters, Undisturbed
<1>2. ASSUME SubmitCount(t) PROVE Undisturbed'
  <2>1. quiet = {}
    BY <1>2 DEF SubmitCount, Return, Step, SubmitPCs, Undisturbed
  <2>2. completed' = completed
    BY <1>2 DEF SubmitCount, CountSubmitted, Add, Waking
  <2> QED
    BY <1>2, <2>1, <2>2 DEF SubmitCount, Undisturbed
<1>3. ASSUME NEW p \in SubmitPCs, NEW q, Step(t, p, q),
             UNCHANGED <<seen, due, quiet, submitted, completed, acked>>
      PROVE  Undisturbed'
  <2>1. \A u \in Threads : pc'[u] \in SubmitPCs => pc[u] \in SubmitPCs
    BY <1>3, OneMoves DEF Control
  <2>2. completed' \in Nat /\ completed <= completed'
    BY <1>3 DEF Waking
  <2> QED
    BY <1>3, <2>1, <2>2, OthersUndisturbed
<1>4. ASSUME SubmitCheck(t) \/ SubmitPush(t) PROVE Undisturbed'
  <2>1. /\ Step(t, "submit_check", "submit_push") \/ Step(t, "submit_push", "submit_count")
        /\ UNCHANGED <<seen, due, quiet, submitted, completed, acked>>
    BY <1>4 DEF SubmitCheck, SubmitPush, counters, locals, history
  <2> QED
    BY <1>3, <2>1 DEF SubmitPCs
<1>5. ASSUME NEW p \in {"submit_check", "submit_push"}, NEW r, GiveUp(t, p, r) PROVE Undisturbed'
  <2>1. /\ Step(t, p, IF t \in Workers THEN "running" ELSE "idle") /\ p \in SubmitPCs
        /\ UNCHANGED <<seen, due, quiet, submitted, completed, acked>>
    BY <1>5 DEF GiveUp, Return, counters, history, SubmitPCs
  <2> QED
    BY <1>3, <2>1
<1> QED
  BY <1>1, <1>2, <1>4, <1>5
     DEF SubmitNext, SubmitStep, SubmitTooLate, SubmitRefused, SubmitNoMemory

LEMMA WorkerUndisturbed ==
  ASSUME Control, Undisturbed, Waking, NEW w \in Workers, WorkerNext(w)
  PROVE  Undisturbed'
<1>1. UNCHANGED <<seen, due, quiet, submitted, acked>>
  BY DEF WorkerNext, WorkerStep, WorkerPop, WorkerExit, WorkerCheck, WorkerBegin, TaskReturns,
         WorkerEnd, WorkerComplete, NotifyLock, Notify, Add, counters, locals, history, Waking
<1>2. completed' \in Nat /\ completed <= completed'
  <2>1. completed' = completed \/ completed' = completed + 1
    BY DEF WorkerNext, WorkerStep, WorkerPop, WorkerExit, WorkerCheck, WorkerBegin, TaskReturns,
           WorkerEnd, WorkerComplete, NotifyLock, Notify, Add, counters, Waking
  <2> QED
    BY <2>1 DEF Waking
<1>3. ASSUME NEW t \in Threads, pc'[t] \in SubmitPCs PROVE pc[t] \in SubmitPCs
  <2>1. CASE Notify(w)
    BY <1>3, <2>1 DEF Notify, Woken, WakeWaiters, SubmitPCs
  <2>2. ASSUME NEW p, NEW q, q \notin SubmitPCs, Step(w, p, q) PROVE pc[t] \in SubmitPCs
    BY <1>3, <2>2, OneMoves DEF Control, Threads
  <2> QED
    BY <2>1, <2>2 DEF WorkerNext, WorkerStep, WorkerPop, WorkerExit, WorkerCheck, WorkerBegin,
                      TaskReturns, WorkerEnd, WorkerComplete, NotifyLock, SubmitPCs
<1> QED
  BY <1>1, <1>2, <1>3, OthersUndisturbed

LEMMA ClientUndisturbed ==
  ASSUME Control, Undisturbed, Waking, quiet \subseteq Clients, due \in [Clients -> SUBSET Tasks],
         NEW c \in Clients, ClientNext(c)
  PROVE  Undisturbed'
<1>0. c \in Threads /\ c \notin Workers /\ seen[c].completed \in Int /\ completed \in Int
  BY DEF Threads, Waking, Loads, Unread
<1>1. ASSUME NEW p, NEW q, Step(c, p, q), q \notin SubmitPCs,
             UNCHANGED <<seen, due, quiet, submitted, completed, acked>>
      PROVE  Undisturbed'
  <2>1. \A u \in Threads : pc'[u] \in SubmitPCs => pc[u] \in SubmitPCs
    BY <1>0, <1>1, OneMoves DEF Control
  <2>2. completed' \in Nat /\ completed <= completed'
    BY <1>1 DEF Waking
  <2> QED
    BY <1>1, <2>1, <2>2, OthersUndisturbed
<1>2. ASSUME WaitLock(c) \/ SpuriousWakeup(c) \/ DestroyCall(c) PROVE Undisturbed'
  BY <1>1, <1>2 DEF WaitLock, SpuriousWakeup, DestroyCall, counters, locals, history, SubmitPCs
<1>3. ASSUME \/ DestroyCas(c) \/ DestroyLost(c) \/ DestroyShutdown(c)
             \/ DestroyJoin(c) \/ DestroyTerminate(c)
      PROVE  Undisturbed'
  BY <1>0, <1>1, <1>3 DEF DestroyCas, DestroyLost, DestroyShutdown, DestroyJoin, DestroyTerminate,
                    Return, counters, locals, history, SubmitPCs
<1>4. ASSUME CreateInit(c) \/ CreateReturn(c) \/ CreateFails(c) \/ AbortShutdown(c) \/ AbortJoin(c)
      PROVE  Undisturbed'
  BY <1>0, <1>1, <1>4 DEF CreateInit, CreateReturn, CreateFails, AbortShutdown, AbortJoin,
                    Return, counters, locals, history, SubmitPCs
<1>5. ASSUME NEW p, NEW r, FreePool(c, p, r) PROVE Undisturbed'
  BY <1>0, <1>1, <1>5 DEF FreePool, Return, counters, history, SubmitPCs
<1>6. ASSUME CreateWorker(c) PROVE Undisturbed'
  <2>1. \A u \in Threads : pc'[u] = pc[u] \/ pc'[u] = "pop"
    BY <1>6 DEF CreateWorker, At, Control, Places
  <2>2. UNCHANGED <<seen, due, quiet, submitted, completed, acked>>
    BY <1>6 DEF CreateWorker, counters, locals, history
  <2>3. completed' \in Nat /\ completed <= completed'
    BY <2>2 DEF Waking
  <2> QED
    BY <2>1, <2>2, <2>3, OthersUndisturbed DEF SubmitPCs
<1>7. ASSUME WaitCall(c) PROVE Undisturbed'
  <2>1. /\ UNCHANGED <<seen, submitted, completed, acked>>
        /\ due' = [due EXCEPT ![c] = acked]
        /\ quiet' = IF \E t \in Threads : pc[t] \in SubmitPCs
                    THEN quiet \ {c} ELSE quiet \cup {c}
        /\ Step(c, "idle", "wait_lock")
    BY <1>7 DEF WaitCall, counters, locals
  <2>2. pc[c] = "idle" /\ pc'[c] = "wait_lock" /\ \A u \in Threads \ {c} : pc'[u] = pc[u]
    BY <1>0, <2>1, OneMoves DEF Control
  <2>3. seen[c].submitted = Unread
    BY <2>2 DEF Waking, Loaded, NothingLoaded
  <2>4. quiet' # {} => \A t \in Threads : pc'[t] \notin SubmitPCs
    BY <2>1, <2>2 DEF Undisturbed, SubmitPCs
  <2>5. \A d \in quiet' : seen'[d].submitted \in {Unread, submitted'}
    BY <2>1, <2>3 DEF Undisturbed
  <2>6. \A d \in Clients : due'[d] \subseteq acked' /\ seen'[d].completed <= completed'
    BY <2>1 DEF Undisturbed
  <2> QED
    BY <2>4, <2>5, <2>6 DEF Undisturbed
<1>8. ASSUME WaitLoad(c) PROVE Undisturbed'
  <2>1. UNCHANGED <<due, quiet, submitted, completed, acked, pc>>
    BY <1>8 DEF WaitLoad, counters, history
  <2>2. /\ seen'[c].completed \in {seen[c].completed, completed}
        /\ seen'[c].submitted \in {seen[c].submitted, submitted}
        /\ \A d \in Clients \ {c} : seen'[d] = seen[d]
    BY <1>8 DEF WaitLoad, Waking
  <2>3. \A d \in Clients : seen'[d].completed <= completed
    BY <1>0, <2>2 DEF Undisturbed
  <2> QED
    BY <2>1, <2>2, <2>3 DEF Undisturbed
<1>9. ASSUME WaitSleep(c) \/ WaitReturn(c) PROVE Undisturbed'
  <2>1. /\ UNCHANGED <<submitted, completed, acked>>
        /\ seen' = [seen EXCEPT ![c] = NothingLoaded]
        /\ \E q \in {"wait_asleep", "idle"} : Step(c, "wait_load", q)
        /\ quiet' \subseteq quiet
        /\ due' = due \/ due' = [due EXCEPT ![c] = {}]
    BY <1>0, <1>9 DEF WaitSleep, WaitReturn, Return, counters, history
  <2>2. \A u \in Threads : pc'[u] \in SubmitPCs => pc[u] \in SubmitPCs
    BY <1>0, <2>1, OneMoves DEF Control, SubmitPCs
  <2>3. /\ seen'[c].submitted = Unread /\ seen'[c].completed = -1
        /\ \A d \in Clients \ {c} : seen'[d] = seen[d]
    BY <2>1 DEF Waking, NothingLoaded, Unread
  <2>4. \A d \in Clients : seen'[d].completed <= completed
    BY <2>3 DEF Undisturbed, Waking
  <2>5. \A d \in Clients : due'[d] \subseteq acked
    BY <2>1 DEF Undisturbed
  <2>6. \A d \in quiet' : seen'[d].submitted \in {Unread, submitted}
    BY <2>1, <2>3 DEF Undisturbed
  <2>7. quiet' # {} => \A t \in Threads : pc'[t] \notin SubmitPCs
    BY <2>1, <2>2 DEF Undisturbed
  <2> QED
    BY <2>1, <2>4, <2>5, <2>6, <2>7 DEF Undisturbed
<1> QED
  BY <1>2, <1>3, <1>4, <1>5, <1>6, <1>7, <1>8, <1>9
     DEF ClientNext, ClientStep, CreateStep, DestroyFree, AbortFree, CreateNoMemory

LEMMA UndisturbedInvariant == Spec => []Undisturbed
<1>1. Spec => []Waking
  BY ControlInvariant, WakingInit, WakingStep, PTL DEF Spec
<1>2. Control /\ Waking /\ TypeOK /\ Undisturbed /\ [Next]_vars => Undisturbed'
  <2> SUFFICES ASSUME Control, Waking, TypeOK, Undisturbed, [Next]_vars PROVE Undisturbed'
    OBVIOUS
  <2>1. ASSUME UNCHANGED vars PROVE Undisturbed'
    BY <2>1 DEF vars, counters, locals, history, Undisturbed
  <2> QED
    BY <2>1, SubmitUndisturbed, WorkerUndisturbed, ClientUndisturbed DEF Next, Freed, TypeOK
<1> QED
  BY ControlInvariant, TypeCorrect, UndisturbedInit, <1>1, <1>2, PTL DEF Spec

(* Nothing is being submitted, so equal counts leave nothing in the queue  *)
(* and nothing in a worker's hands.                                        *)
LEMMA QuietReturn ==
  ASSUME Waking, Tasking, Undisturbed, quiet \subseteq Clients,
         NEW c \in quiet, WaitReturn(c), NEW v \in due[c]
  PROVE  runs[v] = 1
<1>1. completed >= submitted
  <2>1. /\ seen[c].submitted = submitted /\ seen[c].completed <= completed
        /\ seen[c].completed >= seen[c].submitted
    BY DEF WaitReturn, Decided, Undisturbed
  <2>2. seen[c].completed \in Int /\ completed \in Int /\ submitted \in Int
    BY DEF Waking, Loads, Unread
  <2> QED
    BY <2>1, <2>2
<1>2. Submitting = {} /\ Cardinality(Submitting) = 0
  BY FS_EmptySet DEF Submitting, At, Undisturbed, SubmitPCs
<1>3. Len(queue) = 0 /\ Cardinality(Busy) = 0
  BY <1>1, <1>2, CountsOK, InOtherWords DEF Tasking, Counts
<1>4. Busy = {}
  <2>1. Busy \in SUBSET Workers
    BY DEF Busy
  <2> QED
    BY <1>3, <2>1, WorkersFinite, FS_EmptySet
<1>5. v \in Accepted /\ v \in Tasks
  BY DEF Undisturbed, Accepted, Tasking, Hold
<1>6. Positions(queue, v) = {} /\ Runners(v) = {}
  BY <1>3, <1>4 DEF Positions, Runners
<1>7. Cardinality(Positions(queue, v)) = 0 /\ Cardinality(Runners(v)) = 0
  BY <1>6, FS_EmptySet
<1>8. Cardinality(Positions(queue, v)) + Cardinality(Runners(v)) + runs[v] = 1
  BY <1>5, InOtherWords DEF Tasking
<1> QED
  BY <1>5, <1>7, <1>8 DEF Tasking, Hold

(* A thread_pool_wait that no submit overlaps returns only when every task *)
(* acknowledged before it has run.                                         *)
THEOREM QuietWaitIsExact == Spec => WaitExactWhenQuiet
<1>1. Waking /\ Tasking /\ Undisturbed /\ quiet \subseteq Clients =>
        \A c \in quiet : WaitReturn(c) => \A v \in due[c] : runs[v] = 1
  BY QuietReturn
<1>2. TypeOK => quiet \subseteq Clients
  BY DEF TypeOK
<1>3. Spec => []Waking
  BY ControlInvariant, WakingInit, WakingStep, PTL DEF Spec
<1> QED
  BY TasksInvariant, UndisturbedInvariant, TypeCorrect, <1>1, <1>2, <1>3, PTL
     DEF WaitExactWhenQuiet

-----------------------------------------------------------------------------
(* The pool implements PoolService: each step of the code is one step of   *)
(* the service or one that no caller can see.                              *)

Ops == [t \in Threads |-> CallAt(pc[t])]
Owed == [t \in Threads |-> IF t \in quiet THEN due[t] ELSE {}]

(* Where a worker has a task that has not returned.                        *)
HeldPCs == TaskPCs \ RunPCs

LEMMA CallsAt ==
  /\ CallAt("submit_check") = "submit" /\ CallAt("submit_push") = "submit"
  /\ CallAt("submit_count") = "accepted"
  /\ CallAt("wait_lock") = "wait" /\ CallAt("wait_load") = "wait"
  /\ CallAt("wait_asleep") = "wait" /\ CallAt("wait_woken") = "wait"
  /\ CallAt("destroy_cas") = "destroy"
  /\ CallAt("destroy_shutdown") = "teardown" /\ CallAt("destroy_join") = "teardown"
  /\ CallAt("destroy_terminate") = "teardown" /\ CallAt("destroy_free") = "teardown"
  /\ CallAt("create_alloc") = "create" /\ CallAt("create_start") = "create"
  /\ CallAt("abort_shutdown") = "undo" /\ CallAt("abort_join") = "undo"
  /\ CallAt("abort_free") = "undo"
  /\ CallAt("idle") = "idle" /\ \A p \in WorkerPCs : CallAt(p) = "idle"
BY DEF CallAt, WaitPCs, TeardownPCs, WorkerPCs

(* Whoever holds the task.                                                 *)
LEMMA RunningIs ==
  ASSUME Hold
  PROVE  Running = {task[w] : w \in {u \in Workers : pc[u] \in HeldPCs}}
<1>1. {u \in Busy : pc[u] \notin RunPCs} = {u \in Workers : pc[u] \in HeldPCs}
  BY DEF Hold, Busy, HeldPCs, TaskPCs, SubmitPCs, RunPCs
<1> QED
  BY <1>1 DEF Running, RunPCs

LEMMA RunningIsNext ==
  ASSUME Hold'
  PROVE  Running' = {task'[w] : w \in {u \in Workers : pc'[u] \in HeldPCs}}
<1>1. {u \in Busy' : pc'[u] \notin RunPCs} = {u \in Workers : pc'[u] \in HeldPCs}
  BY DEF Hold, Busy, HeldPCs, TaskPCs, SubmitPCs, RunPCs
<1> QED
  BY <1>1 DEF Running, RunPCs

LEMMA SameRunning ==
  ASSUME Hold, Hold', \A w \in Workers : pc'[w] \in HeldPCs <=> pc[w] \in HeldPCs,
         \A w \in Workers : pc[w] \in HeldPCs => task'[w] = task[w]
  PROVE  Running' = Running
<1>1. {u \in Workers : pc'[u] \in HeldPCs} = {u \in Workers : pc[u] \in HeldPCs}
  OBVIOUS
<1> QED
  BY <1>1, RunningIs, RunningIsNext

(* Each accepted task is queued, running or finished, and no other is.     *)
LEMMA KnownIs ==
  ASSUME Tasking
  PROVE  Service!Known = Accepted
<1>1. Accepted \subseteq Tasks
  BY DEF Accepted, At, Tasking, Hold, SubmitPCs
<1>2. Service!Known = {queue[i] : i \in 1..Len(queue)} \cup Running \cup Finished
  BY DEF Service!Known
<1>3. Service!Known \subseteq Tasks
  <2>1. Running \subseteq Tasks
    BY DEF Running, Busy, Tasking, Hold
  <2> QED
    BY <1>2, <2>1 DEF Finished, Tasking, Hold
<1>4. ASSUME NEW v \in Tasks
      PROVE  v \in Service!Known <=> v \in Accepted
  <2>1. /\ Cardinality(Positions(queue, v)) \in Nat /\ IsFiniteSet(Positions(queue, v))
        /\ Cardinality(Runners(v)) \in Nat /\ IsFiniteSet(Runners(v)) /\ runs[v] \in Nat
    <3>1. Runners(v) \in SUBSET Workers
      BY DEF Runners, Busy
    <3> QED
      BY <3>1, PositionsFinite, WorkersFinite DEF Tasking, Hold
  <2>2. Cardinality(Positions(queue, v)) + Cardinality(Runners(v)) + runs[v]
          = IF v \in Accepted THEN 1 ELSE 0
    BY InOtherWords DEF Tasking
  <2>3. /\ Cardinality(Positions(queue, v)) = 0 <=> Positions(queue, v) = {}
        /\ Cardinality(Runners(v)) = 0 <=> Runners(v) = {}
    BY <2>1, FS_EmptySet
  <2>4. v \in {queue[i] : i \in 1..Len(queue)} <=> Positions(queue, v) # {}
    BY DEF Positions
  <2>5. v \in Running <=> Runners(v) # {}
    BY DEF Running, Runners, RunPCs
  <2>6. v \in Finished <=> runs[v] # 0
    BY DEF Finished
  <2> QED
    BY <1>2, <2>1, <2>2, <2>3, <2>4, <2>5, <2>6
<1> QED
  BY <1>1, <1>3, <1>4

(* A step of one thread.                                                   *)
LEMMA OneCall ==
  ASSUME Control, Tasking, Hold', NEW t \in Threads, NEW p, NEW q, Step(t, p, q),
         UNCHANGED task, t \in Workers => (q \in HeldPCs <=> p \in HeldPCs)
  PROVE  /\ Life # "gone" /\ Running' = Running
         /\ Ops[t] = CallAt(p) /\ Ops' = [Ops EXCEPT ![t] = CallAt(q)]
<1>1. /\ pc[t] = p /\ pc'[t] = q /\ ~freed
      /\ \A u \in Threads \ {t} : pc'[u] = pc[u]
  BY OneMoves DEF Control
<1>2. Running' = Running
  BY <1>1, SameRunning DEF Tasking, Threads
<1> QED
  BY <1>1, <1>2 DEF Ops, Life

LEMMA Unseen ==
  ASSUME UNCHANGED <<fifo, Running, Finished, Life, Ops, arg, Owed, result>>
  PROVE  UNCHANGED Service!serviceVars
BY DEF Service!serviceVars, Service!fifo, fifo, Ops, Owed

(* A step inside a call, or outside of all, that moves no task.            *)
LEMMA Silent ==
  ASSUME Control, Tasking, Hold', NEW t \in Threads, NEW p, NEW q, Step(t, p, q),
         UNCHANGED task, t \in Workers => (q \in HeldPCs <=> p \in HeldPCs),
         CallAt(q) = CallAt(p), UNCHANGED <<fifo, Life, runs, arg, due, quiet, result>>
  PROVE  UNCHANGED Service!serviceVars
<1>1. Running' = Running /\ Ops' = [Ops EXCEPT ![t] = CallAt(p)] /\ Ops[t] = CallAt(p)
  BY OneCall
<1>2. Ops' = Ops
  BY <1>1 DEF Ops
<1>3. Finished' = Finished /\ Owed' = Owed
  BY DEF Finished, Owed
<1> QED
  BY <1>1, <1>2, <1>3, Unseen

-----------------------------------------------------------------------------
(* The calls that hand over a task.                                        *)
LEMMA SubmitCallSteps ==
  ASSUME Control, Tasking, Tasking', NEW t \in Threads, NEW v \in Tasks, SubmitCall(t, v)
  PROVE  Life # "gone" /\ Service!CallSubmit(t, v)
<1> DEFINE p == IF t \in Workers THEN "running" ELSE "idle"
<1>1. /\ Step(t, p, "submit_check") /\ CallAt(p) = "idle"
      /\ t \in Workers => ("submit_check" \in HeldPCs <=> p \in HeldPCs)
  BY CallsAt DEF SubmitCall, WorkerPCs, HeldPCs, TaskPCs, RunPCs, SubmitPCs
<1>2. /\ v \in Fresh /\ arg' = [arg EXCEPT ![t] = v] /\ quiet' = {}
      /\ UNCHANGED <<fifo, state, freed, task, result, runs>>
  BY DEF SubmitCall, gate
<1>3. /\ Life # "gone" /\ Running' = Running
      /\ Ops[t] = "idle" /\ Ops' = [Ops EXCEPT ![t] = "submit"]
  <2> HIDE DEF p
  <2> QED
    BY <1>1, <1>2, OneCall, CallsAt DEF Tasking
<1>4. v \notin Service!Known /\ \A u \in Threads : arg[u] # v
  BY <1>2, KnownIs DEF Fresh, Accepted, At
<1>5. UNCHANGED <<Finished, Life>> /\ Owed' = [u \in Threads |-> {}]
  BY <1>2 DEF Finished, Life, Owed
<1> QED
  BY <1>2, <1>3, <1>4, <1>5 DEF Service!CallSubmit, Service!Become, Service!fifo, fifo, Ops, Owed

LEMMA AcceptSteps ==
  ASSUME Control, Tasking, Tasking', NEW t \in Threads, SubmitPush(t)
  PROVE  Life # "gone" /\ Service!Accept(t)
<1>1. /\ Step(t, "submit_push", "submit_count") /\ Enqueue(arg[t])
      /\ UNCHANGED <<state, freed, task, arg, result, runs, due, quiet>>
  BY DEF SubmitPush, gate, locals, history
<1>2. "submit_count" \in HeldPCs /\ "submit_push" \in HeldPCs
  BY DEF HeldPCs, TaskPCs, RunPCs, SubmitPCs
<1>3. /\ Life # "gone" /\ Running' = Running
      /\ Ops[t] = "submit" /\ Ops' = [Ops EXCEPT ![t] = "accepted"]
  BY <1>1, <1>2, OneCall, CallsAt DEF Tasking
<1>4. UNCHANGED <<Finished, Life, Owed>>
  BY <1>1 DEF Finished, Life, Owed
<1> QED
  BY <1>1, <1>3, <1>4
     DEF Service!Accept, Service!Become, Service!Enqueue, Service!HasRoom, Enqueue, HasRoom, Ops, Owed

LEMMA AcknowledgeSteps ==
  ASSUME Control, Tasking, Tasking', NEW t \in Threads, SubmitCount(t)
  PROVE  Life # "gone" /\ Service!Acknowledge(t)
<1> DEFINE q == IF t \in Workers THEN "running" ELSE "idle"
<1>1. /\ Step(t, "submit_count", q) /\ CallAt(q) = "idle"
      /\ t \in Workers => (q \in HeldPCs <=> "submit_count" \in HeldPCs)
  BY CallsAt DEF SubmitCount, Return, WorkerPCs, HeldPCs, TaskPCs, RunPCs, SubmitPCs
<1>2. /\ result' = "SUCCESS" /\ arg' = [arg EXCEPT ![t] = NULL]
      /\ UNCHANGED <<fifo, state, freed, task, runs, due, quiet>>
  BY DEF SubmitCount, Return, gate
<1>3. /\ Life # "gone" /\ Running' = Running
      /\ Ops[t] = "accepted" /\ Ops' = [Ops EXCEPT ![t] = "idle"]
  <2> HIDE DEF q
  <2> QED
    BY <1>1, <1>2, OneCall, CallsAt DEF Tasking
<1>4. UNCHANGED <<Finished, Life, Owed>>
  BY <1>2 DEF Finished, Life, Owed
<1> QED
  BY <1>2, <1>3, <1>4
     DEF Service!Acknowledge, Service!Answer, Service!Become, Service!fifo, fifo, Ops, Owed

LEMMA RefuseSteps ==
  ASSUME Control, Tasking, Tasking', NEW t \in Threads,
         SubmitNoMemory(t) \/ SubmitTooLate(t) \/ SubmitRefused(t)
  PROVE  Life # "gone" /\ Service!Refuse(t)
<1> DEFINE q == IF t \in Workers THEN "running" ELSE "idle"
<1>1. PICK p \in {"submit_check", "submit_push"} : \E r : GiveUp(t, p, r)
                    /\ (r = "SYSTEM" \/ (r = "SHUTDOWN" /\ state # "RUNNING"))
  BY DEF SubmitNoMemory, SubmitTooLate, SubmitRefused
<1>2. PICK r : GiveUp(t, p, r) /\ (r = "SYSTEM" \/ (r = "SHUTDOWN" /\ state # "RUNNING"))
  BY <1>1
<1>3. /\ Step(t, p, q) /\ CallAt(p) = "submit" /\ CallAt(q) = "idle"
      /\ t \in Workers => (q \in HeldPCs <=> p \in HeldPCs)
  BY <1>2, CallsAt DEF GiveUp, Return, WorkerPCs, HeldPCs, TaskPCs, RunPCs, SubmitPCs
<1>4. /\ result' = r /\ arg' = [arg EXCEPT ![t] = NULL]
      /\ UNCHANGED <<fifo, state, freed, task, runs, due, quiet>>
  BY <1>2 DEF GiveUp, Return, gate, history
<1>5. /\ Life # "gone" /\ Running' = Running
      /\ Ops[t] = "submit" /\ Ops' = [Ops EXCEPT ![t] = "idle"]
  <2> HIDE DEF q
  <2> QED
    BY <1>3, <1>4, OneCall DEF Tasking
<1>6. UNCHANGED <<Finished, Life, Owed>>
  BY <1>4 DEF Finished, Life, Owed
<1>7. r = "SYSTEM" \/ (r = "SHUTDOWN" /\ Life # "open")
  BY <1>2 DEF Life
<1> QED
  BY <1>4, <1>5, <1>6, <1>7
     DEF Service!Refuse, Service!Answer, Service!Become, Service!fifo, fifo, Ops, Owed

-----------------------------------------------------------------------------
(* The calls of clients: wait.                                             *)
LEMMA Submitters ==
  ASSUME Control
  PROVE  Service!Submitting = {t \in Threads : pc[t] \in SubmitPCs}
<1>1. ASSUME NEW t \in Threads
      PROVE  CallAt(pc[t]) \in {"submit", "accepted"} <=> pc[t] \in SubmitPCs
  BY DEF CallAt, SubmitPCs, WaitPCs, TeardownPCs
<1> QED
  BY <1>1 DEF Service!Submitting

LEMMA ClientCall ==
  ASSUME Control, Tasking, Tasking', NEW c \in Clients, NEW p, NEW q, Step(c, p, q), UNCHANGED task
  PROVE  /\ Life # "gone" /\ Running' = Running
         /\ Ops[c] = CallAt(p) /\ Ops' = [Ops EXCEPT ![c] = CallAt(q)]
<1>1. c \in Threads /\ c \notin Workers
  BY DEF Threads
<1> QED
  BY <1>1, OneCall DEF Tasking

LEMMA CallWaitSteps ==
  ASSUME Control, Tasking, Tasking', TypeOK, NEW c \in Clients, WaitCall(c)
  PROVE  Life # "gone" /\ Service!CallWait(c)
<1>1. /\ Step(c, "idle", "wait_lock") /\ due' = [due EXCEPT ![c] = acked]
      /\ quiet' = IF \E t \in Threads : pc[t] \in SubmitPCs
                  THEN quiet \ {c} ELSE quiet \cup {c}
      /\ UNCHANGED <<fifo, state, freed, task, arg, result, runs>>
  BY DEF WaitCall, gate, locals
<1>2. /\ Life # "gone" /\ Running' = Running
      /\ Ops[c] = "idle" /\ Ops' = [Ops EXCEPT ![c] = "wait"]
  BY <1>1, ClientCall, CallsAt
<1>3. UNCHANGED <<Finished, Life>>
  BY <1>1 DEF Finished, Life
<1>4. Owed' = [Owed EXCEPT ![c] = IF Service!Submitting = {} THEN Service!Known ELSE {}]
  <2>1. \A d \in Threads \ {c} : Owed'[d] = Owed[d]
    BY <1>1 DEF Owed, TypeOK, Threads
  <2>2. c \in Threads /\ due'[c] = acked
    BY <1>1 DEF TypeOK, Threads
  <2>3. Owed'[c] = IF Service!Submitting = {} THEN Service!Known ELSE {}
    <3>1. CASE \E t \in Threads : pc[t] \in SubmitPCs
      BY <1>1, <2>2, <3>1, Submitters DEF Owed
    <3>2. CASE \A t \in Threads : pc[t] \notin SubmitPCs
      <4>1. Service!Submitting = {} /\ c \in quiet'
        BY <1>1, <3>2, Submitters
      <4>2. Accepted = acked
        BY <3>2 DEF Accepted, At, SubmitPCs
      <4> QED
        BY <2>2, <4>1, <4>2, KnownIs DEF Owed
    <3> QED
      BY <3>1, <3>2
  <2> QED
    BY <2>1, <2>2, <2>3 DEF Owed
<1> QED
  BY <1>1, <1>2, <1>3, <1>4
     DEF Service!CallWait, Service!Become, Service!fifo, fifo, Ops, Owed

LEMMA FinishWaitSteps ==
  ASSUME Control, Waking, Tasking, Tasking', Undisturbed, TypeOK, NEW c \in Clients, WaitReturn(c)
  PROVE  Life # "gone" /\ Service!FinishWait(c)
<1>1. /\ Step(c, "wait_load", "idle") /\ result' = "SUCCESS"
      /\ due' = [due EXCEPT ![c] = {}] /\ quiet' = quiet \ {c}
      /\ UNCHANGED <<fifo, state, freed, task, arg, runs>>
  BY DEF WaitReturn, Return
<1>2. /\ Life # "gone" /\ Running' = Running
      /\ Ops[c] = "wait" /\ Ops' = [Ops EXCEPT ![c] = "idle"]
  BY <1>1, ClientCall, CallsAt
<1>3. UNCHANGED <<Finished, Life>>
  BY <1>1 DEF Finished, Life
<1>4. Owed' = [Owed EXCEPT ![c] = {}]
  BY <1>1 DEF Owed, TypeOK, Threads
<1>5. Owed[c] \subseteq Finished
  <2>1. quiet \subseteq Clients /\ due[c] \subseteq Tasks
    BY DEF TypeOK
  <2>2. c \in quiet => \A v \in due[c] : runs[v] = 1
    BY <2>1, QuietReturn
  <2> QED
    BY <2>1, <2>2 DEF Owed, Finished, Threads
<1> QED
  BY <1>1, <1>2, <1>3, <1>4, <1>5
     DEF Service!FinishWait, Service!Answer, Service!Become, Service!fifo, fifo, Ops, Owed

(* The calls of clients: create and destroy.                               *)
LEMMA CallDestroySteps ==
  ASSUME Control, Tasking, Tasking', NEW c \in Clients, DestroyCall(c)
  PROVE  Life # "gone" /\ Service!CallDestroy(c)
<1>1. /\ Step(c, "idle", "destroy_cas")
      /\ UNCHANGED <<fifo, state, freed, task, arg, result, runs, due, quiet>>
  BY DEF DestroyCall, gate, locals, history
<1>2. /\ Life # "gone" /\ Running' = Running
      /\ Ops[c] = "idle" /\ Ops' = [Ops EXCEPT ![c] = "destroy"]
  BY <1>1, ClientCall, CallsAt
<1>3. UNCHANGED <<Finished, Life, Owed>>
  BY <1>1 DEF Finished, Life, Owed
<1> QED
  BY <1>1, <1>2, <1>3 DEF Service!CallDestroy, Service!Become, Service!fifo, fifo, Ops, Owed

LEMMA BeginEndSteps ==
  ASSUME Control, Tasking, Tasking', NEW c \in Clients, DestroyCas(c) \/ CreateFails(c)
  PROVE  Life # "gone" /\ Service!BeginEnd(c)
<1>1. PICK p \in {"destroy_cas", "create_start"} :
        Step(c, p, IF p = "destroy_cas" THEN "destroy_shutdown" ELSE "abort_shutdown")
  BY DEF DestroyCas, CreateFails
<1>2. /\ state' = "SHUTDOWN"
      /\ UNCHANGED <<fifo, freed, task, arg, result, runs, due, quiet>>
  BY DEF DestroyCas, CreateFails, locals, history
<1>3. /\ Life # "gone" /\ Running' = Running
      /\ Ops[c] = CallAt(p)
      /\ Ops' = [Ops EXCEPT ![c] =
                   CallAt(IF p = "destroy_cas" THEN "destroy_shutdown" ELSE "abort_shutdown")]
  BY <1>1, <1>2, ClientCall
<1>4. Life = "open" /\ Life' = "closing"
  <2>1. state = "RUNNING"
    BY <1>1 DEF DestroyCas, CreateFails, MayTearDown, Step, Control, Teardown
  <2>2. ~freed
    BY <1>1 DEF Step
  <2> QED
    BY <1>2, <2>1, <2>2 DEF Life
<1>5. UNCHANGED <<Finished, Owed>>
  BY <1>2 DEF Finished, Owed
<1>6. \/ Ops[c] = "destroy" /\ Ops' = [Ops EXCEPT ![c] = "teardown"]
      \/ Ops[c] = "create" /\ Ops' = [Ops EXCEPT ![c] = "undo"]
  BY <1>1, <1>3, CallsAt
<1> QED
  BY <1>2, <1>3, <1>4, <1>5, <1>6
     DEF Service!BeginEnd, Service!Become, Service!fifo, fifo, Ops, Owed

LEMMA AlreadyEndingSteps ==
  ASSUME Control, Tasking, Tasking', NEW c \in Clients, DestroyLost(c)
  PROVE  Life # "gone" /\ Service!AlreadyEnding(c)
<1>1. /\ Step(c, "destroy_cas", "idle") /\ result' = "SUCCESS" /\ state # "RUNNING"
      /\ UNCHANGED <<fifo, state, freed, task, arg, runs, due, quiet>>
  BY DEF DestroyLost, MayTearDown, Return, gate, history, Threads
<1>2. /\ Life # "gone" /\ Running' = Running
      /\ Ops[c] = "destroy" /\ Ops' = [Ops EXCEPT ![c] = "idle"]
  BY <1>1, ClientCall, CallsAt
<1>3. Life # "open" /\ UNCHANGED <<Finished, Life, Owed>>
  BY <1>1 DEF Finished, Life, Owed
<1> QED
  BY <1>1, <1>2, <1>3
     DEF Service!AlreadyEnding, Service!Answer, Service!Become, Service!fifo, fifo, Ops, Owed

LEMMA CloseQueueSteps ==
  ASSUME Control, Tasking, Tasking', NEW c \in Clients, DestroyShutdown(c) \/ AbortShutdown(c)
  PROVE  Life # "gone" /\ Service!CloseQueue(c)
<1>1. PICK p \in {"destroy_shutdown", "abort_shutdown"} :
        Step(c, p, IF p = "destroy_shutdown" THEN "destroy_join" ELSE "abort_join")
  BY DEF DestroyShutdown, AbortShutdown
<1>2. /\ Close
      /\ UNCHANGED <<state, freed, task, arg, result, runs, due, quiet>>
  BY DEF DestroyShutdown, AbortShutdown, gate, locals, history
<1>3. /\ Life # "gone" /\ Running' = Running
      /\ Ops[c] = CallAt(p)
      /\ Ops' = [Ops EXCEPT ![c] =
                   CallAt(IF p = "destroy_shutdown" THEN "destroy_join" ELSE "abort_join")]
  BY <1>1, <1>2, ClientCall
<1>4. Ops[c] \in {"teardown", "undo"} /\ Ops' = Ops
  BY <1>1, <1>3, CallsAt DEF Ops
<1>5. UNCHANGED <<Finished, Life, Owed>>
  BY <1>2 DEF Finished, Life, Owed
<1> QED
  BY <1>2, <1>3, <1>4, <1>5, <1>1
     DEF Service!CloseQueue, Service!Close, Close, Ops, Owed, Threads

LEMMA EndSteps ==
  ASSUME Control, Tasking, Tasking', Drained, NEW c \in Clients,
         DestroyFree(c) \/ AbortFree(c) \/ CreateNoMemory(c)
  PROVE  Life # "gone" /\ Service!End(c)
<1>1. PICK p \in {"create_alloc", "destroy_free", "abort_free"} :
        /\ Step(c, p, "idle") /\ Clear /\ freed' = TRUE
        /\ result' = IF p = "destroy_free" THEN "SUCCESS" ELSE "NULL"
        /\ UNCHANGED <<state, task, arg, runs, due, quiet>>
  BY DEF DestroyFree, AbortFree, CreateNoMemory, FreePool, Return, history, Threads
<1>2. /\ Life # "gone" /\ Running' = Running
      /\ Ops[c] = CallAt(p) /\ Ops' = [Ops EXCEPT ![c] = "idle"]
  BY <1>1, ClientCall, CallsAt
<1>3. pc[c] = p /\ ~freed
  BY <1>1 DEF Step
<1>4. queue = <<>> /\ UNCHANGED fifo
  BY <1>1, <1>3, NothingToFree DEF Clear, fifo
<1>5. p # "create_alloc" => shutdown
  BY <1>3 DEF Control, Teardown
<1>6. Running = {}
  <2>1. AllExited
    BY <1>3 DEF Control, Teardown
  <2>2. \A w \in Workers : pc[w] \notin HeldPCs
    BY <2>1 DEF AllExited, HeldPCs, TaskPCs, SubmitPCs
  <2> QED
    BY <2>2, RunningIs DEF Tasking
<1>7. Life' = "gone" /\ UNCHANGED <<Finished, Owed>>
  BY <1>1 DEF Life, Finished, Owed
<1>8. \/ shutdown /\ Ops[c] = "teardown" /\ result' = "SUCCESS"
      \/ shutdown /\ Ops[c] = "undo" /\ result' = "NULL"
      \/ Ops[c] = "create" /\ result' = "NULL"
  BY <1>1, <1>2, <1>5, CallsAt
<1> QED
  BY <1>1, <1>2, <1>4, <1>6, <1>7, <1>8
     DEF Service!End, Service!Answer, Service!Become, Service!fifo, fifo, Ops, Owed

LEMMA CreatedSteps ==
  ASSUME Control, Tasking, Tasking', NEW c \in Clients, CreateReturn(c)
  PROVE  Life # "gone" /\ Service!Created(c)
<1>1. /\ Step(c, "create_start", "idle") /\ result' = "SUCCESS"
      /\ UNCHANGED <<fifo, state, freed, task, arg, runs, due, quiet>>
  BY DEF CreateReturn, Return, gate, history, Threads
<1>2. /\ Life # "gone" /\ Running' = Running
      /\ Ops[c] = "create" /\ Ops' = [Ops EXCEPT ![c] = "idle"]
  BY <1>1, ClientCall, CallsAt
<1>3. Life = "open" /\ UNCHANGED <<Finished, Life, Owed>>
  BY <1>1 DEF Finished, Life, Owed, Step, Control, Teardown
<1> QED
  BY <1>1, <1>2, <1>3
     DEF Service!Created, Service!Answer, Service!Become, Service!fifo, fifo, Ops, Owed

-----------------------------------------------------------------------------
(* The workers.                                                            *)
LEMMA StartSteps ==
  ASSUME Control, Tasking, Tasking', NEW w \in Workers, WorkerPop(w)
  PROVE  Life # "gone" /\ Service!Start
<1>1. PICK v \in Tasks : Dequeue(v) /\ task' = [task EXCEPT ![w] = v]
  BY DEF WorkerPop
<1>2. /\ Step(w, "pop", "state_check")
      /\ UNCHANGED <<state, freed, arg, result, runs, due, quiet>>
  BY DEF WorkerPop, gate, history
<1>3. /\ pc[w] = "pop" /\ pc'[w] = "state_check" /\ ~freed /\ w \in Threads
      /\ \A u \in Threads \ {w} : pc'[u] = pc[u]
  BY <1>2, OneMoves DEF Control, Threads
<1>4. "pop" \notin HeldPCs /\ "state_check" \in HeldPCs
  BY DEF HeldPCs, TaskPCs, RunPCs, SubmitPCs
<1> DEFINE S == {u \in Workers : pc[u] \in HeldPCs}
<1>5. Running = {task[u] : u \in S} /\ w \notin S /\ S \subseteq Workers
  BY <1>3, <1>4, RunningIs DEF Tasking
<1>6. Running' = Running \cup {v}
  <2>1. {u \in Workers : pc'[u] \in HeldPCs} = S \cup {w}
    BY <1>3, <1>4 DEF Threads
  <2>2. task'[w] = v /\ \A u \in S : task'[u] = task[u]
    BY <1>1, <1>5 DEF Tasking, Hold
  <2>3. Running' = {task'[u] : u \in S \cup {w}}
    BY <2>1, RunningIsNext DEF Tasking
  <2> QED
    BY <1>5, <2>2, <2>3
<1>7. Cardinality(Running) < Cardinality(Workers)
  <2> DEFINE f == [u \in S |-> task[u]]
  <2>1. f \in Surjection(S, Running)
    <3>1. f \in [S -> Running]
      BY <1>5
    <3>2. \A x \in Running : \E u \in S : f[u] = x
      BY <1>5
    <3> QED
      BY <3>1, <3>2, Fun_IsSurj
  <2>2. IsFiniteSet(S) /\ Cardinality(S) \in Nat
    BY <1>5, WorkersFinite
  <2>3. Cardinality(Running) <= Cardinality(S) /\ IsFiniteSet(Running)
    BY <2>1, <2>2, FS_Surjection
  <2>4. Cardinality(S) < Cardinality(Workers)
    <3>1. S \in SUBSET Workers /\ S # Workers
      BY <1>5
    <3>2. Cardinality(S) <= Cardinality(Workers) /\ Cardinality(S) # Cardinality(Workers)
      BY <3>1, FS_Subset
    <3>3. Cardinality(S) \in Nat /\ Cardinality(Workers) \in Nat
      BY <3>1, WorkersFinite
    <3> HIDE DEF S
    <3> QED
      BY <3>2, <3>3
  <2>5. Cardinality(Running) \in Nat /\ Cardinality(Workers) \in Nat
    BY <2>3, WorkersFinite, FS_CardinalityType
  <2> QED
    BY <2>2, <2>3, <2>4, <2>5
<1>8. Ops' = Ops
  <2>1. \A u \in Threads : CallAt(pc'[u]) = CallAt(pc[u])
    BY <1>3, CallsAt DEF WorkerPCs
  <2> QED
    BY <2>1 DEF Ops
<1>9. Life # "gone" /\ UNCHANGED <<Finished, Life, Owed>>
  BY <1>2, <1>3 DEF Life, Finished, Owed
<1>10. Service!Cardinality(Running) = Cardinality(Running)
  BY ZenonT(30) DEF Service!Cardinality, Cardinality
<1> QED
  BY <1>1, <1>2, <1>6, <1>7, <1>8, <1>9, <1>10 DEF Service!Start, Service!Dequeue, Dequeue, Ops, Owed

(* A task that has run to its end is in nobody's hands any more.           *)
LEMMA FinishSteps ==
  ASSUME Control, Tasking, Tasking', NEW w \in Workers, TaskReturns(w)
  PROVE  Life # "gone" /\ Service!Finish
<1>1. PICK v : v = task[w]
  OBVIOUS
<1>2. /\ Step(w, "running", "active_dec") /\ runs' = [runs EXCEPT ![v] = @ + 1]
      /\ UNCHANGED <<fifo, state, freed, task, arg, result, due, quiet>>
  BY <1>1 DEF TaskReturns, gate, locals
<1>3. /\ pc[w] = "running" /\ pc'[w] = "active_dec" /\ ~freed /\ w \in Threads
      /\ \A u \in Threads \ {w} : pc'[u] = pc[u]
  BY <1>2, OneMoves DEF Control, Threads
<1>4. "active_dec" \notin HeldPCs /\ "running" \in HeldPCs /\ "running" \in TaskPCs
  BY DEF HeldPCs, TaskPCs, RunPCs, SubmitPCs
<1>5. v \in Tasks /\ v \in Running
  BY <1>1, <1>3, <1>4, RunningIs DEF Tasking, Hold
<1>6. /\ Running = {task[u] : u \in {x \in Workers : pc[x] \in HeldPCs}}
      /\ Running' = {task[u] : u \in {x \in Workers : pc'[x] \in HeldPCs}}
  BY <1>2, RunningIs, RunningIsNext DEF Tasking
<1>7. /\ Running' \subseteq Running
      /\ \A x \in Running : x # v => x \in Running'
  BY <1>1, <1>3, <1>4, <1>6 DEF Threads
<1>8. v \notin Running'
  <2>1. runs'[v] \in Nat /\ runs'[v] # 0
    BY <1>2, <1>5 DEF Tasking, Hold
  <2>2. Cardinality(Positions(queue', v)) \in Nat
    BY <1>5, PositionsFinite DEF Tasking, Hold
  <2>3. Cardinality(Positions(queue', v)) + Cardinality(Runners(v)') + runs'[v]
          = IF v \in Accepted' THEN 1 ELSE 0
    BY <1>5, InOtherWordsNext DEF Tasking
  <2>4. IsFiniteSet(Runners(v)') /\ Cardinality(Runners(v)') \in Nat
    <3>1. Runners(v)' \in SUBSET Workers
      BY DEF Runners, Busy
    <3> QED
      BY <3>1, WorkersFinite
  <2>5. Cardinality(Runners(v)') = 0
    <3> DEFINE a == Cardinality(Positions(queue', v))
               b == Cardinality(Runners(v)')
               n == runs'[v]
    <3>1. a \in Nat /\ b \in Nat /\ n \in Nat /\ n # 0 /\ a + b + n <= 1
      BY <2>1, <2>2, <2>3, <2>4
    <3> HIDE DEF a, b, n
    <3>2. b = 0
      BY <3>1
    <3> QED
      BY <3>2 DEF b
  <2>6. Runners(v)' = {}
    BY <2>4, <2>5, FS_EmptySet
  <2> QED
    BY <2>6 DEF Running, Runners, RunPCs
<1>9. Running' = Running \ {v}
  BY <1>7, <1>8
<1>10. Finished' = Finished \cup {v}
  <2>1. runs'[v] # 0 /\ \A u \in Tasks \ {v} : runs'[u] = runs[u]
    BY <1>2, <1>5 DEF Tasking, Hold
  <2> QED
    BY <1>5, <2>1 DEF Finished
<1>11. Ops' = Ops
  <2>1. \A u \in Threads : CallAt(pc'[u]) = CallAt(pc[u])
    BY <1>3, CallsAt DEF WorkerPCs
  <2> QED
    BY <2>1 DEF Ops
<1>12. Life # "gone" /\ UNCHANGED <<Life, Owed>>
  BY <1>2, <1>3 DEF Life, Owed
<1> QED
  BY <1>2, <1>5, <1>9, <1>10, <1>11, <1>12
     DEF Service!Finish, Service!fifo, fifo, Ops, Owed

LEMMA QuietWorker ==
  ASSUME Control, Tasking, Tasking', NEW w \in Workers,
         \/ WorkerExit(w) \/ WorkerCheck(w) \/ WorkerBegin(w) \/ WorkerEnd(w)
         \/ NotifyLock(w)
  PROVE  UNCHANGED Service!serviceVars
<1>1. w \in Threads /\ Hold'
  BY DEF Threads, Tasking
<1>2. UNCHANGED <<fifo, state, freed, task, runs, arg, due, quiet, result>>
  BY DEF WorkerExit, WorkerCheck, WorkerBegin, WorkerEnd, NotifyLock, gate, locals, history
<1>3. UNCHANGED Life
  BY <1>2 DEF Life
<1>4. PICK p \in {"pop", "state_check", "active_inc", "active_dec", "notify_lock"} :
        Step(w, p, CASE p = "pop" -> "exited" [] p = "state_check" -> "active_inc"
                     [] p = "active_inc" -> "running" [] p = "active_dec" -> "completed_inc"
                     [] p = "notify_lock" -> "notify")
  <2>1. ~WorkerCheck(w) \/ ~Quits
    BY DEF WorkerCheck, Step, Quits, Control, Teardown, AllExited
  <2> QED
    BY <2>1 DEF WorkerExit, WorkerCheck, WorkerBegin, WorkerEnd, NotifyLock
<1>5. PICK q : /\ Step(w, p, q) /\ q \in WorkerPCs /\ p \in WorkerPCs
               /\ q \in HeldPCs <=> p \in HeldPCs
  BY <1>4 DEF HeldPCs, TaskPCs, RunPCs, SubmitPCs, WorkerPCs
<1> QED
  BY <1>1, <1>2, <1>3, <1>5, CallsAt, Silent

LEMMA QuietWorkerCompletes ==
  ASSUME Control, Tasking, Tasking', NEW w \in Workers, WorkerComplete(w) \/ Notify(w)
  PROVE  UNCHANGED Service!serviceVars
<1>1. UNCHANGED <<fifo, state, freed, runs, arg, due, quiet, result>>
  BY DEF WorkerComplete, Notify, gate, locals, history
<1>2. \A t \in Threads :
        \/ pc'[t] = pc[t]
        \/ pc[t] \in {"completed_inc", "notify"} /\ pc'[t] \in {"notify_lock", "pop"}
        \/ pc[t] = "wait_asleep" /\ pc'[t] = "wait_woken"
  BY DEF WorkerComplete, Step, Notify, Woken, WakeWaiters, At, Control, Places
<1>3. UNCHANGED <<Ops, Finished, Life, Owed>>
  <2>1. \A t \in Threads : CallAt(pc'[t]) = CallAt(pc[t])
    BY <1>2, CallsAt DEF WorkerPCs
  <2> QED
    BY <1>1, <2>1 DEF Ops, Finished, Life, Owed
<1>4. Running' = Running
  <2>1. \A u \in Workers : pc'[u] \in HeldPCs <=> pc[u] \in HeldPCs
    BY <1>2 DEF HeldPCs, TaskPCs, RunPCs, SubmitPCs, Threads
  <2>2. \A u \in Workers : pc[u] \in HeldPCs => task'[u] = task[u]
    BY DEF WorkerComplete, Step, Notify, locals, HeldPCs, RunPCs, Tasking, Hold
  <2> QED
    BY <2>1, <2>2, SameRunning DEF Tasking
<1> QED
  BY <1>1, <1>3, <1>4, Unseen

-----------------------------------------------------------------------------
(* The steps of a client that are its own business.                        *)
LEMMA QuietClient ==
  ASSUME Control, Tasking, Tasking', NEW c \in Clients,
         \/ WaitLock(c) \/ WaitLoad(c) \/ WaitSleep(c) \/ SpuriousWakeup(c)
         \/ DestroyJoin(c) \/ DestroyTerminate(c)
         \/ CreateInit(c) \/ CreateWorker(c) \/ AbortJoin(c)
  PROVE  UNCHANGED Service!serviceVars
<1>1. c \in Threads /\ c \notin Workers /\ Hold'
  BY DEF Threads, Tasking
<1>2. UNCHANGED <<fifo, task, runs, arg, due, quiet, result, freed>>
  BY DEF WaitLock, WaitLoad, WaitSleep, SpuriousWakeup, DestroyJoin, DestroyTerminate,
         CreateInit, CreateWorker, AbortJoin, gate, locals, history
<1>3. UNCHANGED Life
  <2>1. CASE DestroyTerminate(c)
    <3>1. pc[c] = "destroy_terminate" /\ state' = "TERMINATED"
      BY <2>1 DEF DestroyTerminate, Step
    <3>2. state # "RUNNING"
      BY <3>1 DEF Control, Teardown, Ending, EndPCs, TeardownPCs
    <3> QED
      BY <1>2, <3>1, <3>2 DEF Life
  <2>2. CASE ~DestroyTerminate(c)
    <3>1. state' = state
      BY <2>2 DEF WaitLock, WaitLoad, WaitSleep, SpuriousWakeup, DestroyJoin,
                  CreateInit, CreateWorker, AbortJoin, gate
    <3> QED
      BY <1>2, <3>1 DEF Life
  <2> QED
    BY <2>1, <2>2
<1>4. ASSUME NEW p, NEW q, Step(c, p, q), CallAt(q) = CallAt(p)
      PROVE  UNCHANGED Service!serviceVars
  BY <1>1, <1>2, <1>3, <1>4, Silent
<1>5. ASSUME WaitLock(c) \/ WaitSleep(c) \/ SpuriousWakeup(c) PROVE UNCHANGED Service!serviceVars
  BY <1>4, <1>5, CallsAt DEF WaitLock, WaitSleep, SpuriousWakeup
<1>6. ASSUME DestroyJoin(c) \/ DestroyTerminate(c) \/ CreateInit(c) \/ AbortJoin(c)
      PROVE  UNCHANGED Service!serviceVars
  BY <1>4, <1>6, CallsAt DEF DestroyJoin, DestroyTerminate, CreateInit, AbortJoin
<1>7. ASSUME WaitLoad(c) PROVE UNCHANGED Service!serviceVars
  <2>1. pc' = pc
    BY <1>7 DEF WaitLoad
  <2>2. Running' = Running
    BY <1>1, <1>2, <2>1, SameRunning DEF Tasking
  <2>3. UNCHANGED <<Finished, Ops, Owed>>
    BY <1>2, <2>1 DEF Finished, Ops, Owed
  <2> QED
    BY <1>2, <1>3, <2>2, <2>3, Unseen
<1>8. ASSUME CreateWorker(c) PROVE UNCHANGED Service!serviceVars
  <2>1. PICK w \in At("unstarted") : pc' = [pc EXCEPT ![w] = "pop"]
    BY <1>8 DEF CreateWorker
  <2>2. w \in Threads /\ Step(w, "unstarted", "pop")
    BY <1>8, <2>1 DEF At, CreateWorker, Step
  <2>3. "unstarted" \notin HeldPCs /\ "pop" \notin HeldPCs /\ CallAt("pop") = CallAt("unstarted")
    BY CallsAt DEF HeldPCs, TaskPCs, SubmitPCs, WorkerPCs
  <2> QED
    BY <1>1, <1>2, <1>3, <2>2, <2>3, Silent
<1> QED
  BY <1>5, <1>6, <1>7, <1>8

LEMMA QuietSubmit ==
  ASSUME Control, Tasking, Tasking', NEW t \in Threads, SubmitCheck(t)
  PROVE  UNCHANGED Service!serviceVars
<1>1. /\ Step(t, "submit_check", "submit_push") /\ Hold'
      /\ UNCHANGED <<fifo, task, runs, arg, due, quiet, result, freed, state>>
  BY DEF SubmitCheck, gate, locals, history, Tasking
<1>2. "submit_check" \in HeldPCs /\ "submit_push" \in HeldPCs
  BY DEF HeldPCs, TaskPCs, RunPCs, SubmitPCs
<1>3. UNCHANGED Life
  BY <1>1 DEF Life
<1> QED
  BY <1>1, <1>2, <1>3, CallsAt, Silent

-----------------------------------------------------------------------------
LEMMA ServiceInitial == Init => Service!ServiceInit
<1> SUFFICES ASSUME Init PROVE Service!ServiceInit
  OBVIOUS
<1>1. PICK creator \in Clients :
        pc = [t \in Threads |-> IF t = creator THEN "create_alloc"
                                ELSE IF t \in Workers THEN "unstarted" ELSE "idle"]
  BY DEF Init
<1>2. Ops = [t \in Threads |-> IF t = creator THEN "create" ELSE "idle"]
  <2>1. \A t \in Threads : CallAt(pc[t]) = IF t = creator THEN "create" ELSE "idle"
    BY <1>1, CallsAt DEF WorkerPCs
  <2> QED
    BY <2>1 DEF Ops
<1>3. Running = {} /\ Finished = {} /\ Life = "open" /\ Owed = [t \in Threads |-> {}]
  BY DEF Init, Running, Busy, Finished, Life, Owed
<1>4. Service!FifoInit /\ arg = [t \in Threads |-> NULL] /\ result = "none"
  BY DEF Init, FifoInit, Service!FifoInit
<1> QED
  BY <1>1, <1>2, <1>3, <1>4 DEF Service!ServiceInit, Ops, Owed

Everything == Control /\ Waking /\ Drained /\ Tasking /\ Undisturbed /\ TypeOK

LEMMA ServiceStep ==
  Everything /\ Tasking' /\ [Next]_vars =>
    [Life # "gone" /\ Service!ServiceNext]_(Service!serviceVars)
<1> DEFINE Serves == Life # "gone" /\ Service!ServiceNext
           Stays == UNCHANGED Service!serviceVars
<1> SUFFICES ASSUME Everything, Tasking', [Next]_vars PROVE Serves \/ Stays
  OBVIOUS
<1> USE DEF Everything
<1>1. ASSUME NEW t \in Threads, SubmitNext(t) PROVE Serves \/ Stays
  <2>1. ASSUME NEW v \in Tasks, SubmitCall(t, v) PROVE Serves
    BY <2>1, SubmitCallSteps DEF Service!ServiceNext
  <2>2. SubmitPush(t) => Serves
    BY AcceptSteps DEF Service!ServiceNext
  <2>3. SubmitCount(t) => Serves
    BY AcknowledgeSteps DEF Service!ServiceNext
  <2>4. SubmitNoMemory(t) \/ SubmitTooLate(t) \/ SubmitRefused(t) => Serves
    BY RefuseSteps DEF Service!ServiceNext
  <2>5. SubmitCheck(t) => Stays
    BY QuietSubmit
  <2> HIDE DEF Serves, Stays
  <2> QED
    BY <1>1, <2>1, <2>2, <2>3, <2>4, <2>5 DEF SubmitNext, SubmitStep
<1>2. ASSUME NEW w \in Workers, WorkerNext(w) PROVE Serves \/ Stays
  <2>1. WorkerPop(w) => Serves
    BY StartSteps DEF Service!ServiceNext
  <2>2. TaskReturns(w) => Serves
    BY FinishSteps DEF Service!ServiceNext
  <2>3. ASSUME \/ WorkerExit(w) \/ WorkerCheck(w) \/ WorkerBegin(w) \/ WorkerEnd(w)
               \/ NotifyLock(w) \/ WorkerComplete(w) \/ Notify(w)
        PROVE  Stays
    BY <2>3, QuietWorker, QuietWorkerCompletes
  <2> HIDE DEF Serves, Stays
  <2> QED
    BY <1>2, <2>1, <2>2, <2>3 DEF WorkerNext, WorkerStep
<1>3. ASSUME NEW c \in Clients, ClientNext(c) PROVE Serves \/ Stays
  <2>0. c \in Threads
    BY DEF Threads
  <2>1. WaitCall(c) => Serves
    BY <2>0, CallWaitSteps DEF Service!ServiceNext
  <2>2. WaitReturn(c) => Serves
    BY <2>0, FinishWaitSteps DEF Service!ServiceNext
  <2>3. DestroyCall(c) => Serves
    BY <2>0, CallDestroySteps DEF Service!ServiceNext
  <2>4. DestroyCas(c) \/ CreateFails(c) => Serves
    BY <2>0, BeginEndSteps DEF Service!ServiceNext
  <2>5. DestroyLost(c) => Serves
    BY <2>0, AlreadyEndingSteps DEF Service!ServiceNext
  <2>6. DestroyShutdown(c) \/ AbortShutdown(c) => Serves
    BY <2>0, CloseQueueSteps DEF Service!ServiceNext
  <2>7. DestroyFree(c) \/ AbortFree(c) \/ CreateNoMemory(c) => Serves
    BY <2>0, EndSteps DEF Service!ServiceNext
  <2>8. CreateReturn(c) => Serves
    BY <2>0, CreatedSteps DEF Service!ServiceNext
  <2>9. ASSUME \/ WaitLock(c) \/ WaitLoad(c) \/ WaitSleep(c) \/ SpuriousWakeup(c)
               \/ DestroyJoin(c) \/ DestroyTerminate(c)
               \/ CreateInit(c) \/ CreateWorker(c) \/ AbortJoin(c)
        PROVE  Stays
    BY <2>9, QuietClient
  <2> HIDE DEF Serves, Stays
  <2> QED
    BY <1>3, <2>1, <2>2, <2>3, <2>4, <2>5, <2>6, <2>7, <2>8, <2>9
       DEF ClientNext, ClientStep, CreateStep
<1>4. ASSUME UNCHANGED vars PROVE Stays
  <2>1. UNCHANGED <<fifo, pc, task, runs, state, freed, arg, due, quiet, result>>
    BY <1>4 DEF vars, gate, locals, history
  <2> QED
    BY <2>1, Unseen DEF Ops, Running, Busy, Finished, Life, Owed
<1> HIDE DEF Serves, Stays
<1> QED
  BY <1>1, <1>2, <1>3, <1>4 DEF Next, Freed

(* For any workers, clients and tasks, the code of the pool is the service *)
(* of PoolService.                                                         *)
THEOREM Refinement == Spec => ImplementsPoolService
<1>1. Spec => []Waking
  BY ControlInvariant, WakingInit, WakingStep, PTL DEF Spec
<1>2. Spec => []Everything
  BY <1>1, ControlInvariant, TasksInvariant, UndisturbedInvariant, TypeCorrect, PTL DEF Everything
<1>3. Everything => Tasking
  BY DEF Everything
<1> QED
  BY <1>2, <1>3, ServiceInitial, ServiceStep, PTL
     DEF Spec, ImplementsPoolService, Service!ServiceSpec
=============================================================================
