----------------------------- MODULE MemoryPool -----------------------------
(***************************************************************************)
(* The object pool of src/src/memory.c: memory_pool_create, _destroy,      *)
(* _alloc, _free, _allocated and _available.  The free objects are linked  *)
(* through their own first word.  Every operation on a pool holds its      *)
(* mutex from its first access to its last, so it is one step.             *)
(*                                                                         *)
(* The callers' duty: they free only what they were given, once; nobody is *)
(* inside another call when the pool is destroyed; and the objects they    *)
(* ask for fit into the address space (Fits), which the code never checks. *)
(***************************************************************************)
EXTENDS Integers, FiniteSets

CONSTANTS
  Word,       (* a size_t counts modulo Word                                *)
  PtrSize,    (* sizeof(pool_node_t), sizeof(void* ): a power of two        *)
  Sizes, Counts, (* the arguments of memory_pool_create                     *)
  NULL,
  Data        (* what callers write to their objects                        *)

(* A word is narrower than the address space, and both are powers of two.  *)
ASSUME MemoryPoolAssumption ==
  /\ Word \in Nat \ {0} /\ PtrSize \in Nat \ {0} /\ 2 * PtrSize <= Word
  /\ Sizes \subseteq 1..Word-1 /\ Counts \subseteq 1..Word-1
  /\ NULL \notin Int /\ Data \notin Int \cup {NULL}

VARIABLES
  pool,       (* memory_size, object_size, total_count and, as history, the *)
              (* object size that was asked for; NULL: there is no pool     *)
  first_word, (* per object, by its distance from pool->memory: node->next  *)
              (* in the list, whatever the caller has written there outside *)
  free_list,
  allocated_count,
  taken       (* history: the objects in the hands of the callers           *)

vars == <<pool, first_word, free_list, allocated_count, taken>>

-----------------------------------------------------------------------------
(* Sizes.  RoundUp is (n + PtrSize - 1) & ~(PtrSize - 1).                   *)

RoundUp(n) == LET m == (n + PtrSize - 1) % Word IN m - (m % PtrSize)

ObjectSizeUnrounded(size) == IF size < PtrSize THEN PtrSize ELSE size

ObjectSize(size) == RoundUp(IF size < PtrSize THEN PtrSize ELSE size)

(* Nothing overflows. *)
Fits(size, count) ==
  size + PtrSize - 1 < Word /\ ObjectSize(size) * count < Word

(* The objects of the pool, lowest address first. *)
Objects == {i * pool.object_size : i \in 0..pool.total_count-1}

Available == (pool.total_count - allocated_count) % Word

TypeOK ==
  /\ \/ pool = NULL
     \/ /\ pool \in [memory_size : 1..Word-1, object_size : 1..Word-1,
                     total_count : 1..Word-1, asked : 1..Word-1]
        /\ first_word \in [Objects -> Objects \cup {NULL, Data}]
        /\ free_list \in Objects \cup {NULL}
        /\ taken \subseteq Objects
        /\ Available \in 0..pool.total_count
  /\ allocated_count \in 0..Word-1

Init ==
  /\ pool = NULL /\ first_word = <<>> /\ free_list = NULL
  /\ allocated_count = 0 /\ taken = {}

-----------------------------------------------------------------------------
(* When malloc or pthread_mutex_init fails nothing is left behind. *)
Create(size, count) ==
  LET s == ObjectSize(size)
      new == [memory_size |-> (s * count) % Word, object_size |-> s,
              total_count |-> count, asked |-> size]
  IN
  /\ pool = NULL /\ Fits(size, count)
  /\ pool' = new
  /\ first_word' = [o \in {i * s : i \in 0..count-1} |->
                      IF o = 0 THEN NULL ELSE o - s]
  /\ free_list' = (count - 1) * s
  /\ allocated_count' = 0
  /\ UNCHANGED taken

(* Also with objects still in the callers' hands: they are gone. *)
Destroy ==
  /\ pool # NULL
  /\ pool' = NULL /\ first_word' = <<>> /\ free_list' = NULL
  /\ allocated_count' = 0 /\ taken' = {}

(* The list is empty: alloc returns NULL. *)
AllocFails ==
  /\ pool # NULL /\ free_list = NULL
  /\ UNCHANGED vars

(* The caller may write to the object as soon as it has it. *)
Alloc ==
  /\ pool # NULL /\ free_list # NULL
  /\ free_list' = first_word[free_list]
  /\ allocated_count' = (allocated_count + 1) % Word
  /\ first_word' = [first_word EXCEPT ![free_list] = Data]
  /\ taken' = taken \cup {free_list}
  /\ UNCHANGED pool

LinkAfterHead(o) ==
  /\ free_list' = o
  /\ first_word' = [first_word EXCEPT ![o] = o]

LinkInFront(o) ==
  /\ first_word' = [first_word EXCEPT ![o] = free_list]
  /\ free_list' = o

Free(o) ==
  /\ pool # NULL /\ o \in taken
  /\ LinkInFront(o)
  /\ allocated_count' = (allocated_count - 1) % Word
  /\ taken' = taken \ {o}
  /\ UNCHANGED pool

Next ==
  \/ \E size \in Sizes, count \in Counts : Create(size, count)
  \/ Destroy \/ AllocFails \/ Alloc
  \/ \E o \in taken : Free(o)

Spec == Init /\ [][Next]_vars

-----------------------------------------------------------------------------
(* The object after n steps along the list. *)
Walk ==
  LET walk[n \in Nat] ==
        IF n = 0 THEN free_list
        ELSE IF walk[n - 1] \in Objects THEN first_word[walk[n - 1]] ELSE NULL
  IN  walk

(* The free list ends after as many objects as memory_pool_available says, *)
(* and they are the objects that no caller has: memory_pool_alloc never    *)
(* gives the same object to two callers, never follows a word that a       *)
(* caller has written, and fails only when every object is given out       *)
(* (memory.c:134-143, 155-158).                                            *)
FreeListSound ==
  pool # NULL =>
    /\ Walk[Available] = NULL
    /\ {Walk[n] : n \in 0..Available-1} = Objects \ taken
    /\ Cardinality(taken) = allocated_count

(* Every object lies in the allocation, is as large as was asked for and   *)
(* large enough and aligned for the link, up to the largest pool whose     *)
(* size a size_t can count (memory.c:76-87, 106-112).                     *)
ObjectsFit ==
  pool # NULL =>
    /\ pool.object_size >= pool.asked /\ pool.object_size >= PtrSize
    /\ \A o \in Objects :
         /\ o % PtrSize = 0
         /\ o + pool.object_size <= pool.memory_size
=============================================================================
