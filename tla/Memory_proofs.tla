---------------------------- MODULE Memory_proofs ----------------------------
(***************************************************************************)
(* Proofs about the two allocators of memory.c, for every size, count and  *)
(* width of a size_t: the free list of the object pool, the fit of its     *)
(* objects, and the pages of the guarded stacks.                           *)
(***************************************************************************)
EXTENDS Memory, FiniteSetTheorems, WellFoundedInduction, TLAPS

(* Arithmetic with a divisor that is a parameter. *)
LEMMA DivMod ==
  ASSUME NEW n \in Nat, NEW d \in Nat \ {0}
  PROVE  /\ n \div d \in Nat /\ n % d \in 0..d-1
         /\ n = d * (n \div d) + (n % d)
OBVIOUS

LEMMA MultipleMod ==
  ASSUME NEW d \in Nat \ {0}, NEW q \in Nat
  PROVE  (d * q) % d = 0 /\ (q * d) % d = 0
OBVIOUS

LEMMA SmallMod ==
  ASSUME NEW n \in Nat, NEW d \in Nat \ {0}, n < d
  PROVE  n % d = n
OBVIOUS

LEMMA TimesOrder ==
  ASSUME NEW a \in Nat, NEW b \in Nat, NEW d \in Nat \ {0}
  PROVE  /\ a * d \in Nat
         /\ a * d < b * d <=> a < b
         /\ a * d <= b * d <=> a <= b
         /\ a * d = b * d <=> a = b
OBVIOUS

LEMMA TimesNext ==
  ASSUME NEW a \in Int, NEW d \in Int
  PROVE  (a + 1) * d = a * d + d /\ (a - 1) * d = a * d - d
OBVIOUS

-----------------------------------------------------------------------------
(* Induction over the natural numbers, for the members of a set.           *)
LEMMA LeastElement ==
  ASSUME NEW T \in SUBSET Nat, T # {}
  PROVE  \E x \in T : \A y \in T : x <= y
<1> DEFINE R == OpToRel(<, Nat)
<1>1. IsWellFoundedOn(R, Nat)
  BY NatLessThanWellFounded
<1>2. \A x, y \in Nat : <<x, y>> \in R <=> x < y
  BY DEF OpToRel
<1> HIDE DEF R
<1>3. PICK x \in T : \A y \in T : ~ (<<y, x>> \in R)
  BY <1>1, WFMin
<1>4. ASSUME NEW y \in T
      PROVE  x <= y
  <2>1. x \in Nat /\ y \in Nat
    OBVIOUS
  <2>2. ~ (y < x)
    BY <1>2, <1>3, <2>1
  <2> QED
    BY <2>1, <2>2
<1> QED
  BY <1>4

LEMMA SetInduction ==
  ASSUME NEW S, 0 \in S, \A n \in Nat : n \in S => n+1 \in S
  PROVE  Nat \subseteq S
<1> SUFFICES ASSUME Nat \ S # {}
             PROVE  FALSE
  OBVIOUS
<1>1. PICK x \in Nat \ S : \A y \in Nat \ S : x <= y
  BY LeastElement
<1>2. x # 0 /\ x-1 \in Nat
  BY <1>1
<1>3. x-1 \in S
  BY <1>1, <1>2
<1> QED
  BY <1>1, <1>2, <1>3

-----------------------------------------------------------------------------
(* The object pool.                                                        *)

(* The list f, of length L: what follows its member i, or comes first. *)
Link(f, L, i) == IF i <= L THEN f[i] ELSE NULL

(* f is the free list in order: it starts at free_list, is linked by the    *)
(* first words, holds no object twice and exactly those that no caller has. *)
IsFreeList(f, L) ==
  /\ f \in [1..L -> Objects]
  /\ free_list = Link(f, L, 1)
  /\ \A i \in 1..L : first_word[f[i]] = Link(f, L, i+1)
  /\ \A i, j \in 1..L : f[i] = f[j] => i = j
  /\ {f[i] : i \in 1..L} = Objects \ taken

(* What memory_pool_create laid down and nothing changes afterwards. *)
Layout ==
  /\ pool \in [memory_size : 1..Word-1, object_size : 1..Word-1,
               total_count : 1..Word-1, asked : 1..Word-1]
  /\ pool.memory_size = pool.total_count * pool.object_size
  /\ pool.object_size >= pool.asked /\ pool.object_size >= PtrSize
  /\ \E q \in Nat : pool.object_size = PtrSize * q

FreeCount == pool.total_count - allocated_count

PoolInv ==
  /\ IsFiniteSet(taken) /\ Cardinality(taken) = allocated_count
  /\ pool = NULL => taken = {}
  /\ pool # NULL =>
       /\ Layout
       /\ first_word \in [Objects -> Objects \cup {NULL, Data}]
       /\ taken \subseteq Objects
       /\ allocated_count \in 0..pool.total_count
       /\ \E n, f : n = FreeCount /\ IsFreeList(f, n)

LEMMA PoolInit == Init => PoolInv
BY FS_EmptySet DEF Init, PoolInv

(* The size an object gets: as large as asked for, a multiple of PtrSize.  *)
LEMMA ObjectSizeFits ==
  ASSUME NEW size \in Sizes, size + PtrSize - 1 < Word
  PROVE  /\ ObjectSize(size) \in Nat
         /\ ObjectSize(size) >= size /\ ObjectSize(size) >= PtrSize
         /\ \E q \in Nat : ObjectSize(size) = PtrSize * q
<1> DEFINE n == IF size < PtrSize THEN PtrSize ELSE size
           m == n + PtrSize - 1
<1>1. /\ Word \in Nat \ {0} /\ PtrSize \in Nat \ {0} /\ size \in Nat
      /\ size >= 1 /\ 2 * PtrSize <= Word
  BY MemoryPoolAssumption
<1>2. n \in Nat /\ n >= size /\ n >= PtrSize /\ m \in Nat /\ m < Word
  BY <1>1
<1>3. ObjectSize(size) = m - (m % PtrSize)
  <2>1. m % Word = m
    BY <1>1, <1>2, SmallMod
  <2> QED
    BY <2>1 DEF ObjectSize, RoundUp
<1>4. m = n + PtrSize - 1
  OBVIOUS
<1> HIDE DEF m, n
<1>5. /\ m \div PtrSize \in Nat /\ m % PtrSize \in 0..PtrSize-1
      /\ m = PtrSize * (m \div PtrSize) + (m % PtrSize)
  BY <1>1, <1>2, DivMod
<1>6. PICK q \in Nat, r \in 0..PtrSize-1 :
        ObjectSize(size) = m - r /\ m = PtrSize * q + r
  BY <1>3, <1>5
<1>7. ObjectSize(size) = PtrSize * q
  BY <1>1, <1>2, <1>6
<1>8. ObjectSize(size) \in Nat /\ ObjectSize(size) >= n
  BY <1>1, <1>2, <1>4, <1>6
<1> QED
  BY <1>1, <1>2, <1>6, <1>7, <1>8

-----------------------------------------------------------------------------
(* memory_pool_create links all objects, the last one first. *)
LEMMA CreatePool ==
  ASSUME PoolInv, NEW size \in Sizes, NEW count \in Counts, Create(size, count)
  PROVE  PoolInv'
<1>1. /\ Word \in Nat \ {0} /\ PtrSize \in Nat \ {0}
      /\ size \in 1..Word-1 /\ count \in 1..Word-1
  BY MemoryPoolAssumption
<1>2. size + PtrSize - 1 < Word
  BY DEF Create, Fits
<1>3. PICK s : s = ObjectSize(size)
  OBVIOUS
<1>4. /\ s * count < Word /\ pool = NULL
      /\ pool' = [memory_size |-> (s * count) % Word, object_size |-> s,
                  total_count |-> count, asked |-> size]
      /\ first_word' = [o \in {i * s : i \in 0..count-1} |->
                          IF o = 0 THEN NULL ELSE o - s]
      /\ free_list' = (count - 1) * s
      /\ allocated_count' = 0 /\ taken' = taken
  BY <1>3 DEF Create, Fits
<1>5. s \in Nat /\ s >= size /\ s >= PtrSize /\ \E q \in Nat : s = PtrSize * q
  BY <1>1, <1>2, <1>3, ObjectSizeFits
<1>6. /\ s * count = count * s /\ s * count \in Nat /\ s \in Nat \ {0}
      /\ s <= s * count
  BY <1>1, <1>5
<1>7. (s * count) % Word = count * s
  <2>1. \A n \in Nat : n < Word => n % Word = n
    BY <1>1, SmallMod
  <2> QED
    BY <1>4, <1>6, <2>1
<1>8. taken' = {} /\ IsFiniteSet(taken') /\ Cardinality(taken') = 0
  BY <1>4, FS_EmptySet DEF PoolInv
<1>9. Objects' = {i * s : i \in 0..count-1}
  BY <1>4 DEF Objects
<1>10. Layout'
  <2>1. s \in 1..Word-1 /\ count * s \in 1..Word-1
    BY <1>1, <1>4, <1>5, <1>6
  <2>2. /\ pool'.memory_size = count * s /\ pool'.object_size = s
        /\ pool'.total_count = count /\ pool'.asked = size
    BY <1>4, <1>7
  <2>3. pool' \in [memory_size : 1..Word-1, object_size : 1..Word-1,
                   total_count : 1..Word-1, asked : 1..Word-1]
    BY <1>1, <1>4, <1>7, <2>1
  <2> QED
    BY <1>5, <2>2, <2>3 DEF Layout
<1>11. PICK f : f = [i \in 1..count |-> (count - i) * s]
  OBVIOUS
<1>12. ASSUME NEW i \in 1..count
       PROVE  /\ f[i] = (count - i) * s /\ f[i] \in Objects'
              /\ first_word'[f[i]] = Link(f, count, i+1)
  <2>1. count - i \in 0..count-1 /\ f[i] = (count - i) * s
    BY <1>1, <1>11
  <2>2. f[i] \in Objects'
    BY <1>9, <2>1
  <2>3. first_word'[f[i]] = IF f[i] = 0 THEN NULL ELSE f[i] - s
    BY <1>4, <1>9, <2>2
  <2>4. f[i] = 0 <=> i = count
    <3>1. (count - i) * s = 0 * s <=> count - i = 0
      BY <1>6, <2>1, TimesOrder
    <3> QED
      BY <1>1, <1>6, <2>1, <3>1
  <2>5. CASE i = count
    BY <1>1, <2>1, <2>2, <2>3, <2>4, <2>5 DEF Link
  <2>6. CASE i # count
    <3>1. i+1 \in 1..count /\ count - (i+1) = (count - i) - 1
      BY <1>1, <2>6
    <3>2. ((count - i) - 1) * s = (count - i) * s - s
      BY <1>1, <1>6, TimesNext
    <3>3. f[i+1] = f[i] - s
      BY <1>11, <2>1, <3>1, <3>2
    <3> QED
      BY <1>1, <2>1, <2>2, <2>3, <2>4, <2>6, <3>1, <3>3 DEF Link
  <2> QED
    BY <2>5, <2>6
<1>13. first_word' \in [Objects' -> Objects' \cup {NULL, Data}]
  <2>1. ASSUME NEW o \in Objects'
        PROVE  first_word'[o] \in Objects' \cup {NULL}
    <3>1. PICK k \in 0..count-1 : o = k * s
      BY <1>9
    <3>2. CASE k = 0
      BY <1>4, <1>6, <1>9, <3>1, <3>2
    <3>3. CASE k # 0
      <4>1. k-1 \in 0..count-1 /\ (k-1) * s = k * s - s
        BY <1>1, <1>6, <3>3, TimesNext
      <4> QED
        BY <1>4, <1>9, <3>1, <4>1
    <3> QED
      BY <3>2, <3>3
  <2> QED
    BY <1>4, <1>9, <2>1
<1>14. IsFreeList(f, count)'
  <2>1. f \in [1..count -> Objects']
    BY <1>11, <1>12
  <2>2. free_list' = Link(f, count, 1)
    BY <1>1, <1>4, <1>11 DEF Link
  <2>3. \A i, j \in 1..count : f[i] = f[j] => i = j
    <3> SUFFICES ASSUME NEW i \in 1..count, NEW j \in 1..count, f[i] = f[j]
                 PROVE  i = j
      OBVIOUS
    <3>1. count - i \in Nat /\ count - j \in Nat /\ (count - i) * s = (count - j) * s
      BY <1>1, <1>12
    <3>2. count - i = count - j
      BY <1>6, <3>1, TimesOrder
    <3> QED
      BY <1>1, <3>2
  <2>4. {f[i] : i \in 1..count} = Objects'
    <3>1. ASSUME NEW k \in 0..count-1
          PROVE  k * s \in {f[i] : i \in 1..count}
      <4>1. count - k \in 1..count /\ count - (count - k) = k
        BY <1>1
      <4>2. f[count - k] = k * s
        BY <1>12, <4>1
      <4> QED
        BY <4>1, <4>2
    <3> QED
      BY <1>9, <1>12, <3>1
  <2>5. \A i \in 1..count : first_word'[f[i]] = Link(f, count, i+1)
    BY <1>12
  <2> QED
    BY <1>8, <2>1, <2>2, <2>3, <2>4, <2>5 DEF IsFreeList, Link
<1>15. FreeCount' = count
  BY <1>1, <1>4 DEF FreeCount
<1>16. (\E n, g : n = FreeCount /\ IsFreeList(g, n))'
  BY <1>14, <1>15, Zenon
<1>17. allocated_count' \in 0..pool'.total_count /\ taken' \subseteq Objects'
  BY <1>1, <1>4, <1>8
<1> QED
  BY <1>4, <1>8, <1>10, <1>13, <1>16, <1>17 DEF PoolInv

LEMMA DestroyPool == PoolInv /\ Destroy => PoolInv'
BY FS_EmptySet DEF Destroy, PoolInv

(* What the invariant says of a pool, with its list f and the length n. *)
LEMMA PoolFacts ==
  ASSUME PoolInv, pool # NULL
  PROVE  /\ Layout /\ first_word \in [Objects -> Objects \cup {NULL, Data}]
         /\ taken \subseteq Objects /\ allocated_count \in 0..pool.total_count
         /\ IsFiniteSet(taken) /\ Cardinality(taken) = allocated_count
         /\ Word \in Nat \ {0} /\ pool.total_count \in 1..Word-1
         /\ \E n, f : /\ n \in Nat /\ n = pool.total_count - allocated_count
                      /\ IsFreeList(f, n)
BY MemoryPoolAssumption DEF PoolInv, Layout, FreeCount

(* memory_pool_alloc: the first object leaves the list. *)
LEMMA AllocObject ==
  ASSUME PoolInv, Alloc
  PROVE  PoolInv'
<1>1. pool # NULL /\ free_list # NULL /\ pool' = pool
  BY DEF Alloc
<1>2. /\ Layout /\ first_word \in [Objects -> Objects \cup {NULL, Data}]
      /\ taken \subseteq Objects /\ allocated_count \in 0..pool.total_count
      /\ IsFiniteSet(taken) /\ Cardinality(taken) = allocated_count
      /\ Word \in Nat \ {0} /\ pool.total_count \in 1..Word-1
  BY <1>1, PoolFacts
<1>3. PICK n, f : /\ n \in Nat /\ n = pool.total_count - allocated_count
                  /\ IsFreeList(f, n)
  BY <1>1, PoolFacts
<1>4. /\ f \in [1..n -> Objects] /\ free_list = Link(f, n, 1)
      /\ \A i \in 1..n : first_word[f[i]] = Link(f, n, i+1)
      /\ \A i, j \in 1..n : f[i] = f[j] => i = j
      /\ {f[i] : i \in 1..n} = Objects \ taken
  BY <1>3 DEF IsFreeList
<1>5. n >= 1 /\ free_list = f[1] /\ f[1] \in Objects \ taken
  <2>1. n >= 1 /\ 1 \in 1..n
    BY <1>1, <1>3, <1>4 DEF Link
  <2> QED
    BY <1>4, <2>1 DEF Link
<1>6. /\ allocated_count' = allocated_count + 1
      /\ allocated_count' \in 0..pool'.total_count /\ FreeCount' = n - 1
  <2>1. allocated_count + 1 \in Nat /\ allocated_count + 1 < Word
    BY <1>2, <1>3, <1>5
  <2>2. allocated_count' = allocated_count + 1
    BY <1>2, <2>1, SmallMod DEF Alloc
  <2> QED
    BY <1>1, <1>2, <1>3, <1>5, <2>2 DEF FreeCount
<1>7. /\ free_list' = first_word[f[1]] /\ taken' = taken \cup {f[1]}
      /\ first_word' = [first_word EXCEPT ![f[1]] = Data]
  BY <1>5 DEF Alloc
<1>8. Objects' = Objects /\ Layout'
  BY <1>1, <1>2 DEF Objects, Layout
<1>9. IsFiniteSet(taken') /\ Cardinality(taken') = allocated_count'
      /\ taken' \subseteq Objects'
  BY <1>2, <1>5, <1>6, <1>7, <1>8, FS_AddElement
<1>10. first_word' \in [Objects' -> Objects' \cup {NULL, Data}]
  BY <1>2, <1>7, <1>8
<1>11. PICK g : g = [i \in 1..n-1 |-> f[i+1]]
  OBVIOUS
<1>12. \A i \in 1..n-1 : i+1 \in 1..n /\ g[i] = f[i+1] /\ g[i] # f[1]
  <2> SUFFICES ASSUME NEW i \in 1..n-1
               PROVE  i+1 \in 1..n /\ g[i] = f[i+1] /\ g[i] # f[1]
    OBVIOUS
  <2>1. i+1 \in 1..n /\ 1 \in 1..n /\ i+1 # 1
    BY <1>3
  <2> QED
    BY <1>4, <1>11, <2>1
<1>13. \A i \in 1..n : Link(g, n-1, i) = Link(f, n, i+1)
  BY <1>3, <1>12 DEF Link
<1>14. g \in [1..n-1 -> Objects]
  BY <1>4, <1>11, <1>12
<1>15. IsFreeList(g, n-1)'
  <2>1. free_list' = Link(g, n-1, 1)
    BY <1>3, <1>4, <1>5, <1>7, <1>13
  <2>2. ASSUME NEW i \in 1..n-1
        PROVE  first_word'[g[i]] = Link(g, n-1, i+1)
    <3>1. /\ g[i] \in Objects /\ g[i] # f[1] /\ g[i] = f[i+1]
          /\ i+1 \in 1..n
      BY <1>12, <1>14
    <3>2. first_word'[g[i]] = Link(f, n, (i+1)+1)
      BY <1>2, <1>4, <1>7, <3>1
    <3> QED
      BY <1>13, <3>1, <3>2
  <2>3. \A i, j \in 1..n-1 : g[i] = g[j] => i = j
    <3> SUFFICES ASSUME NEW i \in 1..n-1, NEW j \in 1..n-1, g[i] = g[j]
                 PROVE  i = j
      OBVIOUS
    <3>1. i+1 = j+1
      BY <1>4, <1>12
    <3> QED
      BY <3>1
  <2>4. {g[i] : i \in 1..n-1} = Objects \ taken'
    <3>1. ASSUME NEW o \in Objects \ taken'
          PROVE  o \in {g[i] : i \in 1..n-1}
      <4>1. PICK i \in 1..n : o = f[i]
        BY <1>4, <1>7
      <4>2. i # 1 /\ i-1 \in 1..n-1 /\ (i-1)+1 = i
        BY <1>3, <1>7, <4>1
      <4> QED
        BY <1>12, <4>1, <4>2
    <3>2. ASSUME NEW i \in 1..n-1
          PROVE  g[i] \in Objects \ taken'
      BY <1>4, <1>7, <1>12, <1>14
    <3> QED
      BY <3>1, <3>2
  <2> QED
    BY <1>8, <1>14, <2>1, <2>2, <2>3, <2>4 DEF IsFreeList, Link
<1>16. (\E m, h : m = FreeCount /\ IsFreeList(h, m))'
  BY <1>6, <1>15, Zenon
<1> QED
  BY <1>1, <1>6, <1>8, <1>9, <1>10, <1>16 DEF PoolInv

(* memory_pool_free: the object becomes the first of the list. *)
LEMMA FreeObject ==
  ASSUME PoolInv, NEW o \in taken, Free(o)
  PROVE  PoolInv'
<1>1. pool # NULL /\ pool' = pool
  BY DEF Free
<1>2. /\ Layout /\ first_word \in [Objects -> Objects \cup {NULL, Data}]
      /\ taken \subseteq Objects /\ allocated_count \in 0..pool.total_count
      /\ IsFiniteSet(taken) /\ Cardinality(taken) = allocated_count
      /\ Word \in Nat \ {0} /\ pool.total_count \in 1..Word-1
  BY <1>1, PoolFacts
<1>3. PICK n, f : /\ n \in Nat /\ n = pool.total_count - allocated_count
                  /\ IsFreeList(f, n)
  BY <1>1, PoolFacts
<1>4. /\ f \in [1..n -> Objects] /\ free_list = Link(f, n, 1)
      /\ \A i \in 1..n : first_word[f[i]] = Link(f, n, i+1)
      /\ \A i, j \in 1..n : f[i] = f[j] => i = j
      /\ {f[i] : i \in 1..n} = Objects \ taken
  BY <1>3 DEF IsFreeList
<1>5. /\ free_list' = o /\ taken' = taken \ {o} /\ o \in Objects
      /\ first_word' = [first_word EXCEPT ![o] = free_list]
  BY <1>2 DEF Free, LinkInFront
<1>6. allocated_count >= 1 /\ IsFiniteSet(taken') /\ Cardinality(taken') = allocated_count - 1
  <2>1. /\ Cardinality(taken') = Cardinality(taken) - 1 /\ IsFiniteSet(taken')
    BY <1>2, <1>5, FS_RemoveElement
  <2>2. Cardinality(taken') \in Nat
    BY <2>1, FS_CardinalityType
  <2> QED
    BY <1>2, <2>1, <2>2
<1>7. /\ allocated_count' = allocated_count - 1
      /\ allocated_count' \in 0..pool'.total_count /\ FreeCount' = n + 1
  <2>1. allocated_count - 1 \in Nat /\ allocated_count - 1 < Word
    BY <1>2, <1>6
  <2>2. allocated_count' = allocated_count - 1
    BY <1>2, <2>1, SmallMod DEF Free
  <2> QED
    BY <1>1, <1>2, <1>3, <1>6, <2>2 DEF FreeCount
<1>8. Objects' = Objects /\ Layout'
  BY <1>1, <1>2 DEF Objects, Layout
<1>9. free_list \in Objects \cup {NULL}
  BY <1>3, <1>4 DEF Link
<1>10. /\ first_word' \in [Objects' -> Objects' \cup {NULL, Data}]
       /\ taken' \subseteq Objects'
  BY <1>2, <1>5, <1>8, <1>9
<1>11. PICK g : g = [i \in 1..n+1 |-> IF i = 1 THEN o ELSE f[i-1]]
  OBVIOUS
<1>12. g[1] = o /\ \A i \in 1..n : i+1 \in 1..n+1 /\ g[i+1] = f[i] /\ g[i+1] # o
  BY <1>3, <1>4, <1>11
<1>13. \A i \in 1..n+1 : i = 1 \/ (i-1 \in 1..n /\ (i-1)+1 = i)
  BY <1>3
<1>14. \A i \in 1..n+1 : Link(g, n+1, i+1) = Link(f, n, i)
  BY <1>3, <1>12 DEF Link
<1>15. g \in [1..n+1 -> Objects]
  BY <1>4, <1>5, <1>11, <1>13
<1>16. IsFreeList(g, n+1)'
  <2>1. free_list' = Link(g, n+1, 1)
    BY <1>3, <1>5, <1>12 DEF Link
  <2>2. ASSUME NEW i \in 1..n+1
        PROVE  first_word'[g[i]] = Link(g, n+1, i+1)
    <3>1. CASE i = 1
      BY <1>2, <1>4, <1>5, <1>12, <1>14, <3>1
    <3>2. CASE i # 1
      <4>1. i-1 \in 1..n /\ (i-1)+1 = i /\ g[i] = f[i-1] /\ g[i] # o
        BY <1>12, <1>13, <3>2
      <4>2. first_word'[g[i]] = Link(f, n, i)
        BY <1>2, <1>4, <1>5, <4>1
      <4> QED
        BY <1>14, <4>2
    <3> QED
      BY <3>1, <3>2
  <2>3. \A i, j \in 1..n+1 : g[i] = g[j] => i = j
    <3> SUFFICES ASSUME NEW i \in 1..n+1, NEW j \in 1..n+1, g[i] = g[j]
                 PROVE  i = j
      OBVIOUS
    <3>1. CASE i = 1 \/ j = 1
      BY <1>12, <1>13, <3>1
    <3>2. CASE i # 1 /\ j # 1
      <4>1. /\ i-1 \in 1..n /\ j-1 \in 1..n /\ (i-1)+1 = i /\ (j-1)+1 = j
        BY <1>13, <3>2
      <4>2. i-1 = j-1
        BY <1>4, <1>12, <4>1
      <4> QED
        BY <4>1, <4>2
    <3> QED
      BY <3>1, <3>2
  <2>4. {g[i] : i \in 1..n+1} = Objects \ taken'
    <3>1. ASSUME NEW b \in Objects \ taken'
          PROVE  b \in {g[i] : i \in 1..n+1}
      <4>1. CASE b = o
        BY <1>3, <1>12, <4>1
      <4>2. CASE b # o
        <5>1. PICK i \in 1..n : b = f[i]
          BY <1>4, <1>5, <4>2
        <5> QED
          BY <1>12, <5>1
      <4> QED
        BY <4>1, <4>2
    <3>2. ASSUME NEW i \in 1..n+1
          PROVE  g[i] \in Objects \ taken'
      <4>1. CASE i = 1
        BY <1>5, <1>12, <4>1
      <4>2. CASE i # 1
        <5>1. i-1 \in 1..n /\ g[i] = f[i-1]
          BY <1>12, <1>13, <4>2
        <5> QED
          BY <1>4, <1>5, <5>1
      <4> QED
        BY <4>1, <4>2
    <3> QED
      BY <3>1, <3>2
  <2> QED
    BY <1>8, <1>15, <2>1, <2>2, <2>3, <2>4 DEF IsFreeList, Link
<1>17. (\E m, h : m = FreeCount /\ IsFreeList(h, m))'
  BY <1>7, <1>16, Zenon
<1> QED
  BY <1>1, <1>6, <1>7, <1>8, <1>10, <1>17 DEF PoolInv

LEMMA PoolStep == PoolInv /\ [Next]_vars => PoolInv'
<1> SUFFICES ASSUME PoolInv, [Next]_vars
             PROVE  PoolInv'
  OBVIOUS
<1>1. CASE \E size \in Sizes, count \in Counts : Create(size, count)
  BY <1>1, CreatePool
<1>2. CASE Destroy
  BY <1>2, DestroyPool
<1>3. CASE AllocFails \/ UNCHANGED vars
  <2>1. UNCHANGED vars
    BY <1>3 DEF AllocFails
  <2>2. /\ Objects' = Objects /\ FreeCount' = FreeCount /\ Layout' = Layout
        /\ \A f, n : IsFreeList(f, n)' <=> IsFreeList(f, n)
    BY <2>1 DEF vars, Objects, FreeCount, Layout, IsFreeList, Link
  <2> QED
    BY <2>1, <2>2, Zenon DEF vars, PoolInv
<1>4. CASE Alloc
  BY <1>4, AllocObject
<1>5. CASE \E o \in taken : Free(o)
  BY <1>5, FreeObject
<1> QED
  BY <1>1, <1>2, <1>3, <1>4, <1>5 DEF Next

-----------------------------------------------------------------------------
(* The function of Walk, whose definition refers to itself, is the one that *)
(* satisfies its equation: there is one, and two of them agree everywhere.  *)
LEMMA WalkIs ==
  ASSUME PoolInv, pool # NULL, NEW n \in Nat, NEW f, IsFreeList(f, n)
  PROVE  \A i \in Nat : Walk[i] = Link(f, n, i+1)
<1>1. /\ f \in [1..n -> Objects] /\ free_list = Link(f, n, 1)
      /\ \A i \in 1..n : first_word[f[i]] = Link(f, n, i+1)
  BY DEF IsFreeList
<1>2. NULL \notin Objects
  <2>1. NULL \notin Int /\ pool.object_size \in Int
    BY PoolFacts, MemoryPoolAssumption DEF Layout
  <2> QED
    BY <2>1 DEF Objects
<1>3. PICK w : w = [i \in Nat |-> Link(f, n, i+1)]
  OBVIOUS
<1>4. w = [i \in Nat |->
             IF i = 0 THEN free_list
             ELSE IF w[i-1] \in Objects THEN first_word[w[i-1]] ELSE NULL]
  <2> SUFFICES ASSUME NEW i \in Nat
               PROVE  w[i] = IF i = 0 THEN free_list
                             ELSE IF w[i-1] \in Objects THEN first_word[w[i-1]]
                             ELSE NULL
    BY <1>3
  <2>1. CASE i = 0
    BY <1>1, <1>3, <2>1
  <2>2. CASE i # 0 /\ i <= n
    <3>1. i-1 \in Nat /\ (i-1)+1 = i /\ i \in 1..n
      BY <2>2
    <3>2. w[i-1] = f[i] /\ w[i] = Link(f, n, i+1)
      BY <1>3, <3>1, <2>2 DEF Link
    <3> QED
      BY <1>1, <2>2, <3>1, <3>2
  <2>3. CASE i > n /\ i # 0
    <3>1. i-1 \in Nat /\ (i-1)+1 = i /\ ~ (i <= n) /\ ~ (i+1 <= n)
      BY <2>3
    <3>2. w[i-1] = NULL /\ w[i] = NULL
      BY <1>3, <3>1 DEF Link
    <3> QED
      BY <1>2, <2>3, <3>2
  <2> QED
    BY <2>1, <2>2, <2>3
<1>5. Walk = [i \in Nat |->
                IF i = 0 THEN free_list
                ELSE IF Walk[i-1] \in Objects THEN first_word[Walk[i-1]] ELSE NULL]
  BY <1>4, Zenon DEF Walk
<1>6. PICK v : v = Walk
  OBVIOUS
<1>7. Nat \subseteq {i \in Nat : v[i] = w[i]}
  <2> DEFINE S == {i \in Nat : v[i] = w[i]}
  <2>1. 0 \in S
    BY <1>4, <1>5, <1>6
  <2>2. ASSUME NEW i \in Nat, i \in S
        PROVE  i+1 \in S
    <3>1. i+1 \in Nat /\ i+1 # 0 /\ (i+1)-1 = i
      OBVIOUS
    <3>2. v[i+1] = IF v[i] \in Objects THEN first_word[v[i]] ELSE NULL
      BY <1>5, <1>6, <3>1
    <3>3. w[i+1] = IF w[i] \in Objects THEN first_word[w[i]] ELSE NULL
      BY <1>4, <3>1
    <3> QED
      BY <2>2, <3>1, <3>2, <3>3
  <2> HIDE DEF S
  <2>3. Nat \subseteq S
    BY <2>1, <2>2, SetInduction
  <2> QED
    BY <2>3 DEF S
<1> QED
  BY <1>3, <1>6, <1>7

LEMMA PoolInvFreeListSound == PoolInv => FreeListSound
<1> SUFFICES ASSUME PoolInv, pool # NULL
             PROVE  /\ Walk[Available] = NULL
                    /\ {Walk[i] : i \in 0..Available-1} = Objects \ taken
                    /\ Cardinality(taken) = allocated_count
  BY DEF FreeListSound
<1>1. PICK n, f : /\ n \in Nat /\ n = pool.total_count - allocated_count
                  /\ IsFreeList(f, n)
  BY PoolFacts
<1>2. Available = n
  <2>1. Word \in Nat \ {0} /\ n < Word
    BY <1>1, PoolFacts
  <2> QED
    BY <1>1, <2>1, SmallMod DEF Available
<1>3. PICK w : w = Walk
  OBVIOUS
<1>4. \A i \in Nat : w[i] = Link(f, n, i+1)
  BY <1>1, <1>3, WalkIs
<1>5. w[n] = NULL
  BY <1>1, <1>4 DEF Link
<1>6. {w[i] : i \in 0..n-1} = {f[i] : i \in 1..n}
  <2>1. ASSUME NEW i \in 0..n-1
        PROVE  w[i] \in {f[j] : j \in 1..n}
    <3>1. i \in Nat /\ i+1 \in 1..n /\ w[i] = f[i+1]
      BY <1>1, <1>4 DEF Link
    <3> QED
      BY <3>1
  <2>2. ASSUME NEW j \in 1..n
        PROVE  f[j] \in {w[i] : i \in 0..n-1}
    <3>1. j-1 \in 0..n-1 /\ j-1 \in Nat /\ (j-1)+1 = j
      BY <1>1
    <3>2. w[j-1] = f[j]
      BY <1>1, <1>4, <3>1 DEF Link
    <3> QED
      BY <3>1, <3>2
  <2> QED
    BY <2>1, <2>2
<1>7. {f[i] : i \in 1..n} = Objects \ taken
  BY <1>1 DEF IsFreeList
<1> QED
  BY <1>2, <1>3, <1>5, <1>6, <1>7, PoolFacts

LEMMA PoolInvObjectsFit == PoolInv => ObjectsFit
<1> SUFFICES ASSUME PoolInv, pool # NULL
             PROVE  /\ pool.object_size >= pool.asked
                    /\ pool.object_size >= PtrSize
                    /\ \A o \in Objects :
                         /\ o % PtrSize = 0
                         /\ o + pool.object_size <= pool.memory_size
  BY DEF ObjectsFit
<1>1. PICK q \in Nat : pool.object_size = PtrSize * q
  BY PoolFacts DEF Layout
<1>2. PICK s, c : s = pool.object_size /\ c = pool.total_count
  OBVIOUS
<1>3. /\ PtrSize \in Nat \ {0} /\ s \in Nat \ {0} /\ c \in Nat \ {0}
      /\ s = PtrSize * q /\ pool.memory_size = c * s
      /\ s >= pool.asked /\ s >= PtrSize
  <2>1. /\ pool.object_size \in 1..Word-1 /\ pool.total_count \in 1..Word-1
        /\ pool.memory_size = pool.total_count * pool.object_size
        /\ pool.object_size >= pool.asked /\ pool.object_size >= PtrSize
    BY PoolFacts DEF Layout
  <2>2. Word \in Nat \ {0} /\ PtrSize \in Nat \ {0}
    BY MemoryPoolAssumption
  <2> QED
    BY <1>1, <1>2, <2>1, <2>2
<1>4. ASSUME NEW o \in Objects
      PROVE  o % PtrSize = 0 /\ o + s <= c * s
  <2>1. PICK k \in 0..c-1 : o = k * s
    BY <1>2 DEF Objects
  <2>2. k \in Nat
    BY <1>3
  <2>3. k * q \in Nat /\ o = PtrSize * (k * q)
    BY <1>1, <1>3, <2>1, <2>2
  <2>4. o % PtrSize = 0
    BY <1>3, <2>3, MultipleMod
  <2>5. k+1 \in Nat /\ k+1 <= c /\ (k+1) * s = k * s + s
    BY <1>3, <2>1, TimesNext
  <2>6. (k+1) * s <= c * s
    BY <1>3, <2>5, TimesOrder
  <2> QED
    BY <2>1, <2>4, <2>5, <2>6
<1> QED
  BY <1>2, <1>3, <1>4

LEMMA PoolInvTypeOK == PoolInv => TypeOK
<1> SUFFICES ASSUME PoolInv
             PROVE  TypeOK
  OBVIOUS
<1>1. CASE pool = NULL
  BY <1>1, FS_EmptySet, MemoryPoolAssumption DEF PoolInv, TypeOK
<1>2. CASE pool # NULL
  <2>1. PICK n, f : /\ n \in Nat /\ n = pool.total_count - allocated_count
                    /\ IsFreeList(f, n)
    BY <1>2, PoolFacts
  <2>2. Available \in 0..pool.total_count
    <3>1. Word \in Nat \ {0} /\ n < Word /\ n \in 0..pool.total_count
      BY <1>2, <2>1, PoolFacts
    <3> QED
      BY <2>1, <3>1, SmallMod DEF Available
  <2>3. free_list \in Objects \cup {NULL}
    BY <2>1 DEF IsFreeList, Link
  <2>4. allocated_count \in 0..Word-1
    BY <1>2, PoolFacts
  <2> QED
    BY <1>2, <2>2, <2>3, <2>4, PoolFacts DEF TypeOK, Layout
<1> QED
  BY <1>1, <1>2

-----------------------------------------------------------------------------
(* The guarded stacks.                                                     *)

(* A range of whole pages. *)
PageRun(p, k) == {j \in PageNos : p <= j /\ j < p + k}

LEMMA PageRange ==
  ASSUME NEW p \in Nat, NEW k \in Nat, NEW a, NEW l,
         a = p * PageSize, l = k * PageSize
  PROVE  PagesFrom(a, l) = PageRun(p, k)
<1>1. PageSize \in Nat \ {0} /\ \A j \in PageNos : j \in Nat
  BY StackAllocAssumption DEF PageNos
<1>2. (p + k) * PageSize = a + l
  BY <1>1
<1> SUFFICES ASSUME NEW j \in PageNos
             PROVE  /\ a <= j * PageSize <=> p <= j
                    /\ j * PageSize < a + l <=> j < p + k
  BY DEF PagesFrom, PageRun
<1>3. p * PageSize <= j * PageSize <=> p <= j
  BY <1>1, TimesOrder
<1>4. j * PageSize < (p + k) * PageSize <=> j < p + k
  BY <1>1, TimesOrder
<1> QED
  BY <1>2, <1>3, <1>4

(* A record of a stack of k pages whose guard is page p. *)
Shape(s, p, k) ==
  /\ p \in Nat /\ k \in Nat /\ p + k + 1 <= Pages
  /\ s.base = p * PageSize /\ s.stack_size = k * PageSize
  /\ s.total_size = k * PageSize + PageSize
  /\ s.stack_top = p * PageSize + PageSize + k * PageSize

(* Room for what was asked, as far as the limit allows. *)
Roomy(s, size) ==
  s.stack_size >= MinSize /\ (s.stack_size >= size \/ size > MaxSize)

StackInv ==
  /\ StackTypeOK
  /\ \A a \in Live : Roomy(alloc[a], asked[a]) /\ \E p, k : Shape(alloc[a], p, k)
  /\ \A a, b \in Live : a # b =>
       /\ GuardPages(a) \cap GuardPages(b) = {}
       /\ StackPages(a) \cap StackPages(b) = {}
  /\ MappedExactly

LEMMA ShapePages ==
  ASSUME NEW s, NEW p, NEW k, Shape(s, p, k)
  PROVE  /\ PagesFrom(s.base, PageSize) = PageRun(p, 1)
         /\ PagesFrom(s.base + PageSize, s.stack_size) = PageRun(p+1, k)
         /\ PagesFrom(s.base, s.total_size) = PageRun(p, k+1)
         /\ p \in PageNos
         /\ PageRun(p, k+1) = PageRun(p, 1) \cup PageRun(p+1, k)
<1>1. PageSize \in Nat \ {0} /\ Pages \in Nat /\ \A j \in PageNos : j \in Nat
  BY StackAllocAssumption DEF PageNos
<1>2. /\ p \in Nat /\ k \in Nat /\ s.base = p * PageSize
      /\ s.stack_size = k * PageSize /\ s.total_size = k * PageSize + PageSize
  BY DEF Shape
<1>3. /\ p+1 \in Nat /\ k+1 \in Nat /\ (k+1) * PageSize = k * PageSize + PageSize
      /\ (p+1) * PageSize = p * PageSize + PageSize /\ 1 * PageSize = PageSize
  BY <1>1, <1>2, TimesNext
<1>4. PagesFrom(s.base, PageSize) = PageRun(p, 1)
  BY <1>1, <1>2, <1>3, PageRange
<1>5. PagesFrom(s.base + PageSize, s.stack_size) = PageRun(p+1, k)
  BY <1>1, <1>2, <1>3, PageRange
<1>6. PagesFrom(s.base, s.total_size) = PageRun(p, k+1)
  BY <1>1, <1>2, <1>3, PageRange
<1>7. p \in PageNos
  BY <1>1, <1>2 DEF Shape, PageNos
<1>8. PageRun(p, k+1) = PageRun(p, 1) \cup PageRun(p+1, k)
  BY <1>1, <1>2 DEF PageRun
<1> QED
  BY <1>4, <1>5, <1>6, <1>7, <1>8

(* The rounding of stack_alloc_create: whole pages, never less than before. *)
LEMMA StackSizeFits ==
  ASSUME NEW size \in Nat
  PROVE  \E k \in Nat :
           /\ StackSize(size) = k * PageSize
           /\ StackSize(size) >= MinSize
           /\ StackSize(size) >= size \/ size > MaxSize
<1>1. /\ PageSize \in Nat \ {0} /\ MinSize \in Nat /\ MaxSize \in Nat
      /\ DefaultSize \in Nat /\ MinSize <= DefaultSize /\ DefaultSize <= MaxSize
  BY StackAllocAssumption
<1>2. PICK n : n = IF size = 0 THEN DefaultSize
                   ELSE IF size < MinSize THEN MinSize
                   ELSE IF size > MaxSize THEN MaxSize ELSE size
  OBVIOUS
<1>3. n \in Nat /\ n >= MinSize /\ (n >= size \/ size > MaxSize)
  BY <1>1, <1>2
<1>4. PICK m : m = n + PageSize - 1
  OBVIOUS
<1>5. m \in Nat
  BY <1>1, <1>3, <1>4
<1>6. /\ m \div PageSize \in Nat /\ m % PageSize \in 0..PageSize-1
      /\ m = PageSize * (m \div PageSize) + (m % PageSize)
  BY <1>1, <1>5, DivMod
<1>7. StackSize(size) = PageSize * (m \div PageSize)
  BY <1>2, <1>4 DEF StackSize, RoundToPage
<1>8. PICK k \in Nat, r \in 0..PageSize-1 :
        StackSize(size) = PageSize * k /\ m = PageSize * k + r
  BY <1>6, <1>7
<1>9. PageSize * k = k * PageSize /\ k * PageSize \in Nat
  BY <1>1
<1>10. k * PageSize >= n
  BY <1>1, <1>3, <1>4, <1>8, <1>9
<1> QED
  BY <1>1, <1>3, <1>8, <1>9, <1>10

LEMMA StackInitInv == StackInit => StackInv
<1> SUFFICES ASSUME StackInit
             PROVE  StackInv
  OBVIOUS
<1>1. Live = {}
  BY DEF StackInit, Live
<1>2. StackTypeOK
  BY DEF StackInit, StackTypeOK
<1>3. MappedExactly
  BY <1>1 DEF StackInit, MappedExactly
<1> QED
  BY <1>1, <1>2, <1>3 DEF StackInv

(* stack_alloc_create: the new stack takes pages that nobody has. *)
LEMMA CreateStack ==
  ASSUME StackInv, NEW a \in Allocs, NEW size \in StackSizes, StackCreate(a, size)
  PROVE  StackInv'
<1>1. /\ PageSize \in Nat \ {0} /\ Pages \in Nat /\ size \in Nat
      /\ \A j \in PageNos : j \in Nat
  BY StackAllocAssumption DEF PageNos
<1>2. PICK k \in Nat : /\ StackSize(size) = k * PageSize
                       /\ StackSize(size) >= MinSize
                       /\ StackSize(size) >= size \/ size > MaxSize
  BY <1>1, StackSizeFits
<1>3. PICK p \in PageNos :
        /\ MapWithGuard(p * PageSize, TotalSize(size))
        /\ alloc' = [alloc EXCEPT ![a] =
             [base |-> MappingOf(p * PageSize + PageSize),
              stack_top |-> (p * PageSize + PageSize) + StackSize(size),
              stack_size |-> StackSize(size), total_size |-> TotalSize(size)]]
  BY DEF StackCreate
<1>4. PICK s : s = [base |-> p * PageSize,
                    stack_top |-> p * PageSize + PageSize + k * PageSize,
                    stack_size |-> k * PageSize,
                    total_size |-> k * PageSize + PageSize]
  OBVIOUS
<1>5. /\ p \in Nat /\ p * PageSize \in Nat /\ k * PageSize \in Nat
      /\ TotalSize(size) = k * PageSize + PageSize
      /\ MappingOf(p * PageSize + PageSize) = p * PageSize
  BY <1>1, <1>2 DEF TotalSize, MappingOf
<1>6. alloc' = [alloc EXCEPT ![a] = s]
  BY <1>2, <1>3, <1>4, <1>5
<1>7. Shape(s, p, k)
  <2>1. p * PageSize + (k * PageSize + PageSize) <= Pages * PageSize
    BY <1>3, <1>5 DEF MapWithGuard
  <2>2. (p + k + 1) * PageSize = p * PageSize + (k * PageSize + PageSize)
    BY <1>1, <1>5
  <2>3. p + k + 1 \in Nat
    BY <1>1, <1>5
  <2>4. p + k + 1 <= Pages
    BY <1>1, <2>1, <2>2, <2>3, TimesOrder
  <2> QED
    BY <1>4, <1>5, <2>4 DEF Shape
<1>8. PICK all, guard, room :
        /\ all = PageRun(p, k+1) /\ guard = PageRun(p, 1) /\ room = PageRun(p+1, k)
  OBVIOUS
<1>9. /\ PagesFrom(s.base, PageSize) = guard
      /\ PagesFrom(s.base + PageSize, s.stack_size) = room
      /\ PagesFrom(s.base, s.total_size) = all /\ all = guard \cup room
  BY <1>7, <1>8, ShapePages
<1>10. guard \subseteq PageNos /\ room \subseteq PageNos /\ guard \cap room = {}
  <2>1. guard \subseteq PageNos /\ room \subseteq PageNos
    BY <1>8 DEF PageRun
  <2>2. ASSUME NEW j \in guard, j \in room
        PROVE  FALSE
    <3>1. j \in Nat /\ j < p+1 /\ p+1 <= j
      BY <1>1, <1>8, <2>1, <2>2 DEF PageRun
    <3> QED
      BY <1>5, <3>1
  <2> QED
    BY <2>1, <2>2
<1>11. /\ \A j \in all : page[j] = "unmapped"
       /\ page' = [j \in PageNos |-> IF j \in guard THEN "none"
                                     ELSE IF j \in all THEN "rw" ELSE page[j]]
  <2>1. s.base = p * PageSize /\ s.total_size = TotalSize(size)
    BY <1>4, <1>5
  <2> QED
    BY <1>3, <1>9, <2>1 DEF MapWithGuard
<1>12. /\ alloc \in [Allocs -> Fields \cup {NoStack}] /\ asked \in [Allocs -> Nat]
       /\ page \in [PageNos -> {"unmapped", "none", "rw"}]
       /\ alloc[a] = NoStack /\ asked' = [asked EXCEPT ![a] = size]
  BY DEF StackInv, StackTypeOK, StackCreate
<1>13. s \in Fields /\ s # NoStack
  BY <1>1, <1>4, <1>5, NoStackAssumption DEF Fields
<1>14. StackTypeOK'
  BY <1>1, <1>6, <1>11, <1>12, <1>13 DEF StackTypeOK
<1>15. /\ a \notin Live /\ Live' = Live \cup {a}
       /\ alloc'[a] = s /\ asked'[a] = size
       /\ \A b \in Live : alloc'[b] = alloc[b] /\ asked'[b] = asked[b]
  BY <1>6, <1>12, <1>13 DEF Live
<1>16. /\ GuardPages(a)' = guard /\ StackPages(a)' = room
       /\ \A b \in Live : /\ GuardPages(b)' = GuardPages(b)
                          /\ StackPages(b)' = StackPages(b)
  BY <1>9, <1>15 DEF GuardPages, StackPages
<1>17. \A b \in Live' : Roomy(alloc[b], asked[b])' /\ \E q, l : Shape(alloc'[b], q, l)
  <2>1. Roomy(s, size)
    BY <1>2, <1>4 DEF Roomy
  <2>2. CASE TRUE
    BY <1>7, <1>15, <2>1 DEF StackInv, Roomy
  <2> QED
    BY <2>2
<1>18. \A b \in Live : /\ \A j \in GuardPages(b) : j \in PageNos /\ page[j] = "none"
                       /\ \A j \in StackPages(b) : j \in PageNos /\ page[j] = "rw"
  BY DEF StackInv, MappedExactly
<1>19. \A b \in Live : GuardPages(b) \cap all = {} /\ StackPages(b) \cap all = {}
  BY <1>11, <1>18
<1>20. \A b, c \in Live' : b # c =>
         /\ GuardPages(b)' \cap GuardPages(c)' = {}
         /\ StackPages(b)' \cap StackPages(c)' = {}
  BY <1>9, <1>15, <1>16, <1>19 DEF StackInv
<1>21. MappedExactly'
  <2>1. {j \in PageNos : page'[j] = "none"} = {j \in PageNos : page[j] = "none"} \cup guard
    BY <1>9, <1>10, <1>11
  <2>2. {j \in PageNos : page'[j] = "rw"} = {j \in PageNos : page[j] = "rw"} \cup room
    BY <1>9, <1>10, <1>11
  <2>3. UNION {GuardPages(b)' : b \in Live'} = (UNION {GuardPages(b) : b \in Live}) \cup guard
    BY <1>15, <1>16
  <2>4. UNION {StackPages(b)' : b \in Live'} = (UNION {StackPages(b) : b \in Live}) \cup room
    BY <1>15, <1>16
  <2> QED
    BY <2>1, <2>2, <2>3, <2>4 DEF StackInv, MappedExactly
<1> QED
  BY <1>14, <1>17, <1>20, <1>21 DEF StackInv

(* stack_alloc_destroy: it takes back exactly its own pages. *)
LEMMA DestroyStack ==
  ASSUME StackInv, NEW a \in Allocs, StackDestroy(a)
  PROVE  StackInv'
<1>1. /\ PageSize \in Nat \ {0} /\ \A j \in PageNos : j \in Nat
  BY StackAllocAssumption DEF PageNos
<1>2. /\ alloc \in [Allocs -> Fields \cup {NoStack}] /\ asked \in [Allocs -> Nat]
      /\ page \in [PageNos -> {"unmapped", "none", "rw"}]
      /\ alloc[a] # NoStack /\ a \in Live
      /\ alloc' = [alloc EXCEPT ![a] = NoStack]
      /\ asked' = [asked EXCEPT ![a] = 0]
  BY DEF StackInv, StackTypeOK, StackDestroy, Live
<1>3. PICK p, k : Shape(alloc[a], p, k)
  BY <1>2 DEF StackInv
<1>4. PICK all : all = PagesFrom(alloc[a].base, alloc[a].total_size)
  OBVIOUS
<1>5. all = GuardPages(a) \cup StackPages(a)
  BY <1>3, <1>4, ShapePages DEF GuardPages, StackPages
<1>6. page' = [j \in PageNos |-> IF j \in all THEN "unmapped" ELSE page[j]]
  <2>1. alloc[a].base \in Nat
    BY <1>1, <1>3 DEF Shape
  <2>2. MappingOf(alloc[a].base + PageSize) = alloc[a].base
    BY <1>1, <2>1 DEF MappingOf
  <2> QED
    BY <1>4, <2>2 DEF StackDestroy, UnmapWithGuard, SetPages
<1>7. StackTypeOK'
  BY <1>2, <1>6 DEF StackTypeOK
<1>8. /\ Live' = Live \ {a}
      /\ \A b \in Live' : alloc'[b] = alloc[b] /\ asked'[b] = asked[b]
  BY <1>2 DEF Live
<1>9. \A b \in Live' : GuardPages(b)' = GuardPages(b) /\ StackPages(b)' = StackPages(b)
  BY <1>8 DEF GuardPages, StackPages
<1>10. \A b \in Live' : Roomy(alloc[b], asked[b])' /\ \E q, l : Shape(alloc'[b], q, l)
  BY <1>8 DEF StackInv, Roomy
<1>11. \A b, c \in Live' : b # c =>
         /\ GuardPages(b)' \cap GuardPages(c)' = {}
         /\ StackPages(b)' \cap StackPages(c)' = {}
  BY <1>8, <1>9 DEF StackInv
<1>12. MappedExactly'
  <2>1. \A b \in Live : /\ \A j \in GuardPages(b) : j \in PageNos /\ page[j] = "none"
                        /\ \A j \in StackPages(b) : j \in PageNos /\ page[j] = "rw"
    BY DEF StackInv, MappedExactly
  <2>2. \A b \in Live' : GuardPages(b) \cap all = {} /\ StackPages(b) \cap all = {}
    BY <1>2, <1>5, <1>8, <2>1 DEF StackInv
  <2>3. {j \in PageNos : page'[j] = "none"} = {j \in PageNos : page[j] = "none"} \ all
    BY <1>6
  <2>4. {j \in PageNos : page'[j] = "rw"} = {j \in PageNos : page[j] = "rw"} \ all
    BY <1>6
  <2>5. UNION {GuardPages(b)' : b \in Live'} = (UNION {GuardPages(b) : b \in Live}) \ all
    BY <1>5, <1>8, <1>9, <2>2
  <2>6. UNION {StackPages(b)' : b \in Live'} = (UNION {StackPages(b) : b \in Live}) \ all
    BY <1>5, <1>8, <1>9, <2>2
  <2> QED
    BY <2>3, <2>4, <2>5, <2>6 DEF StackInv, MappedExactly
<1> QED
  BY <1>7, <1>10, <1>11, <1>12 DEF StackInv

LEMMA StackStep == StackInv /\ [StackNext]_stackVars => StackInv'
<1> SUFFICES ASSUME StackInv, [StackNext]_stackVars
             PROVE  StackInv'
  OBVIOUS
<1>1. CASE StackNext
  <2>1. PICK a \in Allocs :
          StackDestroy(a) \/ \E size \in StackSizes : StackCreate(a, size)
    BY <1>1, Zenon DEF StackNext
  <2>2. CASE StackDestroy(a)
    BY <2>2, DestroyStack
  <2>3. ASSUME NEW size \in StackSizes, StackCreate(a, size)
        PROVE  StackInv'
    BY <2>3, CreateStack
  <2> QED
    BY <2>1, <2>2, <2>3, Zenon
<1>2. CASE UNCHANGED stackVars
  <2>1. UNCHANGED <<page, alloc, asked>>
    BY <1>2 DEF stackVars
  <2>2. /\ Live' = Live /\ StackTypeOK' = StackTypeOK
        /\ \A a : GuardPages(a)' = GuardPages(a) /\ StackPages(a)' = StackPages(a)
    BY <2>1 DEF Live, StackTypeOK, GuardPages, StackPages
  <2>3. MappedExactly'
    BY <2>1, <2>2 DEF StackInv, MappedExactly
  <2>4. \A a \in Live' : Roomy(alloc[a], asked[a])' /\ \E p, k : Shape(alloc'[a], p, k)
    BY <2>1, <2>2 DEF StackInv, Roomy
  <2> QED
    BY <2>2, <2>3, <2>4 DEF StackInv
<1> QED
  BY <1>1, <1>2

LEMMA StackInvGuardedRoom == StackInv => GuardedRoom
<1> SUFFICES ASSUME StackInv, NEW a \in Live
             PROVE  LET s == alloc[a] IN
                    /\ s.stack_top - (s.base + PageSize) = s.stack_size
                    /\ s.stack_size >= asked[a] \/ asked[a] > MaxSize
                    /\ s.stack_size >= MinSize
                    /\ s.base % PageSize = 0 /\ s.stack_top % PageSize = 0
                    /\ \A p \in GuardPages(a) : page[p] = "none"
  BY DEF GuardedRoom
<1>1. PICK p, k : Shape(alloc[a], p, k)
  BY DEF StackInv
<1>2. PICK b, t : b = p * PageSize /\ t = k * PageSize
  OBVIOUS
<1>3. /\ alloc[a].base = b /\ alloc[a].stack_size = t
      /\ alloc[a].stack_top = b + PageSize + t
      /\ p \in Nat /\ k \in Nat
  BY <1>1, <1>2 DEF Shape
<1>4. PageSize \in Nat \ {0} /\ b \in Nat /\ t \in Nat
  BY <1>2, <1>3, StackAllocAssumption
<1>5. b % PageSize = 0
  BY <1>2, <1>3, <1>4, MultipleMod
<1>6. (b + PageSize + t) % PageSize = 0
  <2>1. p + 1 + k \in Nat /\ b + PageSize + t = (p + 1 + k) * PageSize
    BY <1>2, <1>3, <1>4
  <2> QED
    BY <1>4, <2>1, MultipleMod
<1>7. \A j \in GuardPages(a) : page[j] = "none"
  BY DEF StackInv, MappedExactly
<1>8. Roomy(alloc[a], asked[a])
  BY DEF StackInv
<1> QED
  BY <1>3, <1>4, <1>5, <1>6, <1>7, <1>8 DEF Roomy

-----------------------------------------------------------------------------
(* The two together: each step is one of one allocator.                    *)
LEMMA MemoryInvs == MemorySpec => [](PoolInv /\ StackInv)
<1>1. MemoryInit => PoolInv /\ StackInv
  BY PoolInit, StackInitInv DEF MemoryInit
<1>2. [MemoryNext]_<<vars, stackVars>> => [Next]_vars /\ [StackNext]_stackVars
  BY DEF MemoryNext
<1>3. PoolInv /\ StackInv /\ [MemoryNext]_<<vars, stackVars>> => (PoolInv /\ StackInv)'
  BY <1>2, PoolStep, StackStep
<1> QED
  BY <1>1, <1>3, PTL DEF MemorySpec

(* TypesOK: the fields of the pool and of the stacks stay in their ranges; *)
(* the count of free objects never wraps (memory.c:141, 157, 190).         *)
THEOREM MemoryTypes == MemorySpec => []TypesOK
<1>1. PoolInv /\ StackInv => TypesOK
  BY PoolInvTypeOK DEF TypesOK, StackInv
<1> QED
  BY <1>1, MemoryInvs, PTL

(* FreeListSound: the words of the objects link exactly the objects that   *)
(* no caller has, each once, and the list ends after as many as            *)
(* memory_pool_available says, whatever the callers write into the objects *)
(* they have (memory.c:134-143, 155-158).                                  *)
THEOREM FreeListSoundAlways == MemorySpec => []FreeListSound
BY PoolInvFreeListSound, MemoryInvs, PTL

(* ObjectsFit: every object lies in the allocation, aligned for its link   *)
(* and as large as asked for (memory.c:76-87, 106-112).                    *)
THEOREM ObjectsFitAlways == MemorySpec => []ObjectsFit
BY PoolInvObjectsFit, MemoryInvs, PTL

(* MappedExactly: the mapped pages are those of the live stacks, so that   *)
(* no page leaks and no destroy unmaps a page of another stack             *)
(* (platform.h:91-121).                                                    *)
THEOREM MappedExactlyAlways == MemorySpec => []MappedExactly
<1>1. StackInv => MappedExactly
  BY DEF StackInv
<1> QED
  BY <1>1, MemoryInvs, PTL

(* GuardedRoom: every stack has the room it was asked to have, page        *)
(* aligned, above a page without access (memory.c:18-39).                  *)
THEOREM GuardedRoomAlways == MemorySpec => []GuardedRoom
BY StackInvGuardedRoom, MemoryInvs, PTL
=============================================================================
