----------------------------- MODULE StackAlloc -----------------------------
(***************************************************************************)
(* The guarded stacks of src/src/memory.c (stack_alloc_create, _destroy)   *)
(* on the pages that src/src/platform.h maps, protects and unmaps.  An     *)
(* address is a number; page p starts at p * PageSize.                     *)
(*                                                                         *)
(* The callers' duty: no create on an alloc that holds a stack, for the    *)
(* memset would forget it.                                                 *)
(***************************************************************************)
EXTENDS Integers

CONSTANTS
  Allocs,               (* the stack_alloc_t variables of the callers       *)
  Pages,                (* bound: the address space has this many pages     *)
  PageSize,             (* sysconf(_SC_PAGESIZE): a power of two            *)
  MinSize, MaxSize, DefaultSize,  (* STACK_MIN_SIZE and so on               *)
  StackSizes,           (* the sizes that callers ask for                   *)
  NoStack               (* an alloc that holds no stack: all zero           *)

ASSUME StackAllocAssumption ==
  /\ Pages \in Nat /\ PageSize \in Nat \ {0}
  /\ MinSize \in Nat \ {0} /\ MaxSize \in Nat /\ DefaultSize \in MinSize..MaxSize
  /\ StackSizes \subseteq Nat

VARIABLES
  page,       (* per page: not mapped, mapped without access, or read-write *)
  alloc,      (* per stack_alloc_t: its fields, or NoStack                  *)
  asked       (* history: per stack_alloc_t, the size that was asked for    *)

stackVars == <<page, alloc, asked>>

PageNos == 0..Pages-1

(* The pages of the length bytes from address a on. *)
PagesFrom(a, length) ==
  {p \in PageNos : a <= p * PageSize /\ p * PageSize < a + length}

SetPages(S, access) == page' = [p \in PageNos |-> IF p \in S THEN access ELSE page[p]]

-----------------------------------------------------------------------------
(* Sizes.  RoundToPage is (size + page_size - 1) & ~(page_size - 1).        *)

RoundDown(size) == PageSize * (size \div PageSize)

RoundToPage(size) == PageSize * ((size + PageSize - 1) \div PageSize)

StackSize(size) ==
  RoundToPage(IF size = 0 THEN DefaultSize
              ELSE IF size < MinSize THEN MinSize
              ELSE IF size > MaxSize THEN MaxSize ELSE size)

TotalSize(size) == StackSize(size) + PageSize

Fields == [base : Nat, stack_top : Nat, stack_size : Nat, total_size : Nat]

ASSUME NoStackAssumption == NoStack \notin Fields

StackTypeOK ==
  /\ page \in [PageNos -> {"unmapped", "none", "rw"}]
  /\ alloc \in [Allocs -> Fields \cup {NoStack}]
  /\ asked \in [Allocs -> Nat]

StackInit ==
  /\ page = [p \in PageNos |-> "unmapped"]
  /\ alloc = [a \in Allocs |-> NoStack]
  /\ asked = [a \in Allocs |-> 0]

-----------------------------------------------------------------------------
(* mmap finds room wherever there is some.  When it fails, or when mprotect *)
(* fails and the mapping is taken back, nothing is left.                    *)
MapWithGuard(base, total) ==
  LET all == PagesFrom(base, total) IN
  /\ base + total <= Pages * PageSize
  /\ \A p \in all : page[p] = "unmapped"
  /\ page' = [p \in PageNos |->
                IF p \in PagesFrom(base, PageSize) THEN "none"
                ELSE IF p \in all THEN "rw" ELSE page[p]]

BelowGuard(ptr) == ptr - 2 * PageSize

(* From the pointer to the stack back to the mapping, guard included. *)
MappingOf(ptr) == ptr - PageSize

StackCreate(a, size) ==
  /\ alloc[a] = NoStack
  /\ \E p \in PageNos :
       LET base  == p * PageSize
           stack == base + PageSize IN
       /\ MapWithGuard(base, TotalSize(size))
       /\ alloc' = [alloc EXCEPT ![a] =
            [base |-> MappingOf(stack), stack_top |-> stack + StackSize(size),
             stack_size |-> StackSize(size), total_size |-> TotalSize(size)]]
  /\ asked' = [asked EXCEPT ![a] = size]

UnmapFromPointer(ptr, total) == SetPages(PagesFrom(ptr, total), "unmapped")

UnmapWithGuard(ptr, total) ==
  SetPages(PagesFrom(MappingOf(ptr), total), "unmapped")

StackDestroy(a) ==
  /\ alloc[a] # NoStack
  /\ UnmapWithGuard(alloc[a].base + PageSize, alloc[a].total_size)
  /\ alloc' = [alloc EXCEPT ![a] = NoStack]
  /\ asked' = [asked EXCEPT ![a] = 0]

StackNext ==
  \E a \in Allocs : StackDestroy(a) \/ \E size \in StackSizes : StackCreate(a, size)

StackSpec == StackInit /\ [][StackNext]_stackVars

-----------------------------------------------------------------------------
StackPages(a) == PagesFrom(alloc[a].base + PageSize, alloc[a].stack_size)
GuardPages(a) == PagesFrom(alloc[a].base, PageSize)

Live == {a \in Allocs : alloc[a] # NoStack}

(* Exactly the pages of the live stacks are mapped: creating and destroying *)
(* take the same range although one counts from the mapping and the other   *)
(* from the stack (platform.h:115-121), so no page leaks and no destroy     *)
(* unmaps a page of another stack.                                          *)
MappedExactly ==
  /\ {p \in PageNos : page[p] = "rw"} = UNION {StackPages(a) : a \in Live}
  /\ {p \in PageNos : page[p] = "none"} = UNION {GuardPages(a) : a \in Live}

(* A stack that grows down from stack_top has at least the room asked for, *)
(* as far as the limit allows, before it runs into its inaccessible guard  *)
(* page, which nobody else's stack can be (memory.c:18-39).                *)
GuardedRoom ==
  \A a \in Live :
    LET s == alloc[a] IN
    /\ s.stack_top - (s.base + PageSize) = s.stack_size
    /\ s.stack_size >= asked[a] \/ asked[a] > MaxSize
    /\ s.stack_size >= MinSize
    /\ s.base % PageSize = 0 /\ s.stack_top % PageSize = 0
    /\ \A p \in GuardPages(a) : page[p] = "none"
=============================================================================
