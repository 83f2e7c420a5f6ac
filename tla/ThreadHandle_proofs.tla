------------------------- MODULE ThreadHandle_proofs -------------------------
(***************************************************************************)
(* Proofs about ThreadHandle, for any number of threads and any memory.    *)
(*                                                                         *)
(* A handle is in the hands of a slot: a call, a variable of the program,  *)
(* or what sthread_self has returned to a thread.  Every step gives an     *)
(* empty slot a new handle, moves a handle from one slot to another, frees *)
(* the handle of a slot, or leaves all slots alone; the first part shows   *)
(* once that these keep one slot for each handle.                          *)
(***************************************************************************)
EXTENDS ThreadHandleProps, TLAPS

USE ThreadHandleAssumption

Slots == {"call", "variable", "self"} \X Threads

(* The handle in each slot, or NULL. *)
InSlot ==
  [s \in Slots |-> IF s[1] = "call" THEN arg[s[2]].handle
                   ELSE IF s[1] = "variable" THEN var[s[2]] ELSE mine[s[2]]]

Allocated == {h \in Handles : Live(h)}

(* The handles in L are those in the slots of f, each in one of them. *)
OneSlot(f, L) ==
  /\ \A h \in Handles : h \in L <=> \E s \in Slots : f[s] = h
  /\ \A s1, s2 \in Slots : f[s1] = f[s2] /\ f[s1] # NULL => s1 = s2

SlotFunctions == [Slots -> Handles \cup {NULL}]

LEMMA Gain ==
  ASSUME NEW f \in SlotFunctions, NEW g \in SlotFunctions,
         NEW L \in SUBSET Handles, OneSlot(f, L),
         NEW s \in Slots, f[s] = NULL, NEW h \in Handles \ L,
         g[s] = h, \A u \in Slots \ {s} : g[u] = f[u]
  PROVE  OneSlot(g, L \cup {h})
BY DEF OneSlot, SlotFunctions

LEMMA Move ==
  ASSUME NEW f \in SlotFunctions, NEW g \in SlotFunctions,
         NEW L \in SUBSET Handles, OneSlot(f, L),
         NEW s \in Slots, NEW to \in Slots, f[s] # NULL, f[to] = NULL,
         g[s] = NULL, g[to] = f[s], \A u \in Slots \ {s, to} : g[u] = f[u]
  PROVE  OneSlot(g, L)
<1>1. s # to
  OBVIOUS
<1> QED
  BY <1>1 DEF OneSlot, SlotFunctions

LEMMA Drop ==
  ASSUME NEW f \in SlotFunctions, NEW g \in SlotFunctions,
         NEW L \in SUBSET Handles, OneSlot(f, L),
         NEW s \in Slots, f[s] # NULL, g[s] = NULL,
         \A u \in Slots \ {s} : g[u] = f[u]
  PROVE  OneSlot(g, L \ {f[s]})
BY DEF OneSlot, SlotFunctions

LEMMA SlotValues ==
  /\ \A t \in Threads :
       /\ <<"call", t>> \in Slots /\ <<"variable", t>> \in Slots /\ <<"self", t>> \in Slots
       /\ InSlot[<<"call", t>>] = arg[t].handle
       /\ InSlot[<<"variable", t>>] = var[t]
       /\ InSlot[<<"self", t>>] = mine[t]
  /\ \A s \in Slots : \E t \in Threads :
       s = <<"call", t>> \/ s = <<"variable", t>> \/ s = <<"self", t>>
BY DEF InSlot, Slots

(* The owners of a handle are its slots. *)
LEMMA OwnersAreSlots ==
  TypeOK =>
    /\ InSlot \in SlotFunctions
    /\ Allocated \in SUBSET Handles
    /\ OneOwner <=> OneSlot(InSlot, Allocated)
<1> HAVE TypeOK
<1>1. \A t \in Threads :
        /\ InSlot[<<"call", t>>] = arg[t].handle
        /\ InSlot[<<"variable", t>>] = var[t]
        /\ InSlot[<<"self", t>>] = mine[t]
  BY DEF InSlot, Slots
<1>2. ASSUME NEW s \in Slots
      PROVE  \E t \in Threads :
               s = <<"call", t>> \/ s = <<"variable", t>> \/ s = <<"self", t>>
  BY DEF Slots
<1>3. InSlot \in SlotFunctions
  <2>1. ASSUME NEW s \in Slots PROVE InSlot[s] \in Handles \cup {NULL}
    <3>1. PICK t \in Threads :
            s = <<"call", t>> \/ s = <<"variable", t>> \/ s = <<"self", t>>
      BY <1>2
    <3>2. arg[t].handle \in Handles \cup {NULL}
      BY DEF TypeOK
    <3>3. var[t] \in Handles \cup {NULL} /\ mine[t] \in Handles \cup {NULL}
      BY DEF TypeOK
    <3> QED
      BY <1>1, <3>1, <3>2, <3>3
  <2> QED
    BY <2>1 DEF InSlot, SlotFunctions
<1>4. ASSUME NEW h \in Handles PROVE Owners(h) = {s \in Slots : InSlot[s] = h}
  <2>1. ASSUME NEW s \in Owners(h) PROVE s \in Slots /\ InSlot[s] = h
    <3>1. PICK t \in Threads :
            \/ s = <<"call", t>> /\ arg[t].handle = h
            \/ s = <<"variable", t>> /\ var[t] = h
            \/ s = <<"self", t>> /\ mine[t] = h
      BY DEF Owners
    <3>2. s \in Slots
      BY <3>1 DEF Slots
    <3> QED
      BY <1>1, <3>1, <3>2
  <2>2. ASSUME NEW s \in Slots, InSlot[s] = h PROVE s \in Owners(h)
    BY <1>1, <1>2, <2>2 DEF Owners
  <2> QED
    BY <2>1, <2>2
<1>5. ASSUME NEW h \in Handles PROVE h \in Allocated <=> Live(h)
  BY DEF Allocated
<1>6. ASSUME OneOwner PROVE OneSlot(InSlot, Allocated)
  <2>1. ASSUME NEW s1 \in Slots, NEW s2 \in Slots, InSlot[s1] = InSlot[s2],
               InSlot[s1] # NULL
        PROVE  s1 = s2
    <3>1. InSlot[s1] \in Handles
      BY <1>3, <2>1 DEF SlotFunctions
    <3> QED
      BY <1>4, <1>6, <2>1, <3>1 DEF OneOwner
  <2>2. ASSUME NEW h \in Handles
        PROVE  h \in Allocated <=> \E s \in Slots : InSlot[s] = h
    BY <1>4, <1>5, <1>6 DEF OneOwner
  <2> QED
    BY <2>1, <2>2 DEF OneSlot
<1>7. ASSUME OneSlot(InSlot, Allocated) PROVE OneOwner
  <2> SUFFICES ASSUME NEW h \in Handles
               PROVE  /\ Live(h) <=> Owners(h) # {}
                      /\ \A o1, o2 \in Owners(h) : o1 = o2
    BY DEF OneOwner
  <2>1. h # NULL
    OBVIOUS
  <2> QED
    BY <1>4, <1>5, <1>7, <2>1 DEF OneSlot
<1> QED
  BY <1>3, <1>6, <1>7 DEF Allocated
LEMMA SlotValuesNext ==
  \A t \in Threads :
    /\ InSlot'[<<"call", t>>] = arg'[t].handle
    /\ InSlot'[<<"variable", t>>] = var'[t]
    /\ InSlot'[<<"self", t>>] = mine'[t]
BY DEF InSlot, Slots

LEMMA OwnersAreSlotsNext ==
  TypeOK' =>
    /\ InSlot' \in SlotFunctions
    /\ Allocated' \in SUBSET Handles
    /\ OneOwner' <=> OneSlot(InSlot', Allocated')
<1>1. (TypeOK => /\ InSlot \in SlotFunctions
                 /\ Allocated \in SUBSET Handles
                 /\ OneOwner <=> OneSlot(InSlot, Allocated))'
  BY OwnersAreSlots, PTL
<1> QED
  BY <1>1 DEF OneSlot, SlotFunctions, Slots, Threads

-----------------------------------------------------------------------------
(* Where a call is and what it knows: a call in progress has a handle; the *)
(* thread it creates is its own to create, and the handle becomes that      *)
(* thread's when the thread starts to run.                                  *)
Places ==
  /\ \A a \in Threads :
       /\ pc[a] = "idle" <=> arg[a].handle = NULL
       /\ pc[a] # "idle" => arg[a].thread \in Threads
       /\ pc[a] = "create" => /\ life[arg[a].thread] = "unborn"
                              /\ heap[arg[a].handle] = NewHandle(NULL)
       /\ pc[a] = "store" => /\ life[arg[a].thread] # "unborn"
                             /\ var[arg[a].thread] = NULL
                             /\ heap[arg[a].handle] = NewHandle(arg[a].thread)
       /\ var[a] # NULL => life[a] # "unborn"
  /\ \A a, b \in Threads :
       /\ pc[a] \in {"create", "store"} /\ pc[b] \in {"create", "store"}
       /\ arg[a].thread = arg[b].thread
       => a = b

Inv == TypeOK /\ OneOwner /\ HandleIsForItsThread /\ Places

LEMMA HandleInMemory ==
  \A t \in Threads \cup {NULL}, d \in BOOLEAN :
    [thread |-> t, detached |-> d] # NULL
BY DEF Threads

(* OneOwner, slot by slot. *)
LEMMA Distinct ==
  ASSUME TypeOK, OneOwner, NEW a \in Threads, NEW b \in Threads
  PROVE  /\ arg[a].handle # NULL => heap[arg[a].handle] # NULL
         /\ var[a] # NULL => heap[var[a]] # NULL
         /\ mine[a] # NULL => heap[mine[a]] # NULL
         /\ arg[a].handle = arg[b].handle /\ arg[a].handle # NULL => a = b
         /\ var[a] = var[b] /\ var[a] # NULL => a = b
         /\ mine[a] = mine[b] /\ mine[a] # NULL => a = b
         /\ var[a] # NULL => var[a] # arg[b].handle /\ var[a] # mine[b]
         /\ mine[a] # NULL => mine[a] # arg[b].handle
<1>1. OneSlot(InSlot, Allocated) /\ InSlot \in SlotFunctions
  BY OwnersAreSlots
<1>2. ASSUME NEW s \in Slots, InSlot[s] # NULL PROVE heap[InSlot[s]] # NULL
  <2>1. InSlot[s] \in Handles
    BY <1>1, <1>2 DEF SlotFunctions
  <2> QED
    BY <1>1, <1>2, <2>1 DEF OneSlot, Allocated, Live
<1>3. ASSUME NEW s1 \in Slots, NEW s2 \in Slots, InSlot[s1] = InSlot[s2],
             InSlot[s1] # NULL
      PROVE  s1 = s2
  BY <1>1, <1>3 DEF OneSlot
<1>4. /\ <<"call", a>> # <<"variable", b>> /\ <<"call", b>> # <<"variable", a>>
      /\ <<"call", b>> # <<"self", a>> /\ <<"variable", a>> # <<"self", b>>
      /\ <<"call", a>> = <<"call", b>> => a = b
      /\ <<"variable", a>> = <<"variable", b>> => a = b
      /\ <<"self", a>> = <<"self", b>> => a = b
  OBVIOUS
<1>5. \A t \in {a, b} :
        /\ <<"call", t>> \in Slots /\ <<"variable", t>> \in Slots /\ <<"self", t>> \in Slots
        /\ InSlot[<<"call", t>>] = arg[t].handle
        /\ InSlot[<<"variable", t>>] = var[t]
        /\ InSlot[<<"self", t>>] = mine[t]
  BY SlotValues
<1>6. /\ arg[a].handle # NULL => heap[arg[a].handle] # NULL
      /\ var[a] # NULL => heap[var[a]] # NULL
      /\ mine[a] # NULL => heap[mine[a]] # NULL
  BY <1>2, <1>5
<1>7. /\ arg[a].handle = arg[b].handle /\ arg[a].handle # NULL => a = b
      /\ var[a] = var[b] /\ var[a] # NULL => a = b
      /\ mine[a] = mine[b] /\ mine[a] # NULL => a = b
  <2>1. ASSUME arg[a].handle = arg[b].handle, arg[a].handle # NULL PROVE a = b
    <3>1. <<"call", a>> = <<"call", b>>
      BY <1>3, <1>5, <2>1
    <3> QED
      BY <1>4, <3>1
  <2>2. ASSUME var[a] = var[b], var[a] # NULL PROVE a = b
    <3>1. <<"variable", a>> = <<"variable", b>>
      BY <1>3, <1>5, <2>2
    <3> QED
      BY <1>4, <3>1
  <2>3. ASSUME mine[a] = mine[b], mine[a] # NULL PROVE a = b
    <3>1. <<"self", a>> = <<"self", b>>
      BY <1>3, <1>5, <2>3
    <3> QED
      BY <1>4, <3>1
  <2> QED
    BY <2>1, <2>2, <2>3
<1>8. ASSUME var[a] # NULL PROVE var[a] # arg[b].handle /\ var[a] # mine[b]
  <2>1. ASSUME var[a] = arg[b].handle PROVE FALSE
    BY <1>3, <1>4, <1>5, <1>8, <2>1
  <2>2. ASSUME var[a] = mine[b] PROVE FALSE
    BY <1>3, <1>4, <1>5, <1>8, <2>2
  <2> QED
    BY <2>1, <2>2
<1>9. ASSUME mine[a] # NULL, mine[a] = arg[b].handle PROVE FALSE
  BY <1>3, <1>4, <1>5, <1>9
<1> QED
  BY <1>6, <1>7, <1>8, <1>9

(* Only the slots in S change. *)
LEMMA OtherSlots ==
  ASSUME NEW S,
         \A b \in Threads :
           /\ <<"call", b>> \notin S => arg'[b].handle = arg[b].handle
           /\ <<"variable", b>> \notin S => var'[b] = var[b]
           /\ <<"self", b>> \notin S => mine'[b] = mine[b]
  PROVE  \A u \in Slots \ S : InSlot'[u] = InSlot[u]
<1> SUFFICES ASSUME NEW u \in Slots \ S PROVE InSlot'[u] = InSlot[u]
  OBVIOUS
<1>1. PICK b \in Threads :
        u = <<"call", b>> \/ u = <<"variable", b>> \/ u = <<"self", b>>
  BY SlotValues
<1>2. /\ <<"call", b>> \notin S => arg'[b].handle = arg[b].handle
      /\ <<"variable", b>> \notin S => var'[b] = var[b]
      /\ <<"self", b>> \notin S => mine'[b] = mine[b]
  OBVIOUS
<1>3. /\ InSlot[<<"call", b>>] = arg[b].handle /\ InSlot'[<<"call", b>>] = arg'[b].handle
      /\ InSlot[<<"variable", b>>] = var[b] /\ InSlot'[<<"variable", b>>] = var'[b]
      /\ InSlot[<<"self", b>>] = mine[b] /\ InSlot'[<<"self", b>>] = mine'[b]
  BY SlotValues, SlotValuesNext
<1>4. u \notin S
  OBVIOUS
<1> QED
  BY <1>1, <1>2, <1>3, <1>4
(* The four kinds of step. *)
LEMMA Gains ==
  ASSUME TypeOK, TypeOK', OneOwner, NEW s \in Slots, InSlot[s] = NULL,
         NEW h \in Handles, ~Live(h), InSlot'[s] = h, heap'[h] # NULL,
         \A u \in Slots \ {s} : InSlot'[u] = InSlot[u],
         \A k \in Handles \ {h} : heap'[k] = heap[k]
  PROVE  OneOwner'
<1>1. Allocated' = Allocated \cup {h}
  BY DEF Allocated, Live
<1>2. h \in Handles \ Allocated
  BY DEF Allocated
<1> QED
  BY <1>1, <1>2, Gain, OwnersAreSlots, OwnersAreSlotsNext

LEMMA Moves ==
  ASSUME TypeOK, TypeOK', OneOwner, NEW s \in Slots, NEW to \in Slots,
         InSlot[s] # NULL, InSlot[to] = NULL, InSlot'[s] = NULL, InSlot'[to] = InSlot[s],
         \A u \in Slots \ {s, to} : InSlot'[u] = InSlot[u],
         \A k \in Handles : heap'[k] = NULL <=> heap[k] = NULL
  PROVE  OneOwner'
<1>1. Allocated' = Allocated
  BY DEF Allocated, Live
<1> QED
  BY <1>1, Move, OwnersAreSlots, OwnersAreSlotsNext

LEMMA Drops ==
  ASSUME TypeOK, TypeOK', OneOwner, NEW s \in Slots, InSlot[s] # NULL,
         InSlot'[s] = NULL, \A u \in Slots \ {s} : InSlot'[u] = InSlot[u],
         heap' = [heap EXCEPT ![InSlot[s]] = NULL]
  PROVE  OneOwner'
<1>1. InSlot[s] \in Handles
  BY OwnersAreSlots DEF SlotFunctions
<1>2. Allocated' = Allocated \ {InSlot[s]}
  BY <1>1 DEF Allocated, Live, TypeOK
<1> QED
  BY <1>2, Drop, OwnersAreSlots, OwnersAreSlotsNext

(* A call that has no handle gets a new one. *)
LEMMA CallGains ==
  ASSUME TypeOK, TypeOK', OneOwner, UNCHANGED <<var, mine>>,
         NEW a \in Threads, arg[a].handle = NULL,
         NEW h \in Handles, ~Live(h), arg'[a].handle = h, heap'[h] # NULL,
         \A b \in Threads \ {a} : arg'[b] = arg[b],
         \A k \in Handles \ {h} : heap'[k] = heap[k]
  PROVE  OneOwner'
<1>1. \A b \in Threads : <<"call", b>> \notin {<<"call", a>>} => b # a
  OBVIOUS
<1>2. \A u \in Slots \ {<<"call", a>>} : InSlot'[u] = InSlot[u]
  BY <1>1, OtherSlots
<1>3. /\ <<"call", a>> \in Slots
      /\ InSlot[<<"call", a>>] = NULL /\ InSlot'[<<"call", a>>] = h
  <2>1. InSlot[<<"call", a>>] = arg[a].handle /\ InSlot'[<<"call", a>>] = arg'[a].handle
    BY SlotValues, SlotValuesNext
  <2> QED
    BY <2>1, SlotValues
<1> QED
  BY <1>2, <1>3, Gains

(* sthread_self gives a thread a new handle. *)
LEMMA SelfGains ==
  ASSUME TypeOK, TypeOK', OneOwner, UNCHANGED <<var, arg>>,
         NEW a \in Threads, mine[a] = NULL,
         NEW h \in Handles, ~Live(h), mine'[a] = h, heap'[h] # NULL,
         \A b \in Threads \ {a} : mine'[b] = mine[b],
         \A k \in Handles \ {h} : heap'[k] = heap[k]
  PROVE  OneOwner'
<1>1. \A b \in Threads : <<"self", b>> \notin {<<"self", a>>} => b # a
  OBVIOUS
<1>2. \A u \in Slots \ {<<"self", a>>} : InSlot'[u] = InSlot[u]
  BY <1>1, OtherSlots
<1>3. /\ <<"self", a>> \in Slots
      /\ InSlot[<<"self", a>>] = NULL /\ InSlot'[<<"self", a>>] = h
  <2>1. InSlot[<<"self", a>>] = mine[a] /\ InSlot'[<<"self", a>>] = mine'[a]
    BY SlotValues, SlotValuesNext
  <2> QED
    BY <2>1, SlotValues
<1> QED
  BY <1>2, <1>3, Gains

(* A call frees its handle. *)
LEMMA CallDrops ==
  ASSUME TypeOK, TypeOK', OneOwner, UNCHANGED <<var, mine>>,
         NEW a \in Threads, arg[a].handle # NULL, arg'[a].handle = NULL,
         \A b \in Threads \ {a} : arg'[b] = arg[b],
         heap' = [heap EXCEPT ![arg[a].handle] = NULL]
  PROVE  OneOwner'
<1>1. \A b \in Threads : <<"call", b>> \notin {<<"call", a>>} => b # a
  OBVIOUS
<1>2. \A u \in Slots \ {<<"call", a>>} : InSlot'[u] = InSlot[u]
  BY <1>1, OtherSlots
<1>3. InSlot[<<"call", a>>] = arg[a].handle /\ InSlot'[<<"call", a>>] = arg'[a].handle
  BY SlotValues, SlotValuesNext
<1>4. <<"call", a>> \in Slots
  BY SlotValues
<1> QED
  BY <1>2, <1>3, <1>4, Drops

(* sthread_create stores its handle in t's variable. *)
LEMMA CallStores ==
  ASSUME TypeOK, TypeOK', OneOwner, UNCHANGED <<mine, heap>>,
         NEW a \in Threads, NEW t \in Threads,
         arg[a].handle # NULL, arg'[a].handle = NULL,
         var[t] = NULL, var'[t] = arg[a].handle,
         \A b \in Threads \ {a} : arg'[b] = arg[b],
         \A b \in Threads \ {t} : var'[b] = var[b]
  PROVE  OneOwner'
<1> DEFINE S == {<<"call", a>>, <<"variable", t>>}
<1>1. \A b \in Threads : /\ <<"call", b>> \notin S => b # a
                         /\ <<"variable", b>> \notin S => b # t
  OBVIOUS
<1>2. \A u \in Slots \ S : InSlot'[u] = InSlot[u]
  BY <1>1, OtherSlots
<1>3. /\ InSlot[<<"call", a>>] = arg[a].handle /\ InSlot'[<<"call", a>>] = arg'[a].handle
      /\ InSlot[<<"variable", t>>] = var[t] /\ InSlot'[<<"variable", t>>] = var'[t]
      /\ <<"call", a>> \in Slots /\ <<"variable", t>> \in Slots
  BY SlotValues, SlotValuesNext
<1> QED
  BY <1>2, <1>3, Moves

(* A call takes the handle in t's variable. *)
LEMMA CallTakesVariable ==
  ASSUME TypeOK, TypeOK', OneOwner, UNCHANGED mine,
         NEW a \in Threads, NEW t \in Threads,
         arg[a].handle = NULL, arg'[a].handle = var[t], var[t] # NULL, var'[t] = NULL,
         \A b \in Threads \ {a} : arg'[b] = arg[b],
         \A b \in Threads \ {t} : var'[b] = var[b],
         \A k \in Handles : heap'[k] = NULL <=> heap[k] = NULL
  PROVE  OneOwner'
<1> DEFINE S == {<<"variable", t>>, <<"call", a>>}
<1>1. \A b \in Threads : /\ <<"call", b>> \notin S => b # a
                         /\ <<"variable", b>> \notin S => b # t
  OBVIOUS
<1>2. \A u \in Slots \ S : InSlot'[u] = InSlot[u]
  BY <1>1, OtherSlots
<1>3. /\ InSlot[<<"call", a>>] = arg[a].handle /\ InSlot'[<<"call", a>>] = arg'[a].handle
      /\ InSlot[<<"variable", t>>] = var[t] /\ InSlot'[<<"variable", t>>] = var'[t]
      /\ <<"call", a>> \in Slots /\ <<"variable", t>> \in Slots
  BY SlotValues, SlotValuesNext
<1> QED
  BY <1>2, <1>3, Moves

(* A call takes the handle that sthread_self has returned. *)
LEMMA CallTakesOwn ==
  ASSUME TypeOK, TypeOK', OneOwner, UNCHANGED var,
         NEW a \in Threads,
         arg[a].handle = NULL, arg'[a].handle = mine[a], mine[a] # NULL, mine'[a] = NULL,
         \A b \in Threads \ {a} : arg'[b] = arg[b] /\ mine'[b] = mine[b],
         \A k \in Handles : heap'[k] = NULL <=> heap[k] = NULL
  PROVE  OneOwner'
<1> DEFINE S == {<<"self", a>>, <<"call", a>>}
<1>1. \A b \in Threads : <<"call", b>> \notin S \/ <<"self", b>> \notin S => b # a
  OBVIOUS
<1>2. \A u \in Slots \ S : InSlot'[u] = InSlot[u]
  BY <1>1, OtherSlots
<1>3. /\ InSlot[<<"call", a>>] = arg[a].handle /\ InSlot'[<<"call", a>>] = arg'[a].handle
      /\ InSlot[<<"self", a>>] = mine[a] /\ InSlot'[<<"self", a>>] = mine'[a]
      /\ <<"call", a>> \in Slots /\ <<"self", a>> \in Slots
  BY SlotValues, SlotValuesNext
<1> QED
  BY <1>2, <1>3, Moves

LEMMA Stays ==
  ASSUME TypeOK, TypeOK', OneOwner, UNCHANGED <<var, mine>>,
         \A a \in Threads : arg'[a].handle = arg[a].handle,
         \A k \in Handles : heap'[k] = NULL <=> heap[k] = NULL
  PROVE  OneOwner'
<1>1. Allocated' = Allocated
  BY DEF Allocated, Live
<1>2. InSlot' = InSlot
  BY DEF InSlot, Slots
<1> QED
  BY <1>1, <1>2, OwnersAreSlots, OwnersAreSlotsNext

(* What a caller may still pass is left alone, or taken away. *)
LEMMA HandlesKept ==
  ASSUME Inv,
         \A b \in Threads :
           /\ var'[b] # NULL => var'[b] = var[b] /\ heap'[var[b]] = heap[var[b]]
           /\ mine'[b] # NULL => mine'[b] = mine[b] /\ heap'[mine[b]] = heap[mine[b]]
           /\ pc'[b] = "join" => /\ pc[b] = "join" /\ arg'[b] = arg[b]
                                 /\ heap'[arg[b].handle] = heap[arg[b].handle]
  PROVE  HandleIsForItsThread'
<1>1. HandleIsForItsThread
  BY DEF Inv
<1>2. ASSUME NEW b \in Threads, var'[b] # NULL
      PROVE  heap'[var'[b]] = [thread |-> b, detached |-> FALSE]
  BY <1>1, <1>2 DEF HandleIsForItsThread
<1>3. ASSUME NEW b \in Threads, mine'[b] # NULL
      PROVE  heap'[mine'[b]] = [thread |-> b, detached |-> FALSE]
  BY <1>1, <1>3 DEF HandleIsForItsThread
<1>4. ASSUME NEW b \in Threads, pc'[b] = "join"
      PROVE  heap'[arg'[b].handle] = [thread |-> arg'[b].thread, detached |-> FALSE]
  <2>1. /\ pc[b] = "join" /\ arg'[b] = arg[b]
        /\ heap'[arg[b].handle] = heap[arg[b].handle]
    BY <1>4
  <2>2. heap[arg[b].handle] = [thread |-> arg[b].thread, detached |-> FALSE]
    BY <1>1, <2>1 DEF HandleIsForItsThread
  <2> QED
    BY <2>1, <2>2
<1> QED
  BY <1>2, <1>3, <1>4 DEF HandleIsForItsThread

LEMMA NewHandleFilled ==
  ASSUME NEW t \in Threads, NEW r, r = NewHandle(NULL)
  PROVE  [r EXCEPT !.thread = t] = NewHandle(t)
<1>1. r \in [thread : Threads \cup {NULL}, detached : BOOLEAN] /\ ~r.detached
  BY DEF NewHandle
<1>2. [r EXCEPT !.thread = t] = [thread |-> t, detached |-> r.detached]
  BY <1>1
<1> QED
  BY <1>1, <1>2 DEF NewHandle

LEMMA HandleMarked ==
  ASSUME NEW t \in Threads, NEW r, r = [thread |-> t, detached |-> FALSE]
  PROVE  [r EXCEPT !.detached = TRUE] = [thread |-> t, detached |-> TRUE]
<1>1. r \in [thread : Threads \cup {NULL}, detached : BOOLEAN] /\ r.thread = t
  OBVIOUS
<1>2. \A d \in BOOLEAN : [r EXCEPT !.detached = d] = [thread |-> r.thread, detached |-> d]
  BY <1>1
<1> QED
  BY <1>1, <1>2, Zenon

-----------------------------------------------------------------------------
(* The actions, one by one.                                                *)

LEMMA CreateCallStep ==
  ASSUME Inv, NEW a \in Threads, NEW t \in Threads, NEW h \in Handles,
         CreateCall(a, t, h)
  PROVE  Inv'
<1> USE DEF Inv
<1>1. /\ pc[a] = "idle" /\ pc'[a] = "create"
      /\ arg'[a].handle = h /\ arg'[a].thread = t
      /\ \A b \in Threads \ {a} : arg'[b] = arg[b] /\ pc'[b] = pc[b]
      /\ heap[h] = NULL /\ heap'[h] = NewHandle(NULL) /\ h # NULL
      /\ \A k \in Handles \ {h} : heap'[k] = heap[k]
      /\ life[t] = "unborn" /\ \A b \in Threads : pc[b] = "create" => arg[b].thread # t
      /\ UNCHANGED <<life, var, mine>>
  BY DEF CreateCall, Set, Enter, Runs, Live, InCreation, TypeOK
<1>2. TypeOK'
  BY DEF CreateCall, Set, Enter, NewHandle, TypeOK
<1>3. arg[a].handle = NULL
  BY <1>1 DEF Places
<1>4. OneOwner'
  BY <1>1, <1>2, <1>3, HandleInMemory, CallGains DEF Live, NewHandle
<1>5. \A b \in Threads :
        /\ arg[b].handle # NULL => heap'[arg[b].handle] = heap[arg[b].handle]
        /\ var[b] # NULL => heap'[var[b]] = heap[var[b]]
        /\ mine[b] # NULL => heap'[mine[b]] = heap[mine[b]]
  <2>1. ASSUME NEW k \in Handles \cup {NULL}, k # NULL, heap[k] # NULL
        PROVE  heap'[k] = heap[k]
    BY <1>1, <2>1
  <2> QED
    BY <2>1, Distinct DEF TypeOK
<1>6. Places'
  BY <1>1, <1>5 DEF Places
<1>7. HandleIsForItsThread'
  <2>1. \A b \in Threads : pc'[b] = "join" =>
          pc[b] = "join" /\ arg'[b] = arg[b] /\ arg[b].handle # NULL /\ b # a
    BY <1>1 DEF Places
  <2> QED
    BY <1>1, <1>5, <2>1, HandlesKept
<1> QED
  BY <1>2, <1>4, <1>6, <1>7

LEMMA SelfStep ==
  ASSUME Inv, NEW a \in Threads, NEW h \in Handles, Self(a, h)
  PROVE  Inv'
<1> USE DEF Inv
<1>1. /\ mine[a] = NULL /\ mine'[a] = h
      /\ \A b \in Threads \ {a} : mine'[b] = mine[b]
      /\ heap[h] = NULL /\ heap'[h] = NewHandle(a) /\ h # NULL
      /\ \A k \in Handles \ {h} : heap'[k] = heap[k]
      /\ UNCHANGED <<life, var, arg, pc>>
  BY DEF Self, Set, Live, TypeOK
<1>2. TypeOK'
  BY DEF Self, Set, NewHandle, TypeOK
<1>3. OneOwner'
  BY <1>1, <1>2, HandleInMemory, SelfGains DEF Live, NewHandle
<1>4. \A b \in Threads :
        /\ arg[b].handle # NULL => heap'[arg[b].handle] = heap[arg[b].handle]
        /\ var[b] # NULL => heap'[var[b]] = heap[var[b]]
        /\ mine[b] # NULL => heap'[mine[b]] = heap[mine[b]]
  <2>1. ASSUME NEW k \in Handles \cup {NULL}, k # NULL, heap[k] # NULL
        PROVE  heap'[k] = heap[k]
    BY <1>1, <2>1
  <2> QED
    BY <2>1, Distinct DEF TypeOK
<1>5. Places'
  BY <1>1, <1>4 DEF Places
<1>6. HandleIsForItsThread'
  <2>1. \A b \in Threads : var'[b] # NULL =>
          heap'[var'[b]] = [thread |-> b, detached |-> FALSE]
    BY <1>1, <1>4 DEF HandleIsForItsThread
  <2>2. \A b \in Threads : mine'[b] # NULL =>
          heap'[mine'[b]] = [thread |-> b, detached |-> FALSE]
    BY <1>1, <1>4 DEF HandleIsForItsThread, NewHandle
  <2>3. ASSUME NEW b \in Threads, pc'[b] = "join"
        PROVE  heap'[arg'[b].handle] = [thread |-> arg'[b].thread, detached |-> FALSE]
    <3>1. pc[b] = "join" /\ arg'[b] = arg[b]
      BY <1>1, <1>4, <2>3
    <3>2. arg[b].handle # NULL
      BY <3>1 DEF Places
    <3> QED
      BY <1>1, <1>4, <3>1, <3>2 DEF HandleIsForItsThread
  <2> QED
    BY <2>1, <2>2, <2>3 DEF HandleIsForItsThread
<1> QED
  BY <1>2, <1>3, <1>5, <1>6

LEMMA CreateThreadStep ==
  ASSUME Inv, NEW a \in Threads, CreateThread(a)
  PROVE  Inv'
<1> USE DEF Inv
<1> DEFINE t == arg[a].thread
           h == arg[a].handle
<1>1. /\ pc[a] = "create" /\ pc'[a] = "store"
      /\ \A b \in Threads \ {a} : pc'[b] = pc[b]
      /\ t \in Threads /\ h \in Handles /\ h # NULL
      /\ heap[h] = NewHandle(NULL) /\ heap'[h] = NewHandle(t)
      /\ \A k \in Handles \ {h} : heap'[k] = heap[k]
      /\ life[t] = "unborn" /\ life'[t] = "running"
      /\ \A b \in Threads \ {t} : life'[b] = life[b]
      /\ UNCHANGED <<arg, var, mine>>
  <2>1. /\ pc[a] = "create" /\ t \in Threads /\ h \in Handles /\ h # NULL
        /\ heap[h] = NewHandle(NULL) /\ life[t] = "unborn"
    BY DEF CreateThread, Places, TypeOK
  <2>2. [heap[h] EXCEPT !.thread = t] = NewHandle(t)
    BY <2>1, NewHandleFilled
  <2> QED
    BY <2>1, <2>2 DEF CreateThread, Set, Goto, TypeOK
<1>2. TypeOK'
  BY <1>1 DEF CreateThread, Set, Goto, NewHandle, TypeOK
<1>3. OneOwner'
  <2>1. \A k \in Handles : heap'[k] = NULL <=> heap[k] = NULL
    BY <1>1, HandleInMemory DEF NewHandle
  <2> QED
    BY <1>1, <1>2, <2>1, Stays
<1>4. \A b \in Threads :
        /\ arg[b].handle # NULL /\ b # a => heap'[arg[b].handle] = heap[arg[b].handle]
        /\ var[b] # NULL => heap'[var[b]] = heap[var[b]]
        /\ mine[b] # NULL => heap'[mine[b]] = heap[mine[b]]
  BY <1>1, Distinct DEF TypeOK
<1>5. Places'
  BY <1>1, <1>4 DEF Places
<1>6. HandleIsForItsThread'
  <2>1. \A b \in Threads : pc'[b] = "join" =>
          pc[b] = "join" /\ arg'[b] = arg[b] /\ arg[b].handle # NULL /\ b # a
    BY <1>1 DEF Places
  <2> QED
    BY <1>1, <1>4, <2>1, HandlesKept
<1> QED
  BY <1>2, <1>3, <1>5, <1>6

LEMMA ThreadEndsStep == ASSUME Inv, NEW a \in Threads, ThreadEnds(a) PROVE Inv'
<1> USE DEF Inv
<1>1. /\ pc[a] = "idle" /\ life[a] = "running" /\ life'[a] = "ended"
      /\ \A b \in Threads \ {a} : life'[b] = life[b]
      /\ UNCHANGED <<heap, var, mine, arg, pc>>
  BY DEF ThreadEnds, Runs, Goto, memory, TypeOK
<1>2. TypeOK'
  BY <1>1 DEF ThreadEnds, Goto, TypeOK
<1>3. OneOwner'
  BY <1>1, <1>2, Stays
<1>4. Places'
  BY <1>1 DEF Places
<1>5. HandleIsForItsThread'
  BY <1>1 DEF HandleIsForItsThread
<1> QED
  BY <1>2, <1>3, <1>4, <1>5

LEMMA JoinReturnsStep == ASSUME Inv, NEW a \in Threads, JoinReturns(a) PROVE Inv'
<1> USE DEF Inv
<1>1. /\ pc[a] = "join" /\ pc'[a] = "free"
      /\ \A b \in Threads \ {a} : pc'[b] = pc[b]
      /\ UNCHANGED <<heap, var, mine, arg, life>>
  BY DEF JoinReturns, Runs, Goto, memory, TypeOK
<1>2. TypeOK'
  BY <1>1 DEF JoinReturns, Goto, TypeOK
<1>3. OneOwner'
  BY <1>1, <1>2, Stays
<1>4. Places'
  BY <1>1 DEF Places
<1>5. HandleIsForItsThread'
  BY <1>1 DEF HandleIsForItsThread
<1> QED
  BY <1>2, <1>3, <1>4, <1>5

LEMMA CreateFailsStep == ASSUME Inv, NEW a \in Threads, CreateFails(a) PROVE Inv'
<1> USE DEF Inv
<1> DEFINE h == arg[a].handle
<1>1. /\ pc[a] = "create" /\ pc'[a] = "idle" /\ arg'[a] = NoArg
      /\ \A b \in Threads \ {a} : pc'[b] = pc[b] /\ arg'[b] = arg[b]
      /\ h \in Handles /\ h # NULL
      /\ heap' = [heap EXCEPT ![h] = NULL]
      /\ \A k \in Handles \ {h} : heap'[k] = heap[k]
      /\ UNCHANGED <<life, var, mine>>
  BY DEF CreateFails, Set, Leave, Places, TypeOK
<1>2. TypeOK'
  BY <1>1 DEF CreateFails, Leave, NoArg, TypeOK
<1>3. OneOwner'
  <2>1. arg'[a].handle = NULL
    BY <1>1 DEF NoArg
  <2> QED
    BY <1>1, <1>2, <2>1, CallDrops
<1>4. \A b \in Threads :
        /\ arg[b].handle # NULL /\ b # a => heap'[arg[b].handle] = heap[arg[b].handle]
        /\ var[b] # NULL => heap'[var[b]] = heap[var[b]]
        /\ mine[b] # NULL => heap'[mine[b]] = heap[mine[b]]
  BY <1>1, Distinct DEF TypeOK
<1>5. Places'
  BY <1>1, <1>4 DEF Places, NoArg
<1>6. HandleIsForItsThread'
  <2>1. \A b \in Threads : pc'[b] = "join" =>
          pc[b] = "join" /\ arg'[b] = arg[b] /\ arg[b].handle # NULL /\ b # a
    BY <1>1 DEF Places
  <2> QED
    BY <1>1, <1>4, <2>1, HandlesKept
<1> QED
  BY <1>2, <1>3, <1>5, <1>6

LEMMA FreeStep == ASSUME Inv, NEW a \in Threads, Free(a) PROVE Inv'
<1> USE DEF Inv
<1> DEFINE h == arg[a].handle
<1>1. /\ pc[a] = "free" /\ pc'[a] = "idle" /\ arg'[a] = NoArg
      /\ \A b \in Threads \ {a} : pc'[b] = pc[b] /\ arg'[b] = arg[b]
      /\ h \in Handles /\ h # NULL
      /\ heap' = [heap EXCEPT ![h] = NULL]
      /\ \A k \in Handles \ {h} : heap'[k] = heap[k]
      /\ UNCHANGED <<life, var, mine>>
  BY DEF Free, Set, Leave, Places, TypeOK
<1>2. TypeOK'
  BY <1>1 DEF Free, Leave, NoArg, TypeOK
<1>3. OneOwner'
  <2>1. arg'[a].handle = NULL
    BY <1>1 DEF NoArg
  <2> QED
    BY <1>1, <1>2, <2>1, CallDrops
<1>4. \A b \in Threads :
        /\ arg[b].handle # NULL /\ b # a => heap'[arg[b].handle] = heap[arg[b].handle]
        /\ var[b] # NULL => heap'[var[b]] = heap[var[b]]
        /\ mine[b] # NULL => heap'[mine[b]] = heap[mine[b]]
  BY <1>1, Distinct DEF TypeOK
<1>5. Places'
  BY <1>1, <1>4 DEF Places, NoArg
<1>6. HandleIsForItsThread'
  <2>1. \A b \in Threads : pc'[b] = "join" =>
          pc[b] = "join" /\ arg'[b] = arg[b] /\ arg[b].handle # NULL /\ b # a
    BY <1>1 DEF Places
  <2> QED
    BY <1>1, <1>4, <2>1, HandlesKept
<1> QED
  BY <1>2, <1>3, <1>5, <1>6

LEMMA CreateStoreStep == ASSUME Inv, NEW a \in Threads, CreateStore(a) PROVE Inv'
<1> USE DEF Inv
<1> DEFINE t == arg[a].thread
<1>1. /\ pc[a] = "store" /\ pc'[a] = "idle" /\ arg'[a] = NoArg
      /\ \A b \in Threads \ {a} : pc'[b] = pc[b] /\ arg'[b] = arg[b]
      /\ t \in Threads /\ life[t] # "unborn"
      /\ arg[a].handle # NULL /\ heap[arg[a].handle] = NewHandle(t)
      /\ var[t] = NULL /\ var'[t] = arg[a].handle
      /\ \A b \in Threads \ {t} : var'[b] = var[b]
      /\ UNCHANGED <<heap, life, mine>>
  BY DEF CreateStore, Leave, Places, TypeOK
<1>2. TypeOK'
  BY <1>1 DEF CreateStore, Leave, NoArg, TypeOK
<1>3. OneOwner'
  <2>1. arg'[a].handle = NULL
    BY <1>1 DEF NoArg
  <2> QED
    BY <1>1, <1>2, <2>1, CallStores
<1>4. Places'
  BY <1>1 DEF Places, NoArg
<1>5. HandleIsForItsThread'
  <2>1. ASSUME NEW b \in Threads, var'[b] # NULL
        PROVE  heap'[var'[b]] = [thread |-> b, detached |-> FALSE]
    <3>1. CASE b = t
      BY <1>1, <3>1 DEF NewHandle
    <3>2. CASE b # t
      BY <1>1, <2>1, <3>2 DEF HandleIsForItsThread
    <3> QED
      BY <3>1, <3>2
  <2>2. ASSUME NEW b \in Threads, mine'[b] # NULL
        PROVE  heap'[mine'[b]] = [thread |-> b, detached |-> FALSE]
    BY <1>1, <2>2 DEF HandleIsForItsThread
  <2>3. ASSUME NEW b \in Threads, pc'[b] = "join"
        PROVE  heap'[arg'[b].handle] = [thread |-> arg'[b].thread, detached |-> FALSE]
    <3>1. pc[b] = "join" /\ arg'[b] = arg[b]
      BY <1>1, <2>3
    <3> QED
      BY <1>1, <3>1 DEF HandleIsForItsThread
  <2> QED
    BY <2>1, <2>2, <2>3 DEF HandleIsForItsThread
<1> QED
  BY <1>2, <1>3, <1>4, <1>5

LEMMA JoinOther ==
  ASSUME Inv, NEW a \in Threads, NEW t \in Threads,
         UsesHandleOf(a, t), JoinCheck(a, var[t], t)
  PROVE  Inv'
<1> USE DEF Inv
<1> DEFINE h == var[t]
<1>1. /\ pc[a] = "idle" /\ arg[a].handle = NULL
      /\ h \in Handles /\ h # NULL /\ heap[h] = [thread |-> t, detached |-> FALSE]
      /\ var'[t] = NULL
      /\ \A b \in Threads \ {t} : var'[b] = var[b]
      /\ UNCHANGED mine
  <2>1. pc[a] = "idle" /\ h # NULL
    BY DEF UsesHandleOf, Runs
  <2>2. arg[a].handle = NULL
    BY <2>1 DEF Places
  <2>3. h \in Handles
    BY <2>1 DEF TypeOK
  <2>4. heap[h] = [thread |-> t, detached |-> FALSE]
    BY <2>1 DEF HandleIsForItsThread
  <2>5. /\ var'[t] = NULL
        /\ \A b \in Threads \ {t} : var'[b] = var[b]
        /\ UNCHANGED mine
    BY DEF UsesHandleOf, TypeOK
  <2> QED
    BY <2>1, <2>2, <2>3, <2>4, <2>5
<1>2. /\ pc'[a] = "join" /\ arg'[a] = [handle |-> h, thread |-> t]
      /\ \A b \in Threads \ {a} : pc'[b] = pc[b] /\ arg'[b] = arg[b]
      /\ UNCHANGED <<heap, life>>
  <2>1. ~heap[h].detached
    BY <1>1
  <2> QED
    BY <2>1 DEF JoinCheck, Enter, TypeOK
<1>3. TypeOK'
  <2>1. heap' \in [Handles -> {NULL} \cup
                   [thread : Threads \cup {NULL}, detached : BOOLEAN]]
    BY <1>1, <1>2 DEF TypeOK
  <2>2. pc' \in [Threads -> {"idle", "create", "store", "join", "free"}]
    BY DEF JoinCheck, Enter, TypeOK
  <2>3. arg' \in [Threads -> [handle : Handles \cup {NULL}, thread : Threads \cup {NULL}]]
    BY <1>1 DEF JoinCheck, Enter, TypeOK
  <2>4. /\ var' \in [Threads -> Handles \cup {NULL}]
        /\ mine' \in [Threads -> Handles \cup {NULL}]
        /\ life' \in [Threads -> {"unborn", "running", "ended"}]
        /\ claimed' \subseteq Threads
    BY <1>1, <1>2 DEF UsesHandleOf, TypeOK
  <2> QED
    BY <2>1, <2>2, <2>3, <2>4 DEF TypeOK
<1>4. OneOwner'
  <2>1. \A k \in Handles : heap'[k] = NULL <=> heap[k] = NULL
    BY <1>2
  <2>2. arg'[a].handle = h
    BY <1>2
  <2> QED
    BY <1>1, <1>2, <1>3, <2>1, <2>2, CallTakesVariable
<1>5. \A b \in Threads :
        /\ arg[b].handle # NULL => heap'[arg[b].handle] = heap[arg[b].handle]
        /\ var[b] # NULL /\ b # t => heap'[var[b]] = heap[var[b]]
        /\ mine[b] # NULL => heap'[mine[b]] = heap[mine[b]]
  BY <1>2
<1>6. Places'
  BY <1>1, <1>2, <1>5 DEF Places
<1>7. HandleIsForItsThread'
  <2>1. ASSUME NEW b \in Threads, var'[b] # NULL
        PROVE  heap'[var'[b]] = [thread |-> b, detached |-> FALSE]
    BY <1>1, <1>2, <2>1 DEF HandleIsForItsThread
  <2>2. ASSUME NEW b \in Threads, mine'[b] # NULL
        PROVE  heap'[mine'[b]] = [thread |-> b, detached |-> FALSE]
    BY <1>1, <1>2, <2>2 DEF HandleIsForItsThread
  <2>3. ASSUME NEW b \in Threads, pc'[b] = "join"
        PROVE  heap'[arg'[b].handle] = [thread |-> arg'[b].thread, detached |-> FALSE]
    <3>1. CASE b = a
      <4>1. arg'[a].handle = h /\ arg'[a].thread = t
        BY <1>2
      <4> QED
        BY <1>1, <1>2, <3>1, <4>1
    <3>2. CASE b # a
      <4>1. pc[b] = "join" /\ arg'[b] = arg[b]
        BY <1>2, <2>3, <3>2
      <4> QED
        BY <1>2, <4>1 DEF HandleIsForItsThread
    <3> QED
      BY <3>1, <3>2
  <2> QED
    BY <2>1, <2>2, <2>3 DEF HandleIsForItsThread
<1> QED
  BY <1>3, <1>4, <1>6, <1>7

LEMMA JoinOwn ==
  ASSUME Inv, NEW a \in Threads,
         UsesOwnHandle(a), JoinCheck(a, mine[a], a), UNCHANGED claimed
  PROVE  Inv'
<1> USE DEF Inv
<1> DEFINE h == mine[a]
<1>1. /\ pc[a] = "idle" /\ arg[a].handle = NULL
      /\ h \in Handles /\ h # NULL /\ heap[h] = [thread |-> a, detached |-> FALSE]
      /\ mine'[a] = NULL
      /\ \A b \in Threads \ {a} : mine'[b] = mine[b]
      /\ UNCHANGED var
  <2>1. pc[a] = "idle" /\ h # NULL
    BY DEF UsesOwnHandle, Runs
  <2>2. arg[a].handle = NULL
    BY <2>1 DEF Places
  <2>3. h \in Handles
    BY <2>1 DEF TypeOK
  <2>4. heap[h] = [thread |-> a, detached |-> FALSE]
    BY <2>1 DEF HandleIsForItsThread
  <2>5. /\ mine'[a] = NULL
        /\ \A b \in Threads \ {a} : mine'[b] = mine[b]
        /\ UNCHANGED var
    BY DEF UsesOwnHandle, TypeOK
  <2> QED
    BY <2>1, <2>2, <2>3, <2>4, <2>5
<1>2. /\ pc'[a] = "join" /\ arg'[a] = [handle |-> h, thread |-> a]
      /\ \A b \in Threads \ {a} : pc'[b] = pc[b] /\ arg'[b] = arg[b]
      /\ UNCHANGED <<heap, life>>
  <2>1. ~heap[h].detached
    BY <1>1
  <2> QED
    BY <2>1 DEF JoinCheck, Enter, TypeOK
<1>3. TypeOK'
  <2>1. heap' \in [Handles -> {NULL} \cup
                   [thread : Threads \cup {NULL}, detached : BOOLEAN]]
    BY <1>1, <1>2 DEF TypeOK
  <2>2. pc' \in [Threads -> {"idle", "create", "store", "join", "free"}]
    BY DEF JoinCheck, Enter, TypeOK
  <2>3. arg' \in [Threads -> [handle : Handles \cup {NULL}, thread : Threads \cup {NULL}]]
    BY <1>1 DEF JoinCheck, Enter, TypeOK
  <2>4. /\ var' \in [Threads -> Handles \cup {NULL}]
        /\ mine' \in [Threads -> Handles \cup {NULL}]
        /\ life' \in [Threads -> {"unborn", "running", "ended"}]
        /\ claimed' \subseteq Threads
    BY <1>1, <1>2 DEF UsesOwnHandle, TypeOK
  <2> QED
    BY <2>1, <2>2, <2>3, <2>4 DEF TypeOK
<1>4. OneOwner'
  <2>1. \A k \in Handles : heap'[k] = NULL <=> heap[k] = NULL
    BY <1>2
  <2>2. arg'[a].handle = h
    BY <1>2
  <2> QED
    BY <1>1, <1>2, <1>3, <2>1, <2>2, CallTakesOwn
<1>5. \A b \in Threads :
        /\ arg[b].handle # NULL => heap'[arg[b].handle] = heap[arg[b].handle]
        /\ var[b] # NULL => heap'[var[b]] = heap[var[b]]
        /\ mine[b] # NULL /\ b # a => heap'[mine[b]] = heap[mine[b]]
  BY <1>2
<1>6. Places'
  BY <1>1, <1>2, <1>5 DEF Places
<1>7. HandleIsForItsThread'
  <2>1. ASSUME NEW b \in Threads, var'[b] # NULL
        PROVE  heap'[var'[b]] = [thread |-> b, detached |-> FALSE]
    BY <1>1, <1>2, <2>1 DEF HandleIsForItsThread
  <2>2. ASSUME NEW b \in Threads, mine'[b] # NULL
        PROVE  heap'[mine'[b]] = [thread |-> b, detached |-> FALSE]
    BY <1>1, <1>2, <2>2 DEF HandleIsForItsThread
  <2>3. ASSUME NEW b \in Threads, pc'[b] = "join"
        PROVE  heap'[arg'[b].handle] = [thread |-> arg'[b].thread, detached |-> FALSE]
    <3>1. CASE b = a
      <4>1. arg'[a].handle = h /\ arg'[a].thread = a
        BY <1>2
      <4> QED
        BY <1>1, <1>2, <3>1, <4>1
    <3>2. CASE b # a
      <4>1. pc[b] = "join" /\ arg'[b] = arg[b]
        BY <1>2, <2>3, <3>2
      <4> QED
        BY <1>2, <4>1 DEF HandleIsForItsThread
    <3> QED
      BY <3>1, <3>2
  <2> QED
    BY <2>1, <2>2, <2>3 DEF HandleIsForItsThread
<1> QED
  BY <1>3, <1>4, <1>6, <1>7

LEMMA DetachOther ==
  ASSUME Inv, NEW a \in Threads, NEW t \in Threads,
         UsesHandleOf(a, t), DetachCheck(a, var[t], t)
  PROVE  Inv'
<1> USE DEF Inv
<1> DEFINE h == var[t]
<1>1. /\ pc[a] = "idle" /\ arg[a].handle = NULL
      /\ h \in Handles /\ h # NULL /\ heap[h] = [thread |-> t, detached |-> FALSE]
      /\ var'[t] = NULL
      /\ \A b \in Threads \ {t} : var'[b] = var[b]
      /\ UNCHANGED mine
  <2>1. pc[a] = "idle" /\ h # NULL
    BY DEF UsesHandleOf, Runs
  <2>2. arg[a].handle = NULL
    BY <2>1 DEF Places
  <2>3. h \in Handles
    BY <2>1 DEF TypeOK
  <2>4. heap[h] = [thread |-> t, detached |-> FALSE]
    BY <2>1 DEF HandleIsForItsThread
  <2>5. /\ var'[t] = NULL
        /\ \A b \in Threads \ {t} : var'[b] = var[b]
        /\ UNCHANGED mine
    BY DEF UsesHandleOf, TypeOK
  <2> QED
    BY <2>1, <2>2, <2>3, <2>4, <2>5
<1>2. /\ pc'[a] = "free" /\ arg'[a] = [handle |-> h, thread |-> t]
      /\ \A b \in Threads \ {a} : pc'[b] = pc[b] /\ arg'[b] = arg[b]
      /\ heap' = [heap EXCEPT ![h] = [thread |-> t, detached |-> TRUE]]
      /\ UNCHANGED life
  <2>1. [heap[h] EXCEPT !.detached = TRUE] = [thread |-> t, detached |-> TRUE]
    BY <1>1, HandleMarked
  <2> QED
    BY <2>1 DEF DetachCheck, Set, Enter, TypeOK
<1>3. TypeOK'
  <2>1. heap' \in [Handles -> {NULL} \cup
                   [thread : Threads \cup {NULL}, detached : BOOLEAN]]
    BY <1>1, <1>2 DEF TypeOK
  <2>2. pc' \in [Threads -> {"idle", "create", "store", "join", "free"}]
    BY DEF DetachCheck, Enter, TypeOK
  <2>3. arg' \in [Threads -> [handle : Handles \cup {NULL}, thread : Threads \cup {NULL}]]
    BY <1>1 DEF DetachCheck, Enter, TypeOK
  <2>4. /\ var' \in [Threads -> Handles \cup {NULL}]
        /\ mine' \in [Threads -> Handles \cup {NULL}]
        /\ life' \in [Threads -> {"unborn", "running", "ended"}]
        /\ claimed' \subseteq Threads
    BY <1>1, <1>2 DEF UsesHandleOf, TypeOK
  <2> QED
    BY <2>1, <2>2, <2>3, <2>4 DEF TypeOK
<1>4. OneOwner'
  <2>1. \A k \in Handles : heap'[k] = NULL <=> heap[k] = NULL
    BY <1>1, <1>2, HandleInMemory DEF TypeOK
  <2>2. arg'[a].handle = h
    BY <1>2
  <2> QED
    BY <1>1, <1>2, <1>3, <2>1, <2>2, CallTakesVariable
<1>5. \A b \in Threads :
        /\ arg[b].handle # NULL => heap'[arg[b].handle] = heap[arg[b].handle]
        /\ var[b] # NULL /\ b # t => heap'[var[b]] = heap[var[b]]
        /\ mine[b] # NULL => heap'[mine[b]] = heap[mine[b]]
  BY <1>1, <1>2, Distinct DEF TypeOK
<1>6. Places'
  BY <1>1, <1>2, <1>5 DEF Places
<1>7. HandleIsForItsThread'
  <2>1. \A b \in Threads : pc'[b] = "join" =>
          pc[b] = "join" /\ arg'[b] = arg[b] /\ arg[b].handle # NULL
    BY <1>2 DEF Places
  <2> QED
    BY <1>1, <1>2, <1>5, <2>1, HandlesKept
<1> QED
  BY <1>3, <1>4, <1>6, <1>7

LEMMA DetachOwn ==
  ASSUME Inv, NEW a \in Threads,
         UsesOwnHandle(a), DetachCheck(a, mine[a], a), claimed' \subseteq Threads
  PROVE  Inv'
<1> USE DEF Inv
<1> DEFINE h == mine[a]
<1>1. /\ pc[a] = "idle" /\ arg[a].handle = NULL
      /\ h \in Handles /\ h # NULL /\ heap[h] = [thread |-> a, detached |-> FALSE]
      /\ mine'[a] = NULL
      /\ \A b \in Threads \ {a} : mine'[b] = mine[b]
      /\ UNCHANGED var
  <2>1. pc[a] = "idle" /\ h # NULL
    BY DEF UsesOwnHandle, Runs
  <2>2. arg[a].handle = NULL
    BY <2>1 DEF Places
  <2>3. h \in Handles
    BY <2>1 DEF TypeOK
  <2>4. heap[h] = [thread |-> a, detached |-> FALSE]
    BY <2>1 DEF HandleIsForItsThread
  <2>5. /\ mine'[a] = NULL
        /\ \A b \in Threads \ {a} : mine'[b] = mine[b]
        /\ UNCHANGED var
    BY DEF UsesOwnHandle, TypeOK
  <2> QED
    BY <2>1, <2>2, <2>3, <2>4, <2>5
<1>2. /\ pc'[a] = "free" /\ arg'[a] = [handle |-> h, thread |-> a]
      /\ \A b \in Threads \ {a} : pc'[b] = pc[b] /\ arg'[b] = arg[b]
      /\ heap' = [heap EXCEPT ![h] = [thread |-> a, detached |-> TRUE]]
      /\ UNCHANGED life
  <2>1. [heap[h] EXCEPT !.detached = TRUE] = [thread |-> a, detached |-> TRUE]
    BY <1>1, HandleMarked
  <2> QED
    BY <2>1 DEF DetachCheck, Set, Enter, TypeOK
<1>3. TypeOK'
  <2>1. heap' \in [Handles -> {NULL} \cup
                   [thread : Threads \cup {NULL}, detached : BOOLEAN]]
    BY <1>1, <1>2 DEF TypeOK
  <2>2. pc' \in [Threads -> {"idle", "create", "store", "join", "free"}]
    BY DEF DetachCheck, Enter, TypeOK
  <2>3. arg' \in [Threads -> [handle : Handles \cup {NULL}, thread : Threads \cup {NULL}]]
    BY <1>1 DEF DetachCheck, Enter, TypeOK
  <2>4. /\ var' \in [Threads -> Handles \cup {NULL}]
        /\ mine' \in [Threads -> Handles \cup {NULL}]
        /\ life' \in [Threads -> {"unborn", "running", "ended"}]
        /\ claimed' \subseteq Threads
    BY <1>1, <1>2 DEF UsesOwnHandle, TypeOK
  <2> QED
    BY <2>1, <2>2, <2>3, <2>4 DEF TypeOK
<1>4. OneOwner'
  <2>1. \A k \in Handles : heap'[k] = NULL <=> heap[k] = NULL
    BY <1>1, <1>2, HandleInMemory DEF TypeOK
  <2>2. arg'[a].handle = h
    BY <1>2
  <2> QED
    BY <1>1, <1>2, <1>3, <2>1, <2>2, CallTakesOwn
<1>5. \A b \in Threads :
        /\ arg[b].handle # NULL => heap'[arg[b].handle] = heap[arg[b].handle]
        /\ var[b] # NULL => heap'[var[b]] = heap[var[b]]
        /\ mine[b] # NULL /\ b # a => heap'[mine[b]] = heap[mine[b]]
  BY <1>1, <1>2, Distinct DEF TypeOK
<1>6. Places'
  BY <1>1, <1>2, <1>5 DEF Places
<1>7. HandleIsForItsThread'
  <2>1. \A b \in Threads : pc'[b] = "join" =>
          pc[b] = "join" /\ arg'[b] = arg[b] /\ arg[b].handle # NULL
    BY <1>2 DEF Places
  <2> QED
    BY <1>1, <1>2, <1>5, <2>1, HandlesKept
<1> QED
  BY <1>3, <1>4, <1>6, <1>7

LEMMA JoinStep == ASSUME Inv, NEW a \in Threads, Join(a) PROVE Inv'
<1>1. ASSUME NEW t \in a+1..N, UsesHandleOf(a, t), JoinCheck(a, var[t], t) PROVE Inv'
  <2>1. t \in Threads
    BY DEF Threads
  <2> QED
    BY <1>1, <2>1, JoinOther
<1>2. ASSUME UsesOwnHandle(a), JoinCheck(a, mine[a], a), UNCHANGED claimed PROVE Inv'
  BY <1>2, JoinOwn
<1> QED
  BY <1>1, <1>2 DEF Join

LEMMA DetachStep == ASSUME Inv, NEW a \in Threads, Detach(a) PROVE Inv'
<1>1. ASSUME NEW t \in Threads, UsesHandleOf(a, t), DetachCheck(a, var[t], t) PROVE Inv'
  BY <1>1, DetachOther
<1>2. ASSUME claimed' = claimed \cup {a}, UsesOwnHandle(a), DetachCheck(a, mine[a], a)
      PROVE  Inv'
  <2>1. claimed' \subseteq Threads
    BY <1>2 DEF Inv, TypeOK
  <2> QED
    BY <1>2, <2>1, DetachOwn
<1> QED
  BY <1>1, <1>2 DEF Detach

-----------------------------------------------------------------------------
LEMMA InvInit == Init => Inv
<1> HAVE Init
<1>1. TypeOK
  BY DEF Init, NoArg, TypeOK, Threads
<1>2. \A t \in Threads : arg[t].handle = NULL /\ var[t] = NULL /\ mine[t] = NULL
  BY DEF Init, NoArg
<1>3. OneOwner
  BY <1>2 DEF Init, OneOwner, Owners, Live
<1>4. HandleIsForItsThread /\ Places
  BY <1>2 DEF Init, HandleIsForItsThread, Places
<1> QED
  BY <1>1, <1>3, <1>4 DEF Inv

LEMMA InvStep == Inv /\ [Next]_vars => Inv'
<1> SUFFICES ASSUME Inv, [Next]_vars PROVE Inv'
  OBVIOUS
<1>1. ASSUME NEW a \in Threads, NEW t \in Threads, NEW h \in Handles,
             CreateCall(a, t, h)
      PROVE  Inv'
  BY <1>1, CreateCallStep
<1>2. ASSUME NEW a \in Threads, NEW h \in Handles, Self(a, h) PROVE Inv'
  BY <1>2, SelfStep
<1>3. ASSUME NEW a \in Threads, CreateThread(a) PROVE Inv'
  BY <1>3, CreateThreadStep
<1>4. ASSUME NEW a \in Threads, CreateFails(a) PROVE Inv'
  BY <1>4, CreateFailsStep
<1>5. ASSUME NEW a \in Threads, CreateStore(a) PROVE Inv'
  BY <1>5, CreateStoreStep
<1>6. ASSUME NEW a \in Threads, ThreadEnds(a) PROVE Inv'
  BY <1>6, ThreadEndsStep
<1>7. ASSUME NEW a \in Threads, Join(a) PROVE Inv'
  BY <1>7, JoinStep
<1>8. ASSUME NEW a \in Threads, JoinReturns(a) PROVE Inv'
  BY <1>8, JoinReturnsStep
<1>9. ASSUME NEW a \in Threads, Detach(a) PROVE Inv'
  BY <1>9, DetachStep
<1>10. ASSUME NEW a \in Threads, Free(a) PROVE Inv'
  BY <1>10, FreeStep
<1>11. ASSUME UNCHANGED vars PROVE Inv'
  <2>1. UNCHANGED <<heap, var, mine, life, pc, arg, claimed>>
    BY <1>11 DEF vars, memory
  <2>2. TypeOK'
    BY <2>1 DEF Inv, TypeOK
  <2>3. OneOwner' /\ HandleIsForItsThread' /\ Places'
    BY <2>1 DEF Inv, OneOwner, Owners, Live, HandleIsForItsThread, Places
  <2> QED
    BY <2>2, <2>3 DEF Inv
<1> QED
  BY <1>1, <1>2, <1>3, <1>4, <1>5, <1>6, <1>7, <1>8, <1>9, <1>10, <1>11 DEF Next

LEMMA Invariance == Spec => []Inv
BY InvInit, InvStep, PTL DEF Spec

(* The state stays well-typed. *)
THEOREM TypeCorrect == Spec => []TypeOK
<1>1. Inv => TypeOK
  BY DEF Inv
<1> QED
  BY Invariance, <1>1, PTL

(* For any number of threads and whatever memory malloc returns: every     *)
(* allocated handle has one owner, whichever of sthread_create,            *)
(* pthread_create and pthread_join fail (sthread.c:36-37, :40, :55-60).    *)
THEOREM OneOwnerEach == Spec => []OneOwner
<1>1. Inv => OneOwner
  BY DEF Inv
<1> QED
  BY Invariance, <1>1, PTL

(* The handle that a caller may still pass stands for the thread it was    *)
(* made for and is not marked detached, so the check of sthread.c:51 never *)
(* refuses a legal join.                                                   *)
THEOREM HandlesStayTrue == Spec => []HandleIsForItsThread
<1>1. Inv => HandleIsForItsThread
  BY DEF Inv
<1> QED
  BY Invariance, <1>1, PTL
=============================================================================
