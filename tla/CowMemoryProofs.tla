-------------------------- MODULE CowMemoryProofs ---------------------------
(***************************************************************************)
(* Proofs about CowMemory for any number of machines, addresses, bytes and *)
(* pages: the types, copy-on-write privacy, that the bytes every machine   *)
(* reads are those of a private store (AbstractMemory), and the reference  *)
(* counts.                                                                 *)
(***************************************************************************)
EXTENDS CowMemory, BasicFacts

(* A copy adds a natural number of references to a page.                   *)
LEMMA MappingsType ==
    ASSUME NEW m \in VMs, NEW p \in Pages
    PROVE  Mappings(m, p) \in Nat
<1> DEFINE S == {a \in Addrs : pages[m][a] = p}
<1>1. IsFiniteSet(S)
  BY CowMemoryAssumption, FS_Subset, S \subseteq Addrs
<1> QED
  BY <1>1, FS_CardinalityType DEF Mappings

(* A function that differs from another at one argument only.              *)
LEMMA ChangedAtOnePoint ==
    ASSUME NEW D, NEW S, NEW T, NEW a \in D, NEW W,
           S = [b \in D |-> S[b]], T = [b \in D |-> T[b]],
           T[a] = W, \A b \in D : b # a => T[b] = S[b]
    PROVE  T = [S EXCEPT ![a] = W]
OBVIOUS

-----------------------------------------------------------------------------
(* The inductive invariant                                                 *)

LEMMA InitIInv == Init => IInv
<1> SUFFICES ASSUME Init PROVE IInv
  OBVIOUS
<1>1. TypeOK
  BY CowMemoryAssumption DEF Init, TypeOK, PageOrNull, Clean, NoOverlay, ZeroPage
<1>2. DirtyIsPrivate
  BY DEF Init, DirtyIsPrivate
<1>3. FreshIsUnknown
  BY CowMemoryAssumption DEF Init, FreshIsUnknown, Unused
<1>4. AllocatedIsReferenced
  BY DEF Init, AllocatedIsReferenced, Allocated
<1>5. NoneIsClean
  BY DEF Init, NoneIsClean
<1> QED
  BY <1>1, <1>2, <1>3, <1>4, <1>5 DEF IInv

LEMMA MapPageIInv ==
    ASSUME IInv, NEW m \in VMs, NEW a \in Addrs, MapPage(m, a)
    PROVE  IInv'
<1> USE DEF IInv
<1>1. PICK p \in Pages : NewPage(p) /\ pages' = [pages EXCEPT ![m][a] = p]
  BY DEF MapPage
<1>2. UNCHANGED <<vm, dirty, dirty_counter, symbolic_memory, owed>>
  BY DEF MapPage
<1>3. TypeOK'
  BY <1>1, <1>2, CowMemoryAssumption DEF TypeOK, NewPage, PageOrNull, ZeroPage
<1>4. DirtyIsPrivate'
  BY <1>1, <1>2 DEF DirtyIsPrivate, TypeOK, NewPage, FreshIsUnknown, MapPage
<1>5. FreshIsUnknown'
  BY <1>1, CowMemoryAssumption DEF FreshIsUnknown, TypeOK, NewPage, Unused
<1>6. AllocatedIsReferenced'
  BY <1>1 DEF AllocatedIsReferenced, TypeOK, NewPage, Allocated
<1>7. NoneIsClean'
  BY <1>2 DEF NoneIsClean
<1> QED
  BY <1>3, <1>4, <1>5, <1>6, <1>7

LEMMA StoreInPlaceIInv ==
    ASSUME IInv, NEW m \in VMs, NEW a \in Addrs, NEW o \in Offsets, NEW v \in Bytes,
           m \in Alive, a \in Mapped(m), StoreInPlace(m, a, o, v),
           UNCHANGED <<vm, symbolic_memory, owed>>
    PROVE  IInv'
<1> USE DEF IInv
<1>1. TypeOK'
  BY DEF TypeOK, StoreInPlace, Mapped, PageOrNull
<1>2. DirtyIsPrivate'
  BY DEF DirtyIsPrivate, StoreInPlace
<1>3. FreshIsUnknown'
  BY DEF FreshIsUnknown, StoreInPlace, Unused
<1>4. AllocatedIsReferenced'
  BY DEF AllocatedIsReferenced, StoreInPlace, Allocated
<1>5. NoneIsClean'
  BY DEF NoneIsClean, StoreInPlace
<1> QED
  BY <1>1, <1>2, <1>3, <1>4, <1>5

LEMMA StoreInChildIInv ==
    ASSUME IInv, NEW m \in VMs, NEW a \in Addrs, NEW o \in Offsets, NEW v \in Bytes,
           m \in Alive, a \in Mapped(m), StoreInChild(m, a, o, v),
           UNCHANGED <<vm, symbolic_memory, owed>>
    PROVE  IInv'
<1> USE DEF IInv
<1> DEFINE p == pages[m][a]
<1>1. p \in Pages
  BY DEF TypeOK, Mapped, PageOrNull
<1>2. PICK q \in Pages : MakeChild(p, q, o, v) /\ pages' = [pages EXCEPT ![m][a] = q]
  BY DEF StoreInChild
<1>3. q \in Unused /\ q # p
  BY <1>2 DEF MakeChild, FreshIsUnknown
<1>4. /\ dirty' = [dirty EXCEPT ![m] = @ \cup {a}]
      /\ dirty_counter' = [dirty_counter EXCEPT ![m][a] = @ + 1]
  BY DEF StoreInChild
<1>5. TypeOK'
  <2>1. data' \in [Pages -> [Offsets -> Bytes]]
    BY <1>1, <1>2 DEF TypeOK, MakeChild
  <2>2. status' \in [Pages -> {"unused", "allocated", "deleted"}]
    BY <1>2 DEF TypeOK, MakeChild
  <2>3. references' \in [Pages -> Nat]
    <3> references \in [Pages -> Nat] /\ references[p] + 1 \in Nat
      BY <1>1 DEF TypeOK
    <3> references' = [[references EXCEPT ![q] = 1] EXCEPT ![p] = references[p] + 1]
      BY <1>2, <1>3 DEF MakeChild
    <3> QED
      BY <1>1, <1>2
  <2>4. parent' \in [Pages -> PageOrNull]
    BY <1>1, <1>2 DEF TypeOK, MakeChild, PageOrNull
  <2>5. pages' \in [VMs -> [Addrs -> PageOrNull]]
    BY <1>2 DEF TypeOK, PageOrNull
  <2>6. dirty' \in [VMs -> SUBSET Addrs] /\ dirty_counter' \in [VMs -> [Addrs -> Nat]]
    BY <1>4 DEF TypeOK
  <2> QED
    BY <2>1, <2>2, <2>3, <2>4, <2>5, <2>6 DEF TypeOK
<1>6. DirtyIsPrivate'
  BY <1>2, <1>3, <1>4 DEF DirtyIsPrivate, TypeOK, FreshIsUnknown
<1>7. FreshIsUnknown'
  BY <1>1, <1>2, <1>3 DEF FreshIsUnknown, TypeOK, MakeChild, Unused
<1>8. AllocatedIsReferenced'
  BY <1>1, <1>2, <1>3 DEF AllocatedIsReferenced, TypeOK, MakeChild, Allocated
<1>9. NoneIsClean'
  BY <1>4 DEF NoneIsClean, Alive, TypeOK
<1> QED
  BY <1>5, <1>6, <1>7, <1>8, <1>9

LEMMA StoreWildIInv ==
    ASSUME IInv, NEW m \in VMs, NEW a \in Addrs, NEW o \in Offsets, NEW w \in Wilds,
           StoreWild(m, a, o, w)
    PROVE  IInv'
<1> USE DEF IInv
<1>1. TypeOK'
  BY DEF TypeOK, StoreWild, pageVars
<1>2. DirtyIsPrivate'
  BY DEF DirtyIsPrivate, StoreWild
<1>3. FreshIsUnknown' /\ AllocatedIsReferenced'
  BY DEF FreshIsUnknown, AllocatedIsReferenced, StoreWild, pageVars, Unused, Allocated
<1>4. NoneIsClean'
  BY DEF NoneIsClean, StoreWild, Alive, TypeOK
<1> QED
  BY <1>1, <1>2, <1>3, <1>4

LEMMA CopyIInv ==
    ASSUME IInv, NEW m \in VMs, NEW n \in VMs, Copy(m, n)
    PROVE  IInv'
<1> USE DEF IInv
<1>1. m # n /\ vm[m] = "alive" /\ dirty[n] = {}
  BY DEF Copy, Alive, NoneIsClean
<1>2. TypeOK'
  <2>1. references' \in [Pages -> Nat]
    BY MappingsType DEF TypeOK, Copy
  <2> QED
    BY <2>1 DEF TypeOK, Copy
<1>3. DirtyIsPrivate'
  BY <1>1 DEF DirtyIsPrivate, Copy, TypeOK
<1>4. FreshIsUnknown'
  BY DEF FreshIsUnknown, Copy, Unused, TypeOK
<1>5. AllocatedIsReferenced'
  BY MappingsType DEF AllocatedIsReferenced, Copy, Allocated, TypeOK
<1>6. NoneIsClean'
  BY DEF NoneIsClean, Copy, TypeOK, Alive
<1> QED
  BY <1>2, <1>3, <1>4, <1>5, <1>6

LEMMA DestroyBeginIInv ==
    ASSUME IInv, NEW m \in VMs, DestroyBegin(m)
    PROVE  IInv'
<1> USE DEF IInv
<1>1. TypeOK'
  BY DEF TypeOK, DestroyBegin, DestroyCalls, memoryVars, pageVars
<1>2. DirtyIsPrivate'
  BY DEF DirtyIsPrivate, DestroyBegin, memoryVars, TypeOK
<1>3. FreshIsUnknown' /\ AllocatedIsReferenced'
  BY DEF FreshIsUnknown, AllocatedIsReferenced, DestroyBegin, memoryVars, pageVars,
         Unused, Allocated
<1>4. NoneIsClean'
  BY DEF NoneIsClean, DestroyBegin, memoryVars, TypeOK
<1> QED
  BY <1>1, <1>2, <1>3, <1>4

LEMMA DestroyPageIInv ==
    ASSUME IInv, NEW m \in VMs, NEW a \in Addrs, DestroyPage(m, a)
    PROVE  IInv'
<1> USE DEF IInv
<1> DEFINE p == pages[m][a]
<1>1. p \in Allocated /\ p \in Pages
  BY DEF DestroyPage, Allocated
<1>2. /\ references' = [references EXCEPT ![p] = @ - 1]
      /\ status' = IF references'[p] = 0
                   THEN [status EXCEPT ![p] = "deleted"] ELSE status
      /\ pages' = [pages EXCEPT ![m][a] = parent[p]]
      /\ owed' = [owed EXCEPT ![m][a] = @ - 1]
      /\ owed[m][a] > 0
      /\ vm[m] = "dying"
      /\ UNCHANGED <<vm, dirty, dirty_counter, symbolic_memory, parent, data>>
  BY DEF DestroyPage
<1>3. TypeOK'
  BY <1>1, <1>2 DEF TypeOK, AllocatedIsReferenced
<1>4. DirtyIsPrivate'
  BY <1>2 DEF DirtyIsPrivate, TypeOK
<1>5. FreshIsUnknown'
  <2>1. Unused' \subseteq Unused
    BY <1>1, <1>2 DEF Unused, TypeOK
  <2> QED
    BY <1>1, <1>2, <2>1 DEF FreshIsUnknown, TypeOK, Unused
<1>6. AllocatedIsReferenced'
  BY <1>1, <1>2 DEF AllocatedIsReferenced, Allocated, TypeOK
<1>7. NoneIsClean'
  BY <1>2 DEF NoneIsClean
<1> QED
  BY <1>3, <1>4, <1>5, <1>6, <1>7

LEMMA DestroyEndIInv ==
    ASSUME IInv, NEW m \in VMs, DestroyEnd(m)
    PROVE  IInv'
<1> USE DEF IInv
<1>1. TypeOK'
  BY DEF TypeOK, DestroyEnd, memoryVars, pageVars
<1>2. DirtyIsPrivate'
  BY DEF DirtyIsPrivate, DestroyEnd, memoryVars, TypeOK
<1>3. FreshIsUnknown' /\ AllocatedIsReferenced'
  BY DEF FreshIsUnknown, AllocatedIsReferenced, DestroyEnd, memoryVars, pageVars,
         Unused, Allocated
<1>4. NoneIsClean'
  BY DEF NoneIsClean, DestroyEnd, memoryVars, TypeOK
<1> QED
  BY <1>1, <1>2, <1>3, <1>4

LEMMA StoreConcreteIInv ==
    ASSUME IInv, NEW m \in VMs, NEW a \in Addrs, NEW o \in Offsets, NEW v \in Bytes,
           StoreConcrete(m, a, o, v)
    PROVE  IInv'
BY StoreInPlaceIInv, StoreInChildIInv DEF StoreConcrete

LEMMA StoreRawIInv ==
    ASSUME IInv, NEW m \in VMs, NEW a \in Addrs, NEW o \in Offsets, NEW v \in Bytes,
           StoreRaw(m, a, o, v)
    PROVE  IInv'
<1> USE DEF IInv
<1>1. TypeOK'
  BY DEF TypeOK, StoreRaw, memoryVars, Mapped, PageOrNull
<1>2. DirtyIsPrivate'
  BY DEF DirtyIsPrivate, StoreRaw, memoryVars
<1>3. FreshIsUnknown' /\ AllocatedIsReferenced' /\ NoneIsClean'
  BY DEF FreshIsUnknown, AllocatedIsReferenced, NoneIsClean, StoreRaw, memoryVars,
         Unused, Allocated
<1> QED
  BY <1>1, <1>2, <1>3

LEMMA RemapPageIInv ==
    ASSUME IInv, NEW m \in VMs, NEW a \in Addrs, RemapPage(m, a)
    PROVE  IInv'
<1> USE DEF IInv
<1>1. PICK p \in Pages : NewPage(p) /\ pages' = [pages EXCEPT ![m][a] = p]
  BY DEF RemapPage
<1>2. UNCHANGED <<vm, dirty, dirty_counter, symbolic_memory, owed>>
  BY DEF RemapPage
<1>3. TypeOK'
  BY <1>1, <1>2, CowMemoryAssumption DEF TypeOK, NewPage, PageOrNull, ZeroPage
<1>4. DirtyIsPrivate'
  BY <1>1, <1>2 DEF DirtyIsPrivate, TypeOK, NewPage, FreshIsUnknown
<1>5. FreshIsUnknown'
  BY <1>1, CowMemoryAssumption DEF FreshIsUnknown, TypeOK, NewPage, Unused
<1>6. AllocatedIsReferenced'
  BY <1>1 DEF AllocatedIsReferenced, TypeOK, NewPage, Allocated
<1>7. NoneIsClean'
  BY <1>2 DEF NoneIsClean
<1> QED
  BY <1>3, <1>4, <1>5, <1>6, <1>7

LEMMA NextIInv == IInv /\ [Next]_vars => IInv'
<1> SUFFICES ASSUME IInv, [Next]_vars PROVE IInv'
  OBVIOUS
<1>1. CASE UNCHANGED vars
  BY <1>1 DEF vars, memoryVars, pageVars, IInv, TypeOK, DirtyIsPrivate,
              FreshIsUnknown, AllocatedIsReferenced, NoneIsClean, Unused, Allocated
<1>2. CASE ConcreteNext
  BY <1>2, MapPageIInv, StoreConcreteIInv, CopyIInv, DestroyBeginIInv,
     DestroyPageIInv, DestroyEndIInv DEF ConcreteNext, Destroy
<1>3. CASE \E m \in VMs, a \in Addrs, o \in Offsets, w \in Wilds : StoreWild(m, a, o, w)
  BY <1>3, StoreWildIInv
<1>4. CASE \E m \in VMs, a \in Addrs, o \in Offsets, v \in Bytes : StoreRaw(m, a, o, v)
  BY <1>4, StoreRawIInv
<1>5. CASE \E m \in VMs, a \in Addrs : RemapPage(m, a)
  BY <1>5, RemapPageIInv
<1> QED
  BY <1>1, <1>2, <1>3, <1>4, <1>5 DEF Next, GuestNext

(* IInv is an inductive invariant of everything the guest's own loads,     *)
(* stores, forks and teardown do (memory.cc:29-91, 144-177, 217-246), and  *)
(* of the raw stores and the remapping of the emulated kernel (memory.cc:  *)
(* 108-112, 174-177).                                                      *)
THEOREM InductiveInvariant == Spec => []IInv
<1>1. Init => IInv
  BY InitIInv
<1>2. IInv /\ [Next]_vars => IInv'
  BY NextIInv
<1> QED
  BY <1>1, <1>2, PTL DEF Spec

(* What the guest alone may do is part of what the program may do.         *)
LEMMA GuestImplementsSpec == GuestSpec => Spec
<1>1. [GuestNext]_vars => [Next]_vars
  BY DEF Next
<1> QED
  BY <1>1, PTL DEF GuestSpec, Spec

(* Type correctness; the part that is not immediate is that a reference    *)
(* count is never taken below zero (page.cc:54).                           *)
THEOREM TypeCorrect == Spec => []TypeOK
<1>1. IInv => TypeOK
  BY DEF IInv
<1> QED
  BY <1>1, InductiveInvariant, PTL

(* A page that a memory writes in place is mapped by that memory alone,    *)
(* at that address alone (memory.cc:54, 83), whatever the emulated kernel  *)
(* does in between.                                                        *)
THEOREM WritesArePrivate == Spec => []DirtyIsPrivate
<1>1. IInv => DirtyIsPrivate
  BY DEF IInv
<1> QED
  BY <1>1, InductiveInvariant, PTL

-----------------------------------------------------------------------------
(* CowMemory implements AbstractMemory                                     *)

(* The store of a living machine.                                          *)
LEMMA AliveStore ==
    ASSUME TypeOK, NEW m \in VMs, vm[m] = "alive"
    PROVE  /\ ByteStore[m] = [a \in Addrs |-> IF pages[m][a] = NULL THEN Unmapped
                                               ELSE data[pages[m][a]]]
           /\ ByteStore[m] \in [Addrs -> [Offsets -> Bytes] \cup {Unmapped}]
           /\ ByteStore[m] # NoMemory
<1>1. ByteStore[m] = [a \in Addrs |-> IF pages[m][a] = NULL THEN Unmapped
                                      ELSE data[pages[m][a]]]
  BY DEF ByteStore
<1>2. ByteStore[m] \in [Addrs -> [Offsets -> Bytes] \cup {Unmapped}]
  BY <1>1 DEF TypeOK, PageOrNull
<1> QED
  BY <1>1, <1>2, CowMemoryAssumption

(* What one machine contributes to ByteStore, before and after a step.     *)
LEMMA SameStore ==
    ASSUME TypeOK, NEW n \in VMs, vm'[n] = vm[n], pages'[n] = pages[n],
           \A b \in Addrs : pages[n][b] # NULL =>
               data'[pages[n][b]] = data[pages[n][b]]
    PROVE  ByteStore'[n] = ByteStore[n]
<1>1. ByteStore[n] = IF vm[n] # "alive" THEN NoMemory
        ELSE [b \in Addrs |-> IF pages[n][b] = NULL THEN Unmapped
                              ELSE data[pages[n][b]]]
  BY DEF ByteStore
<1>2. ByteStore'[n] = IF vm'[n] # "alive" THEN NoMemory
        ELSE [b \in Addrs |-> IF pages'[n][b] = NULL THEN Unmapped
                              ELSE data'[pages'[n][b]]]
  BY DEF ByteStore
<1>3. [b \in Addrs |-> IF pages[n][b] = NULL THEN Unmapped ELSE data[pages[n][b]]]
      = [b \in Addrs |-> IF pages'[n][b] = NULL THEN Unmapped ELSE data'[pages'[n][b]]]
  OBVIOUS
<1> QED
  BY <1>1, <1>2, <1>3

LEMMA InitRefines == Init => Bytewise!Init
<1> SUFFICES ASSUME Init PROVE Bytewise!Init
  OBVIOUS
<1>1. ASSUME NEW m \in VMs
      PROVE  ByteStore[m] = IF m = Root THEN Bytewise!Empty ELSE NoMemory
  <2>1. ByteStore[m] = IF vm[m] # "alive" THEN NoMemory
          ELSE [b \in Addrs |-> IF pages[m][b] = NULL THEN Unmapped
                                ELSE data[pages[m][b]]]
    BY DEF ByteStore
  <2>2. [b \in Addrs |-> IF pages[m][b] = NULL THEN Unmapped ELSE data[pages[m][b]]]
        = Bytewise!Empty
    BY DEF Init, Bytewise!Empty
  <2> QED
    BY <2>1, <2>2 DEF Init
<1> QED
  BY <1>1 DEF Bytewise!Init, ByteStore

LEMMA MapPageRefines ==
    ASSUME IInv, NEW m \in VMs, NEW a \in Addrs, MapPage(m, a)
    PROVE  Bytewise!Map(m, a)
<1> USE DEF IInv
<1>1. PICK p \in Pages : NewPage(p) /\ pages' = [pages EXCEPT ![m][a] = p]
  BY DEF MapPage
<1>2. vm[m] = "alive" /\ vm' = vm /\ p \in Unused /\ p # NULL
  BY <1>1, CowMemoryAssumption DEF MapPage, Alive, NewPage
<1>3. \A n \in VMs, b \in Addrs : pages[n][b] # NULL =>
          /\ pages[n][b] # p
          /\ data'[pages[n][b]] = data[pages[n][b]]
  BY <1>1, <1>2 DEF FreshIsUnknown, NewPage, TypeOK, PageOrNull
<1>4. ASSUME NEW n \in VMs, n # m
      PROVE  ByteStore'[n] = ByteStore[n]
  BY <1>1, <1>2, <1>3, <1>4, SameStore DEF TypeOK
<1>5. ByteStore'[m] = [ByteStore[m] EXCEPT ![a] = Bytewise!ZeroPage]
  <2> DEFINE S == [b \in Addrs |-> IF pages[m][b] = NULL THEN Unmapped
                                   ELSE data[pages[m][b]]]
             T == [b \in Addrs |-> IF pages'[m][b] = NULL THEN Unmapped
                                   ELSE data'[pages'[m][b]]]
  <2>1. ByteStore[m] = S /\ ByteStore'[m] = T
    BY <1>2 DEF ByteStore
  <2>2. data'[p] = ZeroPage /\ pages'[m][a] = p
    BY <1>1 DEF NewPage, TypeOK
  <2>3. \A b \in Addrs : b # a => T[b] = S[b]
    BY <1>1, <1>3 DEF TypeOK
  <2>4. T[a] = ZeroPage
    BY <1>2, <2>2
  <2>5. T = [S EXCEPT ![a] = ZeroPage]
    BY <2>3, <2>4
  <2> QED
    BY <2>1, <2>5 DEF ZeroPage, Bytewise!ZeroPage
<1>6. ByteStore' = [ByteStore EXCEPT ![m][a] = Bytewise!ZeroPage]
  BY <1>4, <1>5 DEF ByteStore
<1> QED
  BY <1>2, <1>6, AliveStore DEF Bytewise!Map, Bytewise!Exists

(* A store seen through the mapping: p is the page the store leaves mapped *)
(* at a, every other mapping of a living machine keeps its bytes.          *)
LEMMA StoreRefines ==
    ASSUME IInv, NEW m \in VMs, NEW a \in Addrs, NEW o \in Offsets, NEW v \in Bytes,
           vm[m] = "alive", pages[m][a] # NULL, vm' = vm,
           NEW p \in Pages,
           pages' = [pages EXCEPT ![m][a] = p],
           data'[p] = [data[pages[m][a]] EXCEPT ![o] = v],
           \A n \in VMs, b \in Addrs :
               vm[n] = "alive" /\ pages[n][b] # NULL /\ (n # m \/ b # a)
                   => data'[pages[n][b]] = data[pages[n][b]]
    PROVE  Bytewise!Write(m, a, o, v)
<1> USE DEF IInv
<1> DEFINE S == [b \in Addrs |-> IF pages[m][b] = NULL THEN Unmapped
                                 ELSE data[pages[m][b]]]
           T == [b \in Addrs |-> IF pages'[m][b] = NULL THEN Unmapped
                                 ELSE data'[pages'[m][b]]]
<1>1. ASSUME NEW n \in VMs, n # m
      PROVE  ByteStore'[n] = ByteStore[n]
  <2>1. pages'[n] = pages[n]
    BY <1>1 DEF TypeOK
  <2>2. CASE vm[n] = "alive"
    BY <1>1, <2>1, <2>2, SameStore
  <2>3. CASE vm[n] # "alive"
    BY <2>3 DEF ByteStore
  <2> QED
    BY <2>2, <2>3
<1>2. ByteStore[m] = S /\ ByteStore'[m] = T
  BY DEF ByteStore
<1>3. S[a] = data[pages[m][a]]
  OBVIOUS
<1>4. pages'[m][a] = p /\ p # NULL
  BY CowMemoryAssumption DEF TypeOK
<1>5. T[a] = [S[a] EXCEPT ![o] = v]
  BY <1>3, <1>4
<1>6. \A b \in Addrs : b # a => T[b] = S[b]
  BY DEF TypeOK
<1>7. T = [S EXCEPT ![a][o] = v]
  <2>1. T = [b \in Addrs |-> T[b]] /\ S = [b \in Addrs |-> S[b]]
    OBVIOUS
  <2> HIDE DEF S, T
  <2> QED
    BY <1>5, <1>6, <2>1, ChangedAtOnePoint
<1>8. ByteStore' = [ByteStore EXCEPT ![m][a][o] = v]
  BY <1>1, <1>2, <1>7 DEF ByteStore
<1>9. S[a] # Unmapped
  <2>1. data[pages[m][a]] \in [Offsets -> Bytes]
    BY DEF TypeOK, PageOrNull
  <2> QED
    BY <1>3, <2>1, CowMemoryAssumption
<1>10. Bytewise!Exists(m) /\ ByteStore[m][a] # Unmapped
  BY <1>2, <1>9, AliveStore DEF Bytewise!Exists
<1> HIDE DEF S, T
<1> QED
  BY <1>8, <1>10, Zenon DEF Bytewise!Write

LEMMA StoreConcreteRefines ==
    ASSUME IInv, NEW m \in VMs, NEW a \in Addrs, NEW o \in Offsets, NEW v \in Bytes,
           StoreConcrete(m, a, o, v)
    PROVE  Bytewise!Write(m, a, o, v)
<1> USE DEF IInv
<1> DEFINE p == pages[m][a]
<1>1. vm[m] = "alive" /\ p # NULL /\ p \in Pages /\ vm' = vm
  BY DEF StoreConcrete, Alive, Mapped, TypeOK, PageOrNull
<1>2. CASE StoreInPlace(m, a, o, v)
  <2>1. a \in dirty[m] /\ data' = [data EXCEPT ![p][o] = v] /\ pages' = pages
    BY <1>2 DEF StoreInPlace
  <2>2. pages' = [pages EXCEPT ![m][a] = p]
    BY <2>1 DEF TypeOK
  <2>3. data'[p] = [data[p] EXCEPT ![o] = v]
    BY <1>1, <2>1 DEF TypeOK
  <2>4. \A n \in VMs, b \in Addrs :
            vm[n] = "alive" /\ pages[n][b] # NULL /\ (n # m \/ b # a)
                => data'[pages[n][b]] = data[pages[n][b]]
    BY <1>1, <2>1 DEF DirtyIsPrivate, TypeOK
  <2> QED
    BY <1>1, <2>2, <2>3, <2>4, StoreRefines
<1>3. CASE StoreInChild(m, a, o, v)
  <2>1. PICK q \in Pages : MakeChild(p, q, o, v) /\ pages' = [pages EXCEPT ![m][a] = q]
    BY <1>3 DEF StoreInChild
  <2>2. q \in Unused /\ data' = [data EXCEPT ![q] = [data[p] EXCEPT ![o] = v]]
    BY <2>1 DEF MakeChild
  <2>3. data'[q] = [data[p] EXCEPT ![o] = v]
    BY <2>2 DEF TypeOK
  <2>4. \A n \in VMs, b \in Addrs :
            pages[n][b] # NULL => data'[pages[n][b]] = data[pages[n][b]]
    BY <2>2 DEF FreshIsUnknown, TypeOK
  <2> QED
    BY <1>1, <2>1, <2>3, <2>4, StoreRefines
<1> QED
  BY <1>2, <1>3 DEF StoreConcrete

LEMMA CopyRefines ==
    ASSUME IInv, NEW m \in VMs, NEW n \in VMs, Copy(m, n)
    PROVE  Bytewise!Fork(m, n)
<1> USE DEF IInv
<1>1. /\ vm[m] = "alive" /\ vm[n] = "none"
      /\ vm' = [vm EXCEPT ![n] = "alive"]
      /\ pages' = [pages EXCEPT ![n] = pages[m]]
      /\ data' = data
  BY DEF Copy, Alive
<1>2. ASSUME NEW k \in VMs, k # n
      PROVE  ByteStore'[k] = ByteStore[k]
  BY <1>1, <1>2, SameStore DEF TypeOK
<1>3. ByteStore[n] = NoMemory
  BY <1>1 DEF ByteStore
<1>4. ByteStore'[n] = ByteStore[m]
  <2>1. vm'[n] = "alive" /\ pages'[n] = pages[m]
    BY <1>1 DEF TypeOK
  <2>2. ByteStore'[n] = [b \in Addrs |-> IF pages'[n][b] = NULL THEN Unmapped
                                         ELSE data'[pages'[n][b]]]
    BY <2>1 DEF ByteStore
  <2>3. ByteStore[m] = [b \in Addrs |-> IF pages[m][b] = NULL THEN Unmapped
                                        ELSE data[pages[m][b]]]
    BY <1>1, AliveStore
  <2>4. \A b \in Addrs : pages'[n][b] = pages[m][b] /\ data'[pages'[n][b]] = data[pages[m][b]]
    BY <1>1, <2>1
  <2> QED
    BY <2>2, <2>3, <2>4
<1>5. ByteStore' = [ByteStore EXCEPT ![n] = ByteStore[m]]
  BY <1>2, <1>4 DEF ByteStore
<1> QED
  BY <1>1, <1>3, <1>5, AliveStore DEF Bytewise!Fork, Bytewise!Exists

LEMMA DestroyBeginRefines ==
    ASSUME IInv, NEW m \in VMs, DestroyBegin(m)
    PROVE  Bytewise!Drop(m)
<1> USE DEF IInv
<1>1. vm[m] = "alive" /\ vm' = [vm EXCEPT ![m] = "dying"] /\ pages' = pages /\ data' = data
  BY DEF DestroyBegin, Alive, memoryVars, pageVars
<1>2. ASSUME NEW k \in VMs, k # m
      PROVE  ByteStore'[k] = ByteStore[k]
  BY <1>1, <1>2, SameStore DEF TypeOK
<1>3. ByteStore'[m] = NoMemory
  BY <1>1 DEF ByteStore, TypeOK
<1>4. ByteStore' = [ByteStore EXCEPT ![m] = NoMemory]
  BY <1>2, <1>3 DEF ByteStore
<1> QED
  BY <1>1, <1>4, AliveStore DEF Bytewise!Drop, Bytewise!Exists

(* A machine that is not alive has no store, whatever its walk does.       *)
LEMMA DestroyStutters ==
    ASSUME IInv, NEW m \in VMs, Destroy(m)
    PROVE  UNCHANGED ByteStore
<1> USE DEF IInv
<1>1. /\ vm[m] = "dying" /\ vm'[m] # "alive" /\ data' = data
      /\ \A k \in VMs : k # m => vm'[k] = vm[k] /\ pages'[k] = pages[k]
  BY DEF Destroy, DestroyEnd, DestroyPage, memoryVars, pageVars, TypeOK
<1>2. ASSUME NEW k \in VMs
      PROVE  ByteStore'[k] = ByteStore[k]
  <2>1. CASE k = m
    BY <1>1, <2>1 DEF ByteStore
  <2>2. CASE k # m
    BY <1>1, <2>2, SameStore
  <2> QED
    BY <2>1, <2>2
<1> QED
  BY <1>2 DEF ByteStore

LEMMA NextRefines == IInv /\ [GuestNext]_vars => [Bytewise!Next]_ByteStore
<1> SUFFICES ASSUME IInv, [GuestNext]_vars PROVE Bytewise!Next \/ UNCHANGED ByteStore
  OBVIOUS
<1>1. CASE UNCHANGED vars
  BY <1>1 DEF vars, memoryVars, pageVars, ByteStore
<1>2. CASE ConcreteNext
  <2>1. ASSUME NEW m \in VMs, NEW a \in Addrs, MapPage(m, a)
        PROVE  Bytewise!Next
    BY <2>1, MapPageRefines DEF Bytewise!Next
  <2>2. ASSUME NEW m \in VMs, NEW a \in Addrs, NEW o \in Offsets, NEW v \in Bytes,
               StoreConcrete(m, a, o, v)
        PROVE  Bytewise!Next
    BY <2>2, StoreConcreteRefines DEF Bytewise!Next
  <2>3. ASSUME NEW m \in VMs, NEW n \in VMs, Copy(m, n)
        PROVE  Bytewise!Next
    BY <2>3, CopyRefines DEF Bytewise!Next
  <2>4. ASSUME NEW m \in VMs, DestroyBegin(m)
        PROVE  Bytewise!Next
    BY <2>4, DestroyBeginRefines DEF Bytewise!Next
  <2>5. ASSUME NEW m \in VMs, Destroy(m)
        PROVE  UNCHANGED ByteStore
    BY <2>5, DestroyStutters
  <2> QED
    BY <1>2, <2>1, <2>2, <2>3, <2>4, <2>5 DEF ConcreteNext
<1>3. CASE \E m \in VMs, a \in Addrs, o \in Offsets, w \in Wilds : StoreWild(m, a, o, w)
  BY <1>3 DEF StoreWild, pageVars, ByteStore
<1> QED
  BY <1>1, <1>2, <1>3 DEF GuestNext

(* Isolation: the shared, counted, lazily copied pages implement private   *)
(* stores (memory.cc:52, 81; vm.cc:177).                                   *)
THEOREM MemoriesArePrivate == GuestSpec => PrivateStores
<1>1. Init => Bytewise!Init
  BY InitRefines
<1>2. IInv /\ [GuestNext]_vars => [Bytewise!Next]_ByteStore
  BY NextRefines
<1> QED
  BY <1>1, <1>2, InductiveInvariant, GuestImplementsSpec, PTL
     DEF GuestSpec, PrivateStores, Bytewise!Spec

-----------------------------------------------------------------------------
(* Reference counts: the references of a page cover every release that can *)
(* still be made on it, so that no page is used after it was deleted, and  *)
(* the pages left when every machine is gone are the ones that had         *)
(* children.                                                               *)

(* g is the walk of k steps from p along up, the local function of         *)
(* AncestorIn.                                                             *)
IsWalk(up, p, k, g) ==
    g = [i \in 0 .. k |-> IF i = 0 THEN p
                          ELSE IF g[i - 1] = NULL THEN NULL ELSE up[g[i - 1]]]

LEMMA WalkExists ==
    ASSUME NEW up, NEW p
    PROVE  \A k \in Nat : \E g : IsWalk(up, p, k, g)
<1> DEFINE T == {k \in Nat : \E g : IsWalk(up, p, k, g)}
<1>1. 0 \in T
  <2> DEFINE g == [i \in 0 .. 0 |-> p]
  <2>1. IsWalk(up, p, 0, g)
    BY DEF IsWalk
  <2> QED
    BY <2>1
<1>2. ASSUME NEW k \in T PROVE k + 1 \in T
  <2>1. PICK g : IsWalk(up, p, k, g)
    OBVIOUS
  <2> DEFINE next == IF g[k] = NULL THEN NULL ELSE up[g[k]]
             h == [i \in 0 .. k + 1 |-> IF i = k + 1 THEN next ELSE g[i]]
  <2>2. \A i \in 0 .. k : g[i] = IF i = 0 THEN p
                                 ELSE IF g[i - 1] = NULL THEN NULL ELSE up[g[i - 1]]
    BY <2>1 DEF IsWalk
  <2>3. \A i \in 0 .. k + 1 : h[i] = IF i = 0 THEN p
                                     ELSE IF h[i - 1] = NULL THEN NULL ELSE up[h[i - 1]]
    BY <2>2
  <2>4. IsWalk(up, p, k + 1, h)
    <3>1. h = [i \in 0 .. k + 1 |-> h[i]]
      OBVIOUS
    <3> HIDE DEF h
    <3> QED
      BY <2>3, <3>1 DEF IsWalk
  <2> QED
    BY <2>4
<1>3. T \in SUBSET Nat
  OBVIOUS
<1> HIDE DEF T
<1>4. \A k \in Nat : k \in T
  BY <1>1, <1>2, <1>3, NumbersByInduction
<1> QED
  BY <1>4 DEF T

LEMMA WalksAgree ==
    ASSUME NEW up, NEW p, NEW k \in Nat, NEW l \in Nat, NEW g, NEW h,
           IsWalk(up, p, k, g), IsWalk(up, p, l, h)
    PROVE  \A i \in Nat : i <= k /\ i <= l => g[i] = h[i]
<1> DEFINE T == {i \in Nat : i <= k /\ i <= l => g[i] = h[i]}
<1>1. /\ \A i \in 0 .. k : g[i] = IF i = 0 THEN p
                                  ELSE IF g[i - 1] = NULL THEN NULL ELSE up[g[i - 1]]
      /\ \A i \in 0 .. l : h[i] = IF i = 0 THEN p
                                  ELSE IF h[i - 1] = NULL THEN NULL ELSE up[h[i - 1]]
  BY DEF IsWalk
<1>2. 0 \in T
  BY <1>1
<1>3. ASSUME NEW i \in T PROVE i + 1 \in T
  <2>1. SUFFICES ASSUME i + 1 <= k, i + 1 <= l PROVE g[i + 1] = h[i + 1]
    OBVIOUS
  <2>2. g[i] = h[i]
    BY <2>1
  <2> QED
    BY <1>1, <2>1, <2>2
<1>4. T \in SUBSET Nat
  OBVIOUS
<1> HIDE DEF T
<1>5. \A i \in Nat : i \in T
  BY <1>2, <1>3, <1>4, NumbersByInduction
<1> QED
  BY <1>5 DEF T

LEMMA AncestorIsWalk ==
    ASSUME NEW up, NEW p, NEW k \in Nat, NEW g, IsWalk(up, p, k, g)
    PROVE  \A i \in 0 .. k : AncestorIn(up, p, i) = g[i]
<1> TAKE i \in 0 .. k
<1> DEFINE w == CHOOSE h : IsWalk(up, p, i, h)
<1>1. AncestorIn(up, p, i) = w[i]
  BY DEF AncestorIn, IsWalk
<1>2. IsWalk(up, p, i, w)
  BY WalkExists
<1> HIDE DEF w
<1> QED
  BY <1>1, <1>2, WalksAgree

(* The equations the walk up the parents satisfies (memory.cc:38-45,       *)
(* page.cc:48-62): it starts at the page and goes to the parent at each    *)
(* call, as long as there is one.                                          *)
LEMMA AncestorStart ==
    ASSUME NEW up, NEW p
    PROVE  AncestorIn(up, p, 0) = p
<1>1. PICK g : IsWalk(up, p, 0, g)
  BY WalkExists
<1>2. AncestorIn(up, p, 0) = g[0]
  BY <1>1, AncestorIsWalk
<1> QED
  BY <1>1, <1>2 DEF IsWalk

LEMMA AncestorStep ==
    ASSUME NEW up, NEW p, NEW k \in Nat
    PROVE  /\ AncestorIn(up, p, k) = NULL => AncestorIn(up, p, k + 1) = NULL
           /\ AncestorIn(up, p, k) # NULL =>
                 AncestorIn(up, p, k + 1) = up[AncestorIn(up, p, k)]
<1>1. PICK g : IsWalk(up, p, k + 1, g)
  BY WalkExists
<1>2. AncestorIn(up, p, k) = g[k] /\ AncestorIn(up, p, k + 1) = g[k + 1]
  BY <1>1, AncestorIsWalk
<1> QED
  BY <1>1, <1>2 DEF IsWalk

(* Going to the parent first and then up k times is going up k + 1 times.  *)
LEMMA AncestorOfParent ==
    ASSUME NEW up, NEW p, p # NULL
    PROVE  \A k \in Nat : AncestorIn(up, up[p], k) = AncestorIn(up, p, k + 1)
<1> DEFINE T == {k \in Nat : AncestorIn(up, up[p], k) = AncestorIn(up, p, k + 1)}
<1>1. 0 \in T
  BY AncestorStart, AncestorStep, AncestorIn(up, p, 0 + 1) = up[p]
<1>2. ASSUME NEW k \in T PROVE k + 1 \in T
  BY AncestorStep
<1>3. T \in SUBSET Nat
  OBVIOUS
<1> HIDE DEF T
<1>4. \A k \in Nat : k \in T
  BY <1>1, <1>2, <1>3, NumbersByInduction
<1> QED
  BY <1>4 DEF T

(* From null the walk stays at null.                                       *)
LEMMA AncestorOfNull ==
    ASSUME NEW up
    PROVE  \A k \in Nat : AncestorIn(up, NULL, k) = NULL
<1> DEFINE T == {k \in Nat : AncestorIn(up, NULL, k) = NULL}
<1>1. 0 \in T
  BY AncestorStart
<1>2. ASSUME NEW k \in T PROVE k + 1 \in T
  BY AncestorStep
<1>3. T \in SUBSET Nat
  OBVIOUS
<1> HIDE DEF T
<1>4. \A k \in Nat : k \in T
  BY <1>1, <1>2, <1>3, NumbersByInduction
<1> QED
  BY <1>4 DEF T

(* A page that nothing has for parent is on no walk that does not start at *)
(* it, and what its own parent is makes no difference to those walks.      *)
LEMMA WalkAvoids ==
    ASSUME NEW up, NEW down, NEW p, NEW q \in Pages, p # q, p \in PageOrNull,
           \A r \in Pages : up[r] \in PageOrNull,
           \A r \in Pages : up[r] # q,
           \A r \in Pages : r # q => down[r] = up[r]
    PROVE  \A k \in Nat : /\ AncestorIn(up, p, k) \in PageOrNull
                          /\ AncestorIn(up, p, k) # q
                          /\ AncestorIn(down, p, k) = AncestorIn(up, p, k)
<1> DEFINE T == {k \in Nat : /\ AncestorIn(up, p, k) \in PageOrNull
                             /\ AncestorIn(up, p, k) # q
                             /\ AncestorIn(down, p, k) = AncestorIn(up, p, k)}
<1>1. 0 \in T
  BY AncestorStart
<1>2. ASSUME NEW k \in T PROVE k + 1 \in T
  <2> DEFINE r == AncestorIn(up, p, k)
  <2>1. k \in Nat /\ r \in PageOrNull /\ r # q /\ AncestorIn(down, p, k) = r
    OBVIOUS
  <2>2. CASE r = NULL
    BY <2>1, <2>2, AncestorStep, CowMemoryAssumption DEF PageOrNull
  <2>3. CASE r # NULL
    <3>1. AncestorIn(up, p, k + 1) = up[r] /\ AncestorIn(down, p, k + 1) = down[r]
      BY <2>1, <2>3, AncestorStep
    <3> QED
      BY <2>1, <2>3, <3>1 DEF PageOrNull
  <2> QED
    BY <2>2, <2>3
<1>3. T \in SUBSET Nat
  OBVIOUS
<1> HIDE DEF T
<1>4. \A k \in Nat : k \in T
  BY <1>1, <1>2, <1>3, NumbersByInduction
<1> QED
  BY <1>4 DEF T

-----------------------------------------------------------------------------
(* The releases that can still be made                                     *)

LEMMA WalkLengthType ==
    ASSUME TypeOK, NEW m \in VMs, NEW a \in Addrs
    PROVE  WalkLength(m, a) \in Nat
BY DEF TypeOK, WalkLength

(* A release is a machine, an address of it and the number of calls before *)
(* it in the walk from what is mapped there.                               *)
ReleasesAre ==
    \A p \in Pages :
        /\ Releases(p) \subseteq VMs \X Addrs \X Nat
        /\ \A m \in VMs, a \in Addrs, k \in Nat :
             <<m, a, k>> \in Releases(p) <=>
                k < WalkLength(m, a) /\ AncestorIn(parent, pages[m][a], k) = p

LEMMA ReleasesMembers == TypeOK => ReleasesAre
<1> SUFFICES ASSUME TypeOK, NEW p \in Pages
             PROVE  /\ Releases(p) \subseteq VMs \X Addrs \X Nat
                    /\ \A m \in VMs, a \in Addrs, k \in Nat :
                         <<m, a, k>> \in Releases(p) <=>
                            /\ k < WalkLength(m, a)
                            /\ AncestorIn(parent, pages[m][a], k) = p
  BY DEF ReleasesAre
<1> DEFINE At(m, a) == {k \in 0 .. WalkLength(m, a) - 1 : Ancestor(pages[m][a], k) = p}
<1>1. ASSUME NEW m \in VMs, NEW a \in Addrs
      PROVE  /\ At(m, a) \subseteq Nat
             /\ \A k \in Nat : k \in At(m, a) <=>
                    k < WalkLength(m, a) /\ AncestorIn(parent, pages[m][a], k) = p
  BY WalkLengthType DEF Ancestor
<1>2. Releases(p) = UNION {{<<m, a, k>> : k \in At(m, a)} : m \in VMs, a \in Addrs}
  BY DEF Releases
<1> HIDE DEF At
<1> DEFINE From(m, a) == {<<m, a, k>> : k \in At(m, a)}
<1>3. \A r : r \in Releases(p) <=>
               \E m \in VMs, a \in Addrs : \E k \in At(m, a) : r = <<m, a, k>>
  <2>1. Releases(p) = UNION {From(m, a) : m \in VMs, a \in Addrs}
    BY <1>2
  <2>2. \A m, a, r : r \in From(m, a) <=> \E k \in At(m, a) : r = <<m, a, k>>
    OBVIOUS
  <2> HIDE DEF From
  <2>3. \A r : r \in Releases(p) <=> \E m \in VMs, a \in Addrs : r \in From(m, a)
    BY <2>1
  <2> QED
    BY <2>2, <2>3
<1> QED
  BY <1>1, <1>3

LEMMA NextReleasesMembers == TypeOK' => ReleasesAre'
BY ReleasesMembers, PTL

(* Counting by renaming: a set that can be renamed apart into a finite set *)
(* has no more elements.                                                   *)
LEMMA NoMoreThan ==
    ASSUME NEW S, NEW T, IsFiniteSet(T), NEW f,
           \A x \in S : f[x] \in T,
           \A x, y \in S : f[x] = f[y] => x = y
    PROVE  IsFiniteSet(S) /\ Cardinality(S) <= Cardinality(T)
<1> DEFINE g == [x \in S |-> f[x]]
<1>1. g \in Injection(S, T)
  BY DEF Injection, IsInjective
<1> HIDE DEF g
<1> QED
  BY <1>1, FS_Injection

LEMMA TriplesIncluded ==
    ASSUME NEW S \in SUBSET (VMs \X Addrs \X Nat), NEW T,
           \A n \in VMs, b \in Addrs, k \in Nat : <<n, b, k>> \in S => <<n, b, k>> \in T
    PROVE  S \subseteq T
OBVIOUS

(* No walk that a memory can make meets a page that is yet to be allocated. *)
LEMMA WalkAvoidsFresh ==
    ASSUME IInv, NEW q \in Unused, NEW down,
           \A r \in Pages : r # q => down[r] = parent[r],
           NEW n \in VMs, NEW b \in Addrs, NEW k \in Nat
    PROVE  /\ AncestorIn(parent, pages[n][b], k) # q
           /\ AncestorIn(down, pages[n][b], k) = AncestorIn(parent, pages[n][b], k)
<1>1. q \in Pages /\ pages[n][b] # q /\ pages[n][b] \in PageOrNull
  BY DEF IInv, TypeOK, FreshIsUnknown, Unused
<1>2. \A r \in Pages : parent[r] # q /\ parent[r] \in PageOrNull
  BY DEF IInv, TypeOK, FreshIsUnknown
<1> QED
  BY <1>1, <1>2, WalkAvoids

(* A page just mapped has no parent: its walk is that page alone.          *)
LEMMA WalkOfNewPage ==
    ASSUME NEW up, NEW q, q # NULL, up[q] = NULL
    PROVE  \A k \in Nat : AncestorIn(up, q, k) = IF k = 0 THEN q ELSE NULL
<1> TAKE k \in Nat
<1>1. CASE k = 0
  BY <1>1, AncestorStart
<1>2. CASE k # 0
  <2>1. k - 1 \in Nat /\ (k - 1) + 1 = k
    BY <1>2
  <2>2. AncestorIn(up, NULL, k - 1) = AncestorIn(up, q, (k - 1) + 1)
    BY <2>1, AncestorOfParent
  <2> QED
    BY <1>2, <2>1, <2>2, AncestorOfNull
<1> QED
  BY <1>1, <1>2

(* Mapping a new page (memory.cc:174) adds one release of it, and takes    *)
(* away what was to be released through the address.                       *)
LEMMA NewMappingCounted ==
    ASSUME IInv, Counted, TypeOK',
           NEW m \in VMs, NEW a \in Addrs, NEW q \in Pages,
           vm[m] = "alive", NewPage(q), pages' = [pages EXCEPT ![m][a] = q],
           UNCHANGED <<vm, dirty_counter, owed>>
    PROVE  Counted'
<1>1. q \in Unused /\ q # NULL
  BY CowMemoryAssumption DEF NewPage
<1>2. parent' = [parent EXCEPT ![q] = NULL] /\ references' = [references EXCEPT ![q] = 1]
  BY DEF NewPage
<1>3. ReleasesAre /\ ReleasesAre'
  BY ReleasesMembers, NextReleasesMembers DEF IInv
<1>4. \A k \in Nat : AncestorIn(parent', q, k) = IF k = 0 THEN q ELSE NULL
  <2>1. parent'[q] = NULL
    BY <1>2 DEF IInv, TypeOK
  <2> QED
    BY <1>1, <2>1, WalkOfNewPage
<1>5. /\ pages'[m][a] = q
      /\ \A n \in VMs, b \in Addrs : <<n, b>> # <<m, a>> =>
            pages'[n][b] = pages[n][b] /\ WalkLength(n, b)' = WalkLength(n, b)
  BY DEF IInv, TypeOK, WalkLength
<1>6. ASSUME NEW n \in VMs, NEW b \in Addrs, <<n, b>> # <<m, a>>, NEW k \in Nat
      PROVE  /\ AncestorIn(parent, pages[n][b], k) # q
             /\ AncestorIn(parent', pages'[n][b], k) = AncestorIn(parent, pages[n][b], k)
  <2>1. \A r \in Pages : r # q => parent'[r] = parent[r]
    BY <1>2 DEF IInv, TypeOK
  <2> QED
    BY <1>1, <1>5, <1>6, <2>1, WalkAvoidsFresh
<1>7. ASSUME NEW x \in Pages, x # q
      PROVE  IsFiniteSet(Releases(x)') /\ Cardinality(Releases(x)') <= references'[x]
  <2>1. ASSUME NEW n \in VMs, NEW b \in Addrs, NEW k \in Nat, <<n, b, k>> \in Releases(x)'
        PROVE  <<n, b, k>> \in Releases(x)
    <3>1. k < WalkLength(n, b)' /\ AncestorIn(parent', pages'[n][b], k) = x
      BY <1>3, <2>1 DEF ReleasesAre
    <3>2. <<n, b>> # <<m, a>>
      BY <1>4, <1>5, <1>7, <3>1, CowMemoryAssumption
    <3> QED
      BY <1>3, <1>5, <1>6, <3>1, <3>2 DEF ReleasesAre
  <2>2. Releases(x)' \subseteq Releases(x)
    BY <1>3, <2>1, TriplesIncluded DEF ReleasesAre
  <2>3. references'[x] = references[x]
    BY <1>2, <1>7 DEF IInv, TypeOK
  <2>4. IsFiniteSet(Releases(x)) /\ Cardinality(Releases(x)) <= references[x]
    BY DEF Counted
  <2>5. Cardinality(Releases(x)) \in Nat /\ references[x] \in Nat
    BY <2>4, FS_CardinalityType DEF IInv, TypeOK
  <2>6. IsFiniteSet(Releases(x)') /\ Cardinality(Releases(x)') <= Cardinality(Releases(x))
    BY <2>2, <2>4, FS_Subset
  <2> QED
    BY <2>3, <2>4, <2>5, <2>6, FS_CardinalityType
<1>8. IsFiniteSet(Releases(q)') /\ Cardinality(Releases(q)') <= references'[q]
  <2>1. ASSUME NEW n \in VMs, NEW b \in Addrs, NEW k \in Nat, <<n, b, k>> \in Releases(q)'
        PROVE  <<n, b, k>> \in {<<m, a, 0>>}
    <3>1. AncestorIn(parent', pages'[n][b], k) = q
      BY <1>3, <2>1 DEF ReleasesAre
    <3>2. n = m /\ b = a
      BY <1>6, <3>1
    <3> QED
      BY <1>1, <1>4, <1>5, <3>1, <3>2
  <2>2. Releases(q)' \subseteq {<<m, a, 0>>}
    BY <1>3, <2>1, TriplesIncluded DEF ReleasesAre
  <2>3. IsFiniteSet({<<m, a, 0>>}) /\ Cardinality({<<m, a, 0>>}) = 1
    BY FS_Singleton
  <2>4. references'[q] = 1
    BY <1>2 DEF IInv, TypeOK
  <2> QED
    BY <2>2, <2>3, <2>4, FS_Subset
<1> QED
  BY <1>7, <1>8 DEF Counted

(* The same number of releases, of which those of one walk come earlier or *)
(* later in it.                                                            *)
LEMMA NoMoreAfterShift ==
    ASSUME NEW S \in SUBSET (VMs \X Addrs \X Nat), NEW T, IsFiniteSet(T),
           NEW m, NEW a, NEW d \in Int,
           \A n \in VMs, b \in Addrs, k \in Nat : <<n, b, k>> \in S =>
               /\ n = m /\ b = a => <<n, b, k + d>> \in T
               /\ ~ (n = m /\ b = a) => <<n, b, k>> \in T
    PROVE  IsFiniteSet(S) /\ Cardinality(S) <= Cardinality(T)
<1> DEFINE by(r) == IF r[1] = m /\ r[2] = a THEN r[3] + d ELSE r[3]
           f == [r \in S |-> <<r[1], r[2], by(r)>>]
<1>1. ASSUME NEW r \in S
      PROVE  /\ r[1] \in VMs /\ r[2] \in Addrs /\ r[3] \in Nat
             /\ r = <<r[1], r[2], r[3]>>
             /\ f[r] = <<r[1], r[2], by(r)>>
  OBVIOUS
<1>2. \A r \in S : f[r] \in T
  BY <1>1
<1>3. \A r, s \in S : f[r] = f[s] => r = s
  <2> SUFFICES ASSUME NEW r \in S, NEW s \in S, f[r] = f[s] PROVE r = s
    OBVIOUS
  <2>1. <<r[1], r[2], by(r)>> = <<s[1], s[2], by(s)>>
    BY <1>1
  <2>2. r[1] = s[1] /\ r[2] = s[2] /\ by(r) = by(s)
    BY <2>1
  <2>3. r[3] = s[3]
    BY <1>1, <2>2
  <2> QED
    BY <1>1, <2>2, <2>3
<1> HIDE DEF f
<1> QED
  BY <1>2, <1>3, NoMoreThan

(* A private child (memory.cc:81, page.cc:64) lengthens the walk of its    *)
(* address by one call, at its start.                                      *)
LEMMA StoreInChildCounted ==
    ASSUME IInv, Counted, TypeOK',
           NEW m \in VMs, NEW a \in Addrs, NEW o \in Offsets, NEW v \in Bytes,
           m \in Alive, a \in Mapped(m), StoreInChild(m, a, o, v),
           UNCHANGED <<vm, symbolic_memory, owed>>
    PROVE  Counted'
<1> DEFINE p == pages[m][a]
<1>1. p \in Pages /\ p # NULL /\ vm[m] = "alive"
  BY DEF IInv, TypeOK, Mapped, PageOrNull, Alive
<1>2. PICK q \in Pages : MakeChild(p, q, o, v) /\ pages' = [pages EXCEPT ![m][a] = q]
  BY DEF StoreInChild
<1>3. q \in Unused /\ q # p /\ q # NULL
  BY <1>2, CowMemoryAssumption DEF MakeChild, FreshIsUnknown, IInv
<1>4. /\ parent'[q] = p
      /\ \A r \in Pages : r # q => parent'[r] = parent[r]
      /\ references'[q] = 1
      /\ \A r \in Pages : r # q => references'[r] >= references[r]
  BY <1>1, <1>2, <1>3 DEF MakeChild, IInv, TypeOK
<1>5. /\ pages'[m][a] = q
      /\ WalkLength(m, a)' = WalkLength(m, a) + 1
      /\ \A n \in VMs, b \in Addrs : <<n, b>> # <<m, a>> =>
            pages'[n][b] = pages[n][b] /\ WalkLength(n, b)' = WalkLength(n, b)
  BY <1>1, <1>2, <1>3 DEF IInv, TypeOK, WalkLength, StoreInChild
<1>6. ReleasesAre /\ ReleasesAre'
  BY ReleasesMembers, NextReleasesMembers DEF IInv
<1>7. ASSUME NEW n \in VMs, NEW b \in Addrs, NEW k \in Nat
      PROVE  /\ AncestorIn(parent, pages[n][b], k) # q
             /\ AncestorIn(parent', pages[n][b], k) = AncestorIn(parent, pages[n][b], k)
  BY <1>3, <1>4, WalkAvoidsFresh
<1>8. \A k \in Nat : AncestorIn(parent', q, k + 1) = AncestorIn(parent, p, k)
  <2>1. \A k \in Nat : AncestorIn(parent', p, k) = AncestorIn(parent', q, k + 1)
    BY <1>3, <1>4, AncestorOfParent
  <2> QED
    BY <1>7, <2>1
<1>9. ASSUME NEW x \in Pages, x # q
      PROVE  IsFiniteSet(Releases(x)') /\ Cardinality(Releases(x)') <= references'[x]
  <2>1. ASSUME NEW n \in VMs, NEW b \in Addrs, NEW k \in Nat, <<n, b, k>> \in Releases(x)'
        PROVE  /\ n = m /\ b = a => <<n, b, k + (-1)>> \in Releases(x)
               /\ ~ (n = m /\ b = a) => <<n, b, k>> \in Releases(x)
    <3>1. k < WalkLength(n, b)' /\ AncestorIn(parent', pages'[n][b], k) = x
      BY <1>6, <2>1 DEF ReleasesAre
    <3>2. CASE n = m /\ b = a
      <4>1. k # 0
        BY <1>5, <1>9, <3>1, <3>2, AncestorStart
      <4>2. k + (-1) \in Nat /\ (k + (-1)) + 1 = k
        BY <4>1
      <4>3. AncestorIn(parent, p, k + (-1)) = x
        BY <1>5, <1>8, <3>1, <3>2, <4>2
      <4>4. k + (-1) < WalkLength(m, a)
        BY <1>5, <3>1, <3>2, WalkLengthType DEF IInv
      <4> QED
        BY <1>6, <3>2, <4>2, <4>3, <4>4 DEF ReleasesAre
    <3>3. CASE ~ (n = m /\ b = a)
      BY <1>5, <1>6, <1>7, <3>1, <3>3 DEF ReleasesAre
    <3> QED
      BY <3>2, <3>3
  <2>5. IsFiniteSet(Releases(x)) /\ Cardinality(Releases(x)) <= references[x]
    BY DEF Counted
  <2>6. IsFiniteSet(Releases(x)') /\ Cardinality(Releases(x)') <= Cardinality(Releases(x))
    <3>1. Releases(x)' \in SUBSET (VMs \X Addrs \X Nat)
      BY <1>6 DEF ReleasesAre
    <3> QED
      BY <2>1, <2>5, <3>1, NoMoreAfterShift, -1 \in Int
  <2>7. references[x] <= references'[x]
    BY <1>4, <1>9 DEF IInv, TypeOK
  <2>8. references[x] \in Nat /\ references'[x] \in Nat
    BY DEF IInv, TypeOK
  <2> QED
    BY <2>5, <2>6, <2>7, <2>8, FS_CardinalityType
<1>10. IsFiniteSet(Releases(q)') /\ Cardinality(Releases(q)') <= references'[q]
  <2>1. ASSUME NEW n \in VMs, NEW b \in Addrs, NEW k \in Nat, <<n, b, k>> \in Releases(q)'
        PROVE  <<n, b, k>> \in {<<m, a, 0>>}
    <3>1. AncestorIn(parent', pages'[n][b], k) = q
      BY <1>6, <2>1 DEF ReleasesAre
    <3>2. n = m /\ b = a
      BY <1>5, <1>7, <3>1
    <3>3. k = 0
      <4>1. SUFFICES ASSUME k # 0 PROVE FALSE
        OBVIOUS
      <4>2. k - 1 \in Nat /\ (k - 1) + 1 = k
        BY <4>1
      <4> QED
        BY <1>5, <1>7, <1>8, <3>1, <3>2, <4>2
    <3> QED
      BY <3>2, <3>3
  <2>2. Releases(q)' \subseteq {<<m, a, 0>>}
    BY <1>6, <2>1, TriplesIncluded DEF ReleasesAre
  <2>3. IsFiniteSet({<<m, a, 0>>}) /\ Cardinality({<<m, a, 0>>}) = 1
    BY FS_Singleton
  <2> QED
    BY <1>4, <2>2, <2>3, FS_Subset
<1> QED
  BY <1>9, <1>10 DEF Counted

(* A copy (memory.cc:52) adds to the releases of a page one for each of    *)
(* its mappings, which is what it adds to its references.                  *)
LEMMA CopyCounted ==
    ASSUME IInv, Counted, OwedWhileDying, TypeOK', NEW m \in VMs, NEW n \in VMs, Copy(m, n)
    PROVE  Counted'
<1>1. /\ vm[m] = "alive" /\ vm[n] = "none" /\ m # n /\ parent' = parent
      /\ references' = [p \in Pages |-> references[p] + Mappings(m, p)]
  BY DEF Copy, Alive
<1>2. /\ \A l \in VMs, b \in Addrs : l # n =>
            pages'[l][b] = pages[l][b] /\ WalkLength(l, b)' = WalkLength(l, b)
      /\ \A b \in Addrs : pages'[n][b] = pages[m][b]
      /\ \A b \in Addrs : pages[m][b] # NULL => WalkLength(n, b)' = 1
      /\ \A b \in Addrs : pages[m][b] = NULL => WalkLength(n, b)' = 0
  <2>1. dirty_counter[n] = Clean /\ owed[n] = Clean
    BY <1>1 DEF IInv, NoneIsClean, OwedWhileDying
  <2> QED
    BY <1>1, <2>1 DEF IInv, TypeOK, WalkLength, Copy, Clean
<1>3. ReleasesAre /\ ReleasesAre'
  BY ReleasesMembers, NextReleasesMembers DEF IInv
<1>4. ASSUME NEW x \in Pages
      PROVE  IsFiniteSet(Releases(x)') /\ Cardinality(Releases(x)') <= references'[x]
  <2> DEFINE A == {b \in Addrs : pages[m][b] = x}
             N == {<<n, b, 0>> : b \in A}
  <2>1. Releases(x)' \subseteq Releases(x) \cup N
    <3>1. ASSUME NEW l \in VMs, NEW b \in Addrs, NEW k \in Nat, <<l, b, k>> \in Releases(x)'
          PROVE  <<l, b, k>> \in Releases(x) \cup N
      <4>1. k < WalkLength(l, b)' /\ AncestorIn(parent, pages'[l][b], k) = x
        BY <1>1, <1>3, <3>1 DEF ReleasesAre
      <4>2. CASE l = n
        <5>1. k = 0 /\ AncestorIn(parent, pages[m][b], 0) = x
          BY <1>2, <4>1, <4>2
        <5> QED
          BY <4>2, <5>1, AncestorStart
      <4>3. CASE l # n
        BY <1>2, <1>3, <4>1, <4>3 DEF ReleasesAre
      <4> QED
        BY <4>2, <4>3
    <3> HIDE DEF N
    <3> QED
      BY <1>3, <3>1, TriplesIncluded DEF ReleasesAre
  <2>2. IsFiniteSet(A) /\ Cardinality(A) = Mappings(m, x)
    BY CowMemoryAssumption, FS_Subset, A \subseteq Addrs DEF Mappings
  <2>3. IsFiniteSet(N) /\ Cardinality(N) <= Cardinality(A)
    <3> DEFINE f == [r \in N |-> r[2]]
    <3>1. \A r \in N : f[r] \in A
      OBVIOUS
    <3>2. \A r, s \in N : f[r] = f[s] => r = s
      OBVIOUS
    <3> HIDE DEF f, N, A
    <3> QED
      BY <2>2, <3>1, <3>2, NoMoreThan
  <2>4. IsFiniteSet(Releases(x)) /\ Cardinality(Releases(x)) <= references[x]
    BY DEF Counted
  <2> HIDE DEF A, N
  <2>5. /\ IsFiniteSet(Releases(x) \cup N)
        /\ Cardinality(Releases(x) \cup N) <= Cardinality(Releases(x)) + Cardinality(N)
    <3> DEFINE R == Releases(x)
    <3>1. IsFiniteSet(R) /\ IsFiniteSet(N)
      BY <2>3, <2>4
    <3> HIDE DEF R
    <3>2. /\ IsFiniteSet(R \cup N)
          /\ Cardinality(R \cup N) = Cardinality(R) + Cardinality(N) - Cardinality(R \cap N)
      BY <3>1, FS_Union
    <3>3. IsFiniteSet(R \cap N)
      BY <3>1, FS_Intersection
    <3>4. /\ Cardinality(R) \in Nat /\ Cardinality(N) \in Nat
          /\ Cardinality(R \cap N) \in Nat
      BY <3>1, <3>3, FS_CardinalityType
    <3>5. Cardinality(R \cup N) <= Cardinality(R) + Cardinality(N)
      BY <3>2, <3>4
    <3> QED
      BY <3>2, <3>5 DEF R
  <2>6. IsFiniteSet(Releases(x)') /\ Cardinality(Releases(x)') <= Cardinality(Releases(x) \cup N)
    BY <2>1, <2>5, FS_Subset
  <2>7. /\ Cardinality(Releases(x)) \in Nat /\ Cardinality(N) \in Nat
        /\ Cardinality(Releases(x) \cup N) \in Nat /\ Cardinality(Releases(x)') \in Nat
        /\ references[x] \in Nat /\ Mappings(m, x) \in Nat
    BY <2>2, <2>3, <2>4, <2>5, <2>6, FS_CardinalityType, MappingsType DEF IInv, TypeOK
  <2> QED
    BY <1>1, <2>2, <2>3, <2>4, <2>5, <2>6, <2>7
<1> QED
  BY <1>4 DEF Counted

(* Steps that leave pages and references alone.                            *)
LEMMA NoMoreReleases ==
    ASSUME IInv, Counted, TypeOK', UNCHANGED <<pages, parent, references>>,
           \A n \in VMs, b \in Addrs : WalkLength(n, b)' <= WalkLength(n, b)
    PROVE  Counted'
<1>1. ReleasesAre /\ ReleasesAre'
  BY ReleasesMembers, NextReleasesMembers DEF IInv
<1>2. \A n \in VMs, b \in Addrs : WalkLength(n, b) \in Nat /\ WalkLength(n, b)' \in Nat
  BY DEF IInv, TypeOK, WalkLength
<1>3. ASSUME NEW x \in Pages
      PROVE  IsFiniteSet(Releases(x)') /\ Cardinality(Releases(x)') <= references'[x]
  <2>1. ASSUME NEW n \in VMs, NEW b \in Addrs, NEW k \in Nat, <<n, b, k>> \in Releases(x)'
        PROVE  <<n, b, k>> \in Releases(x)
    <3>1. k < WalkLength(n, b)' /\ AncestorIn(parent', pages'[n][b], k) = x
      BY <1>1, <2>1 DEF ReleasesAre
    <3>2. k < WalkLength(n, b)
      BY <1>2, <3>1
    <3>3. AncestorIn(parent, pages[n][b], k) = x
      BY <3>1
    <3> QED
      BY <1>1, <3>2, <3>3 DEF ReleasesAre
  <2>2. Releases(x)' \subseteq Releases(x)
    BY <1>1, <2>1, TriplesIncluded DEF ReleasesAre
  <2>3. IsFiniteSet(Releases(x)) /\ Cardinality(Releases(x)) <= references[x]
    BY DEF Counted
  <2>4. IsFiniteSet(Releases(x)') /\ Cardinality(Releases(x)') <= Cardinality(Releases(x))
    BY <2>2, <2>3, FS_Subset
  <2>5. /\ Cardinality(Releases(x)) \in Nat /\ Cardinality(Releases(x)') \in Nat
        /\ references[x] \in Nat
    BY <2>3, <2>4, FS_CardinalityType DEF IInv, TypeOK
  <2> QED
    BY <2>3, <2>4, <2>5
<1> QED
  BY <1>3 DEF Counted

(* destroy (memory.cc:29) undertakes no more than the walk of each address. *)
LEMMA DestroyBeginShortens ==
    ASSUME TypeOK, NEW m \in VMs, DestroyBegin(m)
    PROVE  \A n \in VMs, b \in Addrs : WalkLength(n, b)' <= WalkLength(n, b)
<1> SUFFICES ASSUME NEW n \in VMs, NEW b \in Addrs
             PROVE  WalkLength(n, b)' <= WalkLength(n, b)
  OBVIOUS
<1>1. /\ vm[m] = "alive" /\ vm' = [vm EXCEPT ![m] = "dying"]
      /\ owed' = [owed EXCEPT ![m] = [c \in Addrs |-> DestroyCalls(m, c)]]
      /\ pages' = pages /\ dirty_counter' = dirty_counter
  BY DEF DestroyBegin, Alive, memoryVars
<1>2. CASE n # m
  <2>1. WalkLength(n, b)' = WalkLength(n, b)
    BY <1>1, <1>2 DEF WalkLength, TypeOK
  <2> QED
    BY <2>1, WalkLengthType
<1>3. CASE n = m
  <2>1. WalkLength(n, b)' = DestroyCalls(m, b)
    BY <1>1, <1>3 DEF WalkLength, TypeOK
  <2>2. CASE pages[m][b] = NULL
    BY <1>1, <1>3, <2>1, <2>2 DEF WalkLength, DestroyCalls, TypeOK
  <2>3. CASE pages[m][b] # NULL
    <3>1. WalkLength(n, b) = dirty_counter[m][b] + 1 /\ dirty_counter[m][b] \in Nat
      BY <1>1, <1>3, <2>3 DEF WalkLength, TypeOK
    <3> QED
      BY <2>1, <2>3, <3>1 DEF DestroyCalls
  <2> QED
    BY <2>2, <2>3
<1> QED
  BY <1>2, <1>3

LEMMA DestroyBeginCounted ==
    ASSUME IInv, Counted, OwedWhileDying, TypeOK', NEW m \in VMs, DestroyBegin(m)
    PROVE  Counted'
<1>1. \A n \in VMs, b \in Addrs : WalkLength(n, b)' <= WalkLength(n, b)
  BY DestroyBeginShortens DEF IInv
<1> QED
  BY <1>1, NoMoreReleases DEF DestroyBegin, memoryVars, pageVars

(* Page::destroy (page.cc:48) takes one reference and is one release: the  *)
(* walk that goes on from the parent is the rest of the walk.              *)
LEMMA DestroyPageCounted ==
    ASSUME IInv, Counted, TypeOK', NEW m \in VMs, NEW a \in Addrs, DestroyPage(m, a)
    PROVE  Counted'
<1> DEFINE p == pages[m][a]
<1>1. p \in Pages /\ p # NULL
  BY CowMemoryAssumption DEF DestroyPage, Allocated
<1>2. /\ references' = [references EXCEPT ![p] = @ - 1]
      /\ vm[m] = "dying" /\ owed[m][a] > 0 /\ parent' = parent
  BY DEF DestroyPage
<1>3. /\ pages'[m][a] = parent[p]
      /\ WalkLength(m, a) = owed[m][a]
      /\ WalkLength(m, a)' = WalkLength(m, a) - 1
      /\ \A n \in VMs, b \in Addrs : ~ (n = m /\ b = a) =>
            pages'[n][b] = pages[n][b] /\ WalkLength(n, b)' = WalkLength(n, b)
  BY DEF IInv, TypeOK, WalkLength, DestroyPage
<1>4. ReleasesAre /\ ReleasesAre'
  BY ReleasesMembers, NextReleasesMembers DEF IInv
<1>5. \A k \in Nat : AncestorIn(parent, parent[p], k) = AncestorIn(parent, p, k + 1)
  BY <1>1, AncestorOfParent
<1>6. ASSUME NEW x \in Pages
      PROVE  /\ IsFiniteSet(Releases(x)')
             /\ Cardinality(Releases(x)') <= Cardinality(Releases(x) \ {<<m, a, 0>>})
  <2>1. ASSUME NEW n \in VMs, NEW b \in Addrs, NEW k \in Nat, <<n, b, k>> \in Releases(x)'
        PROVE  /\ n = m /\ b = a => <<n, b, k + 1>> \in Releases(x) \ {<<m, a, 0>>}
               /\ ~ (n = m /\ b = a) => <<n, b, k>> \in Releases(x) \ {<<m, a, 0>>}
    <3>1. k < WalkLength(n, b)' /\ AncestorIn(parent, pages'[n][b], k) = x
      BY <1>2, <1>4, <2>1 DEF ReleasesAre
    <3>2. CASE n = m /\ b = a
      <4>1. k + 1 \in Nat /\ k + 1 # 0 /\ AncestorIn(parent, p, k + 1) = x
        BY <1>3, <1>5, <3>1, <3>2
      <4>2. k + 1 < WalkLength(m, a)
        BY <1>3, <3>1, <3>2, WalkLengthType DEF IInv
      <4>3. <<n, b, k + 1>> \in Releases(x)
        BY <1>4, <3>2, <4>1, <4>2 DEF ReleasesAre
      <4> QED
        BY <3>2, <4>1, <4>3
    <3>3. CASE ~ (n = m /\ b = a)
      <4>1. <<n, b, k>> \in Releases(x)
        BY <1>3, <1>4, <3>1, <3>3 DEF ReleasesAre
      <4> QED
        BY <3>3, <4>1
    <3> QED
      BY <3>2, <3>3
  <2>2. Releases(x)' \in SUBSET (VMs \X Addrs \X Nat)
    BY <1>4 DEF ReleasesAre
  <2>3. IsFiniteSet(Releases(x) \ {<<m, a, 0>>})
    BY FS_RemoveElement DEF Counted
  <2> QED
    BY <2>1, <2>2, <2>3, NoMoreAfterShift, 1 \in Int
<1>7. ASSUME NEW x \in Pages
      PROVE  IsFiniteSet(Releases(x)') /\ Cardinality(Releases(x)') <= references'[x]
  <2>1. IsFiniteSet(Releases(x)) /\ Cardinality(Releases(x)) <= references[x]
    BY DEF Counted
  <2>2. /\ Cardinality(Releases(x)') \in Nat /\ Cardinality(Releases(x)) \in Nat
        /\ references[x] \in Nat
    BY <1>6, <2>1, FS_CardinalityType DEF IInv, TypeOK
  <2>3. Cardinality(Releases(x) \ {<<m, a, 0>>}) =
            IF <<m, a, 0>> \in Releases(x) THEN Cardinality(Releases(x)) - 1
                                           ELSE Cardinality(Releases(x))
    BY <2>1, FS_RemoveElement
  <2>4. CASE x = p
    <3>1. <<m, a, 0>> \in Releases(x)
      <4>1. AncestorIn(parent, pages[m][a], 0) = x
        BY <2>4, AncestorStart
      <4>2. 0 < WalkLength(m, a) /\ 0 \in Nat
        BY <1>2, <1>3 DEF IInv, TypeOK
      <4> QED
        BY <1>4, <4>1, <4>2 DEF ReleasesAre
    <3>2. references'[x] = references[x] - 1
      BY <1>1, <1>2, <2>4 DEF IInv, TypeOK
    <3> QED
      BY <1>6, <2>1, <2>2, <2>3, <3>1, <3>2
  <2>5. CASE x # p
    <3>1. references'[x] = references[x]
      BY <1>2, <2>5 DEF IInv, TypeOK
    <3> QED
      BY <1>6, <2>1, <2>2, <2>3, <3>1
  <2> QED
    BY <2>4, <2>5
<1> QED
  BY <1>7 DEF Counted

-----------------------------------------------------------------------------
(* The inductive invariant of reference counting                           *)

(* A page that some memory can still release is allocated.                 *)
LEMMA ReleasableIsAllocated ==
    ASSUME IInv, Counted, OnlyAllocatedIsReferenced,
           NEW m \in VMs, NEW a \in Addrs, NEW k \in Nat, k < WalkLength(m, a),
           AncestorIn(parent, pages[m][a], k) \in Pages
    PROVE  AncestorIn(parent, pages[m][a], k) \in Allocated
<1> DEFINE x == AncestorIn(parent, pages[m][a], k)
<1>1. <<m, a, k>> \in Releases(x)
  BY ReleasesMembers DEF IInv, ReleasesAre
<1>2. x \in Pages /\ IsFiniteSet(Releases(x)) /\ Cardinality(Releases(x)) <= references[x]
  BY DEF Counted
<1> HIDE DEF x
<1>3. Cardinality(Releases(x)) \in Nat /\ Cardinality(Releases(x)) # 0 /\ references[x] \in Nat
  BY <1>1, <1>2, FS_EmptySet, FS_CardinalityType DEF IInv, TypeOK
<1>4. references[x] > 0
  BY <1>2, <1>3
<1>5. x \in Allocated
  BY <1>2, <1>4 DEF OnlyAllocatedIsReferenced
<1> QED
  BY <1>5 DEF x

LEMMA MappedAllocated ==
    ASSUME IInv, Counted, OnlyAllocatedIsReferenced
    PROVE  MappedIsAllocated
<1> SUFFICES ASSUME NEW m \in Alive, NEW a \in Addrs, pages[m][a] # NULL
             PROVE  pages[m][a] \in Allocated
  BY DEF MappedIsAllocated
<1>1. m \in VMs /\ pages[m][a] \in Pages /\ 0 < WalkLength(m, a)
  BY DEF Alive, WalkLength, IInv, TypeOK, PageOrNull
<1>2. AncestorIn(parent, pages[m][a], 0) = pages[m][a]
  BY AncestorStart
<1> QED
  BY <1>1, <1>2, ReleasableIsAllocated, 0 \in Nat

LEMMA InitCountIInv == Init => CountIInv
<1> SUFFICES ASSUME Init PROVE CountIInv
  OBVIOUS
<1>1. IInv
  BY InitIInv
<1>2. ASSUME NEW x \in Pages
      PROVE  IsFiniteSet(Releases(x)) /\ Cardinality(Releases(x)) <= references[x]
  <2>1. \A m \in VMs, a \in Addrs : WalkLength(m, a) = 0
    BY DEF Init, WalkLength, Clean
  <2>2. Releases(x) \subseteq {}
    <3>1. Releases(x) \in SUBSET (VMs \X Addrs \X Nat)
      BY <1>1, ReleasesMembers DEF IInv, ReleasesAre
    <3>2. ASSUME NEW m \in VMs, NEW a \in Addrs, NEW k \in Nat, <<m, a, k>> \in Releases(x)
          PROVE  FALSE
      BY <1>1, <2>1, <3>2, ReleasesMembers DEF IInv, ReleasesAre
    <3> QED
      BY <3>1, <3>2, TriplesIncluded
  <2>3. Releases(x) = {} /\ references[x] = 0
    BY <2>2 DEF Init
  <2> QED
    BY <2>3, FS_EmptySet
<1>3. OnlyAllocatedIsReferenced /\ OwedWhileDying
  BY DEF Init, OnlyAllocatedIsReferenced, OwedWhileDying
<1> QED
  BY <1>1, <1>2, <1>3 DEF CountIInv, Counted

LEMMA NewMappingCountIInv ==
    ASSUME CountIInv, IInv', NEW m \in VMs, NEW a \in Addrs,
           MapPage(m, a) \/ RemapPage(m, a)
    PROVE  CountIInv'
<1>1. PICK q \in Pages : NewPage(q) /\ pages' = [pages EXCEPT ![m][a] = q]
  BY DEF MapPage, RemapPage
<1>2. vm[m] = "alive" /\ UNCHANGED <<vm, dirty_counter, owed>>
  BY DEF MapPage, RemapPage, Alive
<1>3. Counted'
  BY <1>1, <1>2, NewMappingCounted DEF CountIInv, IInv
<1>4. OnlyAllocatedIsReferenced' /\ OwedWhileDying'
  BY <1>1, <1>2 DEF CountIInv, OnlyAllocatedIsReferenced, OwedWhileDying, NewPage, Allocated,
                    IInv, TypeOK
<1> QED
  BY <1>3, <1>4 DEF CountIInv

LEMMA StoreConcreteCountIInv ==
    ASSUME CountIInv, IInv', NEW m \in VMs, NEW a \in Addrs, NEW o \in Offsets,
           NEW v \in Bytes, StoreConcrete(m, a, o, v)
    PROVE  CountIInv'
<1>1. m \in Alive /\ a \in Mapped(m) /\ UNCHANGED <<vm, symbolic_memory, owed>>
  BY DEF StoreConcrete
<1>2. CASE StoreInPlace(m, a, o, v)
  <2>1. UNCHANGED <<pages, dirty_counter, parent, references, status>>
    BY <1>2 DEF StoreInPlace
  <2>2. \A n \in VMs, b \in Addrs : WalkLength(n, b)' <= WalkLength(n, b)
    BY <1>1, <2>1 DEF WalkLength, CountIInv, IInv, TypeOK
  <2>3. Counted'
    BY <2>1, <2>2, NoMoreReleases DEF CountIInv, IInv
  <2>4. OnlyAllocatedIsReferenced' /\ OwedWhileDying'
    BY <1>1, <2>1 DEF CountIInv, OnlyAllocatedIsReferenced, OwedWhileDying, Allocated
  <2> QED
    BY <2>3, <2>4 DEF CountIInv
<1>3. CASE StoreInChild(m, a, o, v)
  <2>1. Counted'
    BY <1>1, <1>3, StoreInChildCounted DEF CountIInv, IInv
  <2>2. PICK q \in Pages : MakeChild(pages[m][a], q, o, v)
    BY <1>3 DEF StoreInChild
  <2>3. pages[m][a] \in Allocated /\ q \in Unused
    BY <1>1, <2>2, MappedAllocated DEF CountIInv, MappedIsAllocated, Mapped, MakeChild
  <2>4. OnlyAllocatedIsReferenced'
    BY <2>2, <2>3 DEF CountIInv, OnlyAllocatedIsReferenced, MakeChild, Allocated, Unused,
                      IInv, TypeOK
  <2>5. OwedWhileDying'
    BY <1>1 DEF CountIInv, OwedWhileDying
  <2> QED
    BY <2>1, <2>4, <2>5 DEF CountIInv
<1> QED
  BY <1>2, <1>3 DEF StoreConcrete

LEMMA StoreElsewhereCountIInv ==
    ASSUME CountIInv, IInv', NEW m \in VMs, NEW a \in Addrs, NEW o \in Offsets,
           \/ \E w \in Wilds : StoreWild(m, a, o, w)
           \/ \E v \in Bytes : StoreRaw(m, a, o, v)
    PROVE  CountIInv'
<1>1. UNCHANGED <<vm, pages, dirty_counter, owed, parent, references, status>>
  BY DEF StoreWild, StoreRaw, memoryVars, pageVars
<1>2. \A n \in VMs, b \in Addrs : WalkLength(n, b)' <= WalkLength(n, b)
  BY <1>1 DEF WalkLength, CountIInv, IInv, TypeOK
<1>3. Counted'
  BY <1>1, <1>2, NoMoreReleases DEF CountIInv, IInv
<1>4. OnlyAllocatedIsReferenced' /\ OwedWhileDying'
  BY <1>1 DEF CountIInv, OnlyAllocatedIsReferenced, OwedWhileDying, Allocated
<1> QED
  BY <1>3, <1>4 DEF CountIInv

LEMMA CopyCountIInv ==
    ASSUME CountIInv, IInv', NEW m \in VMs, NEW n \in VMs, Copy(m, n)
    PROVE  CountIInv'
<1>1. Counted'
  BY CopyCounted DEF CountIInv, IInv
<1>2. OnlyAllocatedIsReferenced'
  <2> SUFFICES ASSUME NEW x \in Pages, references'[x] > 0 PROVE x \in Allocated
    BY DEF OnlyAllocatedIsReferenced, Copy, Allocated
  <2>1. references'[x] = references[x] + Mappings(m, x)
    BY DEF Copy
  <2>2. CASE \E a \in Addrs : pages[m][a] = x
    BY <2>2, MappedAllocated, CowMemoryAssumption DEF CountIInv, MappedIsAllocated, Copy
  <2>3. CASE \A a \in Addrs : pages[m][a] # x
    <3>1. {a \in Addrs : pages[m][a] = x} = {}
      BY <2>3
    <3>2. Mappings(m, x) = 0
      BY <3>1, FS_EmptySet DEF Mappings
    <3> QED
      BY <2>1, <3>2 DEF CountIInv, OnlyAllocatedIsReferenced, IInv, TypeOK
  <2> QED
    BY <2>2, <2>3
<1>3. OwedWhileDying'
  BY DEF Copy, CountIInv, OwedWhileDying, IInv, TypeOK
<1> QED
  BY <1>1, <1>2, <1>3 DEF CountIInv

LEMMA DestroyCountIInv ==
    ASSUME CountIInv, IInv', NEW m \in VMs, DestroyBegin(m) \/ Destroy(m)
    PROVE  CountIInv'
<1>1. CASE DestroyBegin(m)
  <2>1. Counted'
    BY <1>1, DestroyBeginCounted DEF CountIInv, IInv
  <2>2. OnlyAllocatedIsReferenced' /\ OwedWhileDying'
    BY <1>1 DEF DestroyBegin, pageVars, CountIInv, OnlyAllocatedIsReferenced,
                OwedWhileDying, Allocated, IInv, TypeOK
  <2> QED
    BY <2>1, <2>2 DEF CountIInv
<1>2. CASE DestroyEnd(m)
  <2>1. UNCHANGED <<pages, dirty_counter, owed, parent, references, status>>
    BY <1>2 DEF DestroyEnd, memoryVars, pageVars
  <2>2. vm[m] = "dying" /\ owed[m] = Clean /\ vm' = [vm EXCEPT ![m] = "gone"]
    BY <1>2 DEF DestroyEnd
  <2>3. \A n \in VMs, b \in Addrs : WalkLength(n, b)' <= WalkLength(n, b)
    BY <2>1, <2>2 DEF WalkLength, CountIInv, IInv, TypeOK
  <2>4. Counted'
    BY <2>1, <2>3, NoMoreReleases DEF CountIInv, IInv
  <2>5. OnlyAllocatedIsReferenced' /\ OwedWhileDying'
    BY <2>1, <2>2 DEF CountIInv, OnlyAllocatedIsReferenced, OwedWhileDying, Allocated,
                      IInv, TypeOK
  <2> QED
    BY <2>4, <2>5 DEF CountIInv
<1>3. ASSUME NEW a \in Addrs, DestroyPage(m, a)
      PROVE  CountIInv'
  <2>1. Counted'
    BY <1>3, DestroyPageCounted DEF CountIInv, IInv
  <2>2. OnlyAllocatedIsReferenced'
    BY <1>3 DEF DestroyPage, CountIInv, OnlyAllocatedIsReferenced, Allocated, IInv, TypeOK
  <2>3. OwedWhileDying'
    BY <1>3 DEF DestroyPage, CountIInv, OwedWhileDying, IInv, TypeOK
  <2> QED
    BY <2>1, <2>2, <2>3 DEF CountIInv
<1> QED
  BY <1>1, <1>2, <1>3 DEF Destroy

LEMMA NextCountIInv == CountIInv /\ [Next]_vars => CountIInv'
<1> SUFFICES ASSUME CountIInv, [Next]_vars PROVE CountIInv'
  OBVIOUS
<1>1. IInv'
  BY NextIInv DEF CountIInv
<1>2. CASE UNCHANGED vars
  <2>1. UNCHANGED <<vm, pages, dirty_counter, owed, status, references, parent>>
    BY <1>2 DEF vars, memoryVars, pageVars
  <2>2. \A n \in VMs, b \in Addrs : WalkLength(n, b)' <= WalkLength(n, b)
    BY <2>1 DEF WalkLength, CountIInv, IInv, TypeOK
  <2>3. Counted'
    BY <1>1, <2>1, <2>2, NoMoreReleases DEF CountIInv, IInv
  <2>4. OnlyAllocatedIsReferenced' /\ OwedWhileDying'
    BY <2>1 DEF CountIInv, OnlyAllocatedIsReferenced, OwedWhileDying, Allocated
  <2> QED
    BY <1>1, <2>3, <2>4 DEF CountIInv
<1>3. CASE ConcreteNext
  BY <1>1, <1>3, NewMappingCountIInv, StoreConcreteCountIInv, CopyCountIInv,
     DestroyCountIInv DEF ConcreteNext
<1>4. ASSUME NEW m \in VMs, NEW a \in Addrs, NEW o \in Offsets, NEW w \in Wilds,
             StoreWild(m, a, o, w)
      PROVE  CountIInv'
  BY <1>1, <1>4, StoreElsewhereCountIInv
<1>5. ASSUME NEW m \in VMs, NEW a \in Addrs, NEW o \in Offsets, NEW v \in Bytes,
             StoreRaw(m, a, o, v)
      PROVE  CountIInv'
  BY <1>1, <1>5, StoreElsewhereCountIInv
<1>6. CASE \E m \in VMs, a \in Addrs : RemapPage(m, a)
  BY <1>1, <1>6, NewMappingCountIInv
<1> QED
  BY <1>2, <1>3, <1>4, <1>5, <1>6 DEF Next, GuestNext

(* CountIInv is an inductive invariant of everything the program may do.   *)
THEOREM CountIsInductive == Spec => []CountIInv
<1>1. Init => CountIInv
  BY InitCountIInv
<1>2. CountIInv /\ [Next]_vars => CountIInv'
  BY NextCountIInv
<1> QED
  BY <1>1, <1>2, PTL DEF Spec

(* The references of a page cover every release that can still be made of  *)
(* it (page.cc:48, memory.cc:29, 52, 81).                                  *)
THEOREM ReferencesSuffice == Spec => []ReferencesCoverReleases
<1>1. CountIInv => ReferencesCoverReleases
  BY FS_CardinalityType DEF CountIInv, Counted, ReferencesCoverReleases, Allocated, IInv, TypeOK
<1> QED
  BY <1>1, CountIsInductive, PTL

(* No page that a living memory maps has been deleted (page.cc:54-59),     *)
(* even where the emulated kernel maps pages over others.                  *)
THEOREM MappedPagesAreThere == Spec => []MappedIsAllocated
<1>1. CountIInv => MappedIsAllocated
  BY MappedAllocated DEF CountIInv
<1> QED
  BY <1>1, CountIsInductive, PTL

-----------------------------------------------------------------------------
(* The guest alone: every walk reaches its end                             *)

(* What a mapping made at an address that had none, or a private child,    *)
(* does to a walk.                                                         *)
LEMMA MapPageWhole ==
    ASSUME WalkIInv, CountIInv', NEW m \in VMs, NEW a \in Addrs, MapPage(m, a)
    PROVE  WalkIInv'
<1> USE DEF WalkIInv, CountIInv, IInv
<1>1. PICK q \in Pages : NewPage(q) /\ pages' = [pages EXCEPT ![m][a] = q]
  BY DEF MapPage
<1>2. /\ vm[m] = "alive" /\ pages[m][a] = NULL
      /\ UNCHANGED <<vm, dirty_counter, owed>>
  BY DEF MapPage, Alive
<1>3. q \in Unused /\ q # NULL /\ parent' = [parent EXCEPT ![q] = NULL]
  BY <1>1, CowMemoryAssumption DEF NewPage
<1>4. UnmappedIsUndirtied'
  BY <1>1, <1>2, <1>3 DEF UnmappedIsUndirtied, Alive, TypeOK
<1>5. WalksAreWhole'
  <2> SUFFICES ASSUME NEW n \in VMs, NEW b \in Addrs, NEW k \in Nat, k < WalkLength(n, b)'
               PROVE  AncestorIn(parent', pages'[n][b], k) # NULL
    BY DEF WalksAreWhole, Ancestor
  <2>1. CASE n = m /\ b = a
    <3>1. WalkLength(m, a)' = 1
      BY <1>1, <1>2, <1>3 DEF WalkLength, UnmappedIsUndirtied, Alive, TypeOK
    <3>2. k = 0 /\ pages'[n][b] = q
      BY <1>1, <2>1, <3>1 DEF TypeOK
    <3> QED
      BY <1>3, <3>2, AncestorStart
  <2>2. CASE ~ (n = m /\ b = a)
    <3>1. pages'[n][b] = pages[n][b] /\ WalkLength(n, b)' = WalkLength(n, b)
      BY <1>1, <1>2, <2>2 DEF WalkLength, TypeOK
    <3>2. \A r \in Pages : r # q => parent'[r] = parent[r]
      BY <1>3 DEF TypeOK
    <3>3. AncestorIn(parent', pages[n][b], k) = AncestorIn(parent, pages[n][b], k)
      <4>1. q \in Unused
        BY <1>3
      <4> HIDE DEF IInv
      <4> QED
        BY <3>2, <4>1, WalkAvoidsFresh
    <3> QED
      BY <3>1, <3>3 DEF WalksAreWhole, Ancestor
  <2> QED
    BY <2>1, <2>2
<1> QED
  BY <1>4, <1>5

LEMMA StoreInChildWhole ==
    ASSUME WalkIInv, CountIInv', NEW m \in VMs, NEW a \in Addrs, NEW o \in Offsets,
           NEW v \in Bytes, m \in Alive, a \in Mapped(m), StoreInChild(m, a, o, v),
           UNCHANGED <<vm, symbolic_memory, owed>>
    PROVE  WalkIInv'
<1> USE DEF WalkIInv, CountIInv, IInv
<1> DEFINE p == pages[m][a]
<1>1. p \in Pages /\ p # NULL /\ vm[m] = "alive"
  BY DEF TypeOK, Mapped, PageOrNull, Alive
<1>2. PICK q \in Pages : MakeChild(p, q, o, v) /\ pages' = [pages EXCEPT ![m][a] = q]
  BY DEF StoreInChild
<1>3. q \in Unused /\ q # NULL
  BY <1>2, CowMemoryAssumption DEF MakeChild
<1>4. dirty_counter' = [dirty_counter EXCEPT ![m][a] = @ + 1]
  BY DEF StoreInChild
<1>5. parent'[q] = p /\ \A r \in Pages : r # q => parent'[r] = parent[r]
  BY <1>2 DEF TypeOK, MakeChild
<1>6. UnmappedIsUndirtied'
  BY <1>1, <1>2, <1>3, <1>4 DEF UnmappedIsUndirtied, Alive, TypeOK
<1>7. ASSUME NEW n \in VMs, NEW b \in Addrs, NEW k \in Nat
      PROVE  AncestorIn(parent', pages[n][b], k) = AncestorIn(parent, pages[n][b], k)
  <2> HIDE DEF IInv
  <2> QED
    BY <1>3, <1>5, WalkAvoidsFresh
<1>8. \A k \in Nat : AncestorIn(parent', p, k) = AncestorIn(parent', q, k + 1)
  BY <1>3, <1>5, AncestorOfParent
<1>9. WalksAreWhole'
  <2> SUFFICES ASSUME NEW n \in VMs, NEW b \in Addrs, NEW k \in Nat, k < WalkLength(n, b)'
               PROVE  AncestorIn(parent', pages'[n][b], k) # NULL
    BY DEF WalksAreWhole, Ancestor
  <2>1. CASE n = m /\ b = a /\ k = 0
    <3>1. pages'[n][b] = q
      BY <1>2, <2>1 DEF TypeOK
    <3> QED
      BY <1>3, <2>1, <3>1, AncestorStart
  <2>2. CASE n = m /\ b = a /\ k # 0
    <3>1. k - 1 \in Nat /\ (k - 1) + 1 = k
      BY <2>2
    <3>2. pages'[n][b] = q
      BY <1>2, <2>2 DEF TypeOK
    <3>3. AncestorIn(parent', q, k) = AncestorIn(parent, p, k - 1)
      BY <1>7, <1>8, <3>1
    <3>4. WalkLength(m, a)' = WalkLength(m, a) + 1
      BY <1>1, <1>2, <1>3, <1>4 DEF WalkLength, TypeOK
    <3>5. k - 1 < WalkLength(m, a)
      BY <2>2, <3>4, WalkLengthType
    <3>6. AncestorIn(parent, p, k - 1) # NULL
      BY <3>1, <3>5 DEF WalksAreWhole, Ancestor
    <3> QED
      BY <3>2, <3>3, <3>6
  <2>3. CASE ~ (n = m /\ b = a)
    <3>1. pages'[n][b] = pages[n][b] /\ WalkLength(n, b)' = WalkLength(n, b)
      BY <1>2, <1>4, <2>3 DEF WalkLength, TypeOK
    <3> QED
      BY <1>7, <3>1 DEF WalksAreWhole, Ancestor
  <2> QED
    BY <2>1, <2>2, <2>3
<1> QED
  BY <1>6, <1>9

LEMMA CopyWhole ==
    ASSUME WalkIInv, CountIInv', NEW m \in VMs, NEW n \in VMs, Copy(m, n)
    PROVE  WalkIInv'
<1> USE DEF WalkIInv, CountIInv, IInv
<1>1. /\ vm[m] = "alive" /\ vm[n] = "none" /\ m # n
      /\ vm' = [vm EXCEPT ![n] = "alive"] /\ pages' = [pages EXCEPT ![n] = pages[m]]
      /\ UNCHANGED <<dirty_counter, owed, parent>>
  BY DEF Copy, Alive
<1>2. dirty_counter[n] = Clean /\ owed[n] = Clean
  BY <1>1 DEF NoneIsClean, OwedWhileDying
<1>3. UnmappedIsUndirtied'
  BY <1>1, <1>2 DEF UnmappedIsUndirtied, Alive, TypeOK, Clean
<1>4. WalksAreWhole'
  <2> SUFFICES ASSUME NEW l \in VMs, NEW b \in Addrs, NEW k \in Nat, k < WalkLength(l, b)'
               PROVE  AncestorIn(parent', pages'[l][b], k) # NULL
    BY DEF WalksAreWhole, Ancestor
  <2>1. CASE l = n
    <3>1. k = 0 /\ pages'[l][b] # NULL
      BY <1>1, <1>2, <2>1 DEF WalkLength, TypeOK, Clean
    <3> QED
      BY <3>1, AncestorStart
  <2>2. CASE l # n
    BY <1>1, <2>2 DEF WalkLength, TypeOK, WalksAreWhole, Ancestor
  <2> QED
    BY <2>1, <2>2
<1> QED
  BY <1>3, <1>4

LEMMA DestroyPageWhole ==
    ASSUME WalkIInv, CountIInv', NEW m \in VMs, NEW a \in Addrs, DestroyPage(m, a)
    PROVE  WalkIInv'
<1> USE DEF WalkIInv, CountIInv, IInv
<1> DEFINE p == pages[m][a]
<1>1. p \in Pages /\ p # NULL
  BY CowMemoryAssumption DEF DestroyPage, Allocated
<1>2. /\ vm[m] = "dying" /\ owed[m][a] > 0
      /\ pages' = [pages EXCEPT ![m][a] = parent[p]] /\ owed' = [owed EXCEPT ![m][a] = @ - 1]
      /\ UNCHANGED <<vm, dirty_counter, parent>>
  BY DEF DestroyPage
<1>3. UnmappedIsUndirtied'
  BY <1>2 DEF UnmappedIsUndirtied, Alive, TypeOK
<1>4. WalksAreWhole'
  <2> SUFFICES ASSUME NEW n \in VMs, NEW b \in Addrs, NEW k \in Nat, k < WalkLength(n, b)'
               PROVE  AncestorIn(parent, pages'[n][b], k) # NULL
    BY <1>2 DEF WalksAreWhole, Ancestor
  <2>1. CASE n = m /\ b = a
    <3>1. pages'[n][b] = parent[p] /\ k + 1 < WalkLength(m, a)
      BY <1>2, <2>1 DEF WalkLength, TypeOK
    <3>2. AncestorIn(parent, parent[p], k) = AncestorIn(parent, p, k + 1)
      BY <1>1, AncestorOfParent
    <3> QED
      BY <3>1, <3>2, k + 1 \in Nat DEF WalksAreWhole, Ancestor
  <2>2. CASE ~ (n = m /\ b = a)
    BY <1>2, <2>2 DEF WalkLength, TypeOK, WalksAreWhole, Ancestor
  <2> QED
    BY <2>1, <2>2
<1> QED
  BY <1>3, <1>4

(* Steps that make no walk longer and leave the pages alone.               *)
LEMMA OtherStepsWhole ==
    ASSUME WalkIInv, CountIInv', UNCHANGED <<pages, parent, dirty_counter>>,
           \A m \in VMs : vm'[m] = "alive" => vm[m] = "alive",
           \A m \in VMs, a \in Addrs : WalkLength(m, a)' <= WalkLength(m, a)
    PROVE  WalkIInv'
<1> USE DEF WalkIInv, CountIInv, IInv
<1>1. UnmappedIsUndirtied'
  BY DEF UnmappedIsUndirtied, Alive
<1>2. WalksAreWhole'
  <2> SUFFICES ASSUME NEW n \in VMs, NEW b \in Addrs, NEW k \in Nat, k < WalkLength(n, b)'
               PROVE  AncestorIn(parent, pages[n][b], k) # NULL
    BY DEF WalksAreWhole, Ancestor
  <2>1. WalkLength(n, b) \in Nat /\ WalkLength(n, b)' \in Nat
    BY DEF WalkLength, TypeOK
  <2> QED
    BY <2>1 DEF WalksAreWhole, Ancestor
<1> QED
  BY <1>1, <1>2

LEMMA NextWalkIInv == WalkIInv /\ [GuestNext]_vars => WalkIInv'
<1> SUFFICES ASSUME WalkIInv, [GuestNext]_vars PROVE WalkIInv'
  OBVIOUS
<1>1. CountIInv'
  <2>1. [Next]_vars
    BY DEF Next
  <2> QED
    BY <2>1, NextCountIInv DEF WalkIInv
<1>2. TypeOK
  BY DEF WalkIInv, CountIInv, IInv
<1>3. CASE UNCHANGED vars
  <2>1. UNCHANGED <<vm, pages, parent, dirty_counter, owed>>
    BY <1>3 DEF vars, memoryVars, pageVars
  <2>2. \A n \in VMs, b \in Addrs : WalkLength(n, b)' <= WalkLength(n, b)
    BY <1>2, <2>1 DEF WalkLength, TypeOK
  <2> QED
    BY <1>1, <2>1, <2>2, OtherStepsWhole
<1>4. ASSUME NEW m \in VMs, NEW a \in Addrs, MapPage(m, a)
      PROVE  WalkIInv'
  BY <1>1, <1>4, MapPageWhole
<1>5. ASSUME NEW m \in VMs, NEW a \in Addrs, NEW o \in Offsets, NEW v \in Bytes,
             StoreConcrete(m, a, o, v)
      PROVE  WalkIInv'
  <2>1. m \in Alive /\ a \in Mapped(m) /\ UNCHANGED <<vm, symbolic_memory, owed>>
    BY <1>5 DEF StoreConcrete
  <2>2. CASE StoreInPlace(m, a, o, v)
    <3>1. UNCHANGED <<pages, parent, dirty_counter>>
      BY <2>2 DEF StoreInPlace
    <3>2. \A n \in VMs, b \in Addrs : WalkLength(n, b)' <= WalkLength(n, b)
      BY <1>2, <2>1, <3>1 DEF WalkLength, TypeOK
    <3> QED
      BY <1>1, <2>1, <3>1, <3>2, OtherStepsWhole
  <2>3. CASE StoreInChild(m, a, o, v)
    BY <1>1, <2>1, <2>3, StoreInChildWhole
  <2> QED
    BY <1>5, <2>2, <2>3 DEF StoreConcrete
<1>6. ASSUME NEW m \in VMs, NEW a \in Addrs, NEW o \in Offsets, NEW w \in Wilds,
             StoreWild(m, a, o, w)
      PROVE  WalkIInv'
  <2>1. UNCHANGED <<vm, pages, parent, dirty_counter, owed>>
    BY <1>6 DEF StoreWild, pageVars
  <2>2. \A n \in VMs, b \in Addrs : WalkLength(n, b)' <= WalkLength(n, b)
    BY <1>2, <2>1 DEF WalkLength, TypeOK
  <2> QED
    BY <1>1, <2>1, <2>2, OtherStepsWhole
<1>7. ASSUME NEW m \in VMs, NEW n \in VMs, Copy(m, n)
      PROVE  WalkIInv'
  BY <1>1, <1>7, CopyWhole
<1>8. ASSUME NEW m \in VMs, DestroyBegin(m)
      PROVE  WalkIInv'
  <2>1. UNCHANGED <<pages, parent, dirty_counter>>
    BY <1>8 DEF DestroyBegin, memoryVars, pageVars
  <2>2. \A n \in VMs : vm'[n] = "alive" => vm[n] = "alive"
    BY <1>2, <1>8 DEF DestroyBegin, TypeOK
  <2> QED
    BY <1>1, <1>2, <1>8, <2>1, <2>2, DestroyBeginShortens, OtherStepsWhole
<1>9. ASSUME NEW m \in VMs, DestroyEnd(m)
      PROVE  WalkIInv'
  <2>1. UNCHANGED <<pages, parent, dirty_counter, owed>>
    BY <1>9 DEF DestroyEnd, memoryVars, pageVars
  <2>2. vm[m] = "dying" /\ vm' = [vm EXCEPT ![m] = "gone"]
    BY <1>9 DEF DestroyEnd
  <2>3. \A n \in VMs : vm'[n] = "alive" => vm[n] = "alive"
    BY <1>2, <2>2 DEF TypeOK
  <2>4. \A n \in VMs, b \in Addrs : WalkLength(n, b)' <= WalkLength(n, b)
    BY <1>2, <2>1, <2>2 DEF WalkLength, TypeOK
  <2> QED
    BY <1>1, <2>1, <2>3, <2>4, OtherStepsWhole
<1>10. ASSUME NEW m \in VMs, NEW a \in Addrs, DestroyPage(m, a)
       PROVE  WalkIInv'
  BY <1>1, <1>10, DestroyPageWhole
<1> QED
  BY <1>3, <1>4, <1>5, <1>6, <1>7, <1>8, <1>9, <1>10 DEF GuestNext, ConcreteNext, Destroy

LEMMA InitWalkIInv == Init => WalkIInv
<1> SUFFICES ASSUME Init PROVE WalkIInv
  OBVIOUS
<1>1. CountIInv
  BY InitCountIInv
<1>2. UnmappedIsUndirtied
  BY DEF Init, UnmappedIsUndirtied, Alive, Clean
<1>3. WalksAreWhole
  BY DEF Init, WalksAreWhole, WalkLength, Clean
<1> QED
  BY <1>1, <1>2, <1>3 DEF WalkIInv

(* WalkIInv is an inductive invariant of what the guest alone may do.      *)
THEOREM WalkIsInductive == GuestSpec => []WalkIInv
<1>1. Init => WalkIInv
  BY InitWalkIInv
<1>2. WalkIInv /\ [GuestNext]_vars => WalkIInv'
  BY NextWalkIInv
<1> QED
  BY <1>1, <1>2, PTL DEF GuestSpec

(* No page is used after it was deleted: neither by a living memory nor by *)
(* a destroy on its way up the parents (memory.cc:29-50, page.cc:48-62).   *)
THEOREM NoPageIsUsedAfterFree == GuestSpec => []NoUseAfterFree
<1>1. WalkIInv => NoUseAfterFree
  <2> SUFFICES ASSUME WalkIInv PROVE NoUseAfterFree
    OBVIOUS
  <2>1. MappedIsAllocated
    BY MappedAllocated DEF WalkIInv, CountIInv
  <2>2. ASSUME NEW m \in VMs, NEW a \in Addrs, owed[m][a] > 0
        PROVE  pages[m][a] \in Allocated
    <3>1. vm[m] = "dying"
      BY <2>2 DEF WalkIInv, CountIInv, OwedWhileDying, Clean
    <3>2. 0 \in Nat /\ 0 < WalkLength(m, a)
      BY <2>2, <3>1 DEF WalkLength
    <3>3. AncestorIn(parent, pages[m][a], 0) = pages[m][a]
      BY AncestorStart
    <3>4. pages[m][a] # NULL
      BY <3>2, <3>3 DEF WalkIInv, WalksAreWhole, Ancestor
    <3>5. pages[m][a] \in Pages
      BY <3>4 DEF WalkIInv, CountIInv, IInv, TypeOK, PageOrNull
    <3> QED
      BY <3>2, <3>3, <3>5, ReleasableIsAllocated DEF WalkIInv, CountIInv
  <2> QED
    BY <2>1, <2>2 DEF NoUseAfterFree, ReleasedIsAllocated
<1> QED
  BY <1>1, WalkIsInductive, PTL

-----------------------------------------------------------------------------
(* What is left when every machine is gone                                 *)

IsHolder(p, m, a) == pages[m][a] = p /\ (vm[m] = "alive" \/ owed[m][a] > 0)

LEMMA HoldersMembers ==
    ASSUME NEW p
    PROVE  /\ Holders(p) \in SUBSET (VMs \X Addrs)
           /\ \A m \in VMs, a \in Addrs : <<m, a>> \in Holders(p) <=> IsHolder(p, m, a)
BY DEF Holders, IsHolder

LEMMA NextHoldersMembers ==
    ASSUME NEW p
    PROVE  /\ Holders(p)' \in SUBSET (VMs \X Addrs)
           /\ \A m \in VMs, a \in Addrs : <<m, a>> \in Holders(p)' <=> IsHolder(p, m, a)'
BY DEF Holders, IsHolder

LEMMA SameHolders ==
    ASSUME NEW p, \A m \in VMs, a \in Addrs : IsHolder(p, m, a)' <=> IsHolder(p, m, a)
    PROVE  Holders(p)' = Holders(p)
<1>1. \A h \in VMs \X Addrs : h \in Holders(p)' <=> h \in Holders(p)
  BY HoldersMembers, NextHoldersMembers
<1> QED
  BY <1>1, HoldersMembers, NextHoldersMembers

(* Steps that change neither who holds a page nor who is its child.        *)
LEMMA SameHeld ==
    ASSUME ChildlessIsHeld, UnusedIsParentless, UNCHANGED <<references, parent, status>>,
           \A p \in Pages, m \in VMs, a \in Addrs : IsHolder(p, m, a)' <=> IsHolder(p, m, a)
    PROVE  ChildlessIsHeld' /\ UnusedIsParentless'
<1>1. \A p \in Pages : Holders(p)' = Holders(p)
  BY SameHolders
<1> QED
  BY <1>1 DEF ChildlessIsHeld, UnusedIsParentless, Unused

(* A page made at one mapping is held by that mapping.                     *)
LEMMA NewPageHeld ==
    ASSUME IInv, TypeOK', NEW m \in VMs, NEW a \in Addrs, NEW q \in Unused,
           vm[m] = "alive", vm' = vm, pages' = [pages EXCEPT ![m][a] = q]
    PROVE  IsFiniteSet(Holders(q)') /\ Cardinality(Holders(q)') = 1
<1>1. \A n \in VMs, b \in Addrs : IsHolder(q, n, b)' <=> n = m /\ b = a
  BY DEF IsHolder, IInv, TypeOK, FreshIsUnknown
<1>2. Holders(q)' = {<<m, a>>}
  <2>1. \A h \in VMs \X Addrs : h \in Holders(q)' <=> h = <<m, a>>
    BY <1>1, NextHoldersMembers
  <2> QED
    BY <2>1, NextHoldersMembers
<1> QED
  BY <1>2, FS_Singleton

LEMMA MapPageHeld ==
    ASSUME HeldIInv, TypeOK', NEW m \in VMs, NEW a \in Addrs, MapPage(m, a)
    PROVE  ChildlessIsHeld' /\ UnusedIsParentless'
<1> USE DEF HeldIInv, WalkIInv, CountIInv
<1>1. PICK q \in Pages : NewPage(q) /\ pages' = [pages EXCEPT ![m][a] = q]
  BY DEF MapPage
<1>2. /\ vm[m] = "alive" /\ pages[m][a] = NULL /\ vm' = vm /\ owed' = owed /\ q \in Unused
  BY <1>1 DEF MapPage, Alive, NewPage
<1>3. /\ references'[q] = 1 /\ parent'[q] = NULL
      /\ \A r \in Pages : r # q => references'[r] = references[r] /\ parent'[r] = parent[r]
      /\ Unused' \subseteq Unused /\ q \notin Unused'
  BY <1>1 DEF NewPage, IInv, TypeOK, Unused
<1>4. ASSUME NEW x \in Pages, x # q
      PROVE  Holders(x)' = Holders(x)
  <2>1. x # NULL
    BY CowMemoryAssumption
  <2>2. \A n \in VMs, b \in Addrs : IsHolder(x, n, b)' <=> IsHolder(x, n, b)
    BY <1>1, <1>2, <1>4, <2>1 DEF IsHolder, IInv, TypeOK
  <2> QED
    BY <2>2, SameHolders
<1>5. IsFiniteSet(Holders(q)') /\ Cardinality(Holders(q)') = 1
  BY <1>1, <1>2, NewPageHeld
<1>6. parent[q] = NULL
  BY <1>2 DEF UnusedIsParentless
<1>7. ASSUME NEW x \in Pages
      PROVE  /\ IsFiniteSet(Holders(x)')
             /\ (\A r \in Pages : parent'[r] # x) => references'[x] <= Cardinality(Holders(x)')
  <2>1. CASE x = q
    BY <1>3, <1>5, <2>1
  <2>2. CASE x # q
    <3>1. (\A r \in Pages : parent'[r] # x) => \A r \in Pages : parent[r] # x
      BY <1>3, <1>6, CowMemoryAssumption
    <3> QED
      BY <1>3, <1>4, <2>2, <3>1 DEF ChildlessIsHeld
  <2> QED
    BY <2>1, <2>2
<1>8. UnusedIsParentless'
  BY <1>3 DEF UnusedIsParentless, Unused
<1> QED
  BY <1>7, <1>8 DEF ChildlessIsHeld

LEMMA StoreInChildHeld ==
    ASSUME HeldIInv, TypeOK', NEW m \in VMs, NEW a \in Addrs, NEW o \in Offsets,
           NEW v \in Bytes, m \in Alive, a \in Mapped(m), StoreInChild(m, a, o, v),
           UNCHANGED <<vm, symbolic_memory, owed>>
    PROVE  ChildlessIsHeld' /\ UnusedIsParentless'
<1> USE DEF HeldIInv, WalkIInv, CountIInv
<1>0. PICK p \in Pages : p = pages[m][a]
  BY DEF IInv, TypeOK, Mapped, PageOrNull
<1>1. p = pages[m][a] /\ vm[m] = "alive"
  BY <1>0 DEF Alive
<1>2. PICK q \in Pages : MakeChild(p, q, o, v) /\ pages' = [pages EXCEPT ![m][a] = q]
  BY <1>1 DEF StoreInChild
<1>3. q \in Unused /\ q # p
  BY <1>1, <1>2 DEF MakeChild, FreshIsUnknown, IInv
<1>4. /\ references'[q] = 1 /\ parent'[q] = p
      /\ \A r \in Pages : r # q => parent'[r] = parent[r]
      /\ \A r \in Pages : r # q /\ r # p => references'[r] = references[r]
      /\ Unused' \subseteq Unused /\ q \notin Unused'
  BY <1>1, <1>2, <1>3 DEF MakeChild, IInv, TypeOK, Unused
<1>5. ASSUME NEW x \in Pages, x # q, x # p
      PROVE  Holders(x)' = Holders(x)
  <2>1. \A n \in VMs, b \in Addrs : IsHolder(x, n, b)' <=> IsHolder(x, n, b)
    BY <1>1, <1>2, <1>5 DEF IsHolder, IInv, TypeOK
  <2> QED
    BY <2>1, SameHolders
<1>6. IsFiniteSet(Holders(p)')
  <2>1. \A n \in VMs, b \in Addrs : IsHolder(p, n, b)' => IsHolder(p, n, b)
    BY <1>1, <1>2, <1>3 DEF IsHolder, IInv, TypeOK
  <2>2. \A h \in VMs \X Addrs : h \in Holders(p)' => h \in Holders(p)
    BY <2>1, HoldersMembers, NextHoldersMembers
  <2>3. Holders(p)' \subseteq Holders(p)
    BY <2>2, NextHoldersMembers
  <2>4. IsFiniteSet(Holders(p))
    BY <1>1 DEF ChildlessIsHeld
  <2> QED
    BY <2>3, <2>4, FS_Subset
<1>7. IsFiniteSet(Holders(q)') /\ Cardinality(Holders(q)') = 1
  BY <1>1, <1>2, <1>3, NewPageHeld
<1>8. parent[q] = NULL
  BY <1>3 DEF UnusedIsParentless
<1>9. ASSUME NEW x \in Pages
      PROVE  /\ IsFiniteSet(Holders(x)')
             /\ (\A r \in Pages : parent'[r] # x) => references'[x] <= Cardinality(Holders(x)')
  <2>1. CASE x = q
    BY <1>4, <1>7, <2>1
  <2>2. CASE x = p
    BY <1>4, <1>6, <2>2
  <2>3. CASE x # q /\ x # p
    <3>1. (\A r \in Pages : parent'[r] # x) => \A r \in Pages : parent[r] # x
      BY <1>4, <1>8, CowMemoryAssumption
    <3> QED
      BY <1>4, <1>5, <2>3, <3>1 DEF ChildlessIsHeld
  <2> QED
    BY <2>1, <2>2, <2>3
<1>10. UnusedIsParentless'
  BY <1>4 DEF UnusedIsParentless, Unused
<1> QED
  BY <1>9, <1>10 DEF ChildlessIsHeld

LEMMA CopyHeld ==
    ASSUME HeldIInv, TypeOK', NEW m \in VMs, NEW n \in VMs, Copy(m, n)
    PROVE  ChildlessIsHeld' /\ UnusedIsParentless'
<1> USE DEF HeldIInv, WalkIInv, CountIInv
<1>1. /\ vm[m] = "alive" /\ vm[n] = "none" /\ m # n
      /\ vm' = [vm EXCEPT ![n] = "alive"] /\ pages' = [pages EXCEPT ![n] = pages[m]]
      /\ references' = [x \in Pages |-> references[x] + Mappings(m, x)]
      /\ UNCHANGED <<owed, parent, status>>
  BY DEF Copy, Alive
<1>2. owed[n] = Clean
  BY <1>1 DEF OwedWhileDying
<1>3. ASSUME NEW x \in Pages
      PROVE  /\ IsFiniteSet(Holders(x)')
             /\ (\A r \in Pages : parent[r] # x) => references'[x] <= Cardinality(Holders(x)')
  <2> DEFINE A == {b \in Addrs : pages[m][b] = x}
             N == {<<n, b>> : b \in A}
             H == Holders(x)
  <2>1. IsFiniteSet(A) /\ Cardinality(A) = Mappings(m, x)
    BY CowMemoryAssumption, FS_Subset, A \subseteq Addrs DEF Mappings
  <2>2. IsFiniteSet(N) /\ Cardinality(N) = Cardinality(A)
    <3> DEFINE f == [b \in A |-> <<n, b>>]
    <3>1. f \in Bijection(A, N)
      BY DEF Bijection, Injection, IsInjective, Surjection
    <3> HIDE DEF f, A, N
    <3>2. ExistsBijection(A, N)
      BY <3>1 DEF ExistsBijection
    <3> QED
      BY <2>1, <3>2, FS_Bijection
  <2>3. IsFiniteSet(H)
    BY DEF ChildlessIsHeld
  <2>4. H \cap N = {}
    <3>1. \A b \in Addrs : ~ IsHolder(x, n, b)
      BY <1>1, <1>2 DEF IsHolder, Clean
    <3> QED
      BY <3>1, HoldersMembers
  <2>5. Holders(x)' = H \cup N
    <3>1. \A l \in VMs, b \in Addrs : IsHolder(x, l, b)' <=>
              IsHolder(x, l, b) \/ (l = n /\ b \in A)
      <4> TAKE l \in VMs, b \in Addrs
      <4>1. CASE l = n
        BY <1>1, <1>2, <4>1 DEF IsHolder, Clean, IInv, TypeOK
      <4>2. CASE l # n
        BY <1>1, <4>2 DEF IsHolder, IInv, TypeOK
      <4> QED
        BY <4>1, <4>2
    <3>2. \A l \in VMs, b \in Addrs : <<l, b>> \in N <=> l = n /\ b \in A
      OBVIOUS
    <3>3. N \in SUBSET (VMs \X Addrs)
      OBVIOUS
    <3> HIDE DEF N, A
    <3>4. \A l \in VMs, b \in Addrs : <<l, b>> \in Holders(x)' <=> <<l, b>> \in H \cup N
      BY <3>1, <3>2, HoldersMembers, NextHoldersMembers
    <3>5. H \cup N \in SUBSET (VMs \X Addrs) /\ Holders(x)' \in SUBSET (VMs \X Addrs)
      BY <3>3, HoldersMembers, NextHoldersMembers
    <3> HIDE DEF H
    <3> QED
      BY <3>4, <3>5
  <2> HIDE DEF A, N, H
  <2>6. /\ IsFiniteSet(H \cup N)
        /\ Cardinality(H \cup N) = Cardinality(H) + Cardinality(N) - Cardinality(H \cap N)
    BY <2>2, <2>3, FS_Union
  <2>7. Cardinality(H \cap N) = 0
    BY <2>4, FS_EmptySet
  <2>8. /\ Cardinality(H) \in Nat /\ Mappings(m, x) \in Nat /\ references[x] \in Nat
    BY <2>3, FS_CardinalityType, MappingsType DEF IInv, TypeOK
  <2>9. Cardinality(H \cup N) = Cardinality(H) + Mappings(m, x)
    BY <2>1, <2>2, <2>6, <2>7, <2>8
  <2>10. (\A r \in Pages : parent[r] # x) => references[x] <= Cardinality(H)
    BY DEF ChildlessIsHeld, H
  <2>11. references'[x] = references[x] + Mappings(m, x)
    BY <1>1
  <2> QED
    BY <2>5, <2>6, <2>8, <2>9, <2>10, <2>11
<1> QED
  BY <1>1, <1>3 DEF ChildlessIsHeld, UnusedIsParentless, Unused

LEMMA DestroyBeginHeld ==
    ASSUME HeldIInv, TypeOK', NEW m \in VMs, DestroyBegin(m)
    PROVE  ChildlessIsHeld' /\ UnusedIsParentless'
<1>1. /\ vm[m] = "alive" /\ vm' = [vm EXCEPT ![m] = "dying"]
      /\ owed' = [owed EXCEPT ![m] = [c \in Addrs |-> DestroyCalls(m, c)]]
      /\ UNCHANGED <<pages, references, parent, status>>
  BY DEF DestroyBegin, Alive, memoryVars, pageVars
<1>2. TypeOK
  BY DEF HeldIInv, WalkIInv, CountIInv, IInv
<1>3. ASSUME NEW x \in Pages, NEW n \in VMs, NEW b \in Addrs
      PROVE  IsHolder(x, n, b)' <=> IsHolder(x, n, b)
  <2>1. CASE n = m
    <3>1. x # NULL
      BY CowMemoryAssumption
    <3>2. pages[m][b] = x => DestroyCalls(m, b) > 0
      BY <1>2, <3>1 DEF DestroyCalls, TypeOK
    <3>3. owed'[m][b] = DestroyCalls(m, b) /\ pages'[m][b] = pages[m][b]
      BY <1>1, <1>2 DEF TypeOK
    <3> QED
      BY <1>1, <2>1, <3>2, <3>3 DEF IsHolder
  <2>2. CASE n # m
    BY <1>1, <1>2, <2>2 DEF IsHolder, TypeOK
  <2> QED
    BY <2>1, <2>2
<1> QED
  BY <1>1, <1>3, SameHeld DEF HeldIInv

LEMMA DestroyEndHeld ==
    ASSUME HeldIInv, TypeOK', NEW m \in VMs, DestroyEnd(m)
    PROVE  ChildlessIsHeld' /\ UnusedIsParentless'
<1>1. /\ vm[m] = "dying" /\ vm' = [vm EXCEPT ![m] = "gone"]
      /\ UNCHANGED <<pages, owed, references, parent, status>>
  BY DEF DestroyEnd, memoryVars, pageVars
<1>2. \A x \in Pages, n \in VMs, b \in Addrs : IsHolder(x, n, b)' <=> IsHolder(x, n, b)
  BY <1>1 DEF IsHolder, HeldIInv, WalkIInv, CountIInv, IInv, TypeOK
<1> QED
  BY <1>1, <1>2, SameHeld DEF HeldIInv

LEMMA DestroyPageHeld ==
    ASSUME HeldIInv, TypeOK', NEW m \in VMs, NEW a \in Addrs, DestroyPage(m, a)
    PROVE  ChildlessIsHeld' /\ UnusedIsParentless'
<1> USE DEF HeldIInv, WalkIInv, CountIInv
<1>0. PICK p \in Pages : p = pages[m][a]
  BY DEF DestroyPage, Allocated
<1>1. p \in Allocated /\ vm[m] = "dying" /\ owed[m][a] > 0
  BY <1>0 DEF DestroyPage
<1>2. /\ references' = [references EXCEPT ![p] = @ - 1]
      /\ pages' = [pages EXCEPT ![m][a] = parent[p]]
      /\ owed' = [owed EXCEPT ![m][a] = @ - 1]
      /\ vm' = vm /\ parent' = parent
  BY <1>0 DEF DestroyPage
<1>3. ASSUME NEW x \in Pages
      PROVE  /\ IsFiniteSet(Holders(x)')
             /\ (\A r \in Pages : parent[r] # x) => references'[x] <= Cardinality(Holders(x)')
  <2> DEFINE H == Holders(x)
  <2>1. \A n \in VMs, b \in Addrs : <<n, b>> # <<m, a>> =>
            (IsHolder(x, n, b)' <=> IsHolder(x, n, b))
    BY <1>2 DEF IsHolder, IInv, TypeOK
  <2>2. Holders(x)' \subseteq H \cup {<<m, a>>} /\ H \ {<<m, a>>} \subseteq Holders(x)'
    <3>1. \A h \in VMs \X Addrs : h # <<m, a>> => (h \in Holders(x)' <=> h \in H)
      BY <2>1, HoldersMembers, NextHoldersMembers
    <3> HIDE DEF H
    <3>2. H \in SUBSET (VMs \X Addrs) /\ Holders(x)' \in SUBSET (VMs \X Addrs)
      BY HoldersMembers, NextHoldersMembers DEF H
    <3> QED
      BY <3>1, <3>2
  <2>3. IsFiniteSet(H)
    BY DEF ChildlessIsHeld
  <2> HIDE DEF H
  <2>4. IsFiniteSet(Holders(x)')
    BY <2>2, <2>3, FS_AddElement, FS_Subset
  <2>5. /\ IsFiniteSet(H \ {<<m, a>>})
        /\ Cardinality(H \ {<<m, a>>}) =
              IF <<m, a>> \in H THEN Cardinality(H) - 1 ELSE Cardinality(H)
    BY <2>3, FS_RemoveElement
  <2>6. Cardinality(H \ {<<m, a>>}) <= Cardinality(Holders(x)')
    BY <2>2, <2>4, FS_Subset
  <2>7. /\ Cardinality(H) \in Nat /\ Cardinality(Holders(x)') \in Nat /\ references[x] \in Nat
    BY <2>3, <2>4, FS_CardinalityType DEF IInv, TypeOK
  <2>8. ASSUME \A r \in Pages : parent[r] # x
        PROVE  references'[x] <= Cardinality(Holders(x)')
    <3>1. references[x] <= Cardinality(H)
      BY <2>8 DEF ChildlessIsHeld, H
    <3>2. CASE x = p
      <4>1. references'[x] = references[x] - 1
        BY <1>2, <3>2 DEF IInv, TypeOK
      <4> QED
        BY <2>5, <2>6, <2>7, <3>1, <4>1
    <3>3. CASE x # p
      <4>1. references'[x] = references[x]
        BY <1>2, <3>3 DEF IInv, TypeOK
      <4>2. <<m, a>> \notin H
        BY <1>0, <3>3, HoldersMembers DEF H, IsHolder
      <4> QED
        BY <2>5, <2>6, <2>7, <3>1, <4>1, <4>2
    <3> QED
      BY <3>2, <3>3
  <2> QED
    BY <2>4, <2>8
<1>4. UnusedIsParentless'
  BY <1>0, <1>1, <1>2 DEF DestroyPage, UnusedIsParentless, Unused, IInv, TypeOK
<1> QED
  BY <1>2, <1>3, <1>4 DEF ChildlessIsHeld

LEMMA NextHeldIInv == HeldIInv /\ [GuestNext]_vars => HeldIInv'
<1> SUFFICES ASSUME HeldIInv, [GuestNext]_vars PROVE HeldIInv'
  OBVIOUS
<1>1. WalkIInv'
  BY NextWalkIInv DEF HeldIInv
<1>2. TypeOK'
  BY <1>1 DEF WalkIInv, CountIInv, IInv
<1>3. ASSUME UNCHANGED <<vm, pages, owed, references, parent, status>>
      PROVE  ChildlessIsHeld' /\ UnusedIsParentless'
  BY <1>3, SameHeld DEF IsHolder, HeldIInv
<1>4. CASE UNCHANGED vars
  BY <1>1, <1>3, <1>4 DEF vars, memoryVars, pageVars, HeldIInv
<1>5. ASSUME NEW m \in VMs, NEW a \in Addrs, MapPage(m, a)
      PROVE  HeldIInv'
  BY <1>1, <1>2, <1>5, MapPageHeld DEF HeldIInv
<1>6. ASSUME NEW m \in VMs, NEW a \in Addrs, NEW o \in Offsets, NEW v \in Bytes,
             StoreConcrete(m, a, o, v)
      PROVE  HeldIInv'
  <2>1. m \in Alive /\ a \in Mapped(m) /\ UNCHANGED <<vm, symbolic_memory, owed>>
    BY <1>6 DEF StoreConcrete
  <2>2. CASE StoreInPlace(m, a, o, v)
    BY <1>1, <1>3, <2>1, <2>2 DEF StoreInPlace, HeldIInv
  <2>3. CASE StoreInChild(m, a, o, v)
    BY <1>1, <1>2, <2>1, <2>3, StoreInChildHeld DEF HeldIInv
  <2> QED
    BY <1>6, <2>2, <2>3 DEF StoreConcrete
<1>7. ASSUME NEW m \in VMs, NEW a \in Addrs, NEW o \in Offsets, NEW w \in Wilds,
             StoreWild(m, a, o, w)
      PROVE  HeldIInv'
  BY <1>1, <1>3, <1>7 DEF StoreWild, pageVars, HeldIInv
<1>8. ASSUME NEW m \in VMs, NEW n \in VMs, Copy(m, n)
      PROVE  HeldIInv'
  BY <1>1, <1>2, <1>8, CopyHeld DEF HeldIInv
<1>9. ASSUME NEW m \in VMs, DestroyBegin(m)
      PROVE  HeldIInv'
  BY <1>1, <1>2, <1>9, DestroyBeginHeld DEF HeldIInv
<1>10. ASSUME NEW m \in VMs, DestroyEnd(m)
       PROVE  HeldIInv'
  BY <1>1, <1>2, <1>10, DestroyEndHeld DEF HeldIInv
<1>11. ASSUME NEW m \in VMs, NEW a \in Addrs, DestroyPage(m, a)
       PROVE  HeldIInv'
  BY <1>1, <1>2, <1>11, DestroyPageHeld DEF HeldIInv
<1> QED
  BY <1>4, <1>5, <1>6, <1>7, <1>8, <1>9, <1>10, <1>11 DEF GuestNext, ConcreteNext, Destroy

LEMMA InitHeldIInv == Init => HeldIInv
<1> SUFFICES ASSUME Init PROVE HeldIInv
  OBVIOUS
<1>1. WalkIInv
  BY InitWalkIInv
<1>2. ASSUME NEW x \in Pages
      PROVE  IsFiniteSet(Holders(x)) /\ references[x] <= Cardinality(Holders(x))
  <2>1. Holders(x) = {}
    BY CowMemoryAssumption DEF Init, Holders
  <2>2. IsFiniteSet(Holders(x)) /\ Cardinality(Holders(x)) = 0
    BY <2>1, FS_EmptySet
  <2> QED
    BY <2>2 DEF Init
<1>3. UnusedIsParentless
  BY DEF Init, UnusedIsParentless, Unused
<1> QED
  BY <1>1, <1>2, <1>3 DEF HeldIInv, ChildlessIsHeld

(* The pages that are left once every memory has been destroyed are ones a *)
(* child was made of: a page without a child is given back in full         *)
(* (memory.cc:29-50, page.cc:64-70).                                       *)
THEOREM ChildlessPagesAreFreed == GuestSpec => []OnlyParentsAreLeft
<1>1. Init => HeldIInv
  BY InitHeldIInv
<1>2. HeldIInv /\ [GuestNext]_vars => HeldIInv'
  BY NextHeldIInv
<1>3. HeldIInv => OnlyParentsAreLeft
  <2> SUFFICES ASSUME HeldIInv, \A m \in VMs : vm[m] \in {"none", "gone"},
                      NEW p \in Allocated, \A q \in Pages : parent[q] # p
               PROVE  FALSE
    BY DEF OnlyParentsAreLeft
  <2> USE DEF HeldIInv, WalkIInv, CountIInv
  <2>1. p \in Pages /\ references[p] > 0 /\ references[p] \in Nat
    BY DEF Allocated, AllocatedIsReferenced, IInv, TypeOK
  <2>2. \A m \in VMs, a \in Addrs : ~ IsHolder(p, m, a)
    BY DEF IsHolder, OwedWhileDying, Clean
  <2>3. \A h \in VMs \X Addrs : h \notin Holders(p)
    BY <2>2, HoldersMembers
  <2>4. Holders(p) = {}
    BY <2>3, HoldersMembers
  <2>5. references[p] <= 0
    BY <2>1, <2>4, FS_EmptySet DEF ChildlessIsHeld
  <2> QED
    BY <2>1, <2>5
<1> QED
  BY <1>1, <1>2, <1>3, PTL DEF GuestSpec
=============================================================================
