----------------------------- MODULE CowMemory ------------------------------
(***************************************************************************)
(* The copy-on-write guest memory (memory.cc) over reference-counted pages *)
(* (page.cc).  Several Memory objects, one for each virtual machine, map   *)
(* addresses to Page objects that they may share.  Memory::copy shares     *)
(* every page; the first write through a mapping after a copy replaces the *)
(* page by a private child of it (Memory::dirty_page, Page::make_child);   *)
(* Memory::destroy gives the references back, walking from a page to its   *)
(* parents as often as the address was dirtied.                            *)
(*                                                                         *)
(* One action is one call, except Memory::destroy: there one step is one   *)
(* Page::destroy.  Page identifiers are not reused after a delete, so that *)
(* a use of a deleted page can be seen.                                    *)
(***************************************************************************)
EXTENDS Integers, FiniteSets

CONSTANTS
    VMs,        \* the machines, each owning one Memory
    Root,       \* the machine the engine starts with
    Addrs,      \* page addresses, the keys of Memory::pages
    Offsets,    \* offsets in a page
    Bytes,      \* concrete bytes
    Zero,       \* the byte a new page is filled with
    Wilds,      \* wild (symbolic) 8-bit values
    NoSym,      \* "no entry in symbolic_memory"
    Pages,      \* the Page objects that may be allocated
    NULL,       \* the null Page pointer
    Unmapped,   \* (refinement) the content of an address without a page
    NoMemory    \* (refinement) the store of a machine that is not alive

ASSUME CowMemoryAssumption ==
    /\ Root \in VMs
    /\ Addrs \subseteq Nat /\ IsFiniteSet(Addrs)
    /\ Zero \in Bytes
    /\ NoSym \notin Wilds
    /\ NULL \notin Pages
    /\ Unmapped \notin [Offsets -> Bytes]
    /\ NoMemory \notin [Addrs -> [Offsets -> Bytes] \cup {Unmapped}]

VARIABLES
    vm,              \* life of a machine: "none", "alive", "dying", "gone"
    pages,           \* Memory::pages; NULL: no page at the address
    dirty,           \* Memory::dirty
    dirty_counter,   \* Memory::dirty_counter
    symbolic_memory, \* Memory::symbolic_memory
    owed,            \* the Page::destroy calls a running Memory::destroy still makes
    status,          \* a Page object: "unused", "allocated", "deleted"
    references,      \* Page::references
    parent,          \* Page::parent
    data             \* Page::data

memoryVars == <<pages, dirty, dirty_counter, symbolic_memory>>
pageVars   == <<status, references, parent, data>>
vars       == <<vm, memoryVars, owed, pageVars>>

PageOrNull == Pages \cup {NULL}
Clean      == [a \in Addrs |-> 0]
NoOverlay  == [a \in Addrs |-> [o \in Offsets |-> NoSym]]
ZeroPage   == [o \in Offsets |-> Zero]

Unused     == {p \in Pages : status[p] = "unused"}
Allocated  == {p \in Pages : status[p] = "allocated"}
Alive      == {m \in VMs : vm[m] = "alive"}
Mapped(m)  == {a \in Addrs : pages[m][a] # NULL}

(* No Memory::destroy is under way: the program has one thread.            *)
Idle == \A m \in VMs : vm[m] # "dying"

Init ==
    /\ vm = [m \in VMs |-> IF m = Root THEN "alive" ELSE "none"]
    /\ pages = [m \in VMs |-> [a \in Addrs |-> NULL]]
    /\ dirty = [m \in VMs |-> {}]
    /\ dirty_counter = [m \in VMs |-> Clean]
    /\ symbolic_memory = [m \in VMs |-> NoOverlay]
    /\ owed = [m \in VMs |-> Clean]
    /\ status = [p \in Pages |-> "unused"]
    /\ references = [p \in Pages |-> 0]
    /\ parent = [p \in Pages |-> NULL]
    /\ data = [p \in Pages |-> ZeroPage]

-----------------------------------------------------------------------------
(* Page: construction, and construction of a copy                          *)

(* new Page(size): one reference, no parent, all zero.                     *)
NewPage(p) ==
    /\ p \in Unused
    /\ status' = [status EXCEPT ![p] = "allocated"]
    /\ references' = [references EXCEPT ![p] = 1]
    /\ parent' = [parent EXCEPT ![p] = NULL]
    /\ data' = [data EXCEPT ![p] = ZeroPage]

(* p->make_child() returning q, on which byte o is then set to v.          *)
MakeChild(p, q, o, v) ==
    /\ q \in Unused
    /\ status' = [status EXCEPT ![q] = "allocated"]
    /\ references' = [references EXCEPT ![q] = 1, ![p] = @ + 1]
    /\ parent' = [parent EXCEPT ![q] = p]
    /\ data' = [data EXCEPT ![q] = [data[p] EXCEPT ![o] = v]]

-----------------------------------------------------------------------------
(* Memory: one action per method                                           *)

(* s_page at an address that has no page, what the loaders and the first   *)
(* mmap of an address do.                                                  *)
MapPage(m, a) ==
    /\ Idle /\ m \in Alive
    /\ pages[m][a] = NULL
    /\ \E p \in Pages : NewPage(p) /\ pages' = [pages EXCEPT ![m][a] = p]
    /\ UNCHANGED <<vm, dirty, dirty_counter, symbolic_memory, owed>>

(* s_page over an existing mapping: the old page is forgotten, not given   *)
(* back, and dirty and dirty_counter keep what they say of the address.    *)
RemapPage(m, a) ==
    /\ Idle /\ m \in Alive
    /\ pages[m][a] # NULL
    /\ \E p \in Pages : NewPage(p) /\ pages' = [pages EXCEPT ![m][a] = p]
    /\ UNCHANGED <<vm, dirty, dirty_counter, symbolic_memory, owed>>

(* Mutant: s_byte that forgets to ask whether the address is dirty.        *)
StoreInShared(m, a, o, v) ==
    /\ data' = [data EXCEPT ![pages[m][a]][o] = v]
    /\ UNCHANGED <<pages, dirty, dirty_counter, status, references, parent>>

(* s_byte on an address already dirtied since the last copy.               *)
StoreInPlace(m, a, o, v) ==
    /\ a \in dirty[m]
    /\ data' = [data EXCEPT ![pages[m][a]][o] = v]
    /\ UNCHANGED <<pages, dirty, dirty_counter, status, references, parent>>

(* s_byte on a clean address: dirty_page makes the private child first.    *)
StoreInChild(m, a, o, v) ==
    /\ a \notin dirty[m]
    /\ dirty_counter' = [dirty_counter EXCEPT ![m][a] = @ + 1]
    /\ dirty' = [dirty EXCEPT ![m] = @ \cup {a}]
    /\ \E q \in Pages : /\ MakeChild(pages[m][a], q, o, v)
                        /\ pages' = [pages EXCEPT ![m][a] = q]

(* s_sym8 with a concrete value: s_byte, which throws on an unmapped       *)
(* address.  symbolic_memory is not touched.                               *)
StoreConcrete(m, a, o, v) ==
    /\ Idle /\ m \in Alive
    /\ a \in Mapped(m)
    /\ StoreInPlace(m, a, o, v) \/ StoreInChild(m, a, o, v)
    /\ UNCHANGED <<vm, symbolic_memory, owed>>

(* s_sym8 with a wild value: only the overlay is written, whatever is      *)
(* mapped at the address.                                                  *)
StoreWild(m, a, o, w) ==
    /\ Idle /\ m \in Alive
    /\ symbolic_memory' = [symbolic_memory EXCEPT ![m][a][o] = w]
    /\ UNCHANGED <<vm, pages, dirty, dirty_counter, owed, pageVars>>

(* s_data, the raw copy of a buffer sys_fstat uses: it writes the page     *)
(* that is mapped without asking dirty_page for a private one.             *)
StoreRaw(m, a, o, v) ==
    /\ Idle /\ m \in Alive
    /\ a \in Mapped(m)
    /\ data' = [data EXCEPT ![pages[m][a]][o] = v]
    /\ UNCHANGED <<vm, memoryVars, owed, status, references, parent>>

(* How many mappings of m a copy adds to the references of p.              *)
Mappings(m, p) == Cardinality({a \in Addrs : pages[m][a] = p})

(* Mutant: copy that does not clear the parent's dirty set.                *)
CopyKeepsDirty(m, n) ==
    /\ Idle /\ m \in Alive
    /\ vm[n] = "none"
    /\ vm' = [vm EXCEPT ![n] = "alive"]
    /\ references' = [p \in Pages |-> references[p] + Mappings(m, p)]
    /\ pages' = [pages EXCEPT ![n] = pages[m]]
    /\ UNCHANGED <<dirty, dirty_counter, symbolic_memory, owed, status, parent, data>>

(* Mutant: copy that does not reference the pages it shares.               *)
CopyUncounted(m, n) ==
    /\ Idle /\ m \in Alive
    /\ vm[n] = "none"
    /\ vm' = [vm EXCEPT ![n] = "alive"]
    /\ dirty' = [dirty EXCEPT ![m] = {}]
    /\ pages' = [pages EXCEPT ![n] = pages[m]]
    /\ UNCHANGED <<dirty_counter, symbolic_memory, owed, pageVars>>

(* Mutant: copy that references every page twice.                          *)
CopyCountedTwice(m, n) ==
    /\ Idle /\ m \in Alive
    /\ vm[n] = "none"
    /\ vm' = [vm EXCEPT ![n] = "alive"]
    /\ dirty' = [dirty EXCEPT ![m] = {}]
    /\ references' = [p \in Pages |-> references[p] + 2 * Mappings(m, p)]
    /\ pages' = [pages EXCEPT ![n] = pages[m]]
    /\ UNCHANGED <<dirty_counter, symbolic_memory, owed, status, parent, data>>

(* copy: n starts with the same page pointers and with empty dirty,        *)
(* dirty_counter and symbolic_memory; the parent's dirty set is cleared.   *)
Copy(m, n) ==
    /\ Idle /\ m \in Alive
    /\ vm[n] = "none"
    /\ vm' = [vm EXCEPT ![n] = "alive"]
    /\ dirty' = [dirty EXCEPT ![m] = {}]
    /\ references' = [p \in Pages |-> references[p] + Mappings(m, p)]
    /\ pages' = [pages EXCEPT ![n] = pages[m]]
    /\ UNCHANGED <<dirty_counter, symbolic_memory, owed, status, parent, data>>

(* Mutant: the dirty loop of destroy runs once too often (<= for <).       *)
DestroyCallsOneMore(m, a) ==
    IF pages[m][a] = NULL THEN 0
    ELSE IF a \in dirty[m] THEN dirty_counter[m][a] + 2 ELSE 1

(* What destroy owes an address: one Page::destroy, and, if the address is *)
(* dirty, one more for each count of its dirty_counter.                    *)
DestroyCalls(m, a) ==
    IF pages[m][a] = NULL THEN 0
    ELSE IF a \in dirty[m] THEN dirty_counter[m][a] + 1 ELSE 1

DestroyBegin(m) ==
    /\ Idle /\ m \in Alive
    /\ vm' = [vm EXCEPT ![m] = "dying"]
    /\ owed' = [owed EXCEPT ![m] = [a \in Addrs |-> DestroyCalls(m, a)]]
    /\ UNCHANGED <<memoryVars, pageVars>>

(* Mutant: a destroy loop that does not stop when nothing is owed.         *)
DestroyPageUnguarded(m, a) ==
    /\ vm[m] = "dying"
    /\ \A b \in Addrs : owed[m][b] > 0 => a <= b
    /\ LET p == pages[m][a] IN
        /\ p \in Allocated
        /\ references' = [references EXCEPT ![p] = @ - 1]
        /\ status' = IF references'[p] = 0
                     THEN [status EXCEPT ![p] = "deleted"] ELSE status
        /\ pages' = [pages EXCEPT ![m][a] = parent[p]]
    /\ owed' = [owed EXCEPT ![m][a] = @ - 1]
    /\ UNCHANGED <<vm, dirty, dirty_counter, symbolic_memory, parent, data>>

(* pages[a] = pages[a]->destroy(), at the lowest address still owed.  On a *)
(* null or a deleted page the program has no next state.                   *)
DestroyPage(m, a) ==
    /\ vm[m] = "dying"
    /\ owed[m][a] > 0
    /\ \A b \in Addrs : owed[m][b] > 0 => a <= b
    /\ LET p == pages[m][a] IN
        /\ p \in Allocated
        /\ references' = [references EXCEPT ![p] = @ - 1]
        /\ status' = IF references'[p] = 0
                     THEN [status EXCEPT ![p] = "deleted"] ELSE status
        /\ pages' = [pages EXCEPT ![m][a] = parent[p]]
    /\ owed' = [owed EXCEPT ![m][a] = @ - 1]
    /\ UNCHANGED <<vm, dirty, dirty_counter, symbolic_memory, parent, data>>

DestroyEnd(m) ==
    /\ vm[m] = "dying"
    /\ owed[m] = Clean
    /\ vm' = [vm EXCEPT ![m] = "gone"]
    /\ UNCHANGED <<memoryVars, owed, pageVars>>

Destroy(m) == DestroyEnd(m) \/ \E a \in Addrs : DestroyPage(m, a)

-----------------------------------------------------------------------------
(* Concrete stores only, each address mapped at most once.                 *)
ConcreteNext ==
    \E m \in VMs :
        \/ \E a \in Addrs : MapPage(m, a)
        \/ \E a \in Addrs, o \in Offsets, v \in Bytes : StoreConcrete(m, a, o, v)
        \/ \E n \in VMs : Copy(m, n)
        \/ DestroyBegin(m)
        \/ Destroy(m)

(* With wild stores as well: what the guest's loads, stores and forks do.  *)
GuestNext ==
    \/ ConcreteNext
    \/ \E m \in VMs, a \in Addrs, o \in Offsets, w \in Wilds : StoreWild(m, a, o, w)

(* Everything the emulated kernel may do on top of it.                     *)
Next ==
    \/ GuestNext
    \/ \E m \in VMs, a \in Addrs, o \in Offsets, v \in Bytes : StoreRaw(m, a, o, v)
    \/ \E m \in VMs, a \in Addrs : RemapPage(m, a)

(* A Memory::destroy that has begun is a loop that runs to its end.        *)
Fairness == \A m \in VMs : WF_vars(Destroy(m))

ConcreteSpec == Init /\ [][ConcreteNext]_vars
GuestSpec    == Init /\ [][GuestNext]_vars
FairGuestSpec == GuestSpec /\ Fairness
Spec         == Init /\ [][Next]_vars
FairSpec     == Spec /\ Fairness

-----------------------------------------------------------------------------
(* Reads                                                                   *)

(* g_byte: the byte of the page that is mapped.                            *)
g_byte(m, a, o) == data[pages[m][a]][o]

(* g_sym8: the overlay wins over the byte.                                 *)
g_sym8(m, a, o) ==
    IF symbolic_memory[m][a][o] # NoSym THEN symbolic_memory[m][a][o]
    ELSE g_byte(m, a, o)

-----------------------------------------------------------------------------
(* Invariants                                                              *)

TypeOK ==
    /\ vm \in [VMs -> {"none", "alive", "dying", "gone"}]
    /\ pages \in [VMs -> [Addrs -> PageOrNull]]
    /\ dirty \in [VMs -> SUBSET Addrs]
    /\ dirty_counter \in [VMs -> [Addrs -> Nat]]
    /\ symbolic_memory \in [VMs -> [Addrs -> [Offsets -> Wilds \cup {NoSym}]]]
    /\ owed \in [VMs -> [Addrs -> Nat]]
    /\ status \in [Pages -> {"unused", "allocated", "deleted"}]
    /\ references \in [Pages -> Nat]
    /\ parent \in [Pages -> PageOrNull]
    /\ data \in [Pages -> [Offsets -> Bytes]]

(* Reference counting (page.cc:48): a page is not deleted while a living   *)
(* memory maps it.                                                         *)
MappedIsAllocated ==
    \A m \in Alive, a \in Addrs :
        pages[m][a] # NULL => pages[m][a] \in Allocated

(* The release walk (memory.cc:38): the page a running destroy is about to *)
(* release is there: neither null nor already deleted.                     *)
ReleasedIsAllocated ==
    \A m \in VMs, a \in Addrs : owed[m][a] > 0 => pages[m][a] \in Allocated

(* Both: no page is used after it was deleted.                             *)
NoUseAfterFree == MappedIsAllocated /\ ReleasedIsAllocated

(* Copy-on-write (memory.cc:81): a page that a memory may write in place,  *)
(* because the address is dirty, is mapped nowhere else.                   *)
DirtyIsPrivate ==
    \A m, n \in VMs : \A a, b \in Addrs :
        /\ vm[m] = "alive" /\ vm[n] = "alive"
        /\ a \in dirty[m] /\ pages[m][a] # NULL
        /\ pages[n][b] = pages[m][a]
        => m = n /\ a = b

(* The inductive strengthening the proofs use: TypeOK, DirtyIsPrivate and  *)
(* what keeps a page that is about to be allocated out of every memory.    *)
FreshIsUnknown ==
    \A p \in Unused :
        /\ \A m \in VMs, a \in Addrs : pages[m][a] # p
        /\ \A q \in Pages : parent[q] # p

AllocatedIsReferenced == \A p \in Allocated : references[p] > 0

NoneIsClean ==
    \A m \in VMs : vm[m] = "none" =>
        dirty[m] = {} /\ dirty_counter[m] = Clean /\ symbolic_memory[m] = NoOverlay

IInv == TypeOK /\ DirtyIsPrivate /\ FreshIsUnknown
               /\ AllocatedIsReferenced /\ NoneIsClean

(* The page k Page::destroy calls further up the walk that starts at p,    *)
(* where up is the parent of every page.                                   *)
AncestorIn(up, p, k) ==
    LET walk[i \in 0 .. k] == IF i = 0 THEN p
                               ELSE IF walk[i - 1] = NULL THEN NULL ELSE up[walk[i - 1]]
    IN  walk[k]

Ancestor(p, k) == AncestorIn(parent, p, k)

(* How often m may come to release p at address a, were every dirtying it  *)
(* remembers to be undone: the length of its walk, whether or not a copy   *)
(* has cleared dirty in between.                                           *)
WalkLength(m, a) ==
    IF vm[m] = "alive" /\ pages[m][a] # NULL THEN dirty_counter[m][a] + 1
    ELSE owed[m][a]

(* Reference counting, the reason for NoUseAfterFree: the references of a  *)
(* page cover every release that any memory may still make on it.          *)
Releases(p) ==
    UNION {{<<m, a, k>> : k \in {i \in 0 .. WalkLength(m, a) - 1 : Ancestor(pages[m][a], i) = p}} :
           m \in VMs, a \in Addrs}

ReferencesCoverReleases ==
    \A p \in Allocated : references[p] >= Cardinality(Releases(p))

(* What makes it inductive: no memory can still release a page that is not *)
(* allocated, and a memory owes releases only while its destroy runs.      *)
Counted ==
    \A p \in Pages : /\ IsFiniteSet(Releases(p))
                     /\ Cardinality(Releases(p)) <= references[p]

OnlyAllocatedIsReferenced == \A p \in Pages : references[p] > 0 => p \in Allocated

OwedWhileDying == \A m \in VMs : vm[m] # "dying" => owed[m] = Clean

CountIInv == IInv /\ Counted /\ OnlyAllocatedIsReferenced /\ OwedWhileDying

(* No walk runs into a null page before its end: an address that has never *)
(* been mapped has never been dirtied.  A page mapped over another breaks  *)
(* this, because its parent is not the page that was forgotten.            *)
UnmappedIsUndirtied ==
    \A m \in Alive, a \in Addrs : pages[m][a] = NULL => dirty_counter[m][a] = 0

WalksAreWhole ==
    \A m \in VMs, a \in Addrs : \A k \in Nat :
        k < WalkLength(m, a) => Ancestor(pages[m][a], k) # NULL

WalkIInv == CountIInv /\ UnmappedIsUndirtied /\ WalksAreWhole

(* The mappings that still have a release coming, and the references of a  *)
(* page no child was made of: each of them is one of those.                *)
Holders(p) ==
    {h \in VMs \X Addrs : /\ pages[h[1]][h[2]] = p
                          /\ vm[h[1]] = "alive" \/ owed[h[1]][h[2]] > 0}

ChildlessIsHeld ==
    \A p \in Pages :
        /\ IsFiniteSet(Holders(p))
        /\ (\A q \in Pages : parent[q] # p) => references[p] <= Cardinality(Holders(p))

UnusedIsParentless == \A p \in Unused : parent[p] = NULL

HeldIInv == WalkIInv /\ ChildlessIsHeld /\ UnusedIsParentless

(* destroy (memory.cc:29): once every memory is gone the only pages left   *)
(* are ones a child was made of (those are never given back in full).      *)
OnlyParentsAreLeft ==
    (\A m \in VMs : vm[m] \in {"none", "gone"})
        => \A p \in Allocated : \E q \in Pages : parent[q] = p

-----------------------------------------------------------------------------
(* Action and liveness properties                                          *)

(* A fork (memory.cc:52, vm.cc:302): the copy reads what its parent reads. *)
CopyReadsTheSame ==
    [][\A m, n \in VMs : Copy(m, n) =>
         \A a \in Mapped(m), o \in Offsets :
             g_sym8(n, a, o)' = g_sym8(m, a, o)']_vars

(* A Memory::destroy that begins ends: the walk is never stopped by a null *)
(* or a deleted page.                                                      *)
DestroyEnds == \A m \in VMs : vm[m] = "dying" ~> vm[m] = "gone"

-----------------------------------------------------------------------------
(* Refinement                                                              *)

ByteStore == [m \in VMs |->
    IF vm[m] # "alive" THEN NoMemory
    ELSE [a \in Addrs |-> IF pages[m][a] = NULL THEN Unmapped
                          ELSE data[pages[m][a]]]]

Bytewise == INSTANCE AbstractMemory WITH Values <- Bytes, store <- ByteStore

(* Isolation (memory.cc:52, 81): seen byte by byte, the memories that share *)
(* pages behave as private stores, each fork an exact copy that no other   *)
(* memory's store, copy, mapping or destruction ever changes.              *)
PrivateStores == Bytewise!Spec
=============================================================================
