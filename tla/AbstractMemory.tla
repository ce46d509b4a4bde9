--------------------------- MODULE AbstractMemory ---------------------------
(***************************************************************************)
(* What a guest memory promises to the virtual machine that owns it: every *)
(* machine has a private store, a fork starts from an exact copy of its    *)
(* parent's, and no operation on one store is ever seen through another.   *)
(* Nothing here knows about pages being shared, counted or copied late;    *)
(* CowMemory is shown to implement this module.                            *)
(***************************************************************************)
CONSTANTS
    VMs,        \* the machines that may exist
    Addrs,      \* page addresses
    Offsets,    \* offsets in a page
    Values,     \* what one cell may hold
    Zero,       \* what a cell of a new page holds
    Root,       \* the machine the engine starts with
    Unmapped,   \* the content of an address no page is mapped at
    NoMemory    \* the store of a machine that does not exist

VARIABLE store  \* the store of every machine

Content   == [Offsets -> Values] \cup {Unmapped}
Empty     == [a \in Addrs |-> Unmapped]
ZeroPage  == [o \in Offsets |-> Zero]
Exists(m) == store[m] # NoMemory

Init == store = [m \in VMs |-> IF m = Root THEN Empty ELSE NoMemory]

Map(m, a) ==
    /\ Exists(m)
    /\ store' = [store EXCEPT ![m][a] = ZeroPage]

Write(m, a, o, v) ==
    /\ Exists(m)
    /\ store[m][a] # Unmapped
    /\ store' = [store EXCEPT ![m][a][o] = v]

Fork(m, n) ==
    /\ Exists(m)
    /\ ~Exists(n)
    /\ store' = [store EXCEPT ![n] = store[m]]

Drop(m) ==
    /\ Exists(m)
    /\ store' = [store EXCEPT ![m] = NoMemory]

Next ==
    \/ \E m \in VMs, a \in Addrs : Map(m, a)
    \/ \E m \in VMs, a \in Addrs, o \in Offsets, v \in Values : Write(m, a, o, v)
    \/ \E m, n \in VMs : Fork(m, n)
    \/ \E m \in VMs : Drop(m)

Spec == Init /\ [][Next]_store
=============================================================================
