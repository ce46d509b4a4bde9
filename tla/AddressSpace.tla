---------------------------- MODULE AddressSpace ----------------------------
(***************************************************************************)
(* How an address finds its byte (memory.cc): the ordered map of pages,    *)
(* the lookup every access starts with, accesses of several bytes, and the *)
(* two ways pages come into the map: the loader's and mmap (kernel.cc).    *)
(* One machine, never forked; what forks share is CowMemory.               *)
(*                                                                         *)
(* Sizes are scaled down: PageSize stands for 4096, a word is two bytes, a *)
(* long is four (s_sym32) and a quad too (g_qword).                        *)
(***************************************************************************)
EXTENDS Integers, Sequences, FiniteSetsExt

CONSTANTS
    PageSize,    \* the granularity mmap rounds to
    Space,       \* addresses are numbers modulo Space: 2^64
    Limit,       \* bound: addresses are 0 .. Limit - 1
    LoaderPages, \* pages the loader may map: records [base, size]
    MmapBase,    \* NEXT_MMAP_INIT
    MmapSizes,   \* sizes the guest asks mmap for
    Bytes        \* bytes, 0 among them

ASSUME AddressSpaceAssumption ==
    /\ PageSize \in Nat \ {0} /\ Limit \in Nat /\ MmapBase \in Nat
    /\ Space \in Nat \ {0}
    /\ MmapSizes \subseteq Nat \ {0}
    /\ LoaderPages \subseteq [base : Nat, size : Nat]
    /\ \A p \in LoaderPages : p.base + p.size < Space
    /\ 0 \in Bytes

Addresses == 0 .. Limit - 1
Zeros(n)  == [k \in 1 .. n |-> 0]

VARIABLES
    pages,       \* Memory::pages: the bytes of the page at every base
    next_mmap    \* Kernel::next_mmap

vars == <<pages, next_mmap>>

Init ==
    /\ pages = <<>>
    /\ next_mmap = MmapBase
-----------------------------------------------------------------------------
(* Lookup, in the map p of pages                                           *)

BasesUpTo(p, x) == {b \in DOMAIN p : b <= x}
PageBelow(p, x) == Max(BasesUpTo(p, x))

(* Mutant: the size check does not count the length of the access.         *)
FoundFirstByte(p, x, n) ==
    /\ BasesUpTo(p, x) # {}
    /\ PageBelow(p, x) + Len(p[PageBelow(p, x)]) > x

(* g_page_address finds a page for n bytes at x: the page before           *)
(* upper_bound(x), if it reaches far enough; it throws otherwise.  The end *)
(* of the access may wrap around.                                          *)
Found(p, x, n) ==
    /\ BasesUpTo(p, x) # {}
    /\ PageBelow(p, x) + Len(p[PageBelow(p, x)]) >= (x + n) % Space

(* An access goes on: Page::check_offset looks at the page found again.    *)
Reached(p, x, n) ==
    /\ Found(p, x, n)
    /\ x - PageBelow(p, x) + n <= Len(p[PageBelow(p, x)])

(* g_byte                                                                  *)
g_byte(p, x) == p[PageBelow(p, x)][x - PageBelow(p, x) + 1]

(* g_sym16, g_sym32: byte by byte, each with a lookup of its own.          *)
g_sym(p, x, n) == [k \in 1 .. n |-> g_byte(p, x + k - 1)]
SymReached(p, x, n) == \A k \in 0 .. n - 1 : Reached(p, x + k, 1)

(* Mutant: the byte-by-byte read looks up one page for all the bytes.      *)
g_qwordOnePage(p, x) ==
    [k \in 1 .. 4 |->
        LET q == p[PageBelow(p, x)] IN
        q[((x - PageBelow(p, x) + k - 1) % Len(q)) + 1]]

(* g_qword: one access to one page; if that throws, byte by byte.          *)
g_qword(p, x) ==
    IF Reached(p, x, 4)
    THEN [k \in 1 .. 4 |-> p[PageBelow(p, x)][x - PageBelow(p, x) + k]]
    ELSE g_sym(p, x, 4)
-----------------------------------------------------------------------------
(* What a store makes of the map p of pages                                *)

(* s_byte                                                                  *)
s_byte(p, x, v) == [p EXCEPT ![PageBelow(p, x)][x - PageBelow(p, x) + 1] = v]

(* Mutant: s_word writes its two bytes in the other order.                 *)
s_wordSwapped(p, x, lo, hi) ==
    [p EXCEPT ![PageBelow(p, x)][x - PageBelow(p, x) + 1] = hi,
              ![PageBelow(p, x)][x - PageBelow(p, x) + 2] = lo]

(* s_word, the store of 16 bits: both bytes into the page of the first.    *)
s_word(p, x, lo, hi) ==
    [p EXCEPT ![PageBelow(p, x)][x - PageBelow(p, x) + 1] = lo,
              ![PageBelow(p, x)][x - PageBelow(p, x) + 2] = hi]

(* s_sym32 of a concrete value: four s_byte, the highest first, each to    *)
(* the page of its own address.                                            *)
s_sym32(p, x, v) ==
    s_byte(s_byte(s_byte(s_byte(p, x + 3, v[4]), x + 2, v[3]), x + 1, v[2]), x, v[1])

StoreByte(x, v) ==
    /\ Reached(pages, x, 1)
    /\ pages' = s_byte(pages, x, v)
    /\ UNCHANGED next_mmap

StoreWord(x, lo, hi) ==
    /\ Reached(pages, x, 2)
    /\ pages' = s_word(pages, x, lo, hi)
    /\ UNCHANGED next_mmap

StoreLong(x, v) ==
    /\ SymReached(pages, x, 4)
    /\ pages' = s_sym32(pages, x, v)
    /\ UNCHANGED next_mmap
-----------------------------------------------------------------------------
(* Pages                                                                   *)

(* n bytes at b and the page at c of p have no address in common.          *)
Disjoint(p, b, n) ==
    \A c \in DOMAIN p : b + n <= c \/ c + Len(p[c]) <= b

SetPage(p, b, n) == [c \in DOMAIN p \cup {b} |-> IF c = b THEN Zeros(n) ELSE p[c]]

(* The loader maps its pages so that no two of them overlap.               *)
LoaderPage(b, n) ==
    /\ Disjoint(pages, b, n)
    /\ pages' = SetPage(pages, b, n)
    /\ UNCHANGED next_mmap

(* sys_mmap of n bytes: a new page at next_mmap, which then moves up.      *)
Mmap(n) ==
    /\ next_mmap + n <= Limit
    /\ pages' = SetPage(pages, next_mmap, n)
    /\ next_mmap' = next_mmap + ((n + PageSize - 1) % PageSize)

Store ==
    \/ \E x \in Addresses, v \in Bytes : StoreByte(x, v)
    \/ \E x \in Addresses, lo, hi \in Bytes : StoreWord(x, lo, hi)
    \/ \E x \in Addresses, v \in [1 .. 4 -> Bytes] : StoreLong(x, v)

LoaderNext == Store \/ \E p \in LoaderPages : LoaderPage(p.base, p.size)
Next       == LoaderNext \/ \E n \in MmapSizes : Mmap(n)

LoaderSpec == Init /\ [][LoaderNext]_vars
Spec       == Init /\ [][Next]_vars
-----------------------------------------------------------------------------
(* The lookup (memory.cc:65) is exact: it finds a page for n bytes at x if *)
(* and only if some page holds all of them, unless they run past the last  *)
(* address; and then the page refuses the access (page.cc:79).             *)
LookupIsExact ==
    \A x \in Addresses, n \in 1 .. 4 :
        LET held == \E b \in DOMAIN pages : b <= x /\ x + n <= b + Len(pages[b])
        IN  /\ x + n < Space => (Found(pages, x, n) <=> held)
            /\ Reached(pages, x, n) <=> held

(* A store of 16 bits (memory.cc:225), which goes to one page, is read     *)
(* back by the load of 16 bits (memory.cc:126), which goes byte by byte.   *)
WordReadsBack ==
    \A x \in Addresses, lo, hi \in Bytes :
        Reached(pages, x, 2) => g_sym(s_word(pages, x, lo, hi), x, 2) = <<lo, hi>>

(* A store of 32 bits, split over two pages or not (memory.cc:162), is     *)
(* what g_qword (memory.cc:201) reads there, by either of its two ways.    *)
LongReadsBack ==
    \A x \in Addresses, v \in [1 .. 4 -> Bytes] :
        SymReached(pages, x, 4) => g_qword(s_sym32(pages, x, v), x) = v

(* What the lookup relies on: an ordered map of pages below the last       *)
(* address, no two of which share an address.                              *)
IsMap(p) ==
    /\ p = [b \in DOMAIN p |-> p[b]]
    /\ DOMAIN p \subseteq Nat
    /\ \A b \in DOMAIN p : p[b] \in Seq(Bytes) /\ b + Len(p[b]) < Space
    /\ \A b, c \in DOMAIN p : b < c => b + Len(p[b]) <= c

(* The inductive invariant the proofs use.                                 *)
IInv == IsMap(pages) /\ next_mmap \in Nat

(* mmap (kernel.cc:194) maps at an available address: a page it adds does  *)
(* not overlap a page that is there.                                       *)
MmapIsAvailable ==
    [][\A n \in MmapSizes : Mmap(n) => Disjoint(pages, next_mmap, n)]_vars
=============================================================================
