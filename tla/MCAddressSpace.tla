--------------------------- MODULE MCAddressSpace ---------------------------
(* AddressSpace for TLC: pages that touch, that leave a gap and that       *)
(* exclude each other.                                                     *)
EXTENDS AddressSpace

MCLoaderPages ==
    {[base |-> 0, size |-> 4], [base |-> 1, size |-> 2], [base |-> 4, size |-> 3],
     [base |-> 5, size |-> 2], [base |-> 7, size |-> 2]}

(* For the runs of mmap: the loader's pages are below MmapBase, as they    *)
(* are below 0x77ff000000000000.                                           *)
MCLowPages == {[base |-> 0, size |-> 1]}
=============================================================================
