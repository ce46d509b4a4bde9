----------------------------- MODULE ElfLoader ------------------------------
(***************************************************************************)
(* The ELF loader (elf.cc).  Elf64's constructor loads an executable and,  *)
(* from a work list of DT_NEEDED names, the files it depends on, each at   *)
(* an offset of its own.  g_memory then lays out the segments of every     *)
(* file in pages that do not overlap (fix_pages), patches the relocations  *)
(* of every file, and copies the first .tdata it finds to the TLS page.    *)
(*                                                                         *)
(* A multimap is a sequence sorted by base, equal bases in the order of    *)
(* insertion; an iterator is an index, one beyond the last is end().  One  *)
(* cell of memory stands for a byte and for the eight bytes a relocation   *)
(* writes: no relocation reaches beyond the page it begins in.             *)
(***************************************************************************)
EXTENDS Naturals, Sequences, SequencesExt, FiniteSets, FiniteSetsExt, Functions

CONSTANTS
    Exe,                  \* the executable's name
    DepAddr, DepAdd,      \* ELF64_DEP_ADDR, ELF64_DEP_ADD
    TlsAddr, TlsSize, StackAddr, StackSize

ASSUME ElfLoaderAssumption ==
    /\ {DepAddr, TlsAddr, TlsSize, StackAddr, StackSize} \subseteq Nat
    /\ DepAdd \in Nat \ {0} /\ TlsSize > 0

VARIABLES
    process,   \* "running", "terminated" by an exception, "crashed"
    stage,     \* what the loader is about to do
    program,   \* the files that exist, each with what it holds: needed,
               \* segments, symbols, relocations, tdata
    new_deps,  \* the work list of load_dependencies
    loaded,    \* the dependencies in load order
    file,      \* the file under way: 0 the executable, k the k-th dependency
    pages,     \* the multimap of fix_pages
    it,        \* iterator: in pages, in final_pages, or in the relocations
    fixed,     \* final_pages of the files laid out so far, base to cells
    found      \* history: <<file, name>> to the address a relocation took

elfVars == <<process, stage, program, new_deps, loaded, file, pages, it, fixed, found>>

None     == [x \in {} |-> x]
Running  == process = "running"
File(k)  == IF k = 0 THEN program[Exe] ELSE program[loaded[k]]
Offset(k) == IF k = 0 THEN 0 ELSE DepAddr + k * DepAdd
FilesLoaded == 0 .. Len(loaded)
-----------------------------------------------------------------------------
(* Contents: a byte of a file is known by where it belongs.                *)

Zero        == [kind |-> "zero"]
Byte(k, a)  == [kind |-> "byte", file |-> k, at |-> a]
Word(v)     == [kind |-> "word", value |-> v]
Plus(c, v)  == [kind |-> "plus", cell |-> c, value |-> v]

Page(b, c)  == [base |-> b, data |-> c]
PageEnd(p)  == p.base + Len(p.data)

(* What the file k has at address a of segment s: memory beyond filesz is  *)
(* zero.                                                                   *)
SegmentCell(k, s, a) == IF a < s.vaddr + s.filesz THEN Byte(k, a) ELSE Zero

SegmentPage(k, s) ==
    Page(Offset(k) + s.vaddr,
         [i \in 1 .. s.memsz |-> SegmentCell(k, s, s.vaddr + i - 1)])

(* multimap::insert: behind the pages with the same base.                  *)
Insert(ps, p) ==
    InsertAt(ps, Cardinality({i \in DOMAIN ps : ps[i].base <= p.base}) + 1, p)

(* The multimap the pages of a list make, inserted one after the other.    *)
Multimap(list) ==
    LET Before(i) == {j \in DOMAIN list : \/ list[j].base < list[i].base
                                          \/ list[j].base = list[i].base /\ j < i}
    IN  [n \in 1 .. Cardinality(DOMAIN list) |->
            list[CHOOSE i \in DOMAIN list : Cardinality(Before(i)) = n - 1]]

(* A dependency leaves out its PT_NULL segments, the executable does not.  *)
Taken(k) == {i \in DOMAIN File(k).segments : k = 0 \/ ~ File(k).segments[i].null}

Segments(k) == {File(k).segments[i] : i \in Taken(k)}

OwnPages(k) == [i \in Taken(k) |-> SegmentPage(k, File(k).segments[i])]

(* A map of pages in the order of its iterator.                            *)
InOrder(map) ==
    [n \in 1 .. Cardinality(DOMAIN map) |->
        LET b == CHOOSE b \in DOMAIN map : Cardinality({c \in DOMAIN map : c < b}) = n - 1
        IN  Page(b, map[b])]

StackAndTls == << Page(StackAddr, [i \in 1 .. StackSize |-> Zero]),
                  Page(TlsAddr, [i \in 1 .. TlsSize |-> Zero]) >>

(* g_pages: the executable adds the pages of its dependencies, a stack and *)
(* a page for TLS.                                                         *)
g_pages(k, others) ==
    Multimap(IF k > 0 THEN OwnPages(k) ELSE OwnPages(0) \o InOrder(others) \o StackAndTls)
-----------------------------------------------------------------------------
ElfInit(files) ==
    /\ process = "running" /\ stage = "dependencies"
    /\ program = files
    /\ new_deps = files[Exe].needed
    /\ loaded = <<>>
    /\ file = 0 /\ pages = <<>> /\ it = 1
    /\ fixed = None /\ found = None

(* load_dependencies                                                       *)

AtDependency == Running /\ stage = "dependencies" /\ new_deps # <<>>

(* Mutant: only what the executable itself names is put on the work list.  *)
LoadDirectDependency ==
    /\ AtDependency
    /\ Head(new_deps) \in DOMAIN program \ ToSet(loaded)
    /\ loaded' = Append(loaded, Head(new_deps))
    /\ UNCHANGED <<process, stage, program, new_deps, file, pages, it, fixed, found>>

(* A name not loaded yet: its file is loaded and what it needs goes to the *)
(* end of the list.  The iterator stays, so that the name, now loaded, is  *)
(* the next to be looked at.                                               *)
LoadDependency ==
    /\ AtDependency
    /\ Head(new_deps) \in DOMAIN program \ ToSet(loaded)
    /\ loaded' = Append(loaded, Head(new_deps))
    /\ new_deps' = new_deps \o program[Head(new_deps)].needed
    /\ UNCHANGED <<process, stage, program, file, pages, it, fixed, found>>

(* Mutant: a name is kept on the list when it is loaded already.           *)
KeepLoaded ==
    /\ AtDependency
    /\ Head(new_deps) \in ToSet(loaded)
    /\ new_deps' = Append(Tail(new_deps), Head(new_deps))
    /\ UNCHANGED <<process, stage, program, loaded, file, pages, it, fixed, found>>

DropLoaded ==
    /\ AtDependency
    /\ Head(new_deps) \in ToSet(loaded)
    /\ new_deps' = Tail(new_deps)
    /\ UNCHANGED <<process, stage, program, loaded, file, pages, it, fixed, found>>

(* The constructor of a file that cannot be opened throws.                 *)
MissingDependency ==
    /\ AtDependency
    /\ Head(new_deps) \notin DOMAIN program
    /\ process' = "terminated"
    /\ UNCHANGED <<stage, program, new_deps, loaded, file, pages, it, fixed, found>>

(* The layout of file k begins.                                            *)
Layout(k, others) ==
    /\ file' = k
    /\ pages' = g_pages(k, others)
    /\ it' = 1

DependenciesEnd ==
    /\ Running /\ stage = "dependencies" /\ new_deps = <<>>
    /\ stage' = "walk"
    /\ Layout(IF loaded = <<>> THEN 0 ELSE 1, None)
    /\ UNCHANGED <<process, program, new_deps, loaded, fixed, found>>
-----------------------------------------------------------------------------
(* fix_pages, first loop: no overlapping pages                             *)

AtPage == Running /\ stage = "walk" /\ it < Len(pages)
This     == pages[it]
NextPage  == pages[it + 1]

(* The size of the greatest page at address a other than this one.         *)
Greatest(a) ==
    Max({0} \cup {Len(pages[i].data) : i \in {j \in DOMAIN pages \ {it} : pages[j].base = a}})

(* nnext: from the end of the next page on, over the pages that follow one *)
(* another without a gap.                                                  *)
AfterNext ==
    LET top == Max({PageEnd(pages[i]) : i \in DOMAIN pages})
        after[a \in 0 .. top] ==
            IF Greatest(a) = 0 THEN a ELSE after[a + Greatest(a)]
    IN  after[PageEnd(NextPage)]

(* Mutant: the page is cut where the next begins, what it has behind the   *)
(* next is forgotten.                                                      *)
WithoutOverlapCut ==
    [pages EXCEPT ![it].data = SubSeq(@, 1, NextPage.base - This.base)]

(* Mutant: the page that gives its rest to a page of its own stays whole.  *)
WithoutOverlapUncut ==
    LET cut  == [pages EXCEPT ![it].data = SubSeq(@, 1, NextPage.base - This.base)]
        tail == Page(AfterNext, SubSeq(This.data, AfterNext - This.base + 1, Len(This.data)))
    IN  IF PageEnd(This) > PageEnd(NextPage) /\ PageEnd(This) > AfterNext
        THEN Insert(pages, tail) ELSE cut

(* The page cut where the next begins; what it has behind the next, and    *)
(* behind the pages that follow that one, becomes a page of its own.       *)
WithoutOverlap ==
    LET cut  == [pages EXCEPT ![it].data = SubSeq(@, 1, NextPage.base - This.base)]
        tail == Page(AfterNext, SubSeq(This.data, AfterNext - This.base + 1, Len(This.data)))
    IN  IF PageEnd(This) > PageEnd(NextPage) /\ PageEnd(This) > AfterNext
        THEN Insert(cut, tail) ELSE cut

FixPage ==
    /\ AtPage
    /\ pages' = IF PageEnd(This) > NextPage.base THEN WithoutOverlap ELSE pages
    /\ it' = it + 1
    /\ UNCHANGED <<process, stage, program, new_deps, loaded, file, fixed, found>>

(* final_pages[it->first] = it->second: of several pages at one address    *)
(* the last stays.                                                         *)
FinalPages ==
    [b \in {pages[i].base : i \in DOMAIN pages} |->
        pages[Max({i \in DOMAIN pages : pages[i].base = b})].data]

WalkEnd ==
    /\ Running /\ stage = "walk" /\ it = Len(pages)
    /\ stage' = "erase"
    /\ fixed' = [b \in DOMAIN FinalPages \cup DOMAIN fixed |->
                   IF b \in DOMAIN FinalPages THEN FinalPages[b] ELSE fixed[b]]
    /\ it' = Min(DOMAIN FinalPages)
    /\ UNCHANGED <<process, program, new_deps, loaded, file, pages, found>>
-----------------------------------------------------------------------------
(* fix_pages, second loop: no empty pages.  Here the iterator is the base  *)
(* it designates.                                                          *)

Walked == {pages[i].base : i \in DOMAIN pages} \cap DOMAIN fixed
EndOfFinal == StackAddr + StackSize + 1
AtFinal == Running /\ stage = "erase" /\ it # EndOfFinal
Beyond(b) == {c \in Walked : c > b}

KeepFinal ==
    /\ AtFinal
    /\ Len(fixed[it]) > 0
    /\ it' = IF Beyond(it) = {} THEN EndOfFinal ELSE Min(Beyond(it))
    /\ UNCHANGED <<process, stage, program, new_deps, loaded, file, pages, fixed, found>>

(* An empty page is destroyed and erased through the iterator that is then *)
(* incremented: what the freed node still says of its neighbours decides   *)
(* where the loop goes on, if the program survives it.                     *)
EraseEmpty ==
    /\ AtFinal
    /\ Len(fixed[it]) = 0
    /\ fixed' = Restrict(fixed, DOMAIN fixed \ {it})
    /\ process' \in {"running", "crashed"}
    /\ it' \in {EndOfFinal} \cup (Walked \ {it})
    /\ UNCHANGED <<stage, program, new_deps, loaded, file, pages, found>>

(* The next file is laid out; after the executable, everything is mapped.  *)
EraseEnd ==
    /\ Running /\ stage = "erase" /\ it = EndOfFinal
    /\ IF file = 0
       THEN stage' = "relocate" /\ it' = 1 /\ UNCHANGED <<file, pages>>
       ELSE stage' = "walk" /\ Layout(IF file < Len(loaded) THEN file + 1 ELSE 0, fixed)
    /\ UNCHANGED <<process, program, new_deps, loaded, fixed, found>>
-----------------------------------------------------------------------------
(* Memory as the virtual machine will look it up                           *)

(* The page at the greatest base up to a, if it reaches that far.          *)
LookedUp(a) ==
    {b \in DOMAIN fixed : /\ b <= a /\ a < b + Len(fixed[b])
                          /\ \A c \in DOMAIN fixed : c <= b \/ c > a}
Mapped(a) == LookedUp(a) # {}
Cell(a)   == LET b == CHOOSE b \in LookedUp(a) : TRUE IN fixed[b][a - b + 1]
Put(a, c) == LET b == CHOOSE b \in LookedUp(a) : TRUE
             IN  [fixed EXCEPT ![b][a - b + 1] = c]
-----------------------------------------------------------------------------
(* Symbols and relocations                                                 *)

Address(k, s) == Offset(k) + s.value

Named(symbols, name) == SelectSeq(symbols, LAMBDA s : s.name = name)

find_symbols(k, name) == Named(File(k).symbols, name)

FromFile(d, symbols) == [i \in DOMAIN symbols |-> <<d, symbols[i]>>]

(* find_symbols_deps: the dependencies in load order, never the            *)
(* executable, as <<file, symbol>>.                                        *)
find_symbols_deps(name) ==
    FlattenSeq([d \in DOMAIN loaded |-> FromFile(d, find_symbols(d, name))])

IsLocal(s)      == s.binding = "local"
IsDefinition(s) == s.binding = "global" /\ s.defined

(* Mutant: a symbol of the file itself, of any binding, is taken first.     *)
find_symbol_globOwn(k, name) == Address(k, find_symbols(k, name)[1])

(* Those of a list of <<file, symbol>> that define their symbol.           *)
Definitions(list) == SelectSeq(list, LAMBDA d : IsDefinition(d[2]))

(* find_symbol_glob: a local symbol of the file itself, else the first     *)
(* definition among the dependencies, else the last symbol of that name    *)
(* there, else, through the dangling best_it, the last of the file's own.  *)
find_symbol_glob(k, name) ==
    LET own  == find_symbols(k, name)
        deps == find_symbols_deps(name)
        defs == Definitions(deps)
        Of(d) == Address(d[1], d[2])
    IN  IF SelectSeq(own, IsLocal) # <<>> THEN Address(k, SelectSeq(own, IsLocal)[1])
        ELSE IF defs # <<>> THEN Of(defs[1])
        ELSE IF deps # <<>> THEN Of(Last(deps))
        ELSE Address(k, Last(own))

(* best_it was set in the file's own list, which the empty list of the     *)
(* dependencies' symbols has then replaced.                                *)
Dangles(k, name) ==
    SelectSeq(find_symbols(k, name), IsLocal) = <<>> /\ find_symbols_deps(name) = <<>>

BySymbol == {"GLOB_DAT", "JUMP_SLOT", "R64"}
Later    == {"TPOFF64", "DTPMOD64", "IRELATIVE"}

Relocations   == File(file).relocations
AtRelocation  == Running /\ stage = "relocate" /\ it <= Len(Relocations)
Relocation    == Relocations[it]

(* The word a relocation stores, given the address of its symbol.          *)
Patch(k, r, address) ==
    CASE r.type \in {"GLOB_DAT", "JUMP_SLOT"} -> Word(address)
      [] r.type = "R64"                       -> Word(address + r.addend)
      [] r.type = "RELATIVE"                  -> Word(Offset(k) + r.addend)

(* Mutant: the offset of the file is not added to the place to patch.      *)
PlaceUnmoved(k, r) == r.at

Place(k, r) == Offset(k) + r.at

RelocateSymbol ==
    /\ AtRelocation
    /\ Relocation.type \in BySymbol
    /\ Mapped(Place(file, Relocation))
    /\ LET address == find_symbol_glob(file, Relocation.name)
           key     == <<file, Relocation.name>>
       IN
        /\ fixed' = Put(Place(file, Relocation), Patch(file, Relocation, address))
        /\ found' = [r \in {key} \cup DOMAIN found |-> IF r = key THEN address ELSE found[r]]
    /\ it' = it + 1
    /\ UNCHANGED <<process, stage, program, new_deps, loaded, file, pages>>

RelocateRelative ==
    /\ AtRelocation
    /\ Relocation.type = "RELATIVE"
    /\ Mapped(Place(file, Relocation))
    /\ fixed' = Put(Place(file, Relocation), Patch(file, Relocation, 0))
    /\ it' = it + 1
    /\ UNCHANGED <<process, stage, program, new_deps, loaded, file, pages, found>>

(* Left to the TLS page, or to the guest.                                  *)
RelocateLater ==
    /\ AtRelocation
    /\ Relocation.type \in Later
    /\ it' = it + 1
    /\ UNCHANGED <<process, stage, program, new_deps, loaded, file, pages, fixed, found>>

(* An unknown type, or a place that is not mapped: an exception.           *)
RelocateThrow ==
    /\ AtRelocation
    /\ \/ Relocation.type \notin BySymbol \cup Later \cup {"RELATIVE"}
       \/ Relocation.type \in BySymbol \cup {"RELATIVE"} /\ ~Mapped(Place(file, Relocation))
    /\ process' = "terminated"
    /\ UNCHANGED <<stage, program, new_deps, loaded, file, pages, it, fixed, found>>

(* What the dangling best_it reads has another name, which throws, or is   *)
(* not even a string.                                                      *)
RelocateDangling ==
    /\ AtRelocation
    /\ Relocation.type \in BySymbol
    /\ Dangles(file, Relocation.name)
    /\ process' \in {"terminated", "crashed"}
    /\ UNCHANGED <<stage, program, new_deps, loaded, file, pages, it, fixed, found>>

(* The executable first, then the dependencies in load order.              *)
RelocateEnd ==
    /\ Running /\ stage = "relocate" /\ it = Len(Relocations) + 1
    /\ IF file < Len(loaded) THEN file' = file + 1 /\ it' = 1 /\ UNCHANGED stage
       ELSE stage' = "tls" /\ UNCHANGED <<file, it>>
    /\ UNCHANGED <<process, program, new_deps, loaded, pages, fixed, found>>
-----------------------------------------------------------------------------
(* set_tls_memory: the first file, in load order, that has a .tdata.       *)

HaveTdata == {k \in FilesLoaded : File(k).tdata # <<>>}

(* The image is taken from the file, and then each of the file's TPOFF64   *)
(* relocations adds its offset to the word its addend designates.          *)
TlsImage(k) ==
    LET Tdata(i)  == IF i <= Len(File(k).tdata) THEN Byte(k, File(k).tdata[i]) ELSE Zero
        Tpoffs(i) == {j \in DOMAIN File(k).relocations :
                         /\ File(k).relocations[j].type = "TPOFF64"
                         /\ File(k).relocations[j].addend + 1 = i}
    IN  [i \in 1 .. TlsSize |->
            IF Tpoffs(i) = {} THEN Tdata(i)
            ELSE Plus(Tdata(i), Cardinality(Tpoffs(i)) * Offset(k))]

(* The image, or a word it adds to, is beyond the page: an exception.      *)
BeyondTlsPage(k) ==
    \/ Len(File(k).tdata) > TlsSize
    \/ \E j \in DOMAIN File(k).relocations :
           /\ File(k).relocations[j].type = "TPOFF64"
           /\ File(k).relocations[j].addend >= TlsSize

CopyTls ==
    /\ Running /\ stage = "tls"
    /\ IF HaveTdata = {} THEN UNCHANGED <<fixed, process>>
       ELSE IF BeyondTlsPage(Min(HaveTdata))
       THEN process' = "terminated" /\ UNCHANGED fixed
       ELSE fixed' = [fixed EXCEPT ![TlsAddr] = TlsImage(Min(HaveTdata))] /\ UNCHANGED process
    /\ stage' = "loaded"
    /\ UNCHANGED <<program, new_deps, loaded, file, pages, it, found>>
-----------------------------------------------------------------------------
LoadDependencies == LoadDependency \/ DropLoaded \/ MissingDependency
FixPages         == FixPage \/ WalkEnd \/ KeepFinal \/ EraseEmpty \/ EraseEnd
PatchRelocations == RelocateSymbol \/ RelocateRelative \/ RelocateLater
                    \/ RelocateThrow \/ RelocateDangling \/ RelocateEnd

ElfNext ==
    \/ LoadDependencies
    \/ DependenciesEnd
    \/ FixPages
    \/ PatchRelocations
    \/ CopyTls

-----------------------------------------------------------------------------
(* What the executable needs, directly or not: a reference definition, the *)
(* names that are in every set that has what the executable names and,     *)
(* with a file, what that file names.                                      *)
FileNames(files) == UNION {ToSet(files[f].needed) : f \in DOMAIN files}

ClosedUnderNeeds(S) ==
    /\ ToSet(program[Exe].needed) \subseteq S
    /\ \A f \in S \cap DOMAIN program : ToSet(program[f].needed) \subseteq S

Needed ==
    {f \in FileNames(program) :
        \A S \in SUBSET FileNames(program) : ClosedUnderNeeds(S) => f \in S}

(* load_dependencies (elf.cc:382), whatever cycles there are among the     *)
(* files: each one needed is loaded, and loaded once.                      *)
NeededOnce ==
    stage # "dependencies" => ToSet(loaded) = Needed /\ IsInjective(loaded)

(* The strengthening of NeededOnce the proofs use: what is named is loaded *)
(* or on the work list, and no more than that.                             *)
WorkListIInv ==
    /\ Exe \in DOMAIN program
    /\ \A f \in DOMAIN program : program[f].needed \in Seq(FileNames(program))
    /\ new_deps \in Seq(FileNames(program))
    /\ loaded \in Seq(FileNames(program)) /\ IsInjective(loaded)
    /\ ToSet(loaded) \subseteq DOMAIN program
    /\ ToSet(loaded) \cup ToSet(new_deps) \subseteq Needed
    /\ ToSet(program[Exe].needed) \subseteq ToSet(loaded) \cup ToSet(new_deps)
    /\ \A f \in ToSet(loaded) :
           ToSet(program[f].needed) \subseteq ToSet(loaded) \cup ToSet(new_deps)
    /\ stage # "dependencies" => new_deps = <<>>

LaidOut == stage \in {"relocate", "tls", "loaded"}

(* fix_pages (elf.cc:45): in the end no two pages overlap, however the     *)
(* segments contain, touch and follow each other, so that the lookup,      *)
(* which asks only the page with the greatest base, is unambiguous.        *)
PagesDisjoint ==
    LaidOut => \A b, c \in DOMAIN fixed : b < c => b + Len(fixed[b]) <= c

(* The strengthening the proofs use.  Pages are in the order of their      *)
(* bases, and those behind the iterator of fix_pages end before the next   *)
(* one begins; of the executable's, which are the last, some are where the *)
(* pages laid out before are; and no page begins or ends within the page   *)
(* for TLS, which is written as a whole in the end.                        *)
IsPages(ps) ==
    /\ ps \in Seq(ToSet(ps))
    /\ \A i \in DOMAIN ps : /\ ps[i] = Page(ps[i].base, ps[i].data)
                            /\ ps[i].base \in Nat
                            /\ ps[i].data \in Seq(ToSet(ps[i].data))

Ascending(ps) == \A i, j \in DOMAIN ps : i <= j => ps[i].base <= ps[j].base

IsMemory(map) ==
    /\ map = [b \in DOMAIN map |-> map[b]]
    /\ IsFiniteSet(DOMAIN map)
    /\ \A b \in DOMAIN map : b \in Nat /\ map[b] \in Seq(ToSet(map[b]))

EndsAtNext(ps, i) == i < Len(ps) => PageEnd(ps[i]) <= ps[i + 1].base

NoOverlap(map) == \A b, c \in DOMAIN map : b < c => b + Len(map[b]) <= c

OutsideTls(a) == a <= TlsAddr \/ a >= TlsAddr + TlsSize

LayoutIInv ==
    /\ IsPages(pages) /\ Ascending(pages) /\ IsMemory(fixed)
    /\ it \in Nat /\ file \in FilesLoaded
    /\ stage = "dependencies" => DOMAIN fixed = {} /\ file = 0
    /\ stage \in {"walk", "relocate"} => it > 0
    /\ stage = "walk" => \A i \in 1 .. it - 1 : EndsAtNext(pages, i)
    /\ stage = "walk" /\ file = 0 => DOMAIN fixed \subseteq {pages[i].base : i \in DOMAIN pages}
    /\ LaidOut \/ (stage = "erase" /\ file = 0) => NoOverlap(fixed)
    /\ \A i \in DOMAIN pages : OutsideTls(pages[i].base) /\ OutsideTls(PageEnd(pages[i]))
    /\ \A b \in DOMAIN fixed : OutsideTls(b) /\ OutsideTls(b + Len(fixed[b]))

(* fix_pages loses nothing (elf.cc:54): every address of a segment is      *)
(* found, empty pages in between or not, and holds what one of the         *)
(* segments has at that address.                                           *)
EveryByteIsFound ==
    Running /\ stage = "relocate" /\ file = 0 /\ it = 1 =>
        \A k \in FilesLoaded : \A s \in Segments(k) :
            \A a \in s.vaddr .. s.vaddr + s.memsz - 1 :
                /\ Mapped(Offset(k) + a)
                /\ \E t \in Segments(k) :
                    /\ a \in t.vaddr .. t.vaddr + t.memsz - 1
                    /\ Cell(Offset(k) + a) = SegmentCell(k, t, a)

(* The strengthening the proofs use.  What pages hold comes from a segment *)
(* at its address, or is the zero of the stack and of TLS; the pages at    *)
(* hand cover the file under way, or all files when it is the executable,  *)
(* and those laid out before cover the files before, all at bases below    *)
(* those of the file under way.                                            *)
PagesIn(map) == {Page(b, map[b]) : b \in DOMAIN map}

Within(p, x) == p.base <= x /\ x < PageEnd(p)

InSegment(k, s, x) == Offset(k) + s.vaddr <= x /\ x < Offset(k) + s.vaddr + s.memsz

IsContent(x, c) ==
    \/ \E k \in FilesLoaded : \E s \in Segments(k) :
           InSegment(k, s, x) /\ c = SegmentCell(k, s, x - Offset(k))
    \/ TlsAddr <= x /\ x < StackAddr + StackSize

HasContent(p) == \A n \in 1 .. Len(p.data) : IsContent(p.base + n - 1, p.data[n])

Covers(P, k) ==
    \A s \in Segments(k) : \A x \in Offset(k) + s.vaddr .. Offset(k) + s.vaddr + s.memsz - 1 :
        \E p \in P : Within(p, x)

InRange(k, p) == Offset(k) <= p.base /\ PageEnd(p) < Offset(k) + DepAdd

WalkContent ==
    /\ \A p \in ToSet(pages) \cup PagesIn(fixed) : HasContent(p)
    /\ file = 0 => \A k \in FilesLoaded : Covers(ToSet(pages), k)
    /\ file > 0 =>
        /\ Covers(ToSet(pages), file)
        /\ \A k \in 1 .. file - 1 : Covers(PagesIn(fixed), k)
        /\ \A p \in ToSet(pages) : InRange(file, p)
        /\ \A b \in DOMAIN fixed : b < Offset(file)

FinalContent ==
    /\ \A p \in PagesIn(fixed) : HasContent(p)
    /\ file = 0 => \A k \in FilesLoaded : Covers(PagesIn(fixed), k)
    /\ file > 0 =>
        /\ \A k \in 1 .. file : Covers(PagesIn(fixed), k)
        /\ \A b \in DOMAIN fixed : b < Offset(file) + DepAdd

ContentIInv ==
    /\ stage = "walk" => WalkContent
    /\ stage = "erase" \/ (stage = "relocate" /\ file = 0 /\ it = 1) => FinalContent

(* find_symbol_glob (elf.cc:338): files that refer to a symbol some        *)
(* dependency defines get the same address for it, wherever they are in    *)
(* the load order, unless one has a local symbol of that name.             *)
ReferencesAgree ==
    \A r, t \in DOMAIN found :
        /\ r[2] = t[2]
        /\ \A f \in {r, t} : SelectSeq(find_symbols(f[1], f[2]), IsLocal) = <<>>
        /\ Definitions(find_symbols_deps(r[2])) # <<>>
        => found[r] = found[t]

(* The strengthening the proofs use: what was found is what find_symbol_   *)
(* glob still finds, the files being loaded once and for all.              *)
FoundIInv ==
    /\ stage = "dependencies" => DOMAIN found = {}
    /\ found = [r \in DOMAIN found |-> find_symbol_glob(r[1], r[2])]

(* patch_relocations (elf.cc:435): when everything is loaded, each place a *)
(* file asks to be patched holds the word of the last relocation that      *)
(* names it, whatever the files patched later, and the TLS page, wrote.    *)
RelocationsHold ==
    Running /\ stage = "loaded" =>
        \A k \in FilesLoaded : \A i \in DOMAIN File(k).relocations :
            LET r == File(k).relocations[i] IN
            /\ r.type \notin Later
            /\ \A j \in i + 1 .. Len(File(k).relocations) :
                  File(k).relocations[j].type \in Later \/ File(k).relocations[j].at # r.at
            => Cell(Offset(k) + r.at) =
                 Patch(k, r, IF r.type = "RELATIVE" THEN 0 ELSE found[<<k, r.name>>])

(* The strengthening the proofs use.  No page lies across the border of    *)
(* what the stack and TLS have; and each relocation patched so far, unless *)
(* one after it in the file has patched the same place, is what is found   *)
(* at its place.                                                           *)
IsClear(b, e) ==
    \/ e <= TlsAddr
    \/ b >= StackAddr + StackSize
    \/ TlsAddr <= b /\ e <= StackAddr + StackSize

ClearIInv ==
    /\ \A i \in DOMAIN pages : IsClear(pages[i].base, PageEnd(pages[i]))
    /\ \A b \in DOMAIN fixed : IsClear(b, b + Len(fixed[b]))

IsPatched(k, i) == k < file \/ (k = file /\ i < it)

(* The i-th relocation of file k names a place that no later one patched.  *)
IsLast(k, i) ==
    /\ File(k).relocations[i].type \notin Later
    /\ \A j \in i + 1 .. Len(File(k).relocations) :
          \/ ~ IsPatched(k, j)
          \/ File(k).relocations[j].type \in Later
          \/ File(k).relocations[j].at # File(k).relocations[i].at

IsInPlace(k, r) ==
    /\ Mapped(Place(k, r))
    /\ Cell(Place(k, r)) =
          Patch(k, r, IF r.type = "RELATIVE" THEN 0 ELSE find_symbol_glob(k, r.name))
    /\ r.type # "RELATIVE" => <<k, r.name>> \in DOMAIN found

PatchIInv ==
    /\ stage \in {"tls", "loaded"} => file = Len(loaded) /\ it = Len(Relocations) + 1
    /\ LaidOut => \A k \in FilesLoaded : \A i \in DOMAIN File(k).relocations :
          IsPatched(k, i) /\ IsLast(k, i) => IsInPlace(k, File(k).relocations[i])
=============================================================================
