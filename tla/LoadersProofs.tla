--------------------------- MODULE LoadersProofs ----------------------------
(***************************************************************************)
(* The loaders, for any files, with any needs, segments, symbols and       *)
(* relocations, and for any behaviour of the traced process; and the       *)
(* memory the ELF loader lays out, for files whose segments and            *)
(* relocations are apart from each other and from the page for TLS: no two *)
(* pages overlap, every byte of a segment is found, and every relocation   *)
(* is in place in the end.                                                 *)
(***************************************************************************)
EXTENDS Loaders, BasicFacts

-----------------------------------------------------------------------------
(* Attaching to a process (lx86.cc:68)                                     *)

LEMMA InitAttachIInv == Init => AttachIInv
BY DEF Init, AttachIInv

(* Whatever the process does, and whenever.                                *)
LEMMA ChildAttachIInv ==
    ASSUME AttachIInv, Child
    PROVE  AttachIInv'
<1>1. CASE ChildExecutes
  BY <1>1 DEF ChildExecutes, AttachIInv
<1>2. CASE ChildSignalled
  BY <1>2 DEF ChildSignalled, AttachIInv
<1>3. CASE ChildArrives
  BY <1>3 DEF ChildArrives, AttachIInv
<1>4. CASE ChildExits
  BY <1>4 DEF ChildExits, AttachIInv
<1>5. CASE ChildSteps
  BY <1>5 DEF ChildSteps, AttachIInv
<1> QED
  BY <1>1, <1>2, <1>3, <1>4, <1>5 DEF Child

LEMMA TracerAttachIInv ==
    ASSUME AttachIInv, Tracer \/ Step
    PROVE  AttachIInv'
<1>1. CASE Fork
  BY <1>1 DEF Fork, AttachIInv
<1>2. CASE EntryKnown
  BY <1>2 DEF EntryKnown, AttachIInv
<1>3. CASE Wait
  BY <1>3 DEF Wait, AfterTrap, AttachIInv
<1>4. CASE Break
  BY <1>4 DEF Break, AttachIInv
<1>5. CASE Restore
  BY <1>5 DEF Restore, AttachIInv
<1>6. CASE ReadRegion
  <2>1. text \in {"code", "unmapped"} /\ snapshot \in Seq({"code", "unmapped", "skipped"})
    BY <1>6 DEF ReadRegion, AttachIInv
  <2>2. snapshot' \in Seq({"code", "unmapped", "skipped"})
    BY <1>6, <2>1 DEF ReadRegion
  <2> QED
    BY <1>6, <2>2 DEF ReadRegion, AttachIInv
<1>7. CASE MemoryRead
  BY <1>7 DEF MemoryRead, AttachIInv
<1>8. CASE Step
  BY <1>8 DEF Step, AttachIInv
<1> QED
  BY <1>1, <1>2, <1>3, <1>4, <1>5, <1>6, <1>7, <1>8 DEF Tracer

LEMMA NextAttachIInv == AttachIInv /\ [Next]_loaderVars => AttachIInv'
<1> SUFFICES ASSUME AttachIInv, [Next]_loaderVars PROVE AttachIInv'
  OBVIOUS
<1>1. CASE UNCHANGED traceVars
  BY <1>1 DEF traceVars, AttachIInv
<1>2. CASE RunChild
  BY <1>2, ChildAttachIInv DEF RunChild
<1>3. CASE Trace
  BY <1>3, TracerAttachIInv DEF Trace
<1> QED
  BY <1>1, <1>2, <1>3 DEF Next, loaderVars, LoadElf, ReadElf, TraceThrows, ReadRegionThrows

(* AttachIInv is an inductive invariant of the tracer and the process.     *)
THEOREM AttachIsInductive == Spec => []AttachIInv
BY InitAttachIInv, NextAttachIInv, PTL DEF Spec

(* Whatever the process and its signals do, if Lx86 has attached the       *)
(* process is stopped at its entry point, with nothing left to be waited   *)
(* for, and no breakpoint in it or in what was read of it (lx86.cc:68).    *)
THEOREM AttachedAtEntry == Spec => []StoppedAtEntry
<1>1. AttachIInv => StoppedAtEntry
  <2> SUFFICES ASSUME AttachIInv, tracer \in {"memory", "ready"}, ~stepped
               PROVE  /\ child = "stopped" /\ event = "none"
                      /\ rip = "entry" /\ text # "breakpoint"
                      /\ "breakpoint" \notin ToSet(snapshot)
    BY DEF StoppedAtEntry
  <2>1. /\ child = "stopped" /\ event = "none" /\ rip = "entry" /\ text # "breakpoint"
        /\ snapshot \in Seq({"code", "unmapped", "skipped"})
    BY DEF AttachIInv
  <2>2. ToSet(snapshot) \subseteq {"code", "unmapped", "skipped"}
    BY <2>1 DEF ToSet
  <2> QED
    BY <2>1, <2>2
<1> QED
  BY <1>1, AttachIsInductive, PTL
-----------------------------------------------------------------------------
(* Dependencies (elf.cc:382)                                               *)

(* All the steps but those of load_dependencies leave the work list alone. *)
LEMMA OtherSteps ==
    ASSUME [Next]_loaderVars, ~ LoadDependencies
    PROVE  /\ UNCHANGED <<program, new_deps, loaded>>
           /\ (stage' # "dependencies" => stage # "dependencies" \/ new_deps = <<>>)
           /\ (stage # "dependencies" => stage' # "dependencies")
<1>1. CASE LoadElf
  <2>1. CASE DependenciesEnd
    BY <2>1 DEF DependenciesEnd
  <2>2. CASE FixPages
    BY <2>2 DEF FixPages, FixPage, WalkEnd, KeepFinal, EraseEmpty, EraseEnd
  <2>3. CASE PatchRelocations
    BY <2>3 DEF PatchRelocations, RelocateSymbol, RelocateRelative, RelocateLater, RelocateThrow,
       RelocateDangling, RelocateEnd
  <2>4. CASE CopyTls
    BY <2>4 DEF CopyTls
  <2> QED
    BY <1>1, <2>1, <2>2, <2>3, <2>4 DEF LoadElf, ElfNext
<1>2. CASE RunChild \/ Trace
  BY <1>2 DEF RunChild, Trace, elfVars
<1>3. CASE TraceThrows
  BY <1>3 DEF TraceThrows
<1>4. CASE UNCHANGED loaderVars
  BY <1>4 DEF loaderVars, elfVars
<1> QED
  BY <1>1, <1>2, <1>3, <1>4 DEF Next, ReadElf

LEMMA NamesOfNeeded ==
    ASSUME WorkListIInv, NEW f \in DOMAIN program
    PROVE  ToSet(program[f].needed) \subseteq FileNames(program)
BY DEF FileNames

(* What a needed file names is needed.                                     *)
LEMMA NeededIsClosed ==
    ASSUME WorkListIInv
    PROVE  ClosedUnderNeeds(Needed)
<1>1. ToSet(program[Exe].needed) \subseteq Needed
  BY NamesOfNeeded DEF WorkListIInv, Needed, ClosedUnderNeeds
<1>2. ASSUME NEW f \in Needed \cap DOMAIN program, NEW g \in ToSet(program[f].needed)
      PROVE  g \in Needed
  <2>1. g \in FileNames(program)
    BY NamesOfNeeded
  <2>2. ASSUME NEW S \in SUBSET FileNames(program), ClosedUnderNeeds(S) PROVE g \in S
    <3>1. f \in S
      BY <2>2 DEF Needed
    <3> QED
      BY <2>2, <3>1 DEF ClosedUnderNeeds
  <2> QED
    BY <2>1, <2>2 DEF Needed
<1> QED
  BY <1>1, <1>2 DEF ClosedUnderNeeds

LEMMA InitWorkListIInv == Init => WorkListIInv
<1> SUFFICES ASSUME Init PROVE WorkListIInv
  OBVIOUS
<1>1. PICK c \in Cases : ElfInit(c.program)
  BY DEF Init
<1>2. /\ program = c.program /\ Exe \in DOMAIN program
      /\ \A f \in DOMAIN program : program[f].needed \in Seq(FileNames(program))
      /\ new_deps = program[Exe].needed /\ loaded = <<>> /\ stage = "dependencies"
  BY <1>1, LoadersAssumption DEF ElfInit
<1>3. ToSet(loaded) = {} /\ IsInjective(loaded)
  BY <1>2 DEF ToSet, IsInjective
<1>4. ToSet(new_deps) \subseteq Needed
  <2>1. ToSet(new_deps) \subseteq FileNames(program)
    BY <1>2 DEF FileNames
  <2> QED
    BY <1>2, <2>1 DEF Needed, ClosedUnderNeeds
<1>5. loaded \in Seq(FileNames(program))
  BY <1>2
<1> QED
  BY <1>2, <1>3, <1>4, <1>5 DEF WorkListIInv

LEMMA LoadDependencyWorkListIInv ==
    ASSUME WorkListIInv, LoadDependency
    PROVE  WorkListIInv'
<1> DEFINE N == FileNames(program)
           h == Head(new_deps)
<1>1. /\ new_deps # <<>> /\ h \in DOMAIN program /\ h \notin ToSet(loaded)
      /\ loaded' = Append(loaded, h) /\ new_deps' = new_deps \o program[h].needed
      /\ program' = program /\ stage' = stage /\ stage = "dependencies"
  BY DEF LoadDependency, AtDependency
<1>2. /\ new_deps \in Seq(N) /\ loaded \in Seq(N) /\ program[h].needed \in Seq(N)
      /\ IsInjective(loaded)
  BY <1>1 DEF WorkListIInv
<1>3. Needed' = Needed
  BY <1>1 DEF Needed, ClosedUnderNeeds, FileNames
<1>4. N' = N
  BY <1>1 DEF FileNames
<1> HIDE DEF N
<1>5. h \in N /\ h \in ToSet(new_deps)
  <2>1. h = new_deps[1] /\ 1 \in 1 .. Len(new_deps)
    BY <1>1, <1>2
  <2> QED
    BY <1>2, <2>1, ToSetMembers
<1> HIDE DEF h
<1>6. /\ loaded' \in Seq(N) /\ new_deps' \in Seq(N)
  BY <1>1, <1>2, <1>5
<1>7. ToSet(new_deps') = ToSet(new_deps) \cup ToSet(program[h].needed)
  <2>1. ToSet(new_deps \o program[h].needed) = ToSet(new_deps) \cup ToSet(program[h].needed)
    BY <1>2, ToSetOfConcat
  <2> QED
    BY <1>1, <2>1
<1>8. ToSet(loaded') = ToSet(loaded) \cup {h} /\ IsInjective(loaded')
  BY <1>1, <1>2, <1>5, ToSetOfAppend
<1>9. ToSet(program[h].needed) \subseteq Needed /\ h \in Needed
  <2>1. h \in Needed
    BY <1>5 DEF WorkListIInv
  <2> QED
    BY <1>1, <2>1, NeededIsClosed DEF ClosedUnderNeeds
<1>10. ToSet(loaded') \cup ToSet(new_deps') \subseteq Needed'
  BY <1>3, <1>7, <1>8, <1>9 DEF WorkListIInv
<1>11. ToSet(loaded') \subseteq DOMAIN program
  BY <1>1, <1>8 DEF WorkListIInv
<1>12. ToSet(program[Exe].needed) \subseteq ToSet(loaded') \cup ToSet(new_deps')
  BY <1>7, <1>8 DEF WorkListIInv
<1>13. \A f \in ToSet(loaded') :
          ToSet(program[f].needed) \subseteq ToSet(loaded') \cup ToSet(new_deps')
  BY <1>7, <1>8 DEF WorkListIInv
<1>14. /\ Exe \in DOMAIN program
       /\ \A f \in DOMAIN program : program[f].needed \in Seq(N)
  BY DEF WorkListIInv, N
<1>15. FileNames(program') = N
  BY <1>1 DEF N
<1> QED
  BY <1>1, <1>6, <1>8, <1>10, <1>11, <1>12, <1>13, <1>14, <1>15 DEF WorkListIInv

LEMMA DropLoadedWorkListIInv ==
    ASSUME WorkListIInv, DropLoaded
    PROVE  WorkListIInv'
<1> DEFINE N == FileNames(program)
           h == Head(new_deps)
           rest == Tail(new_deps)
<1>1. /\ new_deps # <<>> /\ h \in ToSet(loaded) /\ loaded' = loaded /\ new_deps' = rest
      /\ program' = program /\ stage' = stage /\ stage = "dependencies"
  BY DEF DropLoaded, AtDependency
<1>2. new_deps \in Seq(N)
  BY DEF WorkListIInv
<1>3. Needed' = Needed
  BY <1>1 DEF Needed, ClosedUnderNeeds, FileNames
<1> HIDE DEF N
<1>4. rest \in Seq(N) /\ new_deps = <<h>> \o rest /\ <<h>> \in Seq(N)
  BY <1>1, <1>2
<1> HIDE DEF h, rest
<1>5. ToSet(new_deps) = {h} \cup ToSet(rest)
  <2>1. ToSet(<<h>> \o rest) = ToSet(<<h>>) \cup ToSet(rest)
    BY <1>4, ToSetOfConcat
  <2>2. ToSet(<<h>>) = {h}
    BY DEF ToSet
  <2> QED
    BY <1>4, <2>1, <2>2
<1>6. FileNames(program') = N
  BY <1>1 DEF N
<1> QED
  BY <1>1, <1>3, <1>4, <1>5, <1>6 DEF WorkListIInv, N

LEMMA NextWorkListIInv == WorkListIInv /\ [Next]_loaderVars => WorkListIInv'
<1> SUFFICES ASSUME WorkListIInv, [Next]_loaderVars PROVE WorkListIInv'
  OBVIOUS
<1>1. ASSUME UNCHANGED <<program, new_deps, loaded>>,
             stage' # "dependencies" => stage # "dependencies" \/ new_deps = <<>>
      PROVE  WorkListIInv'
  <2>1. Needed' = Needed /\ FileNames(program)' = FileNames(program)
    BY <1>1 DEF Needed, ClosedUnderNeeds, FileNames
  <2> QED
    BY <1>1, <2>1 DEF WorkListIInv
<1>2. CASE MissingDependency
  BY <1>1, <1>2 DEF MissingDependency
<1>3. CASE ~ LoadDependencies
  BY <1>1, <1>3, OtherSteps
<1> QED
  BY <1>2, <1>3, LoadDependencyWorkListIInv, DropLoadedWorkListIInv DEF LoadDependencies

(* WorkListIInv is an inductive invariant of load_dependencies.            *)
THEOREM WorkListIsInductive == Spec => []WorkListIInv
BY InitWorkListIInv, NextWorkListIInv, PTL DEF Spec

(* Whatever cycles there are among the files, each that is needed is       *)
(* loaded, and loaded once (elf.cc:382).                                   *)
THEOREM FilesAreLoadedOnce == Spec => []NeededOnce
<1>1. WorkListIInv => NeededOnce
  <2> SUFFICES ASSUME WorkListIInv, stage # "dependencies"
               PROVE  ToSet(loaded) = Needed /\ IsInjective(loaded)
    BY DEF NeededOnce
  <2>1. ToSet(new_deps) = {}
    BY DEF WorkListIInv, ToSet
  <2>2. ToSet(loaded) \in SUBSET FileNames(program)
    BY ToSetMembers DEF WorkListIInv
  <2>3. ClosedUnderNeeds(ToSet(loaded))
    BY <2>1 DEF WorkListIInv, ClosedUnderNeeds
  <2>4. Needed \subseteq ToSet(loaded)
    BY <2>2, <2>3 DEF Needed
  <2> QED
    BY <2>4 DEF WorkListIInv
<1> QED
  BY <1>1, WorkListIsInductive, PTL
-----------------------------------------------------------------------------
(* Symbols (elf.cc:338)                                                    *)

LEMMA InitFoundIInv == Init => FoundIInv
<1> SUFFICES ASSUME Init PROVE FoundIInv
  OBVIOUS
<1>1. found = [x \in {} |-> x]
  BY DEF Init, ElfInit, None
<1>2. DOMAIN found = {}
  BY <1>1
<1>3. found = [r \in DOMAIN found |-> find_symbol_glob(r[1], r[2])]
  BY <1>1, <1>2
<1> QED
  BY <1>2, <1>3 DEF FoundIInv

(* What is found depends on the files and on the order they are loaded in, *)
(* on nothing that relocations change.                                     *)
LEMMA SameSymbols ==
    ASSUME UNCHANGED <<program, loaded>>, NEW k, NEW name
    PROVE  find_symbol_glob(k, name)' = find_symbol_glob(k, name)
<1>1. \A j : File(j)' = File(j)
  BY DEF File
<1>2. \A j : find_symbols(j, name)' = find_symbols(j, name)
  BY <1>1 DEF find_symbols
<1>3. find_symbols_deps(name)' = find_symbols_deps(name)
  <2> DEFINE Tagged(d) == FromFile(d, find_symbols(d, name))
  <2>1. \A d : Tagged(d)' = Tagged(d)
    BY <1>2 DEF FromFile
  <2>2. [d \in DOMAIN loaded |-> Tagged(d)]' = [d \in DOMAIN loaded |-> Tagged(d)]
    BY <2>1
  <2> QED
    BY <2>2 DEF find_symbols_deps
<1> QED
  BY <1>1, <1>2, <1>3 DEF find_symbol_glob, Address, Offset

LEMMA SameFound ==
    ASSUME FoundIInv, UNCHANGED <<program, loaded, found>>,
           stage' = "dependencies" => stage = "dependencies"
    PROVE  FoundIInv'
<1>1. \A r \in DOMAIN found :
          find_symbol_glob(r[1], r[2])' = find_symbol_glob(r[1], r[2])
  BY SameSymbols
<1> QED
  BY <1>1 DEF FoundIInv

LEMMA RelocateSymbolFoundIInv ==
    ASSUME FoundIInv, RelocateSymbol
    PROVE  FoundIInv'
<1> DEFINE key == <<file, Relocation.name>>
           address == find_symbol_glob(file, Relocation.name)
<1>1. /\ found' = [r \in {key} \cup DOMAIN found |-> IF r = key THEN address ELSE found[r]]
      /\ UNCHANGED <<program, loaded, stage>> /\ stage = "relocate"
  BY DEF RelocateSymbol, AtRelocation
<1>2. \A r : find_symbol_glob(r[1], r[2])' = find_symbol_glob(r[1], r[2])
  BY <1>1, SameSymbols
<1>3. address = find_symbol_glob(key[1], key[2])
  OBVIOUS
<1> HIDE DEF key, address
<1>4. \A r \in DOMAIN found' : found'[r] = find_symbol_glob(r[1], r[2])
  BY <1>1, <1>3 DEF FoundIInv
<1>5. found' = [r \in DOMAIN found' |-> found'[r]]
  BY <1>1
<1>6. stage' # "dependencies"
  BY <1>1
<1>7. \A r \in DOMAIN found' : found'[r] = find_symbol_glob(r[1], r[2])'
  BY <1>2, <1>4
<1>8. [r \in DOMAIN found |-> find_symbol_glob(r[1], r[2])]' = [r \in DOMAIN found' |-> found'[r]]
  BY <1>7
<1> QED
  BY <1>5, <1>6, <1>8 DEF FoundIInv

LEMMA NextFoundIInv == FoundIInv /\ [Next]_loaderVars => FoundIInv'
<1> SUFFICES ASSUME FoundIInv, [Next]_loaderVars PROVE FoundIInv'
  OBVIOUS
<1>1. CASE LoadDependencies
  <2>1. found' = found /\ stage = "dependencies"
    BY <1>1 DEF LoadDependencies, LoadDependency, DropLoaded, MissingDependency, AtDependency
  <2>2. DOMAIN found = {}
    BY <2>1 DEF FoundIInv
  <2> QED
    BY <2>1, <2>2 DEF FoundIInv
<1>2. CASE RelocateSymbol
  BY <1>2, RelocateSymbolFoundIInv
<1>3. CASE ~ LoadDependencies /\ ~ RelocateSymbol
  <2>1. /\ UNCHANGED <<program, loaded>>
        /\ (stage # "dependencies" => stage' # "dependencies")
    BY <1>3, OtherSteps
  <2>2. found' = found
    <3>1. CASE LoadElf
      BY <1>3, <3>1 DEF LoadElf, ElfNext, DependenciesEnd, FixPages, FixPage, WalkEnd, KeepFinal,
         EraseEmpty, EraseEnd, PatchRelocations, RelocateRelative, RelocateLater, RelocateThrow,
         RelocateDangling, RelocateEnd, CopyTls
    <3>2. CASE RunChild \/ Trace \/ TraceThrows
      BY <3>2 DEF RunChild, Trace, TraceThrows, elfVars
    <3>3. CASE UNCHANGED loaderVars
      BY <3>3 DEF loaderVars, elfVars
    <3> QED
      BY <1>3, <3>1, <3>2, <3>3 DEF Next, ReadElf
  <2> QED
    BY <2>1, <2>2, SameFound
<1> QED
  BY <1>1, <1>2, <1>3

(* FoundIInv is an inductive invariant of patch_relocations.               *)
THEOREM FoundIsInductive == Spec => []FoundIInv
BY InitFoundIInv, NextFoundIInv, PTL DEF Spec

(* Files that refer to a symbol that a dependency defines, and have no     *)
(* local one of that name, get the same address (elf.cc:338).              *)
THEOREM ReferencesAreTheSame == Spec => []ReferencesAgree
<1>1. FoundIInv => ReferencesAgree
  <2> SUFFICES ASSUME FoundIInv, NEW r \in DOMAIN found, NEW t \in DOMAIN found,
                      r[2] = t[2],
                      \A f \in {r, t} : SelectSeq(find_symbols(f[1], f[2]), IsLocal) = <<>>,
                      Definitions(find_symbols_deps(r[2])) # <<>>
               PROVE  found[r] = found[t]
    BY DEF ReferencesAgree
  <2> DEFINE first == Definitions(find_symbols_deps(r[2]))[1]
  <2>1. \A f \in {r, t} : find_symbol_glob(f[1], f[2]) = Address(first[1], first[2])
    BY DEF find_symbol_glob
  <2> QED
    BY <2>1 DEF FoundIInv
<1> QED
  BY <1>1, FoundIsInductive, PTL
-----------------------------------------------------------------------------
(* Multimaps: sequences of pages sorted by base                            *)

(* A sequence over any set is one over the set of its own elements.        *)
LEMMA SeqOfItsElements ==
    ASSUME NEW A, NEW s \in Seq(A)
    PROVE  s \in Seq(ToSet(s))
<1>1. \A i \in 1 .. Len(s) : s[i] \in ToSet(s)
  BY DEF ToSet
<1>2. PICK B : B = ToSet(s)
  OBVIOUS
<1>3. s \in Seq(B)
  BY ONLY <1>1, <1>2, s \in Seq(A)
<1> QED
  BY <1>2, <1>3

(* A part of a sequence.                                                   *)
LEMMA SubSeqElements ==
    ASSUME NEW A, NEW s \in Seq(A), NEW m \in 1 .. Len(s) + 1, NEW n \in m - 1 .. Len(s)
    PROVE  /\ SubSeq(s, m, n) \in Seq(A) /\ Len(SubSeq(s, m, n)) = n - m + 1
           /\ \A i \in 1 .. n - m + 1 : SubSeq(s, m, n)[i] = s[m + i - 1]
<1>1. Len(s) \in Nat /\ m \in Nat /\ n \in Nat /\ 1 <= m /\ n <= Len(s) /\ m - 1 <= n
  OBVIOUS
<1>2. \A i \in 1 .. n - m + 1 : m + i - 1 \in 1 .. Len(s) /\ s[m + i - 1] \in A
  BY <1>1
<1>3. SubSeq(s, m, n) = [i \in 1 .. n - m + 1 |-> s[m + i - 1]]
  BY <1>1
<1>4. n - m + 1 \in Nat
  BY <1>1
<1> QED
  BY <1>2, <1>3, <1>4

(* Where insert puts a page.                                               *)
LEMMA InsertAtPlace ==
    ASSUME NEW A, NEW s \in Seq(A), NEW m \in 1 .. Len(s) + 1, NEW e \in A
    PROVE  LET q == InsertAt(s, m, e) IN
           /\ q \in Seq(A) /\ Len(q) = Len(s) + 1
           /\ \A i \in 1 .. m - 1 : q[i] = s[i]
           /\ q[m] = e
           /\ \A i \in m .. Len(s) : q[i + 1] = s[i]
<1> DEFINE q == InsertAt(s, m, e)
           u == SubSeq(s, 1, m - 1)
           w == SubSeq(s, m, Len(s))
<1>1. /\ u \in Seq(A) /\ Len(u) = m - 1 /\ \A i \in 1 .. m - 1 : u[i] = s[i]
      /\ w \in Seq(A) /\ Len(w) = Len(s) - m + 1 /\ \A i \in 1 .. Len(s) - m + 1 : w[i] = s[m + i - 1]
  <2>1. PICK one, k, l : one = 1 /\ k = m - 1 /\ l = Len(s)
    OBVIOUS
  <2>2. /\ one \in 1 .. Len(s) + 1 /\ k \in one - 1 .. Len(s) /\ k - one + 1 = m - 1
        /\ m \in 1 .. Len(s) + 1 /\ l \in m - 1 .. Len(s)
        /\ \A i \in Nat : one + i - 1 = i
    BY <2>1
  <2>3. /\ SubSeq(s, one, k) \in Seq(A) /\ Len(SubSeq(s, one, k)) = k - one + 1
        /\ \A i \in 1 .. k - one + 1 : SubSeq(s, one, k)[i] = s[one + i - 1]
    BY <2>2, SubSeqElements
  <2>4. /\ SubSeq(s, m, l) \in Seq(A) /\ Len(SubSeq(s, m, l)) = l - m + 1
        /\ \A i \in 1 .. l - m + 1 : SubSeq(s, m, l)[i] = s[m + i - 1]
    BY <2>2, SubSeqElements
  <2>5. u = SubSeq(s, one, k) /\ w = SubSeq(s, m, l)
    BY <2>1
  <2> HIDE DEF u, w
  <2> QED
    BY <2>1, <2>2, <2>3, <2>4, <2>5
<1>2. q = (u \o <<e>>) \o w
  BY DEF InsertAt
<1> HIDE DEF u, w, q
<1>3. /\ u \o <<e>> \in Seq(A) /\ Len(u \o <<e>>) = m
      /\ \A i \in 1 .. m - 1 : (u \o <<e>>)[i] = s[i]
      /\ (u \o <<e>>)[m] = e
  <2>1. PICK c : c = <<e>>
    OBVIOUS
  <2>2. c \in Seq(A) /\ Len(c) = 1 /\ c[1] = e
    BY <2>1
  <2>3. /\ u \o c \in Seq(A) /\ Len(u \o c) = Len(u) + Len(c)
        /\ \A i \in 1 .. Len(u) : (u \o c)[i] = u[i]
        /\ \A i \in 1 .. Len(c) : (u \o c)[Len(u) + i] = c[i]
    <3>1. u \in Seq(A) /\ c \in Seq(A)
      BY <1>1, <2>2
    <3> QED
      BY ONLY <3>1, ConcatElements
  <2>4. (u \o c)[Len(u) + 1] = c[1] /\ Len(u) + 1 = m
    BY <1>1, <2>2, <2>3
  <2> QED
    BY <1>1, <2>1, <2>2, <2>3, <2>4
<1> DEFINE v == u \o <<e>>
<1>4. /\ v \in Seq(A) /\ Len(v) = m /\ (\A i \in 1 .. m - 1 : v[i] = s[i]) /\ v[m] = e
      /\ q = v \o w
  BY <1>2, <1>3
<1> HIDE DEF v
<1>5. /\ q \in Seq(A) /\ Len(q) = Len(v) + Len(w)
      /\ \A i \in 1 .. Len(v) : q[i] = v[i]
      /\ \A i \in 1 .. Len(w) : q[Len(v) + i] = w[i]
  <2>1. v \in Seq(A) /\ w \in Seq(A) /\ q = v \o w
    BY <1>1, <1>4
  <2> QED
    BY <2>1, ConcatElements
<1>6. \A i \in m .. Len(s) : q[i + 1] = s[i]
  <2> TAKE i \in m .. Len(s)
  <2>1. PICK j : j = i - m + 1
    OBVIOUS
  <2>2. j \in 1 .. Len(s) - m + 1 /\ Len(v) + j = i + 1 /\ m + j - 1 = i
    BY <1>4, <2>1
  <2>3. q[Len(v) + j] = w[j]
    BY <1>1, <1>5, <2>2
  <2>4. w[j] = s[m + j - 1]
    BY <1>1, <2>2
  <2> QED
    BY <2>2, <2>3, <2>4
<1>7. \A i \in 1 .. m : q[i] = v[i]
  BY <1>4, <1>5
<1>8. \A i \in 1 .. m - 1 : q[i] = s[i]
  BY <1>4, <1>7
<1>9. q[m] = e /\ Len(q) = Len(s) + 1
  BY <1>1, <1>4, <1>5, <1>7
<1> QED
  BY <1>5, <1>6, <1>8, <1>9 DEF q

(* The pages up to an address are the first ones.                          *)
LEMMA FirstPages ==
    ASSUME NEW ps, IsPages(ps), Ascending(ps), NEW b \in Nat
    PROVE  LET k == Cardinality({i \in DOMAIN ps : ps[i].base <= b}) IN
           /\ k \in 0 .. Len(ps)
           /\ \A i \in 1 .. k : ps[i].base <= b
           /\ \A i \in k + 1 .. Len(ps) : ps[i].base > b
<1> DEFINE S == {i \in DOMAIN ps : ps[i].base <= b}
           L == Len(ps)
           Splits(k) == /\ k \in 0 .. L
                        /\ \A i \in 1 .. k : ps[i].base <= b
                        /\ \A i \in k + 1 .. L : ps[i].base > b
<1> SUFFICES Splits(Cardinality(S))
  OBVIOUS
<1>1. L \in Nat /\ DOMAIN ps = 1 .. L /\ \A i \in 1 .. L : ps[i].base \in Nat
  BY DEF IsPages
<1>2. CASE S = {}
  <2>1. Cardinality(S) = 0
    BY <1>2, FS_EmptySet
  <2>2. Splits(0)
    BY <1>1, <1>2
  <2> HIDE DEF Splits, S
  <2> QED
    BY <2>1, <2>2
<1>3. CASE S # {}
  <2>1. S \in SUBSET Nat /\ \A i \in S : i <= L
    BY <1>1
  <2>2. PICK g \in S : \A i \in S : i <= g
    <3> HIDE DEF S
    <3> QED
      BY <1>1, <1>3, <2>1, GreatestNumber
  <2>3. S = 1 .. g
    <3>1. \A i \in 1 .. g : i \in S
      <4> TAKE i \in 1 .. g
      <4>1. i \in 1 .. L /\ g \in 1 .. L /\ i <= g /\ ps[g].base <= b
        BY <1>1, <2>2
      <4>2. ps[i].base <= ps[g].base
        BY <1>1, <4>1 DEF Ascending
      <4>3. ps[i].base \in Nat /\ ps[g].base \in Nat
        BY <1>1, <4>1
      <4> QED
        BY <1>1, <4>1, <4>2, <4>3
    <3> QED
      BY <1>1, <2>1, <2>2, <3>1
  <2>4. g \in 1 .. L
    BY <1>1, <2>2
  <2>5. Cardinality(1 .. g) = g
    BY <2>4, FS_Interval
  <2>6. Cardinality(S) = g
    BY <2>3, <2>5
  <2>7. \A i \in g + 1 .. L : ps[i].base > b
    <3> TAKE i \in g + 1 .. L
    <3>1. i \in 1 .. L /\ i \notin S
      BY <2>3, <2>4
    <3> QED
      BY <1>1, <3>1
  <2>8. Splits(g)
    BY <1>1, <2>3, <2>4, <2>7
  <2> HIDE DEF Splits, S
  <2> QED
    BY <2>6, <2>8
<1> QED
  BY <1>2, <1>3

(* q is ps with the page r behind those with bases up to r's.              *)
IsInserted(q, ps, r) ==
    /\ IsPages(q) /\ Ascending(q) /\ Len(q) = Len(ps) + 1
    /\ \E k \in 0 .. Len(ps) :
          /\ \A i \in 1 .. k : q[i] = ps[i] /\ ps[i].base <= r.base
          /\ q[k + 1] = r
          /\ \A i \in k + 1 .. Len(ps) : q[i + 1] = ps[i] /\ ps[i].base > r.base

(* Insert keeps the order, and every page.                                 *)
LEMMA InsertFacts ==
    ASSUME NEW ps, IsPages(ps), Ascending(ps),
           NEW b \in Nat, NEW d, d \in Seq(ToSet(d)), NEW q, q = Insert(ps, Page(b, d))
    PROVE  IsInserted(q, ps, Page(b, d))
<1> DEFINE p == Page(b, d)
           k == Cardinality({i \in DOMAIN ps : ps[i].base <= p.base})
           L == Len(ps)
           A == ToSet(ps) \cup {p}
<1>1. p.base = b /\ p.data = d /\ p = Page(p.base, p.data)
  BY DEF Page
<1>2. L \in Nat /\ DOMAIN ps = 1 .. L /\ ps \in Seq(A) /\ p \in A
  <2>1. ps \in Seq(ToSet(ps))
    BY DEF IsPages
  <2>2. ToSet(ps) \subseteq A
    OBVIOUS
  <2> HIDE DEF A
  <2> QED
    BY <2>1, <2>2 DEF A
<1>3. /\ k \in 0 .. L
      /\ \A i \in 1 .. k : ps[i].base <= b
      /\ \A i \in k + 1 .. L : ps[i].base > b
  <2> HIDE DEF p
  <2> QED
    BY <1>1, FirstPages
<1>4. q = InsertAt(ps, k + 1, p)
  BY DEF Insert
<1> HIDE DEF p, k, A
<1>5. /\ q \in Seq(A) /\ Len(q) = L + 1
      /\ \A i \in 1 .. k : q[i] = ps[i]
      /\ q[k + 1] = p
      /\ \A i \in k + 1 .. L : q[i + 1] = ps[i]
  <2>1. PICK m : m = k + 1
    OBVIOUS
  <2>2. ps \in Seq(A) /\ p \in A /\ m \in 1 .. Len(ps) + 1 /\ m - 1 = k
    BY <1>2, <1>3, <2>1
  <2>3. q = InsertAt(ps, m, p)
    BY <1>4, <2>1
  <2>4. /\ q \in Seq(A) /\ Len(q) = Len(ps) + 1
        /\ \A i \in 1 .. m - 1 : q[i] = ps[i]
        /\ q[m] = p
        /\ \A i \in m .. Len(ps) : q[i + 1] = ps[i]
    BY ONLY <2>2, <2>3, InsertAtPlace
  <2> QED
    BY <2>1, <2>2, <2>4
<1>6. \A i \in 1 .. L + 1 : \/ i \in 1 .. k /\ q[i] = ps[i]
                            \/ i = k + 1 /\ q[i] = p
                            \/ i - 1 \in k + 1 .. L /\ q[i] = ps[i - 1]
  <2> TAKE i \in 1 .. L + 1
  <2>1. CASE i > k + 1
    <3>1. i - 1 \in k + 1 .. L /\ (i - 1) + 1 = i
      BY <1>2, <1>3, <2>1
    <3> QED
      BY <1>5, <3>1
  <2>2. CASE i <= k + 1
    BY <1>2, <1>3, <1>5, <2>2
  <2> QED
    BY <1>2, <1>3, <2>1, <2>2
<1>7. IsPages(q)
  <2>1. q \in Seq(ToSet(q)) /\ DOMAIN q = 1 .. L + 1
    BY <1>2, <1>5, SeqOfItsElements
  <2>2. \A i \in 1 .. L + 1 : /\ q[i] = Page(q[i].base, q[i].data) /\ q[i].base \in Nat
                              /\ q[i].data \in Seq(ToSet(q[i].data))
    <3>1. \A i \in 1 .. L : /\ ps[i] = Page(ps[i].base, ps[i].data) /\ ps[i].base \in Nat
                            /\ ps[i].data \in Seq(ToSet(ps[i].data))
      BY <1>2 DEF IsPages
    <3>2. \A i \in 1 .. k : i \in 1 .. L
      BY <1>2, <1>3
    <3>3. \A i \in k + 1 .. L : i \in 1 .. L
      BY <1>2, <1>3
    <3> QED
      BY <1>1, <1>6, <3>1, <3>2, <3>3
  <2> QED
    BY <2>1, <2>2 DEF IsPages
<1>8. Ascending(q)
  <2> SUFFICES ASSUME NEW i \in 1 .. L + 1, NEW j \in 1 .. L + 1, i <= j
               PROVE  q[i].base <= q[j].base
    BY <1>2, <1>5 DEF Ascending
  <2>1. \A m, n \in 1 .. L : m <= n => ps[m].base <= ps[n].base
    BY <1>2 DEF Ascending
  <2>2. \A m \in 1 .. L : ps[m].base \in Nat
    BY <1>2 DEF IsPages
  <2>3. (\A m \in 1 .. k : m \in 1 .. L) /\ (\A m \in k + 1 .. L : m \in 1 .. L)
    BY <1>2, <1>3
  <2>4. /\ \A m \in 1 .. k : ps[m].base <= p.base
        /\ \A m \in k + 1 .. L : p.base <= ps[m].base
    BY <1>1, <1>3, <2>2, <2>3
  <2>5. k \in Nat
    BY <1>3
  <2>6. CASE i = k + 1
    <3>1. j = k + 1 \/ j - 1 \in k + 1 .. L
      BY <1>2, <2>5, <2>6
    <3> QED
      BY <1>1, <1>5, <1>6, <2>4, <2>6, <3>1
  <2>7. CASE i <= k
    <3>1. q[i] = ps[i] /\ i \in 1 .. k
      BY <1>6, <2>5, <2>7
    <3> QED
      BY <1>1, <1>2, <1>6, <2>1, <2>2, <2>3, <2>4, <2>5, <3>1
  <2>8. CASE i > k + 1
    <3>1. /\ q[i] = ps[i - 1] /\ i - 1 \in 1 .. L
          /\ q[j] = ps[j - 1] /\ j - 1 \in 1 .. L /\ i - 1 <= j - 1
      BY <1>2, <1>6, <2>3, <2>5, <2>8
    <3> QED
      BY <2>1, <3>1
  <2> QED
    BY <2>5, <2>6, <2>7, <2>8
<1> QED
  <2>1. IsInserted(q, ps, p)
    BY <1>1, <1>3, <1>5, <1>7, <1>8 DEF IsInserted
  <2> QED
    BY <2>1 DEF p
-----------------------------------------------------------------------------
(* The search for the address behind the next page (elf.cc:55)             *)

(* Where one gets to from each address by steps of G, the local function   *)
(* of AfterNext.                                                           *)
IsChain(f, top, G) == f = [a \in 0 .. top |-> IF G[a] = 0 THEN a ELSE f[a + G[a]]]

(* The recursion of the local function ends: what it adds is a size, and   *)
(* it stops at the greatest end of a page.                                 *)
LEMMA ChainExists ==
    ASSUME NEW top \in Nat, NEW G \in [0 .. top -> Nat], \A a \in 0 .. top : a + G[a] <= top
    PROVE  \E f : IsChain(f, top, G)
<1> DEFINE Upto(n, f) ==
               /\ f \in [top + 1 - n .. top -> Nat]
               /\ \A a \in top + 1 - n .. top : f[a] = IF G[a] = 0 THEN a ELSE f[a + G[a]]
           T == {n \in Nat : n <= top + 1 => \E f : Upto(n, f)}
<1>0. \A a \in 0 .. top : a \in Nat /\ G[a] \in Nat /\ a + G[a] \in Nat /\ a + G[a] <= top
  OBVIOUS
<1>1. T \in SUBSET Nat
  OBVIOUS
<1>2. 0 \in T
  <2>1. Upto(0, [a \in top + 1 .. top |-> a])
    OBVIOUS
  <2> QED
    BY <2>1
<1>3. ASSUME NEW n \in T PROVE n + 1 \in T
  <2>1. n \in Nat /\ n + 1 \in Nat
    OBVIOUS
  <2>2. SUFFICES ASSUME n + 1 <= top + 1 PROVE \E g : Upto(n + 1, g)
    BY <2>1
  <2>3. PICK f : Upto(n, f)
    <3>1. n <= top + 1
      BY <2>1, <2>2
    <3>2. n <= top + 1 => \E f : Upto(n, f)
      <4> HIDE DEF Upto
      <4> QED
        OBVIOUS
    <3> QED
      BY <3>1, <3>2
  <2>4. PICK b : b = top - n
    OBVIOUS
  <2>5. b \in Nat /\ b \in 0 .. top /\ top + 1 - n = b + 1 /\ top + 1 - (n + 1) = b
    BY <2>1, <2>2, <2>4
  <2> DEFINE v == IF G[b] = 0 THEN b ELSE f[b + G[b]]
             g == [a \in b .. top |-> IF a = b THEN v ELSE f[a]]
  <2>6. f \in [b + 1 .. top -> Nat]
    BY <2>3, <2>5 DEF Upto
  <2>7. \A a \in b + 1 .. top : f[a] = IF G[a] = 0 THEN a ELSE f[a + G[a]]
    BY <2>3, <2>5 DEF Upto
  <2> HIDE DEF T, Upto
  <2>8. v \in Nat
    <3>1. CASE G[b] = 0
      BY <2>5, <3>1
    <3>2. CASE G[b] # 0
      <4>1. b + G[b] \in b + 1 .. top
        BY <1>0, <2>5, <3>2
      <4> QED
        BY <2>6, <3>2, <4>1
    <3> QED
      BY <3>1, <3>2
  <2>9. g \in [b .. top -> Nat]
    <3> HIDE DEF v
    <3> QED
      BY ONLY <2>5, <2>6, <2>8, top \in Nat DEF g
  <2>10. \A a \in b .. top : g[a] = IF G[a] = 0 THEN a ELSE g[a + G[a]]
    <3> TAKE a \in b .. top
    <3>1. a \in Nat /\ G[a] \in Nat /\ a + G[a] <= top /\ b <= a
      BY <1>0, <2>5
    <3>2. G[a] # 0 => a + G[a] \in b + 1 .. top /\ a + G[a] # b /\ g[a + G[a]] = f[a + G[a]]
      <4> SUFFICES ASSUME G[a] # 0
                   PROVE  a + G[a] \in b + 1 .. top /\ a + G[a] # b /\ g[a + G[a]] = f[a + G[a]]
        OBVIOUS
      <4>1. PICK c : c = a + G[a]
        OBVIOUS
      <4>2. c \in b + 1 .. top /\ c \in b .. top /\ c # b
        <5>1. PICK d : d = G[a]
          OBVIOUS
        <5>2. a \in Nat /\ d \in Nat /\ d # 0 /\ c = a + d /\ c <= top /\ b \in Nat /\ b <= a
          BY <2>5, <3>1, <4>1, <5>1
        <5> QED
          BY ONLY <5>2, top \in Nat
      <4> QED
        BY <4>1, <4>2
    <3>3. CASE a = b
      BY <2>5, <3>2, <3>3
    <3>4. CASE a # b
      <4>1. a \in b + 1 .. top /\ g[a] = f[a]
        BY <2>5, <3>4
      <4> HIDE DEF g
      <4> QED
        BY <2>7, <3>2, <4>1
    <3> QED
      BY <3>3, <3>4
  <2>11. Upto(n + 1, g)
    <3> HIDE DEF g
    <3> QED
      BY <2>5, <2>9, <2>10 DEF Upto
  <2> QED
    BY <2>11
<1>4. \A n \in Nat : n \in T
  <2> HIDE DEF T
  <2> QED
    BY <1>1, <1>2, <1>3, NumbersByInduction
<1>5. PICK f : Upto(top + 1, f)
  <2>1. PICK n : n = top + 1
    OBVIOUS
  <2>2. n \in Nat /\ n <= top + 1
    BY <2>1
  <2>3. n \in T
    BY <1>4, <2>2
  <2>4. \E f : Upto(n, f)
    <3> HIDE DEF Upto
    <3> QED
      BY <2>2, <2>3
  <2> HIDE DEF Upto
  <2> QED
    BY <2>1, <2>4
<1>6. f \in [0 .. top -> Nat] /\ \A a \in 0 .. top : f[a] = IF G[a] = 0 THEN a ELSE f[a + G[a]]
  <2>1. top + 1 - (top + 1) = 0
    OBVIOUS
  <2> QED
    BY <1>5, <2>1
<1>7. IsChain(f, top, G)
  BY <1>6 DEF IsChain
<1> QED
  BY <1>7

(* A chain goes upwards, does not leave a set that is closed under its     *)
(* steps, and passes over no other address than its steps do.              *)
LEMMA ChainFacts ==
    ASSUME NEW top \in Nat, NEW G \in [0 .. top -> Nat], \A a \in 0 .. top : a + G[a] <= top,
           NEW f, IsChain(f, top, G),
           NEW P \in SUBSET Nat, \A a \in P : a <= top => a + G[a] \in P,
           NEW C, \A a \in P : a <= top => \A x \in Nat : a <= x /\ x < a + G[a] => x \in C
    PROVE  \A a \in P : a <= top => /\ f[a] \in P /\ a <= f[a] /\ f[a] <= top
                                    /\ \A x \in Nat : a <= x /\ x < f[a] => x \in C
<1> DEFINE Good(a) == /\ f[a] \in P /\ a <= f[a] /\ f[a] <= top
                      /\ \A x \in Nat : a <= x /\ x < f[a] => x \in C
           T == {n \in Nat : \A a \in P : a <= top /\ a + n > top => Good(a)}
<1>1. T \in SUBSET Nat
  OBVIOUS
<1>2. 0 \in T
  OBVIOUS
<1>3. ASSUME NEW n \in T PROVE n + 1 \in T
  <2>1. n \in Nat /\ n + 1 \in Nat
    OBVIOUS
  <2>2. SUFFICES ASSUME NEW a \in P, a <= top, a + (n + 1) > top PROVE Good(a)
    BY <2>1
  <2>3. a \in 0 .. top /\ f[a] = IF G[a] = 0 THEN a ELSE f[a + G[a]]
    BY <2>2 DEF IsChain
  <2>4. \A b \in P : b <= top /\ b + n > top => Good(b)
    OBVIOUS
  <2>5. CASE G[a] = 0
    BY <2>2, <2>3, <2>5
  <2>6. CASE G[a] # 0
    <3> HIDE DEF T, Good
    <3>1. PICK b : b = a + G[a]
      OBVIOUS
    <3>2. a \in Nat /\ G[a] \in Nat /\ b \in Nat /\ a < b /\ b <= top /\ b \in P
      <4>1. a \in Nat /\ G[a] \in Nat /\ a + G[a] <= top
        BY <2>3
      <4>2. b \in P
        BY <2>2, <3>1
      <4>3. PICK g : g = G[a]
        OBVIOUS
      <4>4. a \in Nat /\ g \in Nat /\ g # 0 /\ b = a + g /\ a + g <= top
        BY <2>6, <3>1, <4>1, <4>3
      <4>5. b \in Nat /\ a < b /\ b <= top
        BY ONLY <4>4, top \in Nat
      <4> QED
        BY <4>1, <4>2, <4>5
    <3>3. b + n > top /\ f[a] = f[b]
      BY <2>1, <2>2, <2>3, <2>6, <3>1, <3>2
    <3>4. \A x \in Nat : a <= x /\ x < b => x \in C
      BY <2>2, <3>1
    <3>5. Good(b)
      BY <2>4, <3>2, <3>3
    <3>6. /\ f[b] \in P /\ f[b] \in Nat /\ b <= f[b] /\ f[b] <= top
          /\ \A x \in Nat : b <= x /\ x < f[b] => x \in C
      BY <3>5 DEF Good
    <3>7. f[a] \in P /\ a <= f[a] /\ f[a] <= top
      BY ONLY <3>2, <3>3, <3>6, top \in Nat
    <3>8. \A x \in Nat : a <= x /\ x < f[a] => x \in C
      BY <3>2, <3>3, <3>4, <3>6
    <3> QED
      BY <3>7, <3>8 DEF Good
  <2> QED
    BY <2>5, <2>6
<1>4. \A n \in Nat : n \in T
  <2> HIDE DEF T
  <2> QED
    BY <1>1, <1>2, <1>3, NumbersByInduction
<1> SUFFICES ASSUME NEW a \in P, a <= top PROVE Good(a)
  OBVIOUS
<1>5. PICK n : n = top + 1
  OBVIOUS
<1>6. n \in Nat /\ a + n > top
  BY <1>5
<1>7. n \in T
  BY <1>4, <1>6
<1> HIDE DEF Good
<1> QED
  BY <1>6, <1>7

-----------------------------------------------------------------------------
(* nnext, the walk over the pages that follow one another                  *)

(* The pages but the one at the iterator.                                  *)
LEMMA GreatestIsOfAPage ==
    ASSUME IsPages(pages), NEW a
    PROVE  /\ Greatest(a) \in Nat
           /\ Greatest(a) # 0 => \E i \in DOMAIN pages \ {it} :
                 pages[i].base = a /\ Len(pages[i].data) = Greatest(a)
<1> DEFINE L == Len(pages)
           I == {j \in DOMAIN pages \ {it} : pages[j].base = a}
           S == {0} \cup {Len(pages[i].data) : i \in I}
<1>1. L \in Nat /\ DOMAIN pages = 1 .. L /\ \A i \in 1 .. L : Len(pages[i].data) \in Nat
  BY DEF IsPages
<1>2. PICK n \in Nat : \A i \in 1 .. L : Len(pages[i].data) <= n
  <2> DEFINE f == [i \in 1 .. L |-> Len(pages[i].data)]
  <2>1. f \in [1 .. L -> Nat]
    BY <1>1
  <2>2. \E n \in Nat : \A i \in 1 .. L : f[i] <= n
    <3> HIDE DEF f, L
    <3> QED
      BY <1>1, <2>1, NumbersAreBounded
  <2> QED
    BY <2>2
<1>3. S \in SUBSET Nat /\ S # {} /\ \A m \in S : m <= n
  BY <1>1, <1>2
<1>4. Max(S) \in S
  <2> HIDE DEF S
  <2> QED
    BY <1>3, MaxOfNumbers
<1>5. Greatest(a) = Max(S)
  BY DEF Greatest
<1> HIDE DEF S
<1>6. Greatest(a) \in S
  BY <1>4, <1>5
<1> USE DEF S
<1> QED
  BY <1>1, <1>3, <1>6

(* AfterNext is the end of a page, and every address from the end of the   *)
(* next page up to it is in some page, other than the one at the iterator. *)
LEMMA AfterNextFacts ==
    ASSUME IsPages(pages), NEW n, n = it + 1, it \in 1 .. Len(pages), n \in 1 .. Len(pages)
    PROVE  /\ \E i \in DOMAIN pages \ {it} : AfterNext = PageEnd(pages[i])
           /\ AfterNext \in Nat /\ PageEnd(pages[n]) <= AfterNext
           /\ \A x \in Nat : PageEnd(pages[n]) <= x /\ x < AfterNext =>
                 \E i \in DOMAIN pages \ {it} : pages[i].base <= x /\ x < PageEnd(pages[i])
<1> DEFINE L == Len(pages)
           E == {PageEnd(pages[i]) : i \in DOMAIN pages}
           top == Max(E)
           G == [a \in 0 .. top |-> Greatest(a)]
           P == {PageEnd(pages[i]) : i \in DOMAIN pages \ {it}}
           C == {x \in Nat : \E i \in DOMAIN pages \ {it} : pages[i].base <= x /\ x < PageEnd(pages[i])}
<1>1. /\ L \in Nat /\ DOMAIN pages = 1 .. L
      /\ \A i \in 1 .. L : /\ pages[i].base \in Nat /\ Len(pages[i].data) \in Nat
                           /\ PageEnd(pages[i]) = pages[i].base + Len(pages[i].data)
                           /\ PageEnd(pages[i]) \in Nat
  BY DEF IsPages, PageEnd
<1>2. n \in DOMAIN pages \ {it}
  BY <1>1
<1>3. top \in Nat /\ \A i \in 1 .. L : PageEnd(pages[i]) <= top
  <2>1. PICK b \in Nat : \A i \in 1 .. L : PageEnd(pages[i]) <= b
    <3> DEFINE f == [i \in 1 .. L |-> PageEnd(pages[i])]
    <3>1. f \in [1 .. L -> Nat]
      BY <1>1
    <3>2. \E b \in Nat : \A i \in 1 .. L : f[i] <= b
      <4> HIDE DEF f, L
      <4> QED
        BY <1>1, <3>1, NumbersAreBounded
    <3> QED
      BY <3>2
  <2>2. E \in SUBSET Nat /\ E # {} /\ \A m \in E : m <= b
    BY <1>1, <1>2, <2>1
  <2>3. Max(E) \in E /\ \A m \in E : m <= Max(E)
    <3> HIDE DEF E
    <3> QED
      BY <2>2, MaxOfNumbers
  <2> HIDE DEF top
  <2>4. top = Max(E)
    BY DEF top
  <2> QED
    BY <1>1, <2>2, <2>3, <2>4
<1> HIDE DEF top
<1>4. \A a \in Nat : /\ Greatest(a) \in Nat
                     /\ Greatest(a) = 0 \/ a + Greatest(a) \in P
                     /\ Greatest(a) = 0 \/ \A x \in Nat : a <= x /\ x < a + Greatest(a) => x \in C
  <2> TAKE a \in Nat
  <2>1. Greatest(a) \in Nat
    BY GreatestIsOfAPage
  <2>2. SUFFICES ASSUME Greatest(a) # 0
                 PROVE  /\ a + Greatest(a) \in P
                        /\ \A x \in Nat : a <= x /\ x < a + Greatest(a) => x \in C
    BY <2>1
  <2>3. PICK i \in DOMAIN pages \ {it} : pages[i].base = a /\ Len(pages[i].data) = Greatest(a)
    BY <2>2, GreatestIsOfAPage
  <2>4. PageEnd(pages[i]) = a + Greatest(a)
    BY <2>3 DEF PageEnd
  <2> QED
    BY <2>3, <2>4
<1>5. P \in SUBSET Nat /\ \A a \in P : a <= top
  BY <1>1, <1>3
<1>6. G \in [0 .. top -> Nat] /\ \A a \in 0 .. top : G[a] = Greatest(a)
  <2>1. \A a \in 0 .. top : Greatest(a) \in Nat
    BY GreatestIsOfAPage
  <2> QED
    BY ONLY <2>1
<1>7. \A a \in 0 .. top : a + G[a] <= top
  <2> TAKE a \in 0 .. top
  <2>1. a \in Nat /\ a <= top /\ G[a] = Greatest(a)
    BY <1>3, <1>6
  <2>2. Greatest(a) = 0 \/ a + Greatest(a) <= top
    BY <1>4, <1>5, <2>1
  <2> QED
    BY <1>3, <2>1, <2>2
<1>8. \A a \in P : a <= top => a + G[a] \in P
  <2> TAKE a \in P
  <2>1. a \in Nat /\ a \in 0 .. top /\ G[a] = Greatest(a)
    BY <1>3, <1>5, <1>6
  <2>2. Greatest(a) = 0 => a + G[a] = a
    BY <2>1
  <2> QED
    BY <1>4, <2>1, <2>2
<1>9. \A a \in P : a <= top => \A x \in Nat : a <= x /\ x < a + G[a] => x \in C
  <2> TAKE a \in P
  <2>1. a \in Nat /\ a \in 0 .. top /\ G[a] = Greatest(a)
    BY <1>3, <1>5, <1>6
  <2>2. Greatest(a) = 0 => a + G[a] = a
    BY <2>1
  <2>3. Greatest(a) = 0 => \A x \in Nat : ~(a <= x /\ x < a + G[a])
    BY <2>1, <2>2
  <2> QED
    BY <1>4, <2>1, <2>3
<1> DEFINE after == CHOOSE f : IsChain(f, top, G)
<1> HIDE DEF G, P, C
<1>10. IsChain(after, top, G)
  <2>1. \E f : IsChain(f, top, G)
    BY <1>3, <1>6, <1>7, ChainExists
  <2> QED
    BY <2>1
<1>11. AfterNext = after[PageEnd(pages[n])]
  <2>1. after = CHOOSE f : f = [a \in 0 .. top |-> IF Greatest(a) = 0 THEN a ELSE f[a + Greatest(a)]]
    <3>1. \A f : IsChain(f, top, G) <=> f = [a \in 0 .. top |-> IF Greatest(a) = 0 THEN a ELSE f[a + Greatest(a)]]
      BY <1>6 DEF IsChain
    <3> QED
      BY <3>1
  <2> HIDE DEF after
  <2> QED
    BY <2>1 DEF AfterNext, NextPage, top
<1> HIDE DEF after
<1>12. PageEnd(pages[n]) \in P /\ PageEnd(pages[n]) <= top
  BY <1>2, <1>5 DEF P
<1>13. /\ AfterNext \in P /\ PageEnd(pages[n]) <= AfterNext
       /\ \A x \in Nat : PageEnd(pages[n]) <= x /\ x < AfterNext => x \in C
  <2>1. \A a \in P : a <= top => /\ after[a] \in P /\ a <= after[a] /\ after[a] <= top
                                 /\ \A x \in Nat : a <= x /\ x < after[a] => x \in C
    <3>1. top \in Nat /\ G \in [0 .. top -> Nat] /\ P \in SUBSET Nat
      BY <1>3, <1>5, <1>6
    <3> QED
      BY ONLY <3>1, <1>7, <1>8, <1>9, <1>10, ChainFacts
  <2> QED
    BY <1>11, <1>12, <2>1
<1> QED
  BY <1>5, <1>13 DEF P, C

-----------------------------------------------------------------------------
(* The page cut in two                                                     *)

(* q is the page at b of the m-th to the n-th of the cells d.              *)
IsPart(q, b, d, m, n) ==
    /\ q = Page(b, q.data) /\ q.base = b /\ q.data \in Seq(ToSet(q.data))
    /\ Len(q.data) = n - m + 1 /\ PageEnd(q) = b + (n - m + 1)
    /\ q.data = SubSeq(d, m, n)
    /\ \A i \in 1 .. n - m + 1 : q.data[i] = d[m + i - 1]

(* The two pages WithoutOverlap makes.                                     *)
LEMMA SubPage ==
    ASSUME NEW d, d \in Seq(ToSet(d)), NEW b \in Nat,
           NEW m \in 1 .. Len(d) + 1, NEW n \in m - 1 .. Len(d),
           NEW q, q = Page(b, SubSeq(d, m, n))
    PROVE  IsPart(q, b, d, m, n)
<1> DEFINE s == SubSeq(d, m, n)
<1>1. /\ s \in Seq(ToSet(d)) /\ Len(s) = n - m + 1
      /\ \A i \in 1 .. n - m + 1 : s[i] = d[m + i - 1]
  BY SubSeqElements
<1>2. q = Page(b, s)
  OBVIOUS
<1>3. s = SubSeq(d, m, n)
  OBVIOUS
<1> HIDE DEF s
<1>4. s \in Seq(ToSet(s))
  BY <1>1, SeqOfItsElements
<1>5. q = Page(b, q.data) /\ q.base = b /\ q.data = s
  BY <1>2 DEF Page
<1>6. PageEnd(q) = b + (n - m + 1)
  BY <1>1, <1>5 DEF PageEnd
<1> QED
  BY <1>1, <1>3, <1>4, <1>5, <1>6 DEF IsPart

(* q is ps with the cells d instead of those of the n-th page.             *)
IsReplaced(q, ps, n, d) ==
    /\ IsPages(q) /\ Ascending(q) /\ Len(q) = Len(ps)
    /\ q[n] = Page(ps[n].base, d)
    /\ \A i \in 1 .. Len(ps) : i # n => q[i] = ps[i]

(* A multimap whose n-th page got other cells.                             *)
LEMMA ReplacePage ==
    ASSUME NEW ps, IsPages(ps), Ascending(ps), NEW n \in 1 .. Len(ps),
           NEW d, d \in Seq(ToSet(d)), NEW q, q = [ps EXCEPT ![n].data = d]
    PROVE  IsReplaced(q, ps, n, d)
<1> DEFINE e == Page(ps[n].base, d)
           L == Len(ps)
<1>1. /\ L \in Nat /\ DOMAIN ps = 1 .. L /\ ps \in Seq(ToSet(ps))
      /\ \A i \in 1 .. L : /\ ps[i] = Page(ps[i].base, ps[i].data) /\ ps[i].base \in Nat
                           /\ ps[i].data \in Seq(ToSet(ps[i].data))
  BY DEF IsPages
<1>2. e = [ps[n] EXCEPT !.data = d]
  <2>1. ps[n] = Page(ps[n].base, ps[n].data)
    BY <1>1
  <2> QED
    BY <2>1 DEF Page
<1>3. q = [ps EXCEPT ![n] = e]
  <2>1. q = [ps EXCEPT ![n] = [ps[n] EXCEPT !.data = d]]
    OBVIOUS
  <2> HIDE DEF e
  <2> QED
    BY <1>2, <2>1
<1>4. e.base = ps[n].base /\ e.data = d /\ e = Page(e.base, e.data)
  BY DEF Page
<1> HIDE DEF e
<1>5. /\ DOMAIN q = 1 .. L /\ q[n] = e /\ q = [i \in 1 .. L |-> q[i]]
      /\ \A i \in 1 .. L : i # n => q[i] = ps[i]
  BY <1>1, <1>3
<1>6. q \in Seq(ToSet(q)) /\ Len(q) = L
  <2>1. \A i \in 1 .. L : q[i] \in ToSet(q)
    BY <1>5 DEF ToSet
  <2> QED
    BY ONLY <1>1, <1>5, <2>1
<1>7. \A i \in 1 .. L : q[i].base = ps[i].base
  BY <1>1, <1>4, <1>5
<1>8. IsPages(q)
  <2>1. \A i \in 1 .. L : /\ q[i] = Page(q[i].base, q[i].data) /\ q[i].base \in Nat
                          /\ q[i].data \in Seq(ToSet(q[i].data))
    <3> TAKE i \in 1 .. L
    <3>1. CASE i = n
      <4>1. q[i] = e /\ ps[i].base \in Nat
        BY <1>1, <1>5, <3>1
      <4> QED
        BY <1>4, <3>1, <4>1
    <3>2. CASE i # n
      BY <1>1, <1>5, <3>2
    <3> QED
      BY <3>1, <3>2
  <2> QED
    BY <1>5, <1>6, <2>1 DEF IsPages
<1>9. Ascending(q)
  BY <1>1, <1>5, <1>7 DEF Ascending
<1> QED
  BY <1>5, <1>6, <1>8, <1>9 DEF e, IsReplaced

(* What the first loop of fix_pages makes of the page at the iterator: it  *)
(* is cut where the next begins, what it has behind AfterNext is a page of *)
(* its own, and the others are as they were.                               *)
LEMMA WithoutOverlapFacts ==
    ASSUME IsPages(pages), Ascending(pages),
           NEW n, n = it + 1, it \in 1 .. Len(pages), n \in 1 .. Len(pages),
           PageEnd(pages[it]) > pages[n].base
    PROVE  LET p == pages[it]
               q == WithoutOverlap
           IN
           /\ IsPages(q) /\ Ascending(q) /\ Len(pages) <= Len(q)
           /\ \A i \in 1 .. Len(pages) : i < it => q[i] = pages[i]
           /\ q[n] = pages[n]
           /\ q[it].base = p.base /\ PageEnd(q[it]) = pages[n].base
           /\ \A a \in 1 .. Len(q[it].data) : a \in 1 .. Len(p.data) /\ q[it].data[a] = p.data[a]
           /\ \A j \in DOMAIN pages \ {it} : \E i \in DOMAIN q \ {it} : q[i] = pages[j]
           /\ PageEnd(p) > AfterNext =>
                 \E i \in DOMAIN q \ {it} : q[i].base = AfterNext /\ PageEnd(q[i]) = PageEnd(p)
           /\ \A i \in DOMAIN q \ {it} :
                 \/ \E j \in DOMAIN pages \ {it} : q[i] = pages[j]
                 \/ /\ q[i].base = AfterNext /\ PageEnd(q[i]) = PageEnd(p) /\ p.base <= AfterNext
                    /\ \A a \in 1 .. Len(q[i].data) :
                          /\ AfterNext - p.base + a \in 1 .. Len(p.data)
                          /\ q[i].data[a] = p.data[AfterNext - p.base + a]
<1> DEFINE L == Len(pages)
           p == pages[it]
           c == pages[n].base - p.base
           cut == [pages EXCEPT ![it].data = SubSeq(p.data, 1, c)]
           first == Page(p.base, SubSeq(p.data, 1, c))
           a0 == AfterNext - p.base + 1
           tail == Page(AfterNext, SubSeq(p.data, a0, Len(p.data)))
           q == WithoutOverlap
<1>1. /\ L \in Nat /\ DOMAIN pages = 1 .. L
      /\ \A i \in 1 .. L : /\ pages[i].base \in Nat /\ pages[i].data \in Seq(ToSet(pages[i].data))
                           /\ Len(pages[i].data) \in Nat
                           /\ PageEnd(pages[i]) = pages[i].base + Len(pages[i].data)
  BY DEF IsPages, PageEnd
<1>2. p.base <= pages[n].base /\ PageEnd(pages[n]) <= AfterNext /\ AfterNext \in Nat
  <2>1. PageEnd(pages[n]) <= AfterNext /\ AfterNext \in Nat
    BY AfterNextFacts
  <2>2. it \in DOMAIN pages /\ n \in DOMAIN pages /\ it <= n
    BY <1>1
  <2> QED
    BY <2>1, <2>2 DEF Ascending
<1>3. /\ p.base \in Nat /\ p.data \in Seq(ToSet(p.data)) /\ Len(p.data) \in Nat
      /\ pages[n].base \in Nat /\ Len(pages[n].data) \in Nat
      /\ PageEnd(p) = p.base + Len(p.data)
      /\ PageEnd(pages[n]) = pages[n].base + Len(pages[n].data)
  BY <1>1
<1>4. c \in 0 .. Len(p.data) /\ p.base + c = pages[n].base
  BY <1>2, <1>3
<1>5. /\ first.data \in Seq(ToSet(first.data)) /\ first.base = p.base
      /\ first.data = SubSeq(p.data, 1, c)
      /\ Len(first.data) = c /\ PageEnd(first) = pages[n].base
      /\ \A a \in 1 .. c : a \in 1 .. Len(p.data) /\ first.data[a] = p.data[a]
  <2>1. PICK one, k : one = 1 /\ k = c
    OBVIOUS
  <2>2. /\ one \in 1 .. Len(p.data) + 1 /\ k \in one - 1 .. Len(p.data)
        /\ k - one + 1 = c /\ (\A a \in Nat : one + a - 1 = a)
    BY <1>3, <1>4, <2>1
  <2> DEFINE r == Page(p.base, SubSeq(p.data, one, k))
             d == p.data
  <2>3. /\ r.base = p.base /\ r.data \in Seq(ToSet(r.data))
        /\ Len(r.data) = k - one + 1 /\ PageEnd(r) = p.base + (k - one + 1)
        /\ \A a \in 1 .. k - one + 1 : r.data[a] = p.data[one + a - 1]
    <3>1. d \in Seq(ToSet(d)) /\ p.base \in Nat /\ r = Page(p.base, SubSeq(d, one, k))
      BY <1>3
    <3> HIDE DEF p, r
    <3>2. IsPart(r, p.base, d, one, k)
      BY <2>2, <3>1, SubPage
    <3> QED
      BY <3>2 DEF IsPart
  <2>4. first = r /\ r.data = SubSeq(p.data, 1, c)
    BY <2>1 DEF Page
  <2>5. \A a \in 1 .. c : a \in 1 .. Len(p.data)
    BY <1>3, <1>4
  <2> HIDE DEF r, first, c, p
  <2> QED
    BY <1>4, <2>2, <2>3, <2>4, <2>5
<1> HIDE DEF first, c
<1>6. /\ IsPages(cut) /\ Ascending(cut) /\ Len(cut) = L /\ cut[it] = first
      /\ \A i \in 1 .. L : i # it => cut[i] = pages[i]
  <2> DEFINE d == SubSeq(p.data, 1, c)
  <2>1. first = Page(pages[it].base, d) /\ d \in Seq(ToSet(d)) /\ cut = [pages EXCEPT ![it].data = d]
    <3>1. d \in Seq(ToSet(d)) /\ first = Page(pages[it].base, d)
      BY <1>5 DEF first
    <3>2. cut = [pages EXCEPT ![it].data = d]
      OBVIOUS
    <3> QED
      BY <3>1, <3>2
  <2> HIDE DEF d, cut
  <2>2. IsReplaced(cut, pages, it, d)
    BY <2>1, ReplacePage
  <2> QED
    BY <2>1, <2>2 DEF IsReplaced
<1> HIDE DEF cut
<1>7. CASE PageEnd(p) <= AfterNext
  <2>1. q = cut
    <3>1. ~ (PageEnd(This) > PageEnd(NextPage) /\ PageEnd(This) > AfterNext)
      BY <1>2, <1>3, <1>7 DEF This, NextPage
    <3> QED
      BY <3>1 DEF WithoutOverlap, cut, c, This, NextPage
  <2>2. DOMAIN cut = 1 .. L
    BY <1>6 DEF IsPages
  <2>3. ~ (PageEnd(p) > AfterNext)
    BY <1>2, <1>3, <1>7
  <2>4. n # it
    BY <1>1
  <2> HIDE DEF q, p
  <2> QED
    BY <1>1, <1>5, <1>6, <2>1, <2>2, <2>3, <2>4 DEF q, p
<1>8. CASE PageEnd(p) > AfterNext
  <2>1. q = Insert(cut, tail)
    <3>1. PageEnd(This) > PageEnd(NextPage) /\ PageEnd(This) > AfterNext
      BY <1>2, <1>3, <1>8 DEF This, NextPage
    <3> QED
      BY <3>1 DEF WithoutOverlap, cut, c, This, NextPage
  <2>2. /\ tail.base = AfterNext /\ tail.data \in Seq(ToSet(tail.data)) /\ tail = Page(AfterNext, tail.data)
        /\ PageEnd(tail) = PageEnd(p)
        /\ \A a \in 1 .. Len(tail.data) :
              /\ AfterNext - p.base + a \in 1 .. Len(p.data)
              /\ tail.data[a] = p.data[AfterNext - p.base + a]
    <3>1. PICK m, l, b, e : m = a0 /\ l = Len(p.data) /\ b = p.base /\ e = AfterNext
      OBVIOUS
    <3>2. /\ m \in 1 .. l + 1 /\ l \in m - 1 .. l
          /\ \A a \in Nat : m + a - 1 = e - b + a
          /\ e + (l - m + 1) = b + l
          /\ \A a \in 1 .. l - m + 1 : e - b + a \in 1 .. l
      <4>1. b \in Nat /\ e \in Nat /\ l \in Nat /\ b <= e /\ e < b + l /\ m = e - b + 1
        <5>1. p.base <= AfterNext /\ AfterNext < p.base + Len(p.data)
          BY <1>2, <1>3, <1>8
        <5> HIDE DEF p
        <5> QED
          BY <1>2, <1>3, <3>1, <5>1
      <4> QED
        BY ONLY <4>1
    <3>3. /\ tail.base = e /\ tail.data \in Seq(ToSet(tail.data))
          /\ Len(tail.data) = l - m + 1 /\ PageEnd(tail) = e + (l - m + 1)
          /\ \A a \in 1 .. l - m + 1 : tail.data[a] = p.data[m + a - 1]
      <4>1. tail = Page(e, SubSeq(p.data, m, l))
        BY <3>1
      <4>2. e \in Nat /\ m \in 1 .. Len(p.data) + 1 /\ l \in m - 1 .. Len(p.data)
        BY <1>2, <3>1, <3>2
      <4> HIDE DEF tail, p
      <4>3. IsPart(tail, e, p.data, m, l)
        BY <1>3, <4>1, <4>2, SubPage
      <4> QED
        BY <4>3 DEF IsPart
    <3>4. tail = Page(AfterNext, tail.data)
      BY DEF Page
    <3>5. PageEnd(p) = b + l
      BY <1>3, <3>1
    <3>6. \A a \in 1 .. l - m + 1 : a \in Nat
      BY <3>2
    <3> HIDE DEF tail, p, a0
    <3>7. \A a \in 1 .. Len(tail.data) : e - b + a \in 1 .. l /\ tail.data[a] = p.data[e - b + a]
      <4> TAKE a \in 1 .. Len(tail.data)
      <4>1. a \in 1 .. l - m + 1
        BY <3>3
      <4>2. m + a - 1 = e - b + a
        BY <3>2, <3>6, <4>1
      <4>3. tail.data[a] = p.data[m + a - 1]
        BY <3>3, <4>1
      <4> QED
        BY <3>2, <4>1, <4>2, <4>3
    <3> QED
      BY <3>1, <3>2, <3>3, <3>4, <3>5, <3>7
  <2> HIDE DEF tail, p, q
  <2>3. PICK k \in 0 .. L :
           /\ IsPages(q) /\ Ascending(q) /\ Len(q) = L + 1
           /\ \A i \in 1 .. k : q[i] = cut[i] /\ cut[i].base <= AfterNext
           /\ q[k + 1] = tail
           /\ \A i \in k + 1 .. L : q[i + 1] = cut[i] /\ cut[i].base > AfterNext
    <3> DEFINE d == tail.data
    <3>1. /\ d \in Seq(ToSet(d)) /\ q = Insert(cut, Page(AfterNext, d)) /\ tail = Page(AfterNext, d)
          /\ AfterNext \in Nat /\ IsPages(cut) /\ Ascending(cut)
      BY <1>2, <1>6, <2>1, <2>2
    <3> HIDE DEF d
    <3>2. /\ IsPages(q) /\ Ascending(q) /\ Len(q) = Len(cut) + 1
          /\ \E k \in 0 .. Len(cut) :
                /\ \A i \in 1 .. k : q[i] = cut[i] /\ cut[i].base <= AfterNext
                /\ q[k + 1] = tail
                /\ \A i \in k + 1 .. Len(cut) : q[i + 1] = cut[i] /\ cut[i].base > AfterNext
      <4>1. IsInserted(q, cut, Page(AfterNext, d))
        BY <3>1, InsertFacts
      <4>2. tail.base = AfterNext
        BY <2>2
      <4> QED
        BY <3>1, <4>1, <4>2 DEF IsInserted
    <3>3. Len(cut) = L
      BY <1>6
    <3> HIDE DEF L
    <3> QED
      BY <3>2, <3>3
  <2>4. n <= k
    <3>1. cut[n] = pages[n] /\ pages[n].base <= AfterNext
      BY <1>1, <1>2, <1>3, <1>6
    <3>2. ~ (cut[n].base > AfterNext)
      BY <1>2, <1>3, <3>1
    <3>3. n \notin k + 1 .. L
      BY <2>3, <3>2
    <3> QED
      BY <1>1, <2>3, <3>3
  <2>5. /\ L \in Nat /\ k \in Nat /\ k <= L /\ it \in Nat /\ n \in Nat /\ it >= 1 /\ n <= k /\ n = it + 1
        /\ DOMAIN q = 1 .. L + 1 /\ DOMAIN pages = 1 .. L
    BY <1>1, <2>3, <2>4 DEF IsPages
  <2>6. \A i \in 1 .. k : i # it => q[i] = pages[i]
    <3> TAKE i \in 1 .. k
    <3>1. i \in 1 .. L
      BY <2>5
    <3> QED
      BY <1>6, <2>3, <3>1
  <2>6a. \A i \in k + 1 .. L : q[i + 1] = pages[i]
    <3> TAKE i \in k + 1 .. L
    <3>1. i \in 1 .. L /\ i # it
      BY <2>5
    <3> QED
      BY <1>6, <2>3, <3>1
  <2> HIDE DEF L
  <2>7. \A j \in DOMAIN pages \ {it} : \E i \in DOMAIN q \ {it} : q[i] = pages[j]
    <3> TAKE j \in DOMAIN pages \ {it}
    <3>0. j \in 1 .. L /\ j # it
      BY <2>5
    <3>1. CASE j <= k
      <4>1. j \in 1 .. k /\ j \in 1 .. L + 1
        BY ONLY <2>5, <3>0, <3>1
      <4> QED
        BY <2>5, <2>6, <3>0, <4>1
    <3>2. CASE j > k
      <4>1. PICK i : i = j + 1
        OBVIOUS
      <4>2. j \in k + 1 .. L /\ i \in 1 .. L + 1 /\ i # it
        BY ONLY <2>5, <3>0, <3>2, <4>1
      <4>3. q[i] = pages[j]
        BY <2>6a, <4>1, <4>2
      <4> QED
        BY <2>5, <4>2, <4>3
    <3> QED
      BY <2>5, <3>0, <3>1, <3>2
  <2>8. k + 1 \in DOMAIN q \ {it}
    BY <2>5
  <2>9. \A i \in DOMAIN q \ {it} : q[i] = tail \/ \E j \in DOMAIN pages \ {it} : q[i] = pages[j]
    <3> TAKE i \in DOMAIN q \ {it}
    <3>0. i \in 1 .. L + 1 /\ i # it
      BY <2>5
    <3>1. CASE i <= k
      <4>1. i \in 1 .. k /\ i \in 1 .. L
        BY ONLY <2>5, <3>0, <3>1
      <4> QED
        BY <2>5, <2>6, <3>0, <4>1
    <3>2. CASE i = k + 1
      BY <2>3, <3>2
    <3>3. CASE i > k + 1
      <4>1. PICK j : j = i - 1
        OBVIOUS
      <4>2. j \in k + 1 .. L /\ j + 1 = i /\ j \in 1 .. L /\ j # it
        BY ONLY <2>5, <3>0, <3>3, <4>1
      <4>3. q[i] = pages[j]
        BY <2>6a, <4>2
      <4> QED
        BY <2>5, <4>2, <4>3
    <3> QED
      BY <2>5, <3>0, <3>1, <3>2, <3>3
  <2>10. q[it] = first /\ q[n] = pages[n]
    <3>1. it \in 1 .. k /\ n \in 1 .. k /\ n # it
      BY ONLY <2>5
    <3> QED
      BY <1>6, <2>3, <2>6, <3>1
  <2>11. \A i \in 1 .. L : i < it => q[i] = pages[i]
    <3> TAKE i \in 1 .. L
    <3> HAVE i < it
    <3>1. i \in 1 .. k /\ i # it
      BY <2>5
    <3> QED
      BY <2>6, <3>1
  <2>12. /\ IsPages(q) /\ Ascending(q) /\ L <= Len(q)
    BY <2>3, <2>5
  <2>13. \E i \in DOMAIN q \ {it} : q[i].base = AfterNext /\ PageEnd(q[i]) = PageEnd(p)
    BY <2>2, <2>3, <2>8
  <2>14. p.base <= AfterNext
    BY <1>2, <1>3
  <2> QED
    BY <1>5, <2>2, <2>7, <2>9, <2>10, <2>11, <2>12, <2>13, <2>14 DEF p, q, L
<1>9. PageEnd(p) <= AfterNext \/ PageEnd(p) > AfterNext
  BY <1>2, <1>3
<1> QED
  BY <1>7, <1>8, <1>9

-----------------------------------------------------------------------------
(* The pages a layout begins with                                          *)

(* Pages, numbered by any numbers.                                         *)
ArePages(list) ==
    /\ IsFiniteSet(DOMAIN list) /\ DOMAIN list \subseteq Nat
    /\ \A i \in DOMAIN list : /\ list[i] = Page(list[i].base, list[i].data)
                              /\ list[i].base \in Nat
                              /\ list[i].data \in Seq(ToSet(list[i].data))

SamePages(q, list) ==
    /\ \A i \in DOMAIN q : \E j \in DOMAIN list : q[i] = list[j]
    /\ \A j \in DOMAIN list : \E i \in DOMAIN q : q[i] = list[j]

(* A multimap is sorted, and has the pages of the list, no others.         *)
LEMMA MultimapFacts ==
    ASSUME NEW list, ArePages(list), NEW q, q = Multimap(list)
    PROVE  IsPages(q) /\ Ascending(q) /\ SamePages(q, list)
<1> DEFINE S == DOMAIN list
           Less(j, i) == \/ list[j].base < list[i].base
                         \/ list[j].base = list[i].base /\ j < i
           R == {r \in S \X S : Less(r[1], r[2])}
           Rank(i) == Cardinality({j \in S : <<j, i>> \in R})
           N == Cardinality(S)
           At(n) == CHOOSE i \in S : Rank(i) = n - 1
<1>1. /\ IsFiniteSet(S) /\ N \in Nat
      /\ \A i \in S : i \in Nat /\ list[i].base \in Nat
  BY FS_CardinalityType DEF ArePages
<1>2. \A i, j \in S : <<i, j>> \in R <=> Less(i, j)
  OBVIOUS
<1>3. /\ \A x \in S : <<x, x>> \notin R
      /\ \A x, y, z \in S : <<x, y>> \in R /\ <<y, z>> \in R => <<x, z>> \in R
      /\ \A x, y \in S : x = y \/ <<x, y>> \in R \/ <<y, x>> \in R
  <2> HIDE DEF R
  <2>1. \A x \in S : <<x, x>> \notin R
    BY <1>1, <1>2
  <2>2. \A x, y, z \in S : <<x, y>> \in R /\ <<y, z>> \in R => <<x, z>> \in R
    BY <1>1, <1>2
  <2>3. \A x, y \in S : x = y \/ <<x, y>> \in R \/ <<y, x>> \in R
    <3> TAKE x, y \in S
    <3>1. PICK b, c : b = list[x].base /\ c = list[y].base
      OBVIOUS
    <3>2. x \in Nat /\ y \in Nat /\ b \in Nat /\ c \in Nat
      BY <1>1, <3>1
    <3>3. x = y \/ (b < c \/ (b = c /\ x < y)) \/ (c < b \/ (c = b /\ y < x))
      BY ONLY <3>2
    <3> QED
      BY <1>2, <3>1, <3>3
  <2> QED
    BY <2>1, <2>2, <2>3
<1>4. q = [n \in 1 .. N |-> list[At(n)]]
  <2>1. \A i \in S : {j \in S : <<j, i>> \in R} = {j \in S : Less(j, i)}
    BY <1>2
  <2>2. \A i \in S, n \in Nat : Rank(i) = n - 1 <=> Cardinality({j \in S : Less(j, i)}) = n - 1
    BY <2>1
  <2> DEFINE C(n) == CHOOSE i \in S : Cardinality({j \in S : Less(j, i)}) = n - 1
  <2>3. \A n \in Nat : At(n) = C(n)
    <3> HIDE DEF Rank
    <3> QED
      BY <2>2
  <2>4. q = [n \in 1 .. N |-> list[C(n)]]
    BY DEF Multimap
  <2>5. \A n \in 1 .. N : n \in Nat
    BY <1>1
  <2> HIDE DEF At, S, N, Less, C
  <2> QED
    BY ONLY <2>3, <2>4, <2>5
<1> HIDE DEF R
<1>5. /\ \A x \in S : Rank(x) \in 0 .. N - 1
      /\ \A x, y \in S : <<x, y>> \in R <=> Rank(x) < Rank(y)
      /\ \A n \in 0 .. N - 1 : \E x \in S : Rank(x) = n
  <2> HIDE DEF S
  <2> QED
    BY <1>1, <1>3, Ranks, Zenon
<1> HIDE DEF Rank
<1>6. \A n \in 1 .. N : At(n) \in S /\ Rank(At(n)) = n - 1
  <2> TAKE n \in 1 .. N
  <2>1. PICK m : m = n - 1
    OBVIOUS
  <2>2. m \in 0 .. N - 1
    BY <1>1, <2>1
  <2>3. \E i \in S : Rank(i) = n - 1
    BY <1>5, <2>1, <2>2
  <2> HIDE DEF S
  <2> QED
    BY <2>3
<1> HIDE DEF At
<1>7. DOMAIN q = 1 .. N /\ \A n \in 1 .. N : q[n] = list[At(n)]
  BY <1>4
<1>8. \A j \in S : \E i \in 1 .. N : q[i] = list[j]
  <2> TAKE j \in S
  <2>1. PICK r : r = Rank(j)
    OBVIOUS
  <2>2. PICK i : i = r + 1
    OBVIOUS
  <2>3. r \in 0 .. N - 1 /\ i \in 1 .. N /\ i - 1 = r
    BY <1>1, <1>5, <2>1, <2>2
  <2>4. At(i) \in S /\ Rank(At(i)) = Rank(j)
    BY <1>6, <2>1, <2>3
  <2>5. At(i) = j
    <3>1. ~ (Rank(At(i)) < Rank(j)) /\ ~ (Rank(j) < Rank(At(i)))
      BY <2>1, <2>3, <2>4
    <3> QED
      BY <1>3, <1>5, <2>4, <3>1
  <2> QED
    BY <1>7, <2>3, <2>5
<1>9. SamePages(q, list)
  BY <1>6, <1>7, <1>8 DEF SamePages
<1>10. Ascending(q)
  <2> SUFFICES ASSUME NEW m \in 1 .. N, NEW n \in 1 .. N, m <= n
               PROVE  q[m].base <= q[n].base
    BY <1>7 DEF Ascending
  <2>1. CASE m = n
    BY <1>1, <1>6, <1>7, <2>1
  <2>2. CASE m < n
    <3>1. Rank(At(m)) < Rank(At(n))
      BY <1>6, <2>2
    <3>2. At(m) \in S /\ At(n) \in S /\ Less(At(m), At(n))
      BY <1>2, <1>5, <1>6, <3>1
    <3>3. list[At(m)].base <= list[At(n)].base
      BY <1>1, <3>2
    <3> QED
      BY <1>7, <3>3
  <2> QED
    BY <2>1, <2>2
<1>11. IsPages(q)
  <2>1. q \in Seq(ToSet(q))
    <3>1. \A i \in 1 .. N : q[i] \in ToSet(q)
      BY <1>7 DEF ToSet
    <3>2. PICK B : B = ToSet(q)
      OBVIOUS
    <3>3. q = [n \in 1 .. N |-> q[n]]
      BY <1>4, <1>7
    <3>4. q \in Seq(B)
      BY ONLY <1>1, <3>1, <3>2, <3>3
    <3> QED
      BY <3>2, <3>4
  <2>2. \A i \in 1 .. N : /\ q[i] = Page(q[i].base, q[i].data) /\ q[i].base \in Nat
                          /\ q[i].data \in Seq(ToSet(q[i].data))
    BY <1>6, <1>7 DEF ArePages
  <2> QED
    BY <1>7, <2>1, <2>2 DEF IsPages
<1> QED
  BY <1>9, <1>10, <1>11

(* The pages of a map, in the order of its iterator.                       *)
PagesOf(q, map) ==
    /\ \A i \in DOMAIN q : q[i].base \in DOMAIN map /\ q[i] = Page(q[i].base, map[q[i].base])
    /\ \A b \in DOMAIN map : \E i \in DOMAIN q : q[i] = Page(b, map[b])

(* InOrder lists the pages of a map in the order of their bases, each one  *)
(* once.                                                                   *)
LEMMA InOrderFacts ==
    ASSUME NEW map, IsMemory(map), NEW q, q = InOrder(map)
    PROVE  IsPages(q) /\ PagesOf(q, map)
<1> DEFINE S == DOMAIN map
           R == {r \in S \X S : r[1] < r[2]}
           Rank(b) == Cardinality({c \in S : <<c, b>> \in R})
           N == Cardinality(S)
           At(n) == CHOOSE b \in S : Rank(b) = n - 1
<1>1. IsFiniteSet(S) /\ N \in Nat /\ \A b \in S : b \in Nat
  BY FS_CardinalityType DEF IsMemory
<1>2. \A b, c \in S : <<b, c>> \in R <=> b < c
  OBVIOUS
<1>3. /\ \A x \in S : <<x, x>> \notin R
      /\ \A x, y, z \in S : <<x, y>> \in R /\ <<y, z>> \in R => <<x, z>> \in R
      /\ \A x, y \in S : x = y \/ <<x, y>> \in R \/ <<y, x>> \in R
  <2> HIDE DEF R
  <2> QED
    BY <1>1, <1>2
<1>4. q = [n \in 1 .. N |-> Page(At(n), map[At(n)])]
  <2>1. \A b \in S : {c \in S : <<c, b>> \in R} = {c \in S : c < b}
    BY <1>2
  <2>2. \A b \in S, n \in Nat : Rank(b) = n - 1 <=> Cardinality({c \in S : c < b}) = n - 1
    BY <2>1
  <2> DEFINE C(n) == CHOOSE b \in S : Cardinality({c \in S : c < b}) = n - 1
  <2>3. \A n \in Nat : At(n) = C(n)
    <3> HIDE DEF Rank
    <3> QED
      BY <2>2
  <2>4. q = [n \in 1 .. N |-> Page(C(n), map[C(n)])]
    BY DEF InOrder
  <2>5. \A n \in 1 .. N : n \in Nat
    BY <1>1
  <2> HIDE DEF At, N, C
  <2> QED
    BY ONLY <2>3, <2>4, <2>5
<1> HIDE DEF R
<1>5. /\ \A x \in S : Rank(x) \in 0 .. N - 1
      /\ \A x, y \in S : <<x, y>> \in R <=> Rank(x) < Rank(y)
      /\ \A n \in 0 .. N - 1 : \E x \in S : Rank(x) = n
  <2> HIDE DEF S
  <2> QED
    BY <1>1, <1>3, Ranks, Zenon
<1> HIDE DEF Rank
<1>6. \A n \in 1 .. N : At(n) \in S /\ Rank(At(n)) = n - 1
  <2> TAKE n \in 1 .. N
  <2>1. PICK m : m = n - 1
    OBVIOUS
  <2>2. m \in 0 .. N - 1
    BY <1>1, <2>1
  <2>3. \E i \in S : Rank(i) = n - 1
    BY <1>5, <2>1, <2>2
  <2> HIDE DEF S
  <2> QED
    BY <2>3
<1> HIDE DEF At
<1>7. /\ DOMAIN q = 1 .. N
      /\ \A n \in 1 .. N : q[n] = Page(At(n), map[At(n)]) /\ q[n].base = At(n) /\ q[n].data = map[At(n)]
  BY <1>4 DEF Page
<1>8. \A b \in S : \E i \in 1 .. N : q[i] = Page(b, map[b])
  <2> TAKE b \in S
  <2>1. PICK r : r = Rank(b)
    OBVIOUS
  <2>2. PICK i : i = r + 1
    OBVIOUS
  <2>3. r \in 0 .. N - 1 /\ i \in 1 .. N /\ i - 1 = r
    BY <1>1, <1>5, <2>1, <2>2
  <2>4. At(i) \in S /\ Rank(At(i)) = Rank(b)
    BY <1>6, <2>1, <2>3
  <2>5. At(i) = b
    <3>1. ~ (Rank(At(i)) < Rank(b)) /\ ~ (Rank(b) < Rank(At(i)))
      BY <2>1, <2>3, <2>4
    <3> QED
      BY <1>3, <1>5, <2>4, <3>1
  <2> QED
    BY <1>7, <2>3, <2>5
<1>9. PagesOf(q, map)
  BY <1>6, <1>7, <1>8 DEF PagesOf
<1>10. IsPages(q)
  <2>1. q \in Seq(ToSet(q))
    <3>1. \A i \in 1 .. N : q[i] \in ToSet(q)
      BY <1>7 DEF ToSet
    <3>2. PICK B : B = ToSet(q)
      OBVIOUS
    <3>3. q = [n \in 1 .. N |-> q[n]]
      BY <1>4, <1>7
    <3>4. q \in Seq(B)
      BY ONLY <1>1, <3>1, <3>2, <3>3
    <3> QED
      BY <3>2, <3>4
  <2>2. \A i \in 1 .. N : /\ q[i] = Page(q[i].base, q[i].data) /\ q[i].base \in Nat
                          /\ q[i].data \in Seq(ToSet(q[i].data))
    <3> TAKE i \in 1 .. N
    <3>1. At(i) \in S /\ map[At(i)] \in Seq(ToSet(map[At(i)]))
      BY <1>6 DEF IsMemory
    <3> QED
      BY <1>1, <1>7, <3>1
  <2> QED
    BY <1>7, <2>1, <2>2 DEF IsPages
<1> QED
  BY <1>9, <1>10

IsSegment(s) == s.vaddr \in Nat /\ s.memsz \in Nat

(* The page of a segment: a cell for each address of it.                   *)
IsPageOf(p, k, s) ==
    /\ p = Page(p.base, p.data) /\ p.base \in Nat /\ p.base = Offset(k) + s.vaddr
    /\ p.data \in Seq(ToSet(p.data)) /\ Len(p.data) = s.memsz
    /\ PageEnd(p) = p.base + s.memsz
    /\ \A i \in 1 .. s.memsz : p.data[i] = SegmentCell(k, s, s.vaddr + i - 1)

(* Offsets are numbers.                                                    *)
LEMMA OffsetIsNat ==
    ASSUME NEW k \in Nat
    PROVE  Offset(k) \in Nat
BY ElfLoaderAssumption DEF Offset

(* The page of a segment has its cells where the segment has them.         *)
LEMMA SegmentPageFacts ==
    ASSUME NEW k \in Nat, NEW s, IsSegment(s)
    PROVE  IsPageOf(SegmentPage(k, s), k, s)
<1> DEFINE d == [i \in 1 .. s.memsz |-> SegmentCell(k, s, s.vaddr + i - 1)]
           p == SegmentPage(k, s)
<1>1. p = Page(Offset(k) + s.vaddr, d)
  BY DEF SegmentPage
<1>2. d \in Seq(ToSet(d)) /\ Len(d) = s.memsz
  <2>1. PICK m : m = s.memsz
    OBVIOUS
  <2>2. m \in Nat /\ d = [i \in 1 .. m |-> d[i]] /\ \A i \in 1 .. m : d[i] \in ToSet(d)
    BY <2>1 DEF IsSegment, ToSet
  <2>3. PICK B : B = ToSet(d)
    OBVIOUS
  <2> HIDE DEF d
  <2>4. d \in Seq(B) /\ Len(d) = m
    BY ONLY <2>2, <2>3
  <2> QED
    BY <2>1, <2>3, <2>4
<1>3. \A i \in 1 .. s.memsz : d[i] = SegmentCell(k, s, s.vaddr + i - 1)
  OBVIOUS
<1>4. Offset(k) + s.vaddr \in Nat
  BY OffsetIsNat DEF IsSegment
<1> HIDE DEF d, p
<1>5. p.base = Offset(k) + s.vaddr /\ p.data = d /\ p = Page(p.base, p.data)
  BY <1>1 DEF Page
<1>6. PageEnd(p) = p.base + s.memsz
  BY <1>2, <1>5 DEF PageEnd
<1>7. IsPageOf(p, k, s)
  BY <1>2, <1>3, <1>4, <1>5, <1>6 DEF IsPageOf
<1> QED
  BY <1>7 DEF p

(* The pages for the stack and for TLS.                                    *)
LEMMA ZeroPage ==
    ASSUME NEW b \in Nat, NEW n \in Nat
    PROVE  LET p == Page(b, [i \in 1 .. n |-> Zero]) IN
           /\ p = Page(p.base, p.data) /\ p.base = b
           /\ p.data \in Seq(ToSet(p.data)) /\ Len(p.data) = n /\ PageEnd(p) = b + n
           /\ \A i \in 1 .. n : p.data[i] = Zero
<1> DEFINE d == [i \in 1 .. n |-> Zero]
           p == Page(b, d)
<1>1. d \in Seq(ToSet(d)) /\ Len(d) = n /\ \A i \in 1 .. n : d[i] = Zero
  <2>1. d \in Seq({Zero})
    OBVIOUS
  <2>2. Len(d) = n /\ \A i \in 1 .. n : d[i] = Zero
    OBVIOUS
  <2> HIDE DEF d
  <2> QED
    BY <2>1, <2>2, SeqOfItsElements
<1> HIDE DEF d
<1>2. p.base = b /\ p.data = d /\ p = Page(p.base, p.data)
  BY DEF Page
<1> HIDE DEF p
<1>3. PageEnd(p) = b + n
  BY <1>1, <1>2 DEF PageEnd
<1> QED
  BY <1>1, <1>2, <1>3 DEF p, d

(* What g_pages has before fix_pages: the segments of the file, and with   *)
(* the executable the pages of the dependencies, the stack and TLS.        *)
StackPage == Page(StackAddr, [i \in 1 .. StackSize |-> Zero])
TlsPage   == Page(TlsAddr, [i \in 1 .. TlsSize |-> Zero])

IsLayout(q, k, others) ==
    /\ IsPages(q) /\ Ascending(q)
    /\ \A i \in DOMAIN q : \/ \E s \in Segments(k) : q[i] = SegmentPage(k, s)
                           \/ k = 0 /\ \E b \in DOMAIN others : q[i] = Page(b, others[b])
                           \/ k = 0 /\ q[i] \in {StackPage, TlsPage}
    /\ \A s \in Segments(k) : \E i \in DOMAIN q : q[i] = SegmentPage(k, s)
    /\ k = 0 => \A b \in DOMAIN others : \E i \in DOMAIN q : q[i] = Page(b, others[b])

AreSegments(k) ==
    /\ File(k).segments \in Seq(ToSet(File(k).segments))
    /\ \A s \in ToSet(File(k).segments) : IsSegment(s)

(* The pages a file has of its own are those of its segments.              *)
LEMMA OwnPagesFacts ==
    ASSUME NEW k \in Nat, AreSegments(k)
    PROVE  /\ ArePages(OwnPages(k))
           /\ \A i \in DOMAIN OwnPages(k) : \E s \in Segments(k) : OwnPages(k)[i] = SegmentPage(k, s)
           /\ \A s \in Segments(k) : \E i \in DOMAIN OwnPages(k) : OwnPages(k)[i] = SegmentPage(k, s)
<1> DEFINE list == OwnPages(k)
           T == Taken(k)
           segs == File(k).segments
<1>1. DOMAIN list = T /\ \A i \in T : list[i] = SegmentPage(k, segs[i])
  BY DEF OwnPages
<1>2. T \subseteq 1 .. Len(segs) /\ Len(segs) \in Nat
  BY DEF Taken, AreSegments
<1>3. IsFiniteSet(T) /\ T \subseteq Nat
  <2>1. IsFiniteSet(1 .. Len(segs))
    <3>1. PICK a, b : a = 1 /\ b = Len(segs)
      OBVIOUS
    <3>2. a \in Int /\ b \in Int
      BY <1>2, <3>1
    <3> QED
      BY <3>1, <3>2, FS_Interval
  <2>2. T \subseteq Nat
    <3> HIDE DEF T
    <3> QED
      BY <1>2
  <2>3. PICK B : B = 1 .. Len(segs)
    OBVIOUS
  <2>4. IsFiniteSet(B) /\ T \in SUBSET B
    BY <1>2, <2>1, <2>3
  <2> HIDE DEF T
  <2> QED
    BY <2>2, <2>4, FS_Subset
<1>4. \A i \in T : segs[i] \in Segments(k) /\ segs[i] \in ToSet(segs) /\ IsSegment(segs[i])
  <2> TAKE i \in T
  <2>1. segs[i] \in Segments(k)
    BY DEF Segments
  <2>2. i \in DOMAIN segs
    BY DEF Taken
  <2>3. segs[i] \in ToSet(segs)
    BY <2>2 DEF ToSet
  <2> QED
    BY <2>1, <2>3 DEF AreSegments
<1>5. \A s \in Segments(k) : \E i \in T : s = segs[i]
  BY DEF Segments
<1> HIDE DEF list, T, segs
<1>6. \A i \in T : /\ list[i] = Page(list[i].base, list[i].data)
                   /\ list[i].base \in Nat
                   /\ list[i].data \in Seq(ToSet(list[i].data))
  <2> TAKE i \in T
  <2>1. IsPageOf(list[i], k, segs[i])
    BY <1>1, <1>4, SegmentPageFacts
  <2> QED
    BY <2>1 DEF IsPageOf
<1>7. ArePages(list)
  BY <1>1, <1>3, <1>6 DEF ArePages
<1> QED
  BY <1>1, <1>4, <1>5, <1>7 DEF list

(* What g_pages returns, for the executable and for a dependency.          *)
LEMMA g_pagesFacts ==
    ASSUME NEW k \in Nat, AreSegments(k), NEW others, IsMemory(others)
    PROVE  IsLayout(g_pages(k, others), k, others)
<1> DEFINE q == g_pages(k, others)
           own == OwnPages(k)
           rest == InOrder(others)
           two == StackAndTls
<1>1. /\ ArePages(own)
      /\ \A i \in DOMAIN own : \E s \in Segments(k) : own[i] = SegmentPage(k, s)
      /\ \A s \in Segments(k) : \E i \in DOMAIN own : own[i] = SegmentPage(k, s)
  BY OwnPagesFacts
<1>2. CASE k > 0
  <2>1. q = Multimap(own)
    BY <1>2 DEF g_pages
  <2> HIDE DEF q, own
  <2>2. IsPages(q) /\ Ascending(q) /\ SamePages(q, own)
    BY <1>1, <2>1, MultimapFacts
  <2>3. IsLayout(q, k, others)
    BY <1>1, <1>2, <2>2 DEF IsLayout, SamePages
  <2> QED
    BY <2>3 DEF q
<1>3. CASE k = 0
  <2> DEFINE list == own \o rest \o two
             A == ToSet(own) \cup ToSet(rest) \cup ToSet(two)
  <2>1. q = Multimap(list)
    BY <1>3 DEF g_pages
  <2>2. own \in Seq(ToSet(own))
    <3> DEFINE segs == File(k).segments
    <3>1. segs \in Seq(ToSet(segs)) /\ Len(segs) \in Nat
      BY DEF AreSegments
    <3>2. own = [i \in DOMAIN segs |-> SegmentPage(k, segs[i])]
      <4>1. Taken(k) = DOMAIN segs
        BY <1>3 DEF Taken
      <4> QED
        BY <4>1 DEF OwnPages
    <3>3. PICK n : n = Len(segs)
      OBVIOUS
    <3>4. PICK B : B = ToSet(own)
      OBVIOUS
    <3>5. own = [i \in 1 .. n |-> SegmentPage(k, segs[i])] /\ n \in Nat
      BY <3>1, <3>2, <3>3
    <3> HIDE DEF own, segs
    <3>6. own = [i \in 1 .. n |-> own[i]] /\ \A i \in 1 .. n : own[i] \in ToSet(own)
      BY <3>5 DEF ToSet
    <3>7. own \in Seq(B)
      BY ONLY <3>4, <3>5, <3>6
    <3> QED
      BY <3>4, <3>7
  <2>3. IsPages(rest) /\ PagesOf(rest, others)
    BY InOrderFacts
  <2>4. two = <<StackPage, TlsPage>>
    BY DEF StackAndTls, StackPage, TlsPage
  <2> HIDE DEF q, own, rest, two
  <2>5. two \in Seq(ToSet(two)) /\ Len(two) = 2 /\ two[1] = StackPage /\ two[2] = TlsPage
    <3>1. two \in Seq({StackPage, TlsPage}) /\ Len(two) = 2 /\ two[1] = StackPage /\ two[2] = TlsPage
      BY <2>4
    <3> QED
      BY <3>1, SeqOfItsElements
  <2>6. own \in Seq(A) /\ rest \in Seq(A) /\ two \in Seq(A)
    <3>1. rest \in Seq(ToSet(rest))
      BY <2>3 DEF IsPages
    <3>2. ToSet(own) \subseteq A /\ ToSet(rest) \subseteq A /\ ToSet(two) \subseteq A
      OBVIOUS
    <3> HIDE DEF A
    <3> QED
      BY <2>2, <2>5, <3>1, <3>2
  <2> HIDE DEF A
  <2>7. /\ list \in Seq(A)
        /\ ToSet(list) = ToSet(own) \cup ToSet(rest) \cup ToSet(two)
    <3>1. own \o rest \in Seq(A) /\ ToSet(own \o rest) = ToSet(own) \cup ToSet(rest)
      BY <2>6, ToSetOfConcat, ConcatElements
    <3> DEFINE first == own \o rest
    <3>2. list = first \o two
      OBVIOUS
    <3> HIDE DEF first, list
    <3>3. ToSet(first \o two) = ToSet(first) \cup ToSet(two) /\ first \o two \in Seq(A)
      <4>1. first \in Seq(A) /\ two \in Seq(A)
        BY <2>6, <3>1 DEF first
      <4> QED
        BY ONLY <4>1, ToSetOfConcat, ConcatElements
    <3> QED
      BY <3>1, <3>2, <3>3 DEF first
  <2> HIDE DEF list
  <2>8. \A p : p \in ToSet(list) <=> \E i \in DOMAIN list : list[i] = p
    BY <2>7 DEF ToSet
  <2>9. \A p : p \in ToSet(own) <=> \E i \in DOMAIN own : own[i] = p
    BY DEF ToSet
  <2>10. \A p : p \in ToSet(rest) <=> \E i \in DOMAIN rest : rest[i] = p
    BY DEF ToSet
  <2>11. ToSet(two) = {StackPage, TlsPage}
    <3>1. DOMAIN two = {1, 2}
      BY <2>4
    <3> QED
      BY <2>5, <3>1 DEF ToSet
  <2> DEFINE Good(p) == /\ p = Page(p.base, p.data) /\ p.base \in Nat
                        /\ p.data \in Seq(ToSet(p.data))
  <2>12. \A p \in ToSet(list) : Good(p)
    <3>1. \A p \in ToSet(own) : Good(p)
      BY <1>1, <2>9 DEF ArePages
    <3>2. \A p \in ToSet(rest) : Good(p)
      BY <2>3, <2>10 DEF IsPages
    <3>3. Good(StackPage) /\ Good(TlsPage)
      BY ZeroPage, ElfLoaderAssumption DEF StackPage, TlsPage
    <3> HIDE DEF Good
    <3> QED
      BY <2>7, <2>11, <3>1, <3>2, <3>3
  <2>13. ArePages(list)
    <3>1. DOMAIN list = 1 .. Len(list) /\ Len(list) \in Nat
      BY <2>7
    <3>2. IsFiniteSet(1 .. Len(list))
      <4>1. PICK a, b : a = 1 /\ b = Len(list)
        OBVIOUS
      <4>2. a \in Int /\ b \in Int
        BY <3>1, <4>1
      <4> QED
        BY <4>1, <4>2, FS_Interval
    <3>3. 1 .. Len(list) \subseteq Nat
      BY <3>1
    <3>4. \A i \in DOMAIN list : Good(list[i])
      BY <2>8, <2>12
    <3> QED
      BY <3>1, <3>2, <3>3, <3>4 DEF ArePages
  <2>14. IsPages(q) /\ Ascending(q) /\ SamePages(q, list)
    BY <2>1, <2>13, MultimapFacts
  <2>15. \A i \in DOMAIN q : q[i] \in ToSet(list)
    BY <2>8, <2>14 DEF SamePages
  <2>16. \A p \in ToSet(list) : \E i \in DOMAIN q : q[i] = p
    BY <2>8, <2>14 DEF SamePages
  <2>17. \A p \in ToSet(rest) : \E b \in DOMAIN others : p = Page(b, others[b])
    BY <2>3, <2>10 DEF PagesOf
  <2>18. \A b \in DOMAIN others : Page(b, others[b]) \in ToSet(rest)
    BY <2>3, <2>10 DEF PagesOf
  <2>19. \A s \in Segments(k) : SegmentPage(k, s) \in ToSet(own)
    BY <1>1, <2>9
  <2>20. \A p \in ToSet(own) : \E s \in Segments(k) : p = SegmentPage(k, s)
    BY <1>1, <2>9
  <2>21. IsLayout(q, k, others)
    BY <1>3, <2>7, <2>11, <2>14, <2>15, <2>16, <2>17, <2>18, <2>19, <2>20 DEF IsLayout
  <2> QED
    BY <2>21 DEF q
<1> QED
  BY <1>2, <1>3

-----------------------------------------------------------------------------
(* The files                                                               *)

(* The files are those of one of the cases.                                *)
IsCase == \E c \in Cases : program = c.program

LEMMA InitIsCase == Init => IsCase
BY DEF Init, ElfInit, IsCase

(* No step changes the files that exist.                                   *)
LEMMA NextIsCase == IsCase /\ [Next]_loaderVars => IsCase'
<1> SUFFICES ASSUME IsCase, [Next]_loaderVars PROVE program' = program
  BY DEF IsCase
<1>1. CASE LoadDependencies
  BY <1>1 DEF LoadDependencies, LoadDependency, DropLoaded, MissingDependency
<1> QED
  BY <1>1, OtherSteps

(* No more files are loaded than there are.                                *)
LEMMA LoadedAreFew ==
    ASSUME IsCase, WorkListIInv
    PROVE  Len(loaded) \in Nat /\ Len(loaded) <= Cardinality(DOMAIN program)
<1> DEFINE n == Len(loaded)
<1>1. loaded \in Seq(FileNames(program)) /\ IsInjective(loaded) /\ ToSet(loaded) \subseteq DOMAIN program
  BY DEF WorkListIInv
<1>2. n \in Nat /\ DOMAIN loaded = 1 .. n /\ loaded = [i \in 1 .. n |-> loaded[i]]
  BY <1>1
<1>3. IsFiniteSet(DOMAIN program)
  BY LoadersAssumption DEF IsCase
<1>4. loaded \in [1 .. n -> DOMAIN program]
  BY <1>1, <1>2 DEF ToSet
<1>5. \A i, j \in 1 .. n : loaded[i] = loaded[j] => i = j
  BY <1>1, <1>2 DEF IsInjective
<1>6. PICK S, T, f : S = 1 .. n /\ T = DOMAIN program /\ f = loaded
  OBVIOUS
<1>7. f \in Injection(S, T)
  BY <1>4, <1>5, <1>6 DEF Injection, IsInjective
<1>8. Cardinality(S) <= Cardinality(T)
  BY <1>3, <1>6, <1>7, FS_Injection
<1>9. Cardinality(S) = n
  <2>1. Cardinality(1 .. n) = n
    BY <1>2, FS_Interval
  <2> QED
    BY <1>6, <2>1
<1> QED
  BY <1>2, <1>6, <1>8, <1>9

(* A file that is loaded exists.                                           *)
LEMMA FileExists ==
    ASSUME WorkListIInv, NEW k \in FilesLoaded
    PROVE  \E f \in DOMAIN program : File(k) = program[f]
<1>1. CASE k = 0
  BY <1>1 DEF File, WorkListIInv
<1>2. CASE k # 0
  <2>1. k \in DOMAIN loaded
    BY <1>2 DEF WorkListIInv, FilesLoaded
  <2>2. loaded[k] \in DOMAIN program
    BY <2>1 DEF WorkListIInv, ToSet
  <2> QED
    BY <1>2, <2>2 DEF File
<1> QED
  BY <1>1, <1>2

(* The segments of the files loaded.                                       *)
Apart(k, s) ==
    /\ IsSegment(s) /\ s.vaddr + s.memsz < DepAdd
    /\ \/ Offset(k) + s.vaddr + s.memsz <= TlsAddr
       \/ Offset(k) + s.vaddr >= StackAddr + StackSize

(* Segments of the files that are loaded are where FilesAreApart says.     *)
LEMMA SegmentsAreApart ==
    ASSUME FilesAreApart, IsCase, WorkListIInv, NEW k \in FilesLoaded
    PROVE  /\ k \in Nat /\ AreSegments(k)
           /\ \A s \in Segments(k) : Apart(k, s)
<1>1. /\ k \in Nat /\ k <= Len(loaded) /\ Len(loaded) \in Nat
      /\ k \in 0 .. Cardinality(DOMAIN program)
  <2>1. PICK l, c : l = Len(loaded) /\ c = Cardinality(DOMAIN program)
    OBVIOUS
  <2>2. l \in Nat /\ l <= c /\ k \in 0 .. l /\ c \in Nat
    <3>1. IsFiniteSet(DOMAIN program)
      BY LoadersAssumption DEF IsCase
    <3> QED
      BY <2>1, <3>1, LoadedAreFew, FS_CardinalityType DEF FilesLoaded
  <2>3. k \in Nat /\ k <= l /\ k \in 0 .. c
    BY ONLY <2>2
  <2> QED
    BY <2>1, <2>2, <2>3
<1>2. PICK f \in DOMAIN program : File(k) = program[f]
  BY FileExists
<1>3. PICK c \in Cases : program = c.program
  BY DEF IsCase
<1>4. PICK R : R = [vaddr : Nat, filesz : Nat, memsz : Nat, null : BOOLEAN]
  OBVIOUS
<1>5. File(k).segments \in Seq(R)
  BY <1>2, <1>3, <1>4, LoadersAssumption
<1>6. File(k).segments \in Seq(ToSet(File(k).segments)) /\ ToSet(File(k).segments) \subseteq R
  <2>1. PICK s : s = File(k).segments
    OBVIOUS
  <2>2. s \in Seq(R)
    BY <1>5, <2>1
  <2>3. s \in Seq(ToSet(s)) /\ ToSet(s) \subseteq R
    BY <2>2, SeqOfItsElements, ToSetMembers
  <2> QED
    BY <2>1, <2>3
<1>7. \A s \in R : IsSegment(s)
  BY <1>4 DEF IsSegment
<1>8. \A s \in ToSet(File(k).segments) : Apart(k, s)
  BY <1>1, <1>2, <1>3, <1>6, <1>7 DEF FilesAreApart, Apart
<1>9. AreSegments(k)
  BY <1>6, <1>7 DEF AreSegments
<1>10. Segments(k) \subseteq ToSet(File(k).segments)
  BY DEF Segments, Taken, ToSet
<1> QED
  BY <1>1, <1>8, <1>9, <1>10

(* Where a layout begins.                                                  *)
LEMMA LayoutStarts ==
    ASSUME FilesAreApart, IsCase, WorkListIInv, NEW k \in FilesLoaded,
           NEW others, IsMemory(others),
           \A b \in DOMAIN others : OutsideTls(b) /\ OutsideTls(b + Len(others[b])),
           NEW q, q = g_pages(k, others)
    PROVE  /\ IsLayout(q, k, others) /\ IsPages(q) /\ Ascending(q)
           /\ \A i \in DOMAIN q : OutsideTls(q[i].base) /\ OutsideTls(PageEnd(q[i]))
           /\ k = 0 => DOMAIN others \subseteq {q[i].base : i \in DOMAIN q}
<1>1. k \in Nat /\ AreSegments(k) /\ \A s \in Segments(k) : Apart(k, s)
  BY SegmentsAreApart
<1>2. IsLayout(q, k, others)
  BY <1>1, g_pagesFacts
<1>3. /\ {TlsAddr, TlsSize, StackAddr, StackSize} \subseteq Nat /\ TlsAddr + TlsSize <= StackAddr
      /\ Offset(k) \in Nat
  BY <1>1, ElfLoaderAssumption, OffsetIsNat DEF FilesAreApart
<1>4. ASSUME NEW s \in Segments(k)
      PROVE  LET p == SegmentPage(k, s) IN OutsideTls(p.base) /\ OutsideTls(PageEnd(p))
  <2> DEFINE p == SegmentPage(k, s)
  <2>1. Apart(k, s) /\ IsPageOf(p, k, s)
    BY <1>1, SegmentPageFacts DEF Apart
  <2> HIDE DEF p
  <2>2. PICK v, m, o : v = s.vaddr /\ m = s.memsz /\ o = Offset(k)
    OBVIOUS
  <2>3. p.base = o + v /\ PageEnd(p) = o + v + m /\ v \in Nat /\ m \in Nat /\ o \in Nat
    BY <1>3, <2>1, <2>2 DEF IsPageOf, Apart, IsSegment
  <2>4. o + v + m <= TlsAddr \/ o + v >= StackAddr + StackSize
    BY <2>1, <2>2 DEF Apart
  <2>5. OutsideTls(o + v) /\ OutsideTls(o + v + m)
    BY ONLY <1>3, <2>3, <2>4 DEF OutsideTls
  <2>6. OutsideTls(p.base) /\ OutsideTls(PageEnd(p))
    BY <2>3, <2>5
  <2> QED
    BY <2>6 DEF p
<1>5. ASSUME NEW b \in DOMAIN others
      PROVE  LET p == Page(b, others[b]) IN
             p.base = b /\ OutsideTls(p.base) /\ OutsideTls(PageEnd(p))
  BY DEF Page, PageEnd
<1>6. ASSUME NEW p \in {StackPage, TlsPage}
      PROVE  OutsideTls(p.base) /\ OutsideTls(PageEnd(p))
  <2>1. /\ StackPage.base = StackAddr /\ PageEnd(StackPage) = StackAddr + StackSize
        /\ TlsPage.base = TlsAddr /\ PageEnd(TlsPage) = TlsAddr + TlsSize
    BY <1>3, ZeroPage DEF StackPage, TlsPage
  <2>2. /\ OutsideTls(StackAddr) /\ OutsideTls(StackAddr + StackSize)
        /\ OutsideTls(TlsAddr) /\ OutsideTls(TlsAddr + TlsSize)
    BY <1>3 DEF OutsideTls
  <2> QED
    BY <2>1, <2>2
<1>7. \A i \in DOMAIN q : OutsideTls(q[i].base) /\ OutsideTls(PageEnd(q[i]))
  <2> TAKE i \in DOMAIN q
  <2> QED
    BY <1>2, <1>4, <1>5, <1>6 DEF IsLayout
<1>8. k = 0 => DOMAIN others \subseteq {q[i].base : i \in DOMAIN q}
  BY <1>2, <1>5 DEF IsLayout
<1> QED
  BY <1>2, <1>7, <1>8 DEF IsLayout

-----------------------------------------------------------------------------
(* The first loop of fix_pages                                             *)

(* Nothing is laid out at the start.                                       *)
LEMMA InitLayoutIInv == Init => LayoutIInv
<1> SUFFICES ASSUME Init PROVE LayoutIInv
  OBVIOUS
<1>1. /\ pages = <<>> /\ it = 1 /\ file = 0 /\ loaded = <<>> /\ stage = "dependencies"
      /\ fixed = [x \in {} |-> x]
  BY DEF Init, ElfInit, None
<1>2. IsPages(pages) /\ Ascending(pages)
  BY <1>1 DEF IsPages, Ascending
<1>3. DOMAIN fixed = {} /\ IsMemory(fixed)
  <2>1. DOMAIN fixed = {} /\ IsFiniteSet({})
    BY <1>1, FS_EmptySet
  <2> QED
    BY <1>1, <2>1 DEF IsMemory
<1>4. file \in FilesLoaded /\ ~ LaidOut
  BY <1>1 DEF FilesLoaded, LaidOut
<1>5. DOMAIN pages = {}
  BY <1>1
<1> QED
  BY <1>1, <1>2, <1>3, <1>4, <1>5 DEF LayoutIInv

(* The first layout begins.                                                *)
LEMMA DependenciesEndLayoutIInv ==
    ASSUME FilesAreApart, IsCase, WorkListIInv, LayoutIInv, DependenciesEnd
    PROVE  LayoutIInv'
<1>1. PICK k : k = IF loaded = <<>> THEN 0 ELSE 1
  OBVIOUS
<1>2. /\ stage' = "walk" /\ file' = k /\ pages' = g_pages(k, None) /\ it' = 1
      /\ UNCHANGED <<loaded, fixed, program>> /\ stage = "dependencies"
  BY <1>1 DEF DependenciesEnd, Layout
<1>3. k \in FilesLoaded
  <2>1. loaded \in Seq(FileNames(program))
    BY DEF WorkListIInv
  <2> QED
    BY <1>1, <2>1 DEF FilesLoaded
<1>4. DOMAIN fixed = {} /\ IsMemory(fixed)
  BY <1>2 DEF LayoutIInv
<1>5. DOMAIN None = {} /\ IsMemory(None)
  BY <1>4, FS_EmptySet DEF IsMemory, None
<1>6. PICK q : q = g_pages(k, None)
  OBVIOUS
<1>7. /\ IsPages(q) /\ Ascending(q)
      /\ \A i \in DOMAIN q : OutsideTls(q[i].base) /\ OutsideTls(PageEnd(q[i]))
  <2>1. \A b \in DOMAIN None : OutsideTls(b) /\ OutsideTls(b + Len(None[b]))
    BY <1>5
  <2> HIDE DEF None
  <2> QED
    BY <1>3, <1>5, <1>6, <2>1, LayoutStarts
<1>8. pages' = q
  BY <1>2, <1>6
<1>9. IsPages(pages)' /\ Ascending(pages)'
  BY <1>7, <1>8 DEF IsPages, Ascending
<1>10. IsMemory(fixed)' /\ DOMAIN fixed' = {}
  BY <1>2, <1>4 DEF IsMemory
<1>11. file' \in FilesLoaded'
  BY <1>2, <1>3 DEF FilesLoaded
<1>12. ~ LaidOut'
  BY <1>2 DEF LaidOut
<1>13. 1 .. it' - 1 = {}
  BY <1>2
<1> QED
  BY <1>2, <1>7, <1>8, <1>9, <1>10, <1>11, <1>12, <1>13 DEF LayoutIInv

(* The next layout begins, or the memory is complete.                      *)
LEMMA EraseEndLayoutIInv ==
    ASSUME FilesAreApart, IsCase, WorkListIInv, LayoutIInv, EraseEnd
    PROVE  LayoutIInv'
<1>1. UNCHANGED <<loaded, fixed, program>> /\ stage = "erase"
  BY DEF EraseEnd
<1>2. /\ IsMemory(fixed) /\ IsMemory(fixed)'
      /\ \A b \in DOMAIN fixed : OutsideTls(b) /\ OutsideTls(b + Len(fixed[b]))
      /\ file \in FilesLoaded
  BY <1>1 DEF LayoutIInv, IsMemory
<1>3. CASE file = 0
  <2>1. stage' = "relocate" /\ it' = 1 /\ UNCHANGED <<file, pages>>
    BY <1>3 DEF EraseEnd
  <2>2. NoOverlap(fixed)'
    BY <1>1, <1>3 DEF LayoutIInv, NoOverlap
  <2>3. IsPages(pages)' /\ Ascending(pages)' /\ file' \in FilesLoaded'
    BY <1>1, <2>1 DEF LayoutIInv, IsPages, Ascending, FilesLoaded
  <2> QED
    BY <1>1, <1>2, <2>1, <2>2, <2>3 DEF LayoutIInv
<1>4. CASE file # 0
  <2>1. PICK k : k = IF file < Len(loaded) THEN file + 1 ELSE 0
    OBVIOUS
  <2>2. stage' = "walk" /\ file' = k /\ pages' = g_pages(k, fixed) /\ it' = 1
    BY <1>4, <2>1 DEF EraseEnd, Layout
  <2>3. k \in FilesLoaded
    <3>1. PICK l : l = Len(loaded)
      OBVIOUS
    <3>2. l \in Nat /\ file \in 0 .. l
      BY <1>2, <3>1, LoadedAreFew DEF FilesLoaded
    <3>3. k \in 0 .. l
      BY <2>1, <3>1, <3>2
    <3> QED
      BY <3>1, <3>3 DEF FilesLoaded
  <2>4. PICK q : q = g_pages(k, fixed)
    OBVIOUS
  <2>5. /\ IsPages(q) /\ Ascending(q)
        /\ \A i \in DOMAIN q : OutsideTls(q[i].base) /\ OutsideTls(PageEnd(q[i]))
        /\ k = 0 => DOMAIN fixed \subseteq {q[i].base : i \in DOMAIN q}
    BY <1>2, <2>3, <2>4, LayoutStarts
  <2>6. pages' = q
    BY <2>2, <2>4
  <2>7. IsPages(pages)' /\ Ascending(pages)'
    BY <2>5, <2>6 DEF IsPages, Ascending
  <2>8. file' \in FilesLoaded'
    BY <1>1, <2>2, <2>3 DEF FilesLoaded
  <2>9. ~ LaidOut'
    BY <2>2 DEF LaidOut
  <2>10. 1 .. it' - 1 = {}
    BY <2>2
  <2> QED
    BY <1>1, <1>2, <2>2, <2>5, <2>6, <2>7, <2>8, <2>9, <2>10 DEF LayoutIInv
<1> QED
  BY <1>3, <1>4

(* A step of the first loop: the page at the iterator is cut where the     *)
(* next one begins, and the pages before it stay as they are.              *)
LEMMA FixPageLayoutIInv ==
    ASSUME LayoutIInv, FixPage
    PROVE  LayoutIInv'
<1> DEFINE L == Len(pages)
<1>1. PICK n : n = it + 1
  OBVIOUS
<1>2. /\ stage = "walk" /\ it' = n /\ it < L
      /\ UNCHANGED <<stage, program, loaded, file, fixed>>
      /\ pages' = IF PageEnd(pages[it]) > pages[n].base THEN WithoutOverlap ELSE pages
  BY <1>1 DEF FixPage, AtPage, This, NextPage
<1>3. /\ IsPages(pages) /\ Ascending(pages) /\ it \in Nat /\ it > 0
      /\ \A i \in 1 .. it - 1 : EndsAtNext(pages, i)
      /\ \A i \in DOMAIN pages : OutsideTls(pages[i].base) /\ OutsideTls(PageEnd(pages[i]))
  BY <1>2 DEF LayoutIInv
<1>4. /\ L \in Nat /\ DOMAIN pages = 1 .. L /\ it \in 1 .. L /\ n \in 1 .. L /\ n # it
      /\ \A i \in 1 .. L : pages[i].base \in Nat /\ PageEnd(pages[i]) \in Nat
  BY <1>1, <1>2, <1>3 DEF IsPages, PageEnd
<1> DEFINE q == pages'
<1>5. /\ IsPages(q) /\ Ascending(q) /\ L <= Len(q)
      /\ \A i \in 1 .. L : i < it => q[i] = pages[i]
      /\ q[n] = pages[n] /\ q[it].base = pages[it].base
      /\ PageEnd(q[it]) <= pages[n].base
      /\ \A j \in DOMAIN pages \ {it} : \E i \in DOMAIN q \ {it} : q[i] = pages[j]
      /\ \A i \in DOMAIN q : OutsideTls(q[i].base) /\ OutsideTls(PageEnd(q[i]))
  <2>1. CASE PageEnd(pages[it]) > pages[n].base
    <3>1. q = WithoutOverlap
      BY <1>2, <2>1
    <3> HIDE DEF q, L
    <3>2. /\ IsPages(q) /\ Ascending(q) /\ Len(pages) <= Len(q)
          /\ \A i \in 1 .. Len(pages) : i < it => q[i] = pages[i]
          /\ q[n] = pages[n]
          /\ q[it].base = pages[it].base /\ PageEnd(q[it]) = pages[n].base
          /\ \A j \in DOMAIN pages \ {it} : \E i \in DOMAIN q \ {it} : q[i] = pages[j]
          /\ \A i \in DOMAIN q \ {it} :
                 \/ \E j \in DOMAIN pages \ {it} : q[i] = pages[j]
                 \/ q[i].base = AfterNext /\ PageEnd(q[i]) = PageEnd(pages[it])
      BY <1>1, <1>3, <1>4, <2>1, <3>1, WithoutOverlapFacts DEF L
    <3>3. OutsideTls(AfterNext)
      <4>1. \E i \in DOMAIN pages \ {it} : AfterNext = PageEnd(pages[i])
        BY <1>1, <1>3, <1>4, AfterNextFacts DEF L
      <4> QED
        BY <1>3, <4>1
    <3>4. \A i \in DOMAIN q : OutsideTls(q[i].base) /\ OutsideTls(PageEnd(q[i]))
      <4> TAKE i \in DOMAIN q
      <4>1. CASE i = it
        BY <1>3, <1>4, <3>2, <4>1
      <4>2. CASE i # it
        <5>1. i \in DOMAIN q \ {it}
          BY <4>2
        <5>2. CASE \E j \in DOMAIN pages \ {it} : q[i] = pages[j]
          BY <1>3, <5>2
        <5>3. CASE q[i].base = AfterNext /\ PageEnd(q[i]) = PageEnd(pages[it])
          BY <1>3, <1>4, <3>3, <5>3
        <5> QED
          BY <3>2, <5>1, <5>2, <5>3
      <4> QED
        BY <4>1, <4>2
    <3>5. PageEnd(q[it]) <= pages[n].base
      BY <1>4, <3>2
    <3> QED
      BY <3>2, <3>4, <3>5 DEF L
  <2>2. CASE ~ (PageEnd(pages[it]) > pages[n].base)
    <3>1. q = pages
      BY <1>2, <2>2
    <3>2. PageEnd(pages[it]) <= pages[n].base
      BY <1>4, <2>2
    <3> HIDE DEF q
    <3> QED
      BY <1>3, <1>4, <3>1, <3>2
  <2> QED
    BY <2>1, <2>2
<1>6. IsPages(pages)' /\ Ascending(pages)'
  BY <1>5 DEF IsPages, Ascending
<1>7. \A i \in 1 .. it : EndsAtNext(q, i)
  <2> TAKE i \in 1 .. it
  <2> HIDE DEF q
  <2>1. CASE i = it
    BY <1>1, <1>5, <2>1 DEF EndsAtNext
  <2>2. CASE i < it
    <3>1. PICK j : j = i + 1
      OBVIOUS
    <3>2. i \in 1 .. it - 1 /\ i \in 1 .. L /\ j \in 1 .. L /\ i < L /\ (j = it \/ j < it)
      BY <1>2, <1>4, <2>2, <3>1
    <3>3. PageEnd(pages[i]) <= pages[j].base
      BY <1>3, <3>1, <3>2 DEF EndsAtNext
    <3>4. q[i] = pages[i] /\ q[j].base = pages[j].base
      BY <1>5, <2>2, <3>2
    <3> QED
      BY <3>1, <3>3, <3>4 DEF EndsAtNext
  <2> QED
    BY <1>4, <2>1, <2>2
<1>8. \A i \in 1 .. it' - 1 : EndsAtNext(pages, i)'
  <2> TAKE i \in 1 .. it' - 1
  <2>1. i \in 1 .. it
    BY <1>1, <1>2, <1>4
  <2> QED
    BY <1>7, <2>1 DEF EndsAtNext
<1>9. file = 0 => DOMAIN fixed \subseteq {q[i].base : i \in DOMAIN q}
  <2> SUFFICES ASSUME file = 0, NEW b \in DOMAIN fixed
               PROVE  \E i \in DOMAIN q : q[i].base = b
    OBVIOUS
  <2>1. PICK j \in DOMAIN pages : pages[j].base = b
    BY <1>2 DEF LayoutIInv
  <2>2. it \in DOMAIN q
    <3>1. DOMAIN q = 1 .. Len(q) /\ Len(q) \in Nat
      BY <1>5 DEF IsPages
    <3> HIDE DEF q, L
    <3> QED
      BY <1>4, <1>5, <3>1
  <2> HIDE DEF q
  <2> QED
    BY <1>5, <2>1, <2>2
<1>10. /\ IsMemory(fixed)' /\ file' \in FilesLoaded' /\ ~ LaidOut'
       /\ \A b \in DOMAIN fixed' : OutsideTls(b) /\ OutsideTls(b + Len(fixed'[b]))
  BY <1>2 DEF LayoutIInv, IsMemory, FilesLoaded, LaidOut
<1>11. it' \in Nat /\ it' > 0
  BY <1>1, <1>2, <1>4
<1> QED
  BY <1>2, <1>5, <1>6, <1>8, <1>9, <1>10, <1>11 DEF LayoutIInv

-----------------------------------------------------------------------------
(* The end of the first loop, and the second                               *)

(* Of the pages at one address the last stays.                             *)
LEMMA FinalPagesFacts ==
    ASSUME IsPages(pages)
    PROVE  /\ DOMAIN FinalPages = {pages[i].base : i \in DOMAIN pages}
           /\ DOMAIN FinalPages \in SUBSET Nat /\ IsFiniteSet(DOMAIN FinalPages)
           /\ \A b \in DOMAIN FinalPages : \E i \in DOMAIN pages :
                 /\ pages[i].base = b /\ FinalPages[b] = pages[i].data
                 /\ \A j \in DOMAIN pages : pages[j].base = b => j <= i
<1> DEFINE L == Len(pages)
           B == {pages[i].base : i \in DOMAIN pages}
<1>1. L \in Nat /\ DOMAIN pages = 1 .. L /\ \A i \in 1 .. L : pages[i].base \in Nat
  BY DEF IsPages
<1>2. DOMAIN FinalPages = B /\ B \in SUBSET Nat
  BY <1>1 DEF FinalPages
<1>3. IsFiniteSet(B)
  <2> DEFINE f == [i \in 1 .. L |-> pages[i].base]
  <2>1. f \in Surjection(1 .. L, B)
    BY <1>1 DEF Surjection
  <2>2. IsFiniteSet(1 .. L)
    <3>1. PICK one, l : one = 1 /\ l = L
      OBVIOUS
    <3>2. one \in Int /\ l \in Int
      BY <1>1, <3>1
    <3> QED
      BY <3>1, <3>2, FS_Interval
  <2> HIDE DEF f, B
  <2> QED
    BY <2>1, <2>2, FS_Surjection
<1>4. ASSUME NEW b \in B
      PROVE  \E i \in DOMAIN pages :
                 /\ pages[i].base = b /\ FinalPages[b] = pages[i].data
                 /\ \A j \in DOMAIN pages : pages[j].base = b => j <= i
  <2> DEFINE I == {i \in DOMAIN pages : pages[i].base = b}
  <2>1. I \in SUBSET Nat /\ I # {} /\ \A i \in I : i <= L
    BY <1>1
  <2>2. FinalPages[b] = pages[Max(I)].data
    BY DEF FinalPages
  <2>3. Max(I) \in I /\ \A i \in I : i <= Max(I)
    <3> HIDE DEF I
    <3> QED
      BY <1>1, <2>1, MaxOfNumbers
  <2>4. PICK i : i = Max(I)
    OBVIOUS
  <2> QED
    BY <2>2, <2>3, <2>4
<1> QED
  BY <1>2, <1>3, <1>4

(* A page ends before any later one begins, when each ends before the      *)
(* next.                                                                   *)
LEMMA EndsBefore ==
    ASSUME IsPages(pages), Ascending(pages), \A i \in 1 .. Len(pages) - 1 : EndsAtNext(pages, i),
           NEW i \in DOMAIN pages, NEW j \in DOMAIN pages, i < j
    PROVE  PageEnd(pages[i]) <= pages[j].base
<1>1. /\ Len(pages) \in Nat /\ DOMAIN pages = 1 .. Len(pages)
      /\ \A m \in DOMAIN pages : pages[m].base \in Nat /\ PageEnd(pages[m]) \in Nat
  BY DEF IsPages, PageEnd
<1>2. PICK n : n = i + 1
  OBVIOUS
<1>3. n \in DOMAIN pages /\ n <= j /\ i \in 1 .. Len(pages) - 1 /\ i < Len(pages)
  BY <1>1, <1>2
<1>4. PageEnd(pages[i]) <= pages[n].base
  BY <1>2, <1>3 DEF EndsAtNext
<1>5. pages[n].base <= pages[j].base
  BY <1>3 DEF Ascending
<1> QED
  BY <1>1, <1>3, <1>4, <1>5

(* The least of some numbers is a number.                                  *)
LEMMA LeastIsNat ==
    ASSUME NEW S \in SUBSET Nat, S # {}
    PROVE  Min(S) \in S
<1>1. \E x \in S : \A y \in S : x <= y
  BY LeastNumber
<1> QED
  BY <1>1 DEF Min

(* The first loop is over: the pages that were laid out before the         *)
(* executable are all among its own, so that what is merged does not       *)
(* overlap.                                                                *)
LEMMA WalkEndLayoutIInv ==
    ASSUME LayoutIInv, WalkEnd
    PROVE  LayoutIInv'
<1> DEFINE F == FinalPages
           m == fixed'
<1>1. /\ stage = "walk" /\ stage' = "erase" /\ it = Len(pages)
      /\ UNCHANGED <<loaded, file, pages>>
      /\ m = [b \in DOMAIN F \cup DOMAIN fixed |-> IF b \in DOMAIN F THEN F[b] ELSE fixed[b]]
      /\ it' = Min(DOMAIN F)
  BY DEF WalkEnd
<1>2. /\ IsPages(pages) /\ Ascending(pages) /\ IsMemory(fixed) /\ it \in Nat /\ it > 0
      /\ \A i \in 1 .. it - 1 : EndsAtNext(pages, i)
      /\ file \in FilesLoaded
      /\ file = 0 => DOMAIN fixed \subseteq {pages[i].base : i \in DOMAIN pages}
      /\ \A i \in DOMAIN pages : OutsideTls(pages[i].base) /\ OutsideTls(PageEnd(pages[i]))
      /\ \A b \in DOMAIN fixed : OutsideTls(b) /\ OutsideTls(b + Len(fixed[b]))
  BY <1>1 DEF LayoutIInv
<1>3. /\ DOMAIN F = {pages[i].base : i \in DOMAIN pages}
      /\ DOMAIN F \in SUBSET Nat /\ IsFiniteSet(DOMAIN F)
      /\ \A b \in DOMAIN F : \E i \in DOMAIN pages :
            /\ pages[i].base = b /\ F[b] = pages[i].data
            /\ \A j \in DOMAIN pages : pages[j].base = b => j <= i
  BY <1>2, FinalPagesFacts
<1>4. /\ Len(pages) \in Nat /\ DOMAIN pages = 1 .. Len(pages)
      /\ \A i \in DOMAIN pages : /\ pages[i].base \in Nat /\ PageEnd(pages[i]) \in Nat
                                 /\ PageEnd(pages[i]) = pages[i].base + Len(pages[i].data)
                                 /\ pages[i].data \in Seq(ToSet(pages[i].data))
  BY <1>2 DEF IsPages, PageEnd
<1>5. it' \in Nat
  <2>1. 1 \in DOMAIN pages
    BY <1>1, <1>2, <1>4
  <2>2. DOMAIN F # {}
    BY <1>3, <2>1
  <2>3. PICK S : S = DOMAIN F
    OBVIOUS
  <2>4. Min(S) \in S
    BY <1>3, <2>2, <2>3, LeastIsNat
  <2> HIDE DEF F
  <2> QED
    BY <1>1, <1>3, <2>3, <2>4
<1> HIDE DEF F, m
<1>6. /\ DOMAIN m = DOMAIN F \cup DOMAIN fixed
      /\ \A b \in DOMAIN F : m[b] = F[b]
      /\ \A b \in DOMAIN m \ DOMAIN F : b \in DOMAIN fixed /\ m[b] = fixed[b]
      /\ m = [b \in DOMAIN m |-> m[b]]
  BY <1>1
<1>7. IsMemory(m)
  <2>1. IsFiniteSet(DOMAIN m)
    <3>1. IsFiniteSet(DOMAIN fixed)
      BY <1>2 DEF IsMemory
    <3> QED
      <4>1. PICK S, T : S = DOMAIN F /\ T = DOMAIN fixed
        OBVIOUS
      <4>2. IsFiniteSet(S) /\ IsFiniteSet(T) /\ DOMAIN m = S \cup T
        BY <1>3, <1>6, <3>1, <4>1
      <4>3. IsFiniteSet(S \cup T)
        BY ONLY <4>2, FS_Union
      <4> QED
        BY <4>2, <4>3
  <2>2. \A b \in DOMAIN m : b \in Nat /\ m[b] \in Seq(ToSet(m[b]))
    <3> TAKE b \in DOMAIN m
    <3>1. CASE b \in DOMAIN F
      BY <1>3, <1>4, <1>6, <3>1
    <3>2. CASE b \notin DOMAIN F
      BY <1>2, <1>6, <3>2 DEF IsMemory
    <3> QED
      BY <3>1, <3>2
  <2> QED
    BY <1>6, <2>1, <2>2 DEF IsMemory
<1>8. \A b \in DOMAIN m : OutsideTls(b) /\ OutsideTls(b + Len(m[b]))
  <2> TAKE b \in DOMAIN m
  <2>1. CASE b \in DOMAIN F
    <3>1. PICK i \in DOMAIN pages : pages[i].base = b /\ F[b] = pages[i].data
      BY <1>3, <2>1
    <3>2. PageEnd(pages[i]) = b + Len(m[b])
      BY <1>4, <1>6, <2>1, <3>1
    <3> QED
      BY <1>2, <3>1, <3>2
  <2>2. CASE b \notin DOMAIN F
    BY <1>2, <1>6, <2>2
  <2> QED
    BY <2>1, <2>2
<1>9. file = 0 => NoOverlap(m)
  <2> SUFFICES ASSUME file = 0, NEW b \in DOMAIN m, NEW c \in DOMAIN m, b < c
               PROVE  b + Len(m[b]) <= c
    BY DEF NoOverlap
  <2>1. DOMAIN m = DOMAIN F
    BY <1>2, <1>3, <1>6
  <2>2. PICK i \in DOMAIN pages : pages[i].base = b /\ m[b] = pages[i].data
    <3>1. b \in DOMAIN F /\ m[b] = F[b]
      BY <1>6, <2>1
    <3>2. \E i \in DOMAIN pages : pages[i].base = b /\ F[b] = pages[i].data
      BY <1>3, <3>1
    <3> QED
      BY <3>1, <3>2
  <2>3. PICK j \in DOMAIN pages : pages[j].base = c
    BY <1>3, <2>1
  <2>4. i < j
    <3>1. i \in Nat /\ j \in Nat
      BY <1>4
    <3>2. j <= i => c <= b
      BY <1>2, <2>2, <2>3 DEF Ascending
    <3>3. ~ (j <= i)
      BY <1>4, <2>2, <2>3, <3>2
    <3> QED
      BY <3>1, <3>3
  <2>5. PageEnd(pages[i]) <= pages[j].base
    BY <1>1, <1>2, <2>4, EndsBefore
  <2> QED
    BY <1>4, <2>2, <2>3, <2>5
<1>10. /\ IsPages(pages)' /\ Ascending(pages)' /\ file' \in FilesLoaded' /\ ~ LaidOut'
       /\ \A i \in DOMAIN pages' : OutsideTls(pages'[i].base) /\ OutsideTls(PageEnd(pages'[i]))
  BY <1>1, <1>2 DEF IsPages, Ascending, FilesLoaded, LaidOut
<1>11. IsMemory(fixed)' /\ (file = 0 => NoOverlap(fixed)')
  BY <1>7, <1>9 DEF m, IsMemory, NoOverlap
<1>12. \A b \in DOMAIN fixed' : OutsideTls(b) /\ OutsideTls(b + Len(fixed'[b]))
  BY <1>8 DEF m
<1> QED
  BY <1>1, <1>5, <1>10, <1>11, <1>12 DEF LayoutIInv

(* The loop that erases empty pages.                                       *)
LEMMA EraseLayoutIInv ==
    ASSUME LayoutIInv, KeepFinal \/ EraseEmpty
    PROVE  LayoutIInv'
<1>1. /\ IsPages(pages) /\ Ascending(pages) /\ IsMemory(fixed) /\ it \in Nat /\ file \in FilesLoaded
      /\ stage = "erase" /\ stage' = "erase"
      /\ UNCHANGED <<loaded, file, pages>>
      /\ file = 0 => NoOverlap(fixed)
      /\ \A i \in DOMAIN pages : OutsideTls(pages[i].base) /\ OutsideTls(PageEnd(pages[i]))
      /\ \A b \in DOMAIN fixed : OutsideTls(b) /\ OutsideTls(b + Len(fixed[b]))
  BY DEF LayoutIInv, KeepFinal, EraseEmpty, AtFinal
<1>2. Walked \in SUBSET Nat /\ EndOfFinal \in Nat
  BY <1>1, ElfLoaderAssumption DEF Walked, EndOfFinal, IsPages
<1>3. it' \in Nat
  <2>1. CASE KeepFinal
    <3>1. CASE Beyond(it) = {}
      BY <1>2, <2>1, <3>1 DEF KeepFinal
    <3>2. CASE Beyond(it) # {}
      <4>1. PICK S : S = Beyond(it)
        OBVIOUS
      <4>2. S \in SUBSET Nat /\ S # {}
        BY <1>2, <3>2, <4>1 DEF Beyond
      <4>3. Min(S) \in Nat
        BY <4>2, LeastIsNat
      <4> QED
        BY <2>1, <3>2, <4>1, <4>3 DEF KeepFinal
    <3> QED
      BY <3>1, <3>2
  <2>2. CASE EraseEmpty
    BY <1>2, <2>2 DEF EraseEmpty
  <2> QED
    BY <2>1, <2>2
<1> DEFINE m == fixed'
<1>4. /\ DOMAIN m \subseteq DOMAIN fixed /\ m = [b \in DOMAIN m |-> m[b]]
      /\ \A b \in DOMAIN m : m[b] = fixed[b]
  <2>1. CASE KeepFinal
    <3>1. m = fixed
      BY <2>1 DEF KeepFinal
    <3> QED
      BY <1>1, <3>1 DEF IsMemory
  <2>2. CASE EraseEmpty
    <3>1. m = [b \in DOMAIN fixed \ {it} |-> fixed[b]]
      BY <2>2 DEF EraseEmpty, Restrict
    <3> HIDE DEF m
    <3> QED
      BY <3>1
  <2> QED
    BY <2>1, <2>2
<1>5. IsMemory(fixed)'
  <2>1. IsFiniteSet(DOMAIN m)
    <3>1. IsFiniteSet(DOMAIN fixed)
      BY <1>1 DEF IsMemory
    <3> QED
      BY <1>4, <3>1, FS_Subset
  <2>2. \A b \in DOMAIN m : b \in Nat /\ m[b] \in Seq(ToSet(m[b]))
    BY <1>1, <1>4 DEF IsMemory
  <2> QED
    BY <1>4, <2>1, <2>2 DEF IsMemory
<1>6. file = 0 => NoOverlap(fixed)'
  BY <1>1, <1>4 DEF NoOverlap
<1>7. \A b \in DOMAIN fixed' : OutsideTls(b) /\ OutsideTls(b + Len(fixed'[b]))
  BY <1>1, <1>4
<1>8. /\ IsPages(pages)' /\ Ascending(pages)' /\ file' \in FilesLoaded' /\ ~ LaidOut'
      /\ \A i \in DOMAIN pages' : OutsideTls(pages'[i].base) /\ OutsideTls(PageEnd(pages'[i]))
  BY <1>1 DEF IsPages, Ascending, FilesLoaded, LaidOut
<1> QED
  BY <1>1, <1>3, <1>5, <1>6, <1>7, <1>8 DEF LayoutIInv

-----------------------------------------------------------------------------
(* Relocations and the page for TLS                                        *)

(* The page an address is looked up in.                                    *)
LEMMA CellFacts ==
    ASSUME IsMemory(fixed), NEW a \in Nat, NEW b \in LookedUp(a)
    PROVE  /\ LookedUp(a) = {b} /\ b \in DOMAIN fixed /\ a - b + 1 \in 1 .. Len(fixed[b])
           /\ Cell(a) = fixed[b][a - b + 1]
           /\ \A c : Put(a, c) = [fixed EXCEPT ![b][a - b + 1] = c]
<1>1. /\ b \in DOMAIN fixed /\ b \in Nat /\ Len(fixed[b]) \in Nat /\ b <= a /\ a < b + Len(fixed[b])
      /\ \A c \in DOMAIN fixed : c \in Nat
  BY DEF LookedUp, IsMemory
<1>2. ASSUME NEW c \in LookedUp(a) PROVE c = b
  <2>1. c \in DOMAIN fixed /\ c \in Nat /\ c <= a /\ (c <= b \/ c > a) /\ (b <= c \/ b > a)
    BY <1>1 DEF LookedUp
  <2> QED
    BY <1>1, <2>1
<1>3. LookedUp(a) = {b}
  BY <1>2
<1>4. (CHOOSE c \in LookedUp(a) : TRUE) = b
  BY <1>3
<1> QED
  BY <1>1, <1>3, <1>4 DEF Cell, Put

(* A sequence with one element replaced.                                   *)
IsSet(t, s, n, c) ==
    /\ t \in Seq(ToSet(t)) /\ Len(t) = Len(s)
    /\ \A i \in 1 .. Len(s) : t[i] = IF i = n THEN c ELSE s[i]

(* Setting an element keeps the length and the others.                     *)
LEMMA SetCell ==
    ASSUME NEW s, s \in Seq(ToSet(s)), NEW n, NEW c, NEW t, t = [s EXCEPT ![n] = c]
    PROVE  IsSet(t, s, n, c)
<1>1. PICK A : A = ToSet(s) \cup {c}
  OBVIOUS
<1>2. s \in Seq(A)
  <2>1. ToSet(s) \subseteq A
    BY <1>1
  <2> QED
    BY <2>1
<1>3. t \in Seq(A) /\ Len(t) = Len(s) /\ \A i \in 1 .. Len(s) : t[i] = IF i = n THEN c ELSE s[i]
  <2>1. c \in A
    BY <1>1
  <2> QED
    <3>1. PICK l : l = Len(s)
      OBVIOUS
    <3>2. l \in Nat /\ DOMAIN s = 1 .. l /\ s = [i \in 1 .. l |-> s[i]] /\ \A i \in 1 .. l : s[i] \in A
      BY <1>2, <3>1
    <3>3. t = [i \in 1 .. l |-> IF i = n THEN c ELSE s[i]]
      BY ONLY <3>2, t = [s EXCEPT ![n] = c]
    <3>4. t = [i \in 1 .. l |-> t[i]] /\ \A i \in 1 .. l : t[i] \in A /\ t[i] = IF i = n THEN c ELSE s[i]
      BY ONLY <2>1, <3>2, <3>3
    <3>5. t \in Seq(A) /\ Len(t) = l
      BY ONLY <3>2, <3>4
    <3> QED
      BY <3>1, <3>4, <3>5
<1> QED
  BY <1>3, SeqOfItsElements DEF IsSet

(* Memory that has been written to has the same pages.                     *)
SameShape(m) ==
    /\ IsMemory(m) /\ DOMAIN m = DOMAIN fixed
    /\ \A b \in DOMAIN fixed : Len(m[b]) = Len(fixed[b])

(* A store changes the cell at its address and no other.                   *)
LEMMA PutFacts ==
    ASSUME IsMemory(fixed), NEW a \in Nat, Mapped(a), NEW c, fixed' = Put(a, c)
    PROVE  /\ SameShape(fixed')
           /\ \A x \in Nat : LookedUp(x)' = LookedUp(x)
           /\ \A x \in Nat : Mapped(x) => Cell(x)' = IF x = a THEN c ELSE Cell(x)
<1> DEFINE m == fixed'
<1>1. PICK b : b \in LookedUp(a)
  BY DEF Mapped
<1>2. PICK n : n = a - b + 1
  OBVIOUS
<1>3. /\ b \in DOMAIN fixed /\ n \in 1 .. Len(fixed[b]) /\ b \in Nat
      /\ m = [fixed EXCEPT ![b][n] = c]
  BY <1>1, <1>2, CellFacts DEF IsMemory
<1>4. PICK d : d = [fixed[b] EXCEPT ![n] = c]
  OBVIOUS
<1>5. m = [fixed EXCEPT ![b] = d]
  BY <1>3, <1>4
<1>6. /\ d \in Seq(ToSet(d)) /\ Len(d) = Len(fixed[b])
      /\ \A i \in 1 .. Len(fixed[b]) : d[i] = IF i = n THEN c ELSE fixed[b][i]
  <2>1. fixed[b] \in Seq(ToSet(fixed[b]))
    BY <1>3 DEF IsMemory
  <2>2. PICK s : s = fixed[b]
    OBVIOUS
  <2>3. s \in Seq(ToSet(s)) /\ d = [s EXCEPT ![n] = c]
    BY <1>4, <2>1, <2>2
  <2>4. IsSet(d, s, n, c)
    BY <2>3, SetCell
  <2> QED
    BY <2>2, <2>4 DEF IsSet
<1>7. /\ fixed = [e \in DOMAIN fixed |-> fixed[e]] /\ IsFiniteSet(DOMAIN fixed)
      /\ \A e \in DOMAIN fixed : e \in Nat /\ fixed[e] \in Seq(ToSet(fixed[e]))
  BY DEF IsMemory
<1> HIDE DEF m
<1>8. /\ DOMAIN m = DOMAIN fixed /\ m[b] = d /\ m = [e \in DOMAIN m |-> m[e]]
      /\ \A e \in DOMAIN fixed : e # b => m[e] = fixed[e]
  BY <1>3, <1>5, <1>7
<1>9. \A e \in DOMAIN m : e \in Nat /\ m[e] \in Seq(ToSet(m[e])) /\ Len(m[e]) = Len(fixed[e])
  <2> TAKE e \in DOMAIN m
  <2>1. CASE e = b
    BY <1>3, <1>6, <1>8, <2>1
  <2>2. CASE e # b
    BY <1>7, <1>8, <2>2
  <2> QED
    BY <2>1, <2>2
<1>10. IsMemory(m)
  BY <1>7, <1>8, <1>9 DEF IsMemory
<1>11. SameShape(m)
  BY <1>8, <1>9, <1>10 DEF SameShape
<1>12. \A x \in Nat : LookedUp(x)' = LookedUp(x)
  <2> TAKE x \in Nat
  <2>1. LookedUp(x)' = {e \in DOMAIN m : /\ e <= x /\ x < e + Len(m[e])
                                         /\ \A f \in DOMAIN m : f <= e \/ f > x}
    BY DEF LookedUp, m
  <2> QED
    BY <1>8, <1>9, <2>1 DEF LookedUp
<1>13. ASSUME NEW x \in Nat, Mapped(x)
       PROVE  Cell(x)' = IF x = a THEN c ELSE Cell(x)
  <2>1. PICK e : e \in LookedUp(x)
    BY <1>13 DEF Mapped
  <2>2. PICK i : i = x - e + 1
    OBVIOUS
  <2>3. /\ LookedUp(x) = {e} /\ e \in DOMAIN fixed /\ e \in Nat
        /\ i \in 1 .. Len(fixed[e]) /\ Cell(x) = fixed[e][i]
    BY <1>7, <2>1, <2>2, CellFacts
  <2>4. Cell(x)' = m[e][i]
    <3>1. LookedUp(x)' = {e}
      BY <1>12, <2>3
    <3>2. Cell(x)' = m[CHOOSE f \in LookedUp(x)' : TRUE][x - (CHOOSE f \in LookedUp(x)' : TRUE) + 1]
      BY DEF Cell, m
    <3>3. (CHOOSE f \in LookedUp(x)' : TRUE) = e
      BY <3>1
    <3> QED
      BY <2>2, <3>2, <3>3
  <2>5. CASE e # b
    <3>1. x # a
      BY <1>1, <2>1, <2>3, <2>5
    <3> QED
      BY <1>8, <2>3, <2>4, <2>5, <3>1
  <2>6. CASE e = b
    <3>1. i = n <=> x = a
      BY <1>2, <1>3, <2>2, <2>6
    <3>2. m[e][i] = IF i = n THEN c ELSE fixed[e][i]
      BY <1>6, <1>8, <2>3, <2>6
    <3> QED
      BY <2>3, <2>4, <3>1, <3>2
  <2> QED
    BY <2>5, <2>6
<1> QED
  BY <1>11, <1>12, <1>13 DEF m

(* Stores after the layout keep it.                                        *)
LEMMA SameShapeLayoutIInv ==
    ASSUME LayoutIInv, SameShape(fixed'), UNCHANGED <<loaded, pages>>,
           LaidOut, LaidOut', it' \in Nat, it' > 0, file' \in FilesLoaded
    PROVE  LayoutIInv'
<1>1. /\ stage' \notin {"dependencies", "walk", "erase"}
      /\ IsPages(pages)' /\ Ascending(pages)' /\ file' \in FilesLoaded'
      /\ \A i \in DOMAIN pages' : OutsideTls(pages'[i].base) /\ OutsideTls(PageEnd(pages'[i]))
  BY DEF LayoutIInv, IsPages, Ascending, FilesLoaded, LaidOut
<1>2. IsMemory(fixed)' /\ NoOverlap(fixed)'
  BY DEF LayoutIInv, SameShape, IsMemory, NoOverlap
<1>3. \A b \in DOMAIN fixed' : OutsideTls(b) /\ OutsideTls(b + Len(fixed'[b]))
  BY DEF LayoutIInv, SameShape
<1> QED
  BY <1>1, <1>2, <1>3 DEF LayoutIInv

(* Memory nothing is written to has the same pages.                        *)
LEMMA SameMemory == IsMemory(fixed) /\ fixed' = fixed => SameShape(fixed')
BY DEF SameShape, IsMemory

(* Relocations are numbered, and their places are numbers.                 *)
LEMMA RelocationFacts ==
    ASSUME IsCase, WorkListIInv, NEW k \in FilesLoaded
    PROVE  /\ Len(File(k).relocations) \in Nat
           /\ DOMAIN File(k).relocations = 1 .. Len(File(k).relocations)
           /\ \A i \in DOMAIN File(k).relocations :
                 File(k).relocations[i].at \in Nat /\ Place(k, File(k).relocations[i]) \in Nat
<1>1. k \in Nat /\ k <= Len(loaded) /\ Len(loaded) \in Nat
  BY LoadedAreFew DEF FilesLoaded
<1>2. PICK f \in DOMAIN program : File(k) = program[f]
  BY FileExists
<1>3. PICK c \in Cases : program = c.program
  BY DEF IsCase
<1>4. PICK r : r = File(k).relocations
  OBVIOUS
<1>5. r \in Seq(ToSet(r)) /\ \A x \in ToSet(r) : x.at \in Nat
  BY <1>2, <1>3, <1>4, LoadersAssumption
<1>6. Len(r) \in Nat /\ DOMAIN r = 1 .. Len(r) /\ \A i \in DOMAIN r : r[i].at \in Nat
  BY <1>5 DEF ToSet
<1>7. Offset(k) \in Nat
  BY <1>1, OffsetIsNat
<1> QED
  BY <1>4, <1>6, <1>7 DEF Place

(* What a relocation does to memory: a store, or nothing.                  *)
LEMMA RelocateShape ==
    ASSUME IsCase, WorkListIInv, LayoutIInv, PatchRelocations
    PROVE  SameShape(fixed') /\ pages' = pages
<1>1. IsMemory(fixed) /\ file \in FilesLoaded /\ it \in Nat /\ stage = "relocate" /\ it > 0
  BY DEF LayoutIInv, PatchRelocations, RelocateSymbol, RelocateRelative, RelocateLater, RelocateThrow,
     RelocateDangling, RelocateEnd, AtRelocation
<1>2. CASE RelocateSymbol \/ RelocateRelative
  <2>1. it \in DOMAIN Relocations
    <3>1. it <= Len(Relocations)
      BY <1>2 DEF RelocateSymbol, RelocateRelative, AtRelocation
    <3> QED
      BY <1>1, <3>1, RelocationFacts DEF Relocations
  <2>2. Place(file, Relocation) \in Nat
    BY <1>1, <2>1, RelocationFacts DEF Relocation, Relocations
  <2>3. PICK a, c : a \in Nat /\ Mapped(a) /\ fixed' = Put(a, c)
    BY <1>2, <2>2 DEF RelocateSymbol, RelocateRelative
  <2> QED
    BY <1>1, <1>2, <2>3, PutFacts DEF RelocateSymbol, RelocateRelative
<1>3. CASE RelocateLater \/ RelocateThrow \/ RelocateDangling \/ RelocateEnd
  BY <1>1, <1>3, SameMemory DEF RelocateLater, RelocateThrow, RelocateDangling, RelocateEnd
<1> QED
  BY <1>2, <1>3 DEF PatchRelocations

(* Relocations change no page.                                             *)
LEMMA RelocateLayoutIInv ==
    ASSUME IsCase, WorkListIInv, LayoutIInv, PatchRelocations
    PROVE  LayoutIInv'
<1>1. /\ it \in Nat /\ it > 0 /\ file \in FilesLoaded
      /\ stage = "relocate" /\ LaidOut /\ UNCHANGED <<loaded, pages>>
      /\ stage' \in {"relocate", "tls"} /\ LaidOut'
  BY DEF LayoutIInv, PatchRelocations, RelocateSymbol, RelocateRelative, RelocateLater, RelocateThrow,
     RelocateDangling, RelocateEnd, AtRelocation, LaidOut
<1>2. PICK l : l = Len(loaded)
  OBVIOUS
<1>3. l \in Nat /\ file \in 0 .. l
  BY <1>1, <1>2, LoadedAreFew DEF FilesLoaded
<1>4. /\ it' \in {1, it, it + 1}
      /\ file' = file \/ (file < l /\ file' = file + 1)
  BY <1>2 DEF PatchRelocations, RelocateSymbol, RelocateRelative, RelocateLater, RelocateThrow,
     RelocateDangling, RelocateEnd
<1>5. it' \in Nat /\ it' > 0 /\ file' \in 0 .. l
  BY <1>1, <1>3, <1>4
<1> QED
  BY <1>1, <1>2, <1>5, RelocateShape, SameShapeLayoutIInv DEF FilesLoaded

(* The page for TLS as CopyTls writes it.                                  *)
LEMMA TlsImageFacts ==
    ASSUME NEW k
    PROVE  TlsImage(k) \in Seq(ToSet(TlsImage(k))) /\ Len(TlsImage(k)) = TlsSize
<1> DEFINE t == TlsImage(k)
<1>1. t = [i \in 1 .. TlsSize |-> t[i]]
  BY DEF TlsImage
<1> HIDE DEF t
<1>2. TlsSize \in Nat
  BY ElfLoaderAssumption
<1>3. PICK A : A = {t[i] : i \in 1 .. TlsSize}
  OBVIOUS
<1>4. \A i \in 1 .. TlsSize : t[i] \in A
  BY <1>3
<1>5. t \in Seq(A) /\ Len(t) = TlsSize
  BY ONLY <1>1, <1>2, <1>4
<1>6. t \in Seq(ToSet(t)) /\ Len(t) = TlsSize
  BY <1>5, SeqOfItsElements
<1> QED
  BY <1>6 DEF t

(* The page for TLS is written as a whole: it may get another length, but  *)
(* no other page begins or ends where it is.                               *)
LEMMA CopyTlsLayoutIInv ==
    ASSUME LayoutIInv, CopyTls
    PROVE  LayoutIInv'
<1> DEFINE t == TlsImage(Min(HaveTdata))
<1>1. /\ stage = "tls" /\ stage' = "loaded" /\ LaidOut /\ LaidOut'
      /\ UNCHANGED <<loaded, file, pages, it>>
      /\ fixed' = fixed \/ fixed' = [fixed EXCEPT ![TlsAddr] = t]
  BY DEF CopyTls, LaidOut
<1>2. TlsAddr \in Nat /\ TlsSize \in Nat
  BY ElfLoaderAssumption
<1>3. t \in Seq(ToSet(t)) /\ Len(t) = TlsSize
  BY TlsImageFacts
<1> HIDE DEF t
<1>4. /\ IsMemory(fixed) /\ NoOverlap(fixed) /\ it \in Nat /\ file \in FilesLoaded
      /\ IsPages(pages) /\ Ascending(pages)
      /\ \A i \in DOMAIN pages : OutsideTls(pages[i].base) /\ OutsideTls(PageEnd(pages[i]))
      /\ \A b \in DOMAIN fixed : OutsideTls(b) /\ OutsideTls(b + Len(fixed[b]))
  BY <1>1 DEF LayoutIInv
<1>5. /\ IsMemory(fixed') /\ DOMAIN fixed' = DOMAIN fixed
      /\ \A b \in DOMAIN fixed : \/ Len(fixed'[b]) = Len(fixed[b])
                                 \/ b = TlsAddr /\ Len(fixed'[b]) = TlsSize
  <2>1. CASE fixed' = fixed
    BY <1>4, <2>1 DEF IsMemory
  <2>2. CASE fixed' = [fixed EXCEPT ![TlsAddr] = t]
    <3>1. /\ fixed = [b \in DOMAIN fixed |-> fixed[b]] /\ IsFiniteSet(DOMAIN fixed)
          /\ \A b \in DOMAIN fixed : b \in Nat /\ fixed[b] \in Seq(ToSet(fixed[b]))
      BY <1>4 DEF IsMemory
    <3>2. PICK m : m = fixed'
      OBVIOUS
    <3>3. /\ m = [b \in DOMAIN fixed |-> m[b]] /\ DOMAIN m = DOMAIN fixed
          /\ \A b \in DOMAIN fixed : m[b] = IF b = TlsAddr THEN t ELSE fixed[b]
      BY <2>2, <3>1, <3>2
    <3>4. \A b \in DOMAIN fixed : m[b] = t \/ m[b] = fixed[b]
      BY <3>3
    <3>5. \A b \in DOMAIN m : b \in Nat /\ m[b] \in Seq(ToSet(m[b]))
      BY <1>3, <3>1, <3>3, <3>4
    <3>6. IsMemory(m)
      BY <3>1, <3>3, <3>5 DEF IsMemory
    <3> QED
      BY <1>3, <3>2, <3>3, <3>6
  <2> QED
    BY <1>1, <2>1, <2>2
<1>6. \A b \in DOMAIN fixed : b \in Nat /\ Len(fixed[b]) \in Nat
  BY <1>4 DEF IsMemory
<1>7. NoOverlap(fixed')
  <2>1. SUFFICES ASSUME NEW b \in DOMAIN fixed, NEW c \in DOMAIN fixed, b < c
                 PROVE  b + Len(fixed'[b]) <= c
    BY <1>5 DEF NoOverlap
  <2>2. CASE Len(fixed'[b]) = Len(fixed[b])
    BY <1>4, <2>1, <2>2 DEF NoOverlap
  <2>3. CASE b = TlsAddr /\ Len(fixed'[b]) = TlsSize
    <3>1. OutsideTls(c)
      BY <1>4
    <3> QED
      BY <1>2, <1>6, <2>1, <2>3, <3>1 DEF OutsideTls
  <2> QED
    BY <1>5, <2>2, <2>3
<1>8. \A b \in DOMAIN fixed' : OutsideTls(b) /\ OutsideTls(b + Len(fixed'[b]))
  <2> TAKE b \in DOMAIN fixed'
  <2>1. CASE Len(fixed'[b]) = Len(fixed[b])
    BY <1>4, <1>5, <2>1
  <2>2. CASE b = TlsAddr /\ Len(fixed'[b]) = TlsSize
    BY <1>2, <2>2 DEF OutsideTls
  <2> QED
    BY <1>5, <2>1, <2>2
<1>9. /\ IsPages(pages)' /\ Ascending(pages)' /\ file' \in FilesLoaded'
      /\ \A i \in DOMAIN pages' : OutsideTls(pages'[i].base) /\ OutsideTls(PageEnd(pages'[i]))
  BY <1>1, <1>4 DEF IsPages, Ascending, FilesLoaded
<1>10. IsMemory(fixed)' /\ NoOverlap(fixed)'
  BY <1>5, <1>7 DEF IsMemory, NoOverlap
<1> QED
  BY <1>1, <1>4, <1>8, <1>9, <1>10 DEF LayoutIInv

(* Steps that are not about the layout.                                    *)
LEMMA SameLayoutIInv ==
    ASSUME LayoutIInv, UNCHANGED <<stage, file, pages, it, fixed>>, file \in FilesLoaded'
    PROVE  LayoutIInv'
<1>1. /\ IsPages(pages)' = IsPages(pages) /\ Ascending(pages)' = Ascending(pages)
      /\ IsMemory(fixed)' = IsMemory(fixed) /\ NoOverlap(fixed)' = NoOverlap(fixed)
      /\ LaidOut' = LaidOut
  BY DEF IsPages, Ascending, IsMemory, NoOverlap, LaidOut
<1>2. stage = "walk" => \A i \in 1 .. it - 1 : EndsAtNext(pages, i)'
  BY DEF LayoutIInv, EndsAtNext
<1> QED
  BY <1>1, <1>2 DEF LayoutIInv

(* Loading a dependency.                                                   *)
LEMMA LoadDependenciesLayoutIInv ==
    ASSUME WorkListIInv, LayoutIInv, LoadDependencies
    PROVE  LayoutIInv'
<1>1. /\ UNCHANGED <<stage, file, pages, it, fixed>> /\ stage = "dependencies"
      /\ loaded' = loaded \/ loaded' = Append(loaded, Head(new_deps))
  BY DEF LoadDependencies, LoadDependency, DropLoaded, MissingDependency, AtDependency
<1>2. Len(loaded') \in Nat
  BY <1>1 DEF WorkListIInv
<1>3. file = 0
  BY <1>1 DEF LayoutIInv
<1>4. file \in FilesLoaded'
  BY <1>2, <1>3 DEF FilesLoaded
<1> QED
  BY <1>1, <1>4, SameLayoutIInv

(* Every step keeps the invariant.                                         *)
LEMMA NextLayoutIInv ==
    FilesAreApart /\ IsCase /\ WorkListIInv /\ LayoutIInv /\ [Next]_loaderVars => LayoutIInv'
<1> SUFFICES ASSUME FilesAreApart, IsCase, WorkListIInv, LayoutIInv, [Next]_loaderVars
             PROVE  LayoutIInv'
  OBVIOUS
<1>1. CASE LoadDependencies
  BY <1>1, LoadDependenciesLayoutIInv
<1>2. CASE DependenciesEnd
  BY <1>2, DependenciesEndLayoutIInv
<1>3. CASE FixPages
  BY <1>3, FixPageLayoutIInv, WalkEndLayoutIInv, EraseLayoutIInv, EraseEndLayoutIInv DEF FixPages
<1>4. CASE PatchRelocations
  BY <1>4, RelocateLayoutIInv
<1>5. CASE CopyTls
  BY <1>5, CopyTlsLayoutIInv
<1>6. CASE RunChild \/ Trace \/ TraceThrows \/ UNCHANGED loaderVars
  <2>1. UNCHANGED <<stage, loaded, file, pages, it, fixed>>
    BY <1>6 DEF RunChild, Trace, TraceThrows, loaderVars, elfVars
  <2>2. file \in FilesLoaded'
    BY <2>1 DEF LayoutIInv, FilesLoaded
  <2> QED
    BY <2>1, <2>2, SameLayoutIInv
<1> QED
  BY <1>1, <1>2, <1>3, <1>4, <1>5, <1>6 DEF Next, LoadElf, ReadElf, ElfNext

(* LayoutIInv is an inductive invariant of fix_pages and of what writes to *)
(* memory after it.                                                        *)
THEOREM LayoutIsInductive == FilesAreApart /\ Spec => []LayoutIInv
<1>1. FilesAreApart /\ [Next]_loaderVars => FilesAreApart'
  BY DEF FilesAreApart, Offset
<1>2. Spec => []IsCase
  BY InitIsCase, NextIsCase, PTL DEF Spec
<1> QED
  BY <1>1, <1>2, WorkListIsInductive, InitLayoutIInv, NextLayoutIInv, PTL DEF Spec

(* In the end no two pages overlap, whatever the segments of the files, as *)
(* long as the files do not reach into the page for TLS (elf.cc:45).       *)
THEOREM PagesAreDisjoint == FilesAreApart /\ Spec => []PagesDisjoint
<1>1. LayoutIInv => PagesDisjoint
  BY DEF LayoutIInv, NoOverlap, PagesDisjoint
<1> QED
  BY <1>1, LayoutIsInductive, PTL

-----------------------------------------------------------------------------
(* What pages hold                                                         *)

(* What segments hold changes only while files are loaded.                 *)
LEMMA SameContent ==
    ASSUME UNCHANGED <<program, loaded>>
    PROVE  /\ FilesLoaded' = FilesLoaded
           /\ \A p : HasContent(p)' <=> HasContent(p)
           /\ \A P, k : Covers(P, k)' <=> Covers(P, k)
<1>1. FilesLoaded' = FilesLoaded
  BY DEF FilesLoaded
<1>2. \A k : Segments(k)' = Segments(k)
  BY DEF Segments, Taken, File
<1>3. \A x, c : IsContent(x, c)' <=> IsContent(x, c)
  BY <1>1, <1>2 DEF IsContent, InSegment, SegmentCell, Byte, Offset
<1>4. \A p : HasContent(p)' <=> HasContent(p)
  BY <1>3 DEF HasContent
<1>5. \A P, k : Covers(P, k)' <=> Covers(P, k)
  BY <1>2 DEF Covers, Within, PageEnd, Offset
<1> QED
  BY <1>1, <1>4, <1>5

(* The addresses a set of pages covers, for any address.                   *)
LEMMA CoversFacts ==
    ASSUME NEW k \in Nat, \A s \in Segments(k) : IsSegment(s), NEW P
    PROVE  Covers(P, k) <=> \A s \in Segments(k) : \A x \in Nat :
                                InSegment(k, s, x) => \E p \in P : Within(p, x)
<1>1. Offset(k) \in Nat
  BY OffsetIsNat
<1>2. ASSUME NEW s \in Segments(k), NEW x
      PROVE  x \in Offset(k) + s.vaddr .. Offset(k) + s.vaddr + s.memsz - 1
                 <=> x \in Nat /\ InSegment(k, s, x)
  <2>1. PICK o, v, m : o = Offset(k) /\ v = s.vaddr /\ m = s.memsz
    OBVIOUS
  <2>2. o \in Nat /\ v \in Nat /\ m \in Nat
    BY <1>1, <2>1 DEF IsSegment
  <2>3. x \in o + v .. o + v + m - 1 <=> x \in Nat /\ o + v <= x /\ x < o + v + m
    BY ONLY <2>2
  <2> QED
    BY <2>1, <2>3 DEF InSegment
<1> QED
  BY <1>2 DEF Covers

(* Where the pages of segments are, and what they hold.                    *)
LEMMA SegmentContent ==
    ASSUME NEW k \in FilesLoaded, k \in Nat, NEW s \in Segments(k), Apart(k, s)
    PROVE  LET p == SegmentPage(k, s) IN
           /\ HasContent(p) /\ InRange(k, p)
           /\ \A x \in Nat : InSegment(k, s, x) => Within(p, x)
<1> DEFINE p == SegmentPage(k, s)
<1>1. IsPageOf(p, k, s) /\ IsSegment(s) /\ Offset(k) \in Nat
  BY SegmentPageFacts, OffsetIsNat DEF Apart
<1> HIDE DEF p
<1>2. PICK o, v, m : o = Offset(k) /\ v = s.vaddr /\ m = s.memsz
  OBVIOUS
<1>3. /\ o \in Nat /\ v \in Nat /\ m \in Nat /\ v + m < DepAdd /\ DepAdd \in Nat
      /\ p.base = o + v /\ PageEnd(p) = o + v + m /\ Len(p.data) = m
  BY <1>1, <1>2, ElfLoaderAssumption DEF IsPageOf, IsSegment, Apart
<1>4. HasContent(p)
  <2> SUFFICES ASSUME NEW n \in 1 .. m PROVE IsContent(p.base + n - 1, p.data[n])
    BY <1>3 DEF HasContent
  <2>1. PICK x : x = p.base + n - 1
    OBVIOUS
  <2>2. o + v <= x /\ x < o + v + m /\ x - o = v + n - 1
    BY <1>3, <2>1
  <2>3. p.data[n] = SegmentCell(k, s, x - Offset(k))
    BY <1>1, <1>2, <2>2 DEF IsPageOf
  <2>4. InSegment(k, s, x)
    BY <1>2, <2>2 DEF InSegment
  <2>5. IsContent(x, p.data[n])
    BY <2>3, <2>4 DEF IsContent
  <2> QED
    BY <2>1, <2>5
<1>5. InRange(k, p)
  BY <1>2, <1>3 DEF InRange
<1>6. \A x \in Nat : InSegment(k, s, x) => Within(p, x)
  BY <1>2, <1>3 DEF InSegment, Within
<1> QED
  BY <1>4, <1>5, <1>6 DEF p

(* What a layout begins with.                                              *)
LEMMA LayoutContent ==
    ASSUME FilesAreApart, IsCase, WorkListIInv, NEW k \in FilesLoaded,
           NEW others, \A p \in PagesIn(others) : HasContent(p),
           NEW q, IsLayout(q, k, others)
    PROVE  /\ \A p \in ToSet(q) : HasContent(p)
           /\ Covers(ToSet(q), k)
           /\ k = 0 => \A j \in FilesLoaded : Covers(PagesIn(others), j) => Covers(ToSet(q), j)
           /\ k > 0 => \A p \in ToSet(q) : InRange(k, p)
<1>1. k \in Nat /\ AreSegments(k) /\ \A s \in Segments(k) : Apart(k, s)
  BY SegmentsAreApart
<1>2. \A s \in Segments(k) : LET p == SegmentPage(k, s) IN
           /\ HasContent(p) /\ InRange(k, p)
           /\ \A x \in Nat : InSegment(k, s, x) => Within(p, x)
  BY <1>1, SegmentContent
<1>3. ASSUME NEW p \in {StackPage, TlsPage}
      PROVE  HasContent(p)
  <2>1. /\ {TlsAddr, TlsSize, StackAddr, StackSize} \subseteq Nat
        /\ TlsAddr + TlsSize <= StackAddr
    BY ElfLoaderAssumption DEF FilesAreApart
  <2>2. \/ p.base = StackAddr /\ Len(p.data) = StackSize
        \/ p.base = TlsAddr /\ Len(p.data) = TlsSize
    <3>1. /\ StackPage.base = StackAddr /\ Len(StackPage.data) = StackSize
          /\ TlsPage.base = TlsAddr /\ Len(TlsPage.data) = TlsSize
      BY <2>1, ZeroPage DEF StackPage, TlsPage
    <3> HIDE DEF StackPage, TlsPage
    <3> QED
      BY <3>1
  <2> SUFFICES ASSUME NEW n \in 1 .. Len(p.data) PROVE IsContent(p.base + n - 1, p.data[n])
    BY DEF HasContent
  <2>3. TlsAddr <= p.base + n - 1 /\ p.base + n - 1 < StackAddr + StackSize
    BY <2>1, <2>2
  <2> QED
    BY <2>3 DEF IsContent
<1>4. \A p \in ToSet(q) : HasContent(p)
  <2> TAKE p \in ToSet(q)
  <2>1. PICK i \in DOMAIN q : p = q[i]
    BY DEF ToSet
  <2>2. \/ \E s \in Segments(k) : p = SegmentPage(k, s)
        \/ \E b \in DOMAIN others : p = Page(b, others[b])
        \/ p \in {StackPage, TlsPage}
    BY <2>1 DEF IsLayout
  <2>3. CASE \E b \in DOMAIN others : p = Page(b, others[b])
    BY <2>3 DEF PagesIn
  <2> QED
    BY <1>2, <1>3, <2>2, <2>3
<1>5. Covers(ToSet(q), k)
  <2>1. \A s \in Segments(k) : SegmentPage(k, s) \in ToSet(q)
    BY DEF IsLayout, ToSet
  <2>2. \A s \in Segments(k) : \A x \in Nat :
           InSegment(k, s, x) => \E p \in ToSet(q) : Within(p, x)
    BY <1>2, <2>1
  <2>3. \A s \in Segments(k) : IsSegment(s)
    BY <1>1 DEF Apart
  <2> QED
    BY <1>1, <2>2, <2>3, CoversFacts
<1>6. ASSUME k = 0, NEW j \in FilesLoaded, Covers(PagesIn(others), j)
      PROVE  Covers(ToSet(q), j)
  <2>1. PagesIn(others) \subseteq ToSet(q)
    BY <1>6 DEF IsLayout, ToSet, PagesIn
  <2> QED
    BY <1>6, <2>1 DEF Covers
<1>7. ASSUME k > 0, NEW p \in ToSet(q)
      PROVE  InRange(k, p)
  <2>1. PICK i \in DOMAIN q : p = q[i]
    BY DEF ToSet
  <2>2. \E s \in Segments(k) : p = SegmentPage(k, s)
    BY <1>1, <1>7, <2>1 DEF IsLayout
  <2> QED
    BY <1>2, <2>2
<1> QED
  BY <1>4, <1>5, <1>6, <1>7

(* Cutting a page in two loses nothing: what it has between its parts is   *)
(* in the pages behind it.                                                 *)
LEMMA WithoutOverlapContent ==
    ASSUME IsPages(pages), Ascending(pages),
           NEW n, n = it + 1, it \in 1 .. Len(pages), n \in 1 .. Len(pages),
           PageEnd(pages[it]) > pages[n].base, NEW q, q = WithoutOverlap
    PROVE  /\ (\A p \in ToSet(pages) : HasContent(p)) => \A p \in ToSet(q) : HasContent(p)
           /\ \A x \in Nat : (\E p \in ToSet(pages) : Within(p, x)) => \E p \in ToSet(q) : Within(p, x)
           /\ \A k \in Nat : (\A p \in ToSet(pages) : InRange(k, p)) => \A p \in ToSet(q) : InRange(k, p)
<1>1. PICK p : p = pages[it]
  OBVIOUS
<1>2. /\ IsPages(q) /\ Len(pages) <= Len(q)
      /\ q[n] = pages[n]
      /\ q[it].base = p.base /\ PageEnd(q[it]) = pages[n].base
      /\ \A a \in 1 .. Len(q[it].data) : a \in 1 .. Len(p.data) /\ q[it].data[a] = p.data[a]
      /\ \A j \in DOMAIN pages \ {it} : \E i \in DOMAIN q \ {it} : q[i] = pages[j]
      /\ PageEnd(p) > AfterNext =>
            \E i \in DOMAIN q \ {it} : q[i].base = AfterNext /\ PageEnd(q[i]) = PageEnd(p)
      /\ \A i \in DOMAIN q \ {it} :
            \/ \E j \in DOMAIN pages \ {it} : q[i] = pages[j]
            \/ /\ q[i].base = AfterNext /\ PageEnd(q[i]) = PageEnd(p) /\ p.base <= AfterNext
               /\ \A a \in 1 .. Len(q[i].data) :
                     /\ AfterNext - p.base + a \in 1 .. Len(p.data)
                     /\ q[i].data[a] = p.data[AfterNext - p.base + a]
  BY <1>1, WithoutOverlapFacts
<1>3. /\ \E i \in DOMAIN pages \ {it} : AfterNext = PageEnd(pages[i])
      /\ AfterNext \in Nat /\ PageEnd(pages[n]) <= AfterNext
      /\ \A x \in Nat : PageEnd(pages[n]) <= x /\ x < AfterNext =>
            \E i \in DOMAIN pages \ {it} : pages[i].base <= x /\ x < PageEnd(pages[i])
  BY AfterNextFacts
<1>4. /\ Len(pages) \in Nat /\ DOMAIN pages = 1 .. Len(pages) /\ it \in DOMAIN pages
      /\ n \in DOMAIN pages \ {it}
      /\ \A i \in DOMAIN pages : pages[i].base \in Nat /\ PageEnd(pages[i]) \in Nat
      /\ p.base \in Nat
  BY <1>1 DEF IsPages, PageEnd
<1>5. DOMAIN q = 1 .. Len(q) /\ Len(q) \in Nat /\ it \in DOMAIN q /\ n \in DOMAIN q
  <2>1. DOMAIN q = 1 .. Len(q) /\ Len(q) \in Nat
    BY <1>2 DEF IsPages
  <2> QED
    BY <1>2, <1>4, <2>1
<1>6. /\ \A i \in DOMAIN q : q[i] \in ToSet(q)
      /\ \A i \in DOMAIN pages : pages[i] \in ToSet(pages)
      /\ \A r \in ToSet(q) : \E i \in DOMAIN q : r = q[i]
      /\ \A r \in ToSet(pages) : \E i \in DOMAIN pages : r = pages[i]
  BY DEF ToSet
<1>7. ASSUME \A r \in ToSet(pages) : HasContent(r), NEW r \in ToSet(q)
      PROVE  HasContent(r)
  <2>1. PICK i \in DOMAIN q : r = q[i]
    BY <1>6
  <2>2. HasContent(p)
    BY <1>1, <1>4, <1>6, <1>7
  <2>3. CASE i = it
    <3> SUFFICES ASSUME NEW a \in 1 .. Len(r.data) PROVE IsContent(r.base + a - 1, r.data[a])
      BY DEF HasContent
    <3>1. a \in 1 .. Len(p.data) /\ r.data[a] = p.data[a] /\ r.base = p.base
      BY <1>2, <2>1, <2>3
    <3> QED
      BY <2>2, <3>1 DEF HasContent
  <2>4. CASE \E j \in DOMAIN pages \ {it} : q[i] = pages[j]
    BY <1>6, <1>7, <2>1, <2>4
  <2>5. CASE /\ q[i].base = AfterNext /\ p.base <= AfterNext
             /\ \A a \in 1 .. Len(q[i].data) :
                   /\ AfterNext - p.base + a \in 1 .. Len(p.data)
                   /\ q[i].data[a] = p.data[AfterNext - p.base + a]
    <3> SUFFICES ASSUME NEW a \in 1 .. Len(r.data) PROVE IsContent(r.base + a - 1, r.data[a])
      BY DEF HasContent
    <3>1. PICK b : b = AfterNext - p.base + a
      OBVIOUS
    <3>2. b \in 1 .. Len(p.data) /\ r.data[a] = p.data[b] /\ r.base = AfterNext
      BY <2>1, <2>5, <3>1
    <3>3. IsContent(p.base + b - 1, p.data[b])
      BY <2>2, <3>2 DEF HasContent
    <3>4. PICK an : an = AfterNext
      OBVIOUS
    <3>5. p.base + b - 1 = an + a - 1
      <4>1. an \in Nat /\ p.base \in Nat /\ a \in Int /\ b = an - p.base + a
        BY <1>3, <1>4, <3>1, <3>4
      <4> QED
        BY ONLY <4>1
    <3> QED
      BY <3>2, <3>3, <3>4, <3>5
  <2> QED
    BY <1>2, <2>1, <2>3, <2>4, <2>5
<1>8. ASSUME NEW x \in Nat, NEW r \in ToSet(pages), Within(r, x)
      PROVE  \E s \in ToSet(q) : Within(s, x)
  <2>1. PICK j \in DOMAIN pages : r = pages[j]
    BY <1>6
  <2>2. ASSUME NEW i \in DOMAIN pages \ {it}, Within(pages[i], x)
        PROVE  \E s \in ToSet(q) : Within(s, x)
    <3>1. PICK m \in DOMAIN q : q[m] = pages[i]
      BY <1>2
    <3> QED
      BY <1>6, <2>2, <3>1
  <2>3. CASE j # it
    BY <1>8, <2>1, <2>2, <2>3
  <2>4. CASE j = it
    <3>1. p.base <= x /\ x < PageEnd(p)
      BY <1>1, <1>8, <2>1, <2>4 DEF Within
    <3>2. CASE x < pages[n].base
      <4>1. Within(q[it], x)
        BY <1>2, <3>1, <3>2 DEF Within
      <4> QED
        BY <1>5, <1>6, <4>1
    <3>3. CASE pages[n].base <= x /\ x < PageEnd(pages[n])
      <4>1. Within(pages[n], x)
        BY <3>3 DEF Within
      <4> QED
        BY <1>4, <2>2, <4>1
    <3>4. CASE PageEnd(pages[n]) <= x /\ x < AfterNext
      <4>1. PICK i \in DOMAIN pages \ {it} : pages[i].base <= x /\ x < PageEnd(pages[i])
        BY <1>3, <3>4
      <4>2. Within(pages[i], x)
        BY <4>1 DEF Within
      <4> QED
        BY <2>2, <4>2
    <3>5. CASE AfterNext <= x
      <4>1. PageEnd(p) > AfterNext
        BY <1>1, <1>3, <1>4, <3>1, <3>5
      <4>2. PICK i \in DOMAIN q : q[i].base = AfterNext /\ PageEnd(q[i]) = PageEnd(p)
        BY <1>2, <4>1
      <4>3. Within(q[i], x)
        BY <3>1, <3>5, <4>2 DEF Within
      <4> QED
        BY <1>6, <4>3
    <3>6. /\ pages[n].base \in Nat /\ PageEnd(pages[n]) \in Nat /\ AfterNext \in Nat
          /\ x \in Nat
      BY <1>3, <1>4
    <3>7. \/ x < pages[n].base
          \/ pages[n].base <= x /\ x < PageEnd(pages[n])
          \/ PageEnd(pages[n]) <= x /\ x < AfterNext
          \/ AfterNext <= x
      BY <3>6
    <3> QED
      BY <3>2, <3>3, <3>4, <3>5, <3>7
  <2> QED
    BY <2>3, <2>4
<1>9. ASSUME NEW k \in Nat, \A r \in ToSet(pages) : InRange(k, r), NEW r \in ToSet(q)
      PROVE  InRange(k, r)
  <2>1. PICK i \in DOMAIN q : r = q[i]
    BY <1>6
  <2>2. PICK o, d, a, e, b : o = Offset(k) /\ d = DepAdd /\ a = AfterNext /\ e = PageEnd(p) /\ b = p.base
    OBVIOUS
  <2>3. o \in Nat /\ d \in Nat /\ a \in Nat /\ e \in Nat /\ b \in Nat
    BY <1>1, <1>3, <1>4, <2>2, OffsetIsNat, ElfLoaderAssumption
  <2>4. \A j \in DOMAIN pages : o <= pages[j].base /\ PageEnd(pages[j]) < o + d
    BY <1>6, <1>9, <2>2 DEF InRange
  <2>5. o <= b /\ e < o + d
    BY <1>1, <1>4, <2>2, <2>4
  <2>6. CASE i = it
    <3>1. PICK f, g : f = PageEnd(r) /\ g = r.base
      OBVIOUS
    <3>2. g = b /\ f = pages[n].base /\ f < e
      BY <1>1, <1>2, <1>4, <2>1, <2>2, <2>6, <3>1
    <3>3. f \in Nat
      BY <1>4, <3>2
    <3>4. o <= g /\ f < o + d
      BY ONLY <2>3, <2>5, <3>2, <3>3
    <3> QED
      BY <2>2, <3>1, <3>4 DEF InRange
  <2>7. CASE \E j \in DOMAIN pages \ {it} : q[i] = pages[j]
    BY <1>6, <1>9, <2>1, <2>7
  <2>8. CASE q[i].base = AfterNext /\ PageEnd(q[i]) = PageEnd(p) /\ p.base <= AfterNext
    <3>1. o <= a
      BY <2>2, <2>3, <2>5, <2>8
    <3> QED
      BY <2>1, <2>2, <2>5, <2>8, <3>1 DEF InRange
  <2> QED
    BY <1>2, <2>1, <2>6, <2>7, <2>8
<1> QED
  BY <1>7, <1>8, <1>9

(* Pages that cover what others do.                                        *)
LEMMA CoversAsWell ==
    ASSUME FilesAreApart, IsCase, WorkListIInv, NEW k \in FilesLoaded,
           NEW P, NEW Q, Covers(P, k),
           \A x \in Nat : (\E p \in P : Within(p, x)) => \E p \in Q : Within(p, x)
    PROVE  Covers(Q, k)
<1>1. k \in Nat /\ \A s \in Segments(k) : IsSegment(s)
  BY SegmentsAreApart DEF Apart
<1> QED
  BY <1>1, CoversFacts

(* A step of the first loop loses nothing.                                 *)
LEMMA FixPageContentIInv ==
    ASSUME FilesAreApart, IsCase, WorkListIInv, LayoutIInv, ContentIInv, FixPage
    PROVE  ContentIInv'
<1>1. PICK n, q : n = it + 1 /\ q = pages'
  OBVIOUS
<1>2. /\ stage = "walk" /\ stage' = "walk" /\ it < Len(pages) /\ file \in FilesLoaded
      /\ UNCHANGED <<program, loaded, file, fixed>>
      /\ q = IF PageEnd(pages[it]) > pages[n].base THEN WithoutOverlap ELSE pages
      /\ IsPages(pages) /\ Ascending(pages) /\ it \in Nat /\ it > 0
      /\ WalkContent
  BY <1>1 DEF FixPage, AtPage, This, NextPage, LayoutIInv, ContentIInv
<1>3. /\ Len(pages) \in Nat /\ it \in 1 .. Len(pages) /\ n \in 1 .. Len(pages)
      /\ \A i \in 1 .. Len(pages) : pages[i].base \in Nat /\ PageEnd(pages[i]) \in Nat
  BY <1>1, <1>2 DEF IsPages, PageEnd
<1>4. /\ (\A p \in ToSet(pages) : HasContent(p)) => \A p \in ToSet(q) : HasContent(p)
      /\ \A x \in Nat : (\E p \in ToSet(pages) : Within(p, x)) => \E p \in ToSet(q) : Within(p, x)
      /\ \A k \in Nat : (\A p \in ToSet(pages) : InRange(k, p)) => \A p \in ToSet(q) : InRange(k, p)
  <2>1. CASE PageEnd(pages[it]) > pages[n].base
    BY <1>1, <1>2, <1>3, <2>1, WithoutOverlapContent
  <2>2. CASE ~ (PageEnd(pages[it]) > pages[n].base)
    BY <1>2, <2>2
  <2> QED
    BY <2>1, <2>2
<1>5. FilesLoaded \subseteq Nat
  BY SegmentsAreApart
<1>6. /\ \A p \in ToSet(q) \cup PagesIn(fixed) : HasContent(p)
      /\ file = 0 => \A k \in FilesLoaded : Covers(ToSet(q), k)
      /\ file > 0 =>
            /\ Covers(ToSet(q), file)
            /\ \A k \in 1 .. file - 1 : Covers(PagesIn(fixed), k)
            /\ \A p \in ToSet(q) : InRange(file, p)
            /\ \A b \in DOMAIN fixed : b < Offset(file)
  <2>1. \A k \in FilesLoaded : Covers(ToSet(pages), k) => Covers(ToSet(q), k)
    BY <1>4, CoversAsWell
  <2> QED
    BY <1>2, <1>4, <1>5, <2>1 DEF WalkContent
<1>7. WalkContent'
  BY <1>1, <1>2, <1>6, SameContent DEF WalkContent, InRange, PageEnd, Offset
<1> QED
  BY <1>2, <1>7 DEF ContentIInv

(* The pages of the walk are laid out: of those at one address only the    *)
(* last is not empty, and those of the files before are elsewhere.         *)
LEMMA WalkEndContentIInv ==
    ASSUME FilesAreApart, IsCase, WorkListIInv, LayoutIInv, ContentIInv, WalkEnd
    PROVE  ContentIInv'
<1>1. PICK F, m : F = FinalPages /\ m = fixed'
  OBVIOUS
<1>2. /\ stage = "walk" /\ stage' = "erase" /\ it = Len(pages)
      /\ UNCHANGED <<program, loaded, file>> /\ file \in FilesLoaded
      /\ m = [b \in DOMAIN F \cup DOMAIN fixed |-> IF b \in DOMAIN F THEN F[b] ELSE fixed[b]]
      /\ IsPages(pages) /\ Ascending(pages) /\ IsMemory(fixed)
      /\ \A i \in 1 .. Len(pages) - 1 : EndsAtNext(pages, i)
      /\ WalkContent
  BY <1>1 DEF WalkEnd, LayoutIInv, ContentIInv
<1>3. /\ Len(pages) \in Nat /\ DOMAIN pages = 1 .. Len(pages)
      /\ \A i \in DOMAIN pages : /\ pages[i].base \in Nat /\ PageEnd(pages[i]) \in Nat
                                 /\ pages[i].base <= PageEnd(pages[i])
                                 /\ pages[i] = Page(pages[i].base, pages[i].data)
      /\ \A b \in DOMAIN fixed : b \in Nat
  BY <1>2 DEF IsPages, IsMemory, PageEnd
<1>4. /\ DOMAIN F = {pages[i].base : i \in DOMAIN pages}
      /\ \A b \in DOMAIN F : \E i \in DOMAIN pages :
            /\ pages[i].base = b /\ F[b] = pages[i].data
            /\ \A j \in DOMAIN pages : pages[j].base = b => j <= i
  BY <1>1, <1>2, FinalPagesFacts
<1>5. DOMAIN m = DOMAIN F \cup DOMAIN fixed
      /\ \A b \in DOMAIN m : m[b] = IF b \in DOMAIN F THEN F[b] ELSE fixed[b]
  BY <1>2
<1>6. /\ \A i \in DOMAIN pages : pages[i] \in ToSet(pages)
      /\ \A p \in ToSet(pages) : \E i \in DOMAIN pages : p = pages[i]
  BY DEF ToSet
<1>7. \A p \in PagesIn(m) : p \in ToSet(pages) \cup PagesIn(fixed)
  <2> TAKE p \in PagesIn(m)
  <2>1. PICK b \in DOMAIN m : p = Page(b, m[b])
    BY DEF PagesIn
  <2>2. CASE b \in DOMAIN F
    <3>1. PICK i \in DOMAIN pages : pages[i].base = b /\ F[b] = pages[i].data
      BY <1>4, <2>2
    <3>2. p = pages[i]
      BY <1>3, <1>5, <2>1, <2>2, <3>1
    <3> QED
      BY <1>6, <3>2
  <2>3. CASE b \notin DOMAIN F
    BY <1>5, <2>1, <2>3 DEF PagesIn
  <2> QED
    BY <2>2, <2>3
<1>8. \A x \in Nat : (\E p \in ToSet(pages) : Within(p, x)) => \E p \in PagesIn(m) : Within(p, x)
  <2> SUFFICES ASSUME NEW x \in Nat, NEW p \in ToSet(pages), Within(p, x)
               PROVE  p \in PagesIn(m)
    OBVIOUS
  <2>1. PICK i \in DOMAIN pages : p = pages[i]
    BY <1>6
  <2>2. PICK b : b = pages[i].base
    OBVIOUS
  <2>3. b \in DOMAIN F
    BY <1>4, <2>2
  <2>4. PICK j \in DOMAIN pages : pages[j].base = b /\ F[b] = pages[j].data /\ i <= j
    BY <1>4, <2>2, <2>3
  <2>5. i = j
    <3>1. SUFFICES ASSUME i # j PROVE FALSE
      OBVIOUS
    <3>2. i < j
      BY <1>3, <2>4, <3>1
    <3>3. PageEnd(pages[i]) <= pages[j].base
      BY <1>2, <3>2, EndsBefore
    <3> QED
      BY <1>3, <2>1, <2>2, <2>4, <3>3 DEF Within
  <2>6. p = Page(b, m[b]) /\ b \in DOMAIN m
    BY <1>3, <1>5, <2>1, <2>2, <2>3, <2>4, <2>5
  <2> QED
    BY <2>6 DEF PagesIn
<1>9. ASSUME file > 0
      PROVE  /\ PagesIn(fixed) \subseteq PagesIn(m)
             /\ \A b \in DOMAIN m : b < Offset(file) + DepAdd
  <2>1. PICK o, d : o = Offset(file) /\ d = DepAdd
    OBVIOUS
  <2>2. o \in Nat /\ d \in Nat /\ d > 0
    BY <1>2, <2>1, SegmentsAreApart, OffsetIsNat, ElfLoaderAssumption
  <2>3. \A b \in DOMAIN fixed : b < o
    BY <1>2, <1>9, <2>1 DEF WalkContent
  <2>4. \A b \in DOMAIN F : o <= b /\ b < o + d /\ b \in Nat
    <3> TAKE b \in DOMAIN F
    <3>1. PICK i \in DOMAIN pages : pages[i].base = b
      BY <1>4
    <3>2. InRange(file, pages[i])
      BY <1>2, <1>6, <1>9 DEF WalkContent
    <3>3. PICK e : e = PageEnd(pages[i])
      OBVIOUS
    <3>4. o <= b /\ e < o + d /\ b <= e /\ e \in Nat /\ b \in Nat
      BY <1>3, <2>1, <3>1, <3>2, <3>3 DEF InRange
    <3> QED
      BY ONLY <2>2, <3>4
  <2>5. \A b \in DOMAIN fixed : b \notin DOMAIN F
    BY <1>3, <2>2, <2>3, <2>4
  <2>6. PagesIn(fixed) \subseteq PagesIn(m)
    BY <1>5, <2>5 DEF PagesIn
  <2>7. \A b \in DOMAIN m : b < o + d
    BY <1>3, <1>5, <2>2, <2>3, <2>4
  <2> QED
    BY <2>1, <2>6, <2>7
<1>10. FilesLoaded \subseteq Nat
  BY SegmentsAreApart
<1>11. \A k \in FilesLoaded : Covers(ToSet(pages), k) => Covers(PagesIn(m), k)
  BY <1>8, CoversAsWell
<1>12. /\ \A p \in PagesIn(m) : HasContent(p)
       /\ file = 0 => \A k \in FilesLoaded : Covers(PagesIn(m), k)
       /\ file > 0 =>
            /\ \A k \in 1 .. file : Covers(PagesIn(m), k)
            /\ \A b \in DOMAIN m : b < Offset(file) + DepAdd
  <2>1. ASSUME file > 0, NEW k \in 1 .. file
        PROVE  Covers(PagesIn(m), k)
    <3>1. CASE k = file
      BY <1>2, <1>11, <2>1, <3>1 DEF WalkContent
    <3>2. CASE k # file
      <4>1. k \in 1 .. file - 1
        BY <1>2, <1>10, <2>1, <3>2
      <4>2. Covers(PagesIn(fixed), k)
        BY <1>2, <2>1, <4>1 DEF WalkContent
      <4> QED
        BY <1>9, <2>1, <4>2 DEF Covers
    <3> QED
      BY <3>1, <3>2
  <2> QED
    BY <1>2, <1>7, <1>9, <1>11, <2>1 DEF WalkContent
<1>13. FinalContent'
  BY <1>1, <1>2, <1>12, SameContent DEF FinalContent, Offset
<1> QED
  BY <1>2, <1>13 DEF ContentIInv

(* An empty page that is erased covered nothing.                           *)
LEMMA EraseContentIInv ==
    ASSUME FilesAreApart, IsCase, WorkListIInv, LayoutIInv, ContentIInv, KeepFinal \/ EraseEmpty
    PROVE  ContentIInv'
<1>1. /\ stage = "erase" /\ stage' = "erase" /\ UNCHANGED <<program, loaded, file>>
      /\ file \in FilesLoaded /\ IsMemory(fixed) /\ FinalContent
  BY DEF LayoutIInv, ContentIInv, KeepFinal, EraseEmpty, AtFinal
<1>2. PICK m : m = fixed'
  OBVIOUS
<1>3. /\ DOMAIN m \subseteq DOMAIN fixed
      /\ \A b \in DOMAIN m : m[b] = fixed[b]
      /\ \A b \in DOMAIN fixed \ DOMAIN m : Len(fixed[b]) = 0
  <2>1. CASE KeepFinal
    BY <1>2, <2>1 DEF KeepFinal
  <2>2. CASE EraseEmpty
    BY <1>2, <2>2 DEF EraseEmpty, Restrict
  <2> QED
    BY <2>1, <2>2
<1>4. PagesIn(m) \subseteq PagesIn(fixed)
  BY <1>3 DEF PagesIn
<1>5. \A x \in Nat : (\E p \in PagesIn(fixed) : Within(p, x)) => \E p \in PagesIn(m) : Within(p, x)
  <2> SUFFICES ASSUME NEW x \in Nat, NEW p \in PagesIn(fixed), Within(p, x)
               PROVE  p \in PagesIn(m)
    OBVIOUS
  <2>1. PICK b \in DOMAIN fixed : p = Page(b, fixed[b])
    BY DEF PagesIn
  <2>2. p.base = b /\ PageEnd(p) = b + Len(fixed[b]) /\ b \in Nat /\ Len(fixed[b]) \in Nat
    BY <1>1, <2>1 DEF Page, PageEnd, IsMemory
  <2>3. Len(fixed[b]) # 0
    BY <2>2 DEF Within
  <2> QED
    BY <1>3, <2>1, <2>3 DEF PagesIn
<1>6. \A k \in FilesLoaded : Covers(PagesIn(fixed), k) => Covers(PagesIn(m), k)
  BY <1>5, CoversAsWell
<1>7. 1 .. file \subseteq FilesLoaded
  <2>1. PICK l, f : l = Len(loaded) /\ f = file
    OBVIOUS
  <2>2. l \in Nat /\ f \in 0 .. l
    BY <1>1, <2>1, LoadedAreFew DEF FilesLoaded
  <2>3. 1 .. f \subseteq 0 .. l
    BY ONLY <2>2
  <2> QED
    BY <2>1, <2>3 DEF FilesLoaded
<1>8. /\ \A p \in PagesIn(m) : HasContent(p)
      /\ file = 0 => \A k \in FilesLoaded : Covers(PagesIn(m), k)
      /\ file > 0 =>
            /\ \A k \in 1 .. file : Covers(PagesIn(m), k)
            /\ \A b \in DOMAIN m : b < Offset(file) + DepAdd
  BY <1>1, <1>3, <1>4, <1>6, <1>7 DEF FinalContent
<1>9. FinalContent'
  BY <1>1, <1>2, <1>8, SameContent DEF FinalContent, Offset
<1> QED
  BY <1>1, <1>9 DEF ContentIInv

(* The first layout begins: nothing was laid out before.                   *)
LEMMA DependenciesEndContentIInv ==
    ASSUME FilesAreApart, IsCase, WorkListIInv, LayoutIInv, DependenciesEnd
    PROVE  ContentIInv'
<1>1. PICK k, q, none : k = (IF loaded = <<>> THEN 0 ELSE 1) /\ q = pages' /\ none = None
  OBVIOUS
<1>2. /\ stage' = "walk" /\ file' = k /\ q = g_pages(k, none)
      /\ UNCHANGED <<loaded, fixed, program>> /\ DOMAIN fixed = {}
      /\ IsMemory(fixed)
  BY <1>1 DEF DependenciesEnd, Layout, LayoutIInv
<1>3. k \in FilesLoaded /\ (k = 0 => FilesLoaded = {0}) /\ k \in {0, 1}
  <2>1. loaded \in Seq(FileNames(program))
    BY DEF WorkListIInv
  <2> QED
    BY <1>1, <2>1 DEF FilesLoaded
<1>4. DOMAIN none = {} /\ IsMemory(none) /\ PagesIn(none) = {} /\ PagesIn(fixed) = {}
  <2>1. DOMAIN none = {} /\ none = [b \in DOMAIN none |-> none[b]]
    BY <1>1 DEF None
  <2> QED
    BY <1>2, <2>1 DEF IsMemory, PagesIn
<1>5. IsLayout(q, k, none)
  BY <1>2, <1>3, <1>4, LayoutStarts
<1>6. /\ \A p \in ToSet(q) : HasContent(p)
      /\ Covers(ToSet(q), k)
      /\ k > 0 => \A p \in ToSet(q) : InRange(k, p)
  BY <1>3, <1>4, <1>5, LayoutContent
<1>7. /\ \A p \in ToSet(q) \cup PagesIn(fixed) : HasContent(p)
      /\ k = 0 => \A j \in FilesLoaded : Covers(ToSet(q), j)
      /\ k > 0 => /\ Covers(ToSet(q), k)
                  /\ \A j \in 1 .. k - 1 : Covers(PagesIn(fixed), j)
                  /\ \A p \in ToSet(q) : InRange(k, p)
                  /\ \A b \in DOMAIN fixed : b < Offset(k)
  BY <1>2, <1>3, <1>4, <1>6
<1>8. WalkContent'
  BY <1>1, <1>2, <1>7, SameContent DEF WalkContent, InRange, PageEnd, Offset
<1> QED
  BY <1>2, <1>8 DEF ContentIInv

(* The next layout begins, the executable's with the pages of all other    *)
(* files, or everything is laid out.                                       *)
LEMMA EraseEndContentIInv ==
    ASSUME FilesAreApart, IsCase, WorkListIInv, LayoutIInv, ContentIInv, EraseEnd
    PROVE  ContentIInv'
<1>1. /\ stage = "erase" /\ UNCHANGED <<program, loaded, fixed>>
      /\ file \in FilesLoaded /\ IsMemory(fixed) /\ FinalContent
      /\ \A b \in DOMAIN fixed : OutsideTls(b) /\ OutsideTls(b + Len(fixed[b]))
  BY DEF LayoutIInv, ContentIInv, EraseEnd
<1>2. CASE file = 0
  <2>1. stage' = "relocate" /\ file' = file
    BY <1>2 DEF EraseEnd
  <2>2. FinalContent'
    BY <1>1, <2>1, SameContent DEF FinalContent, Offset
  <2> QED
    BY <2>1, <2>2 DEF ContentIInv
<1>3. CASE file # 0
  <2>1. PICK k, q, l : /\ k = (IF file < Len(loaded) THEN file + 1 ELSE 0)
                       /\ q = pages' /\ l = Len(loaded)
    OBVIOUS
  <2>2. stage' = "walk" /\ file' = k /\ q = g_pages(k, fixed)
    BY <1>3, <2>1 DEF EraseEnd, Layout
  <2>3. /\ l \in Nat /\ file \in 1 .. l /\ k = (IF file < l THEN file + 1 ELSE 0)
        /\ FilesLoaded = 0 .. l
    BY <1>1, <1>3, <2>1, LoadedAreFew DEF FilesLoaded
  <2>4. k \in FilesLoaded
    BY <2>3
  <2>5. IsLayout(q, k, fixed)
    BY <1>1, <2>2, <2>4, LayoutStarts
  <2>6. /\ \A p \in PagesIn(fixed) : HasContent(p)
        /\ \A j \in 1 .. file : Covers(PagesIn(fixed), j)
        /\ \A b \in DOMAIN fixed : b < Offset(file) + DepAdd
    BY <1>1, <2>3 DEF FinalContent
  <2>7. /\ \A p \in ToSet(q) : HasContent(p)
        /\ Covers(ToSet(q), k)
        /\ k = 0 => \A j \in FilesLoaded : Covers(PagesIn(fixed), j) => Covers(ToSet(q), j)
        /\ k > 0 => \A p \in ToSet(q) : InRange(k, p)
    BY <2>4, <2>5, <2>6, LayoutContent
  <2>8. k = 0 => \A j \in FilesLoaded : Covers(ToSet(q), j)
    <3>1. k = 0 => \A j \in FilesLoaded : j = 0 \/ j \in 1 .. file
      BY <2>3
    <3> QED
      BY <2>6, <2>7, <3>1
  <2>9. k > 0 => /\ \A j \in 1 .. k - 1 : Covers(PagesIn(fixed), j)
                 /\ \A b \in DOMAIN fixed : b < Offset(k)
    <3>1. SUFFICES ASSUME k > 0
                   PROVE  /\ \A j \in 1 .. k - 1 : j \in 1 .. file
                          /\ Offset(k) = Offset(file) + DepAdd
      BY <2>6
    <3>2. k = file + 1
      BY <2>3, <3>1
    <3>3. Offset(k) = Offset(file) + DepAdd
      <4>1. PICK f, a, d : f = file /\ a = DepAddr /\ d = DepAdd
        OBVIOUS
      <4>2. f \in Nat /\ a \in Nat /\ d \in Nat /\ k = f + 1
        BY <2>3, <3>2, <4>1, ElfLoaderAssumption
      <4>3. a + k * d = a + f * d + d
        BY ONLY <4>2
      <4> QED
        BY <1>3, <3>1, <4>1, <4>3 DEF Offset
    <3> QED
      BY <2>3, <3>2, <3>3
  <2>10. k \in Nat
    BY <2>3
  <2>11. WalkContent'
    BY <1>1, <2>1, <2>2, <2>6, <2>7, <2>8, <2>9, <2>10, SameContent
       DEF WalkContent, InRange, PageEnd, Offset
  <2> QED
    BY <2>2, <2>11 DEF ContentIInv
<1> QED
  BY <1>2, <1>3

(* Every step keeps what pages hold, up to the first relocation.           *)
LEMMA NextContentIInv ==
    /\ FilesAreApart /\ IsCase /\ WorkListIInv /\ LayoutIInv /\ ContentIInv
    /\ [Next]_loaderVars
    => ContentIInv'
<1> SUFFICES ASSUME FilesAreApart, IsCase, WorkListIInv, LayoutIInv, ContentIInv, [Next]_loaderVars
             PROVE  ContentIInv'
  OBVIOUS
<1>1. CASE LoadDependencies
  <2>1. stage' = "dependencies"
    BY <1>1 DEF LoadDependencies, LoadDependency, DropLoaded, MissingDependency, AtDependency
  <2> QED
    BY <2>1 DEF ContentIInv
<1>2. CASE DependenciesEnd
  BY <1>2, DependenciesEndContentIInv
<1>3. CASE FixPages
  BY <1>3, FixPageContentIInv, WalkEndContentIInv, EraseContentIInv, EraseEndContentIInv DEF FixPages
<1>4. CASE PatchRelocations
  <2>1. CASE RelocateSymbol \/ RelocateRelative \/ RelocateLater
    <3>1. stage' = "relocate" /\ it' = it + 1 /\ it \in Nat /\ it > 0
      BY <2>1 DEF RelocateSymbol, RelocateRelative, RelocateLater, AtRelocation, LayoutIInv
    <3> QED
      BY <3>1 DEF ContentIInv
  <2>2. CASE RelocateThrow \/ RelocateDangling
    <3>1. stage = "relocate" /\ UNCHANGED <<stage, program, loaded, file, it, fixed>>
      BY <2>2 DEF RelocateThrow, RelocateDangling, AtRelocation
    <3>2. FinalContent' <=> FinalContent
      BY <3>1, SameContent DEF FinalContent, Offset
    <3> QED
      BY <3>1, <3>2 DEF ContentIInv
  <2>3. CASE RelocateEnd
    <3>1. \/ stage' = "relocate" /\ file' = file + 1
          \/ stage' = "tls"
      BY <2>3 DEF RelocateEnd
    <3>2. file \in Nat
      BY SegmentsAreApart DEF LayoutIInv
    <3> QED
      BY <3>1, <3>2 DEF ContentIInv
  <2> QED
    BY <1>4, <2>1, <2>2, <2>3 DEF PatchRelocations
<1>5. CASE CopyTls
  <2>1. stage' = "loaded"
    BY <1>5 DEF CopyTls
  <2> QED
    BY <2>1 DEF ContentIInv
<1>6. CASE RunChild \/ Trace \/ TraceThrows \/ UNCHANGED loaderVars
  <2>1. UNCHANGED <<stage, program, loaded, file, pages, it, fixed>>
    BY <1>6 DEF RunChild, Trace, TraceThrows, loaderVars, elfVars
  <2>2. (FinalContent' <=> FinalContent) /\ (WalkContent' <=> WalkContent)
    BY <2>1, SameContent DEF FinalContent, WalkContent, InRange, PageEnd, Offset
  <2> QED
    BY <2>1, <2>2 DEF ContentIInv
<1> QED
  BY <1>1, <1>2, <1>3, <1>4, <1>5, <1>6 DEF Next, LoadElf, ReadElf, ElfNext

-----------------------------------------------------------------------------
(* Every byte is found                                                     *)

(* The addresses of a file are below those of the next.                    *)
LEMMA OffsetsAreApart ==
    ASSUME NEW j \in Nat, NEW k \in Nat, j < k
    PROVE  Offset(j) + DepAdd <= Offset(k)
<1>1. PICK a, d, e : a = DepAddr /\ d = DepAdd /\ e = k - j - 1
  OBVIOUS
<1>2. a \in Nat /\ d \in Nat /\ e \in Nat /\ k = j + 1 + e /\ k > 0
  BY <1>1, ElfLoaderAssumption
<1>3. k * d = j * d + d + e * d /\ e * d \in Nat /\ j * d \in Nat
  BY ONLY <1>2
<1>4. a + j * d + d <= a + k * d /\ d <= a + k * d
  BY ONLY <1>2, <1>3
<1>5. Offset(k) = a + k * d
  BY <1>1, <1>2 DEF Offset
<1>6. Offset(j) = 0 \/ Offset(j) = a + j * d
  BY <1>1 DEF Offset
<1> QED
  BY <1>1, <1>2, <1>4, <1>5, <1>6

(* The page of an address, when pages do not overlap.                      *)
LEMMA PageIsLookedUp ==
    ASSUME IsMemory(fixed), NoOverlap(fixed), NEW b \in DOMAIN fixed, NEW x \in Nat,
           Within(Page(b, fixed[b]), x)
    PROVE  b \in LookedUp(x)
<1>1. \A c \in DOMAIN fixed : c \in Nat /\ Len(fixed[c]) \in Nat
  BY DEF IsMemory
<1>2. b <= x /\ x < b + Len(fixed[b])
  BY DEF Within, Page, PageEnd
<1>3. ASSUME NEW c \in DOMAIN fixed, ~ (c <= b)
      PROVE  c > x
  <2>1. b + Len(fixed[b]) <= c
    BY <1>1, <1>3 DEF NoOverlap
  <2> QED
    BY <1>1, <1>2, <2>1
<1> QED
  BY <1>2, <1>3 DEF LookedUp

(* An address of a segment is an address of no other file's, and none of   *)
(* the stack or of TLS.                                                    *)
LEMMA ContentIsOwn ==
    ASSUME FilesAreApart, IsCase, WorkListIInv, NEW k \in FilesLoaded, NEW s \in Segments(k),
           NEW x \in Nat, InSegment(k, s, x), NEW c, IsContent(x, c)
    PROVE  \E t \in Segments(k) : InSegment(k, t, x) /\ c = SegmentCell(k, t, x - Offset(k))
<1>1. \A j \in FilesLoaded : j \in Nat /\ \A t \in Segments(j) : Apart(j, t)
  BY SegmentsAreApart
<1>2. \A j \in FilesLoaded : \A t \in Segments(j) :
         InSegment(j, t, x) => Offset(j) <= x /\ x < Offset(j) + DepAdd
  <2> SUFFICES ASSUME NEW j \in FilesLoaded, NEW t \in Segments(j), InSegment(j, t, x)
               PROVE  Offset(j) <= x /\ x < Offset(j) + DepAdd
    OBVIOUS
  <2>1. PICK o, v, m, d : o = Offset(j) /\ v = t.vaddr /\ m = t.memsz /\ d = DepAdd
    OBVIOUS
  <2>2. /\ o \in Nat /\ v \in Nat /\ m \in Nat /\ d \in Nat /\ v + m < d
        /\ o + v <= x /\ x < o + v + m
    BY <1>1, <2>1, OffsetIsNat, ElfLoaderAssumption DEF Apart, IsSegment, InSegment
  <2>3. o <= x /\ x < o + d
    BY ONLY <2>2, x \in Nat
  <2> QED
    BY <2>1, <2>3
<1>3. CASE \E j \in FilesLoaded : \E t \in Segments(j) :
              InSegment(j, t, x) /\ c = SegmentCell(j, t, x - Offset(j))
  <2>1. PICK j \in FilesLoaded : \E t \in Segments(j) :
              InSegment(j, t, x) /\ c = SegmentCell(j, t, x - Offset(j))
    BY <1>3
  <2>2. PICK t \in Segments(j) : InSegment(j, t, x) /\ c = SegmentCell(j, t, x - Offset(j))
    BY <2>1
  <2>3. /\ Offset(j) <= x /\ x < Offset(j) + DepAdd
        /\ Offset(k) <= x /\ x < Offset(k) + DepAdd
    BY <1>2, <2>2
  <2>4. /\ j \in Nat /\ k \in Nat /\ Offset(j) \in Nat /\ Offset(k) \in Nat
        /\ DepAdd \in Nat
    BY <1>1, OffsetIsNat, ElfLoaderAssumption
  <2>5. ~ (j < k) /\ ~ (k < j)
    BY <2>3, <2>4, OffsetsAreApart
  <2>6. j = k
    BY <2>4, <2>5
  <2> QED
    BY <2>2, <2>6
<1>4. CASE TlsAddr <= x /\ x < StackAddr + StackSize
  <2>1. PICK o, v, m : o = Offset(k) /\ v = s.vaddr /\ m = s.memsz
    OBVIOUS
  <2>2. /\ o \in Nat /\ v \in Nat /\ m \in Nat /\ o + v <= x /\ x < o + v + m
        /\ o + v + m <= TlsAddr \/ o + v >= StackAddr + StackSize
        /\ {TlsAddr, StackAddr, StackSize} \subseteq Nat
    BY <1>1, <2>1, OffsetIsNat, ElfLoaderAssumption DEF Apart, IsSegment, InSegment
  <2>3. FALSE
    BY <1>4, <2>2
  <2> QED
    BY <2>3
<1> QED
  BY <1>3, <1>4 DEF IsContent

(* What the invariants say when the relocations begin.                     *)
LEMMA BytesFound ==
    FilesAreApart /\ IsCase /\ WorkListIInv /\ LayoutIInv /\ ContentIInv => EveryByteIsFound
<1> SUFFICES ASSUME FilesAreApart, IsCase, WorkListIInv, LayoutIInv, ContentIInv,
                    stage = "relocate", file = 0, it = 1,
                    NEW k \in FilesLoaded, NEW s \in Segments(k),
                    NEW a \in s.vaddr .. s.vaddr + s.memsz - 1
             PROVE  /\ Mapped(Offset(k) + a)
                    /\ \E t \in Segments(k) :
                          /\ a \in t.vaddr .. t.vaddr + t.memsz - 1
                          /\ Cell(Offset(k) + a) = SegmentCell(k, t, a)
  BY DEF EveryByteIsFound
<1>1. /\ IsMemory(fixed) /\ NoOverlap(fixed) /\ FinalContent
  BY DEF LayoutIInv, ContentIInv, LaidOut
<1>2. PICK x, o : x = Offset(k) + a /\ o = Offset(k)
  OBVIOUS
<1>3. k \in Nat /\ o \in Nat /\ \A t \in Segments(k) : t.vaddr \in Nat /\ t.memsz \in Nat
  BY <1>2, SegmentsAreApart, OffsetIsNat DEF Apart, IsSegment
<1>4. x \in Nat /\ a \in Nat /\ x - o = a
  BY <1>2, <1>3
<1>5. \A t \in Segments(k) : InSegment(k, t, x) <=> a \in t.vaddr .. t.vaddr + t.memsz - 1
  <2> TAKE t \in Segments(k)
  <2>1. PICK v, m : v = t.vaddr /\ m = t.memsz
    OBVIOUS
  <2>2. v \in Nat /\ m \in Nat /\ x = o + a
    BY <1>2, <1>3, <2>1
  <2>3. o + v <= x /\ x < o + v + m <=> a \in v .. v + m - 1
    BY ONLY <1>3, <1>4, <2>2
  <2> QED
    BY <1>2, <2>1, <2>3 DEF InSegment
<1>6. InSegment(k, s, x)
  BY <1>5
<1>7. \E p \in PagesIn(fixed) : Within(p, x)
  <2>1. Covers(PagesIn(fixed), k)
    BY <1>1 DEF FinalContent
  <2>2. \A t \in Segments(k) : IsSegment(t)
    BY SegmentsAreApart DEF Apart
  <2> QED
    BY <1>3, <1>4, <1>6, <2>1, <2>2, CoversFacts
<1>8. PICK b \in DOMAIN fixed : Within(Page(b, fixed[b]), x)
  BY <1>7 DEF PagesIn
<1>9. b \in LookedUp(x)
  BY <1>1, <1>4, <1>8, PageIsLookedUp
<1>10. PICK n : n = x - b + 1
  OBVIOUS
<1>11. n \in 1 .. Len(fixed[b]) /\ Cell(x) = fixed[b][n] /\ b \in Nat /\ b + n - 1 = x
  <2>1. n \in 1 .. Len(fixed[b]) /\ Cell(x) = fixed[b][n] /\ b \in Nat
    BY <1>1, <1>4, <1>9, <1>10, CellFacts DEF IsMemory
  <2> QED
    BY <1>4, <1>10, <2>1
<1>12. IsContent(x, Cell(x))
  <2>1. PICK p : p = Page(b, fixed[b])
    OBVIOUS
  <2>2. p.base = b /\ p.data = fixed[b] /\ HasContent(p)
    BY <1>1, <2>1 DEF Page, PagesIn, FinalContent
  <2>3. IsContent(b + n - 1, fixed[b][n])
    BY <1>11, <2>2 DEF HasContent
  <2> QED
    BY <1>11, <2>3
<1>13. PICK t \in Segments(k) : InSegment(k, t, x) /\ Cell(x) = SegmentCell(k, t, x - Offset(k))
  BY <1>4, <1>6, <1>12, ContentIsOwn
<1>14. a \in t.vaddr .. t.vaddr + t.memsz - 1 /\ Cell(x) = SegmentCell(k, t, a)
  BY <1>2, <1>4, <1>5, <1>13
<1>15. Mapped(x)
  BY <1>9 DEF Mapped
<1> QED
  BY <1>2, <1>14, <1>15

(* ContentIInv is an inductive invariant of fix_pages.                     *)
THEOREM ContentIsInductive == FilesAreApart /\ Spec => []ContentIInv
<1>1. FilesAreApart /\ [Next]_loaderVars => FilesAreApart'
  BY DEF FilesAreApart, Offset
<1>2. Spec => []IsCase
  BY InitIsCase, NextIsCase, PTL DEF Spec
<1>3. Init => ContentIInv
  BY DEF Init, ElfInit, ContentIInv
<1> QED
  BY <1>1, <1>2, <1>3, WorkListIsInductive, LayoutIsInductive, NextContentIInv, PTL DEF Spec

(* fix_pages loses nothing: before the first relocation every address of a *)
(* segment is found, and holds what a segment of that file has there       *)
(* (elf.cc:54).                                                            *)
THEOREM BytesAreFound == FilesAreApart /\ Spec => []EveryByteIsFound
<1>1. FilesAreApart /\ [Next]_loaderVars => FilesAreApart'
  BY DEF FilesAreApart, Offset
<1>2. Spec => []IsCase
  BY InitIsCase, NextIsCase, PTL DEF Spec
<1> QED
  BY <1>1, <1>2, BytesFound, WorkListIsInductive, LayoutIsInductive, ContentIsInductive, PTL DEF Spec

-----------------------------------------------------------------------------
(* The border of the stack and of TLS                                      *)

Clear(p) == IsClear(p.base, PageEnd(p))

(* The pages a layout begins with are clear of the stack and of TLS, or    *)
(* are theirs.                                                             *)
LEMMA LayoutClear ==
    ASSUME FilesAreApart, IsCase, WorkListIInv, NEW k \in FilesLoaded,
           NEW others, IsMemory(others), \A b \in DOMAIN others : IsClear(b, b + Len(others[b])),
           NEW q, IsLayout(q, k, others)
    PROVE  \A i \in DOMAIN q : Clear(q[i])
<1>1. k \in Nat /\ \A s \in Segments(k) : Apart(k, s)
  BY SegmentsAreApart
<1>2. ASSUME NEW s \in Segments(k) PROVE Clear(SegmentPage(k, s))
  <2>1. PICK p : p = SegmentPage(k, s)
    OBVIOUS
  <2>2. PICK o, v, m : o = Offset(k) /\ v = s.vaddr /\ m = s.memsz
    OBVIOUS
  <2>3. IsPageOf(p, k, s) /\ Apart(k, s)
    BY <1>1, <2>1, SegmentPageFacts DEF Apart
  <2>4. /\ o \in Nat /\ v \in Nat /\ m \in Nat /\ p.base = o + v /\ PageEnd(p) = o + v + m
        /\ o + v + m <= TlsAddr \/ o + v >= StackAddr + StackSize
    BY <1>1, <2>2, <2>3, OffsetIsNat DEF IsPageOf, Apart, IsSegment
  <2>5. Clear(p)
    BY <2>4 DEF Clear, IsClear
  <2> QED
    BY <2>1, <2>5
<1>3. ASSUME NEW p \in {StackPage, TlsPage}
      PROVE  Clear(p)
  <2>1. /\ {TlsAddr, TlsSize, StackAddr, StackSize} \subseteq Nat
        /\ TlsAddr + TlsSize <= StackAddr
    BY ElfLoaderAssumption DEF FilesAreApart
  <2>2. /\ StackPage.base = StackAddr /\ PageEnd(StackPage) = StackAddr + StackSize
        /\ TlsPage.base = TlsAddr /\ PageEnd(TlsPage) = TlsAddr + TlsSize
    BY <2>1, ZeroPage DEF StackPage, TlsPage
  <2>3. IsClear(StackAddr, StackAddr + StackSize) /\ IsClear(TlsAddr, TlsAddr + TlsSize)
    BY <2>1 DEF IsClear
  <2> HIDE DEF StackPage, TlsPage
  <2> QED
    BY <2>2, <2>3 DEF Clear
<1>4. ASSUME NEW b \in DOMAIN others PROVE Clear(Page(b, others[b]))
  BY DEF Clear, Page, PageEnd
<1> QED
  BY <1>2, <1>3, <1>4 DEF IsLayout

(* A part of a page is clear when the page is.                             *)
LEMMA PartIsClear ==
    ASSUME NEW b \in Nat, NEW e \in Nat, IsClear(b, e), NEW c \in Nat, NEW f \in Nat, b <= c, f <= e
    PROVE  IsClear(c, f)
BY ElfLoaderAssumption DEF IsClear

(* A cut leaves parts of the page that was cut.                            *)
LEMMA FixPageClear ==
    ASSUME LayoutIInv, ClearIInv, FixPage
    PROVE  ClearIInv'
<1>1. PICK n, q, p : n = it + 1 /\ q = pages' /\ p = pages[it]
  OBVIOUS
<1>2. /\ it < Len(pages) /\ fixed' = fixed
      /\ q = IF PageEnd(p) > pages[n].base THEN WithoutOverlap ELSE pages
      /\ IsPages(pages) /\ Ascending(pages) /\ it \in Nat /\ it > 0
  BY <1>1 DEF FixPage, AtPage, This, NextPage, LayoutIInv
<1>3. /\ Len(pages) \in Nat /\ DOMAIN pages = 1 .. Len(pages)
      /\ it \in 1 .. Len(pages) /\ n \in 1 .. Len(pages)
      /\ \A i \in DOMAIN pages : pages[i].base \in Nat /\ PageEnd(pages[i]) \in Nat
  BY <1>1, <1>2 DEF IsPages, PageEnd
<1>4. \A i \in DOMAIN pages : IsClear(pages[i].base, PageEnd(pages[i]))
  BY DEF ClearIInv
<1>5. \A i \in DOMAIN q : IsClear(q[i].base, PageEnd(q[i]))
  <2>1. CASE PageEnd(p) > pages[n].base
    <3>1. q = WithoutOverlap
      BY <1>2, <2>1
    <3>2. /\ q[it].base = p.base /\ PageEnd(q[it]) = pages[n].base
          /\ \A i \in DOMAIN q \ {it} :
                \/ \E j \in DOMAIN pages \ {it} : q[i] = pages[j]
                \/ q[i].base = AfterNext /\ PageEnd(q[i]) = PageEnd(p) /\ p.base <= AfterNext
      BY <1>1, <1>2, <1>3, <2>1, <3>1, WithoutOverlapFacts
    <3>3. AfterNext \in Nat
      BY <1>1, <1>2, <1>3, AfterNextFacts
    <3>4. p.base \in Nat /\ PageEnd(p) \in Nat /\ IsClear(p.base, PageEnd(p)) /\ pages[n].base \in Nat
      BY <1>1, <1>3, <1>4
    <3> TAKE i \in DOMAIN q
    <3>5. CASE i = it
      <4>1. PICK c, f, e : c = q[i].base /\ f = PageEnd(q[i]) /\ e = PageEnd(p)
        OBVIOUS
      <4>2. c = p.base /\ f = pages[n].base /\ f \in Nat /\ e \in Nat /\ e > f
        BY <2>1, <3>2, <3>4, <3>5, <4>1
      <4>3. f <= e
        BY ONLY <4>2
      <4>4. c \in Nat /\ c <= c /\ IsClear(c, e)
        BY <3>4, <4>1, <4>2
      <4> QED
        BY <4>1, <4>2, <4>3, <4>4, PartIsClear
    <3>6. CASE \E j \in DOMAIN pages \ {it} : q[i] = pages[j]
      BY <1>4, <3>6
    <3>7. CASE q[i].base = AfterNext /\ PageEnd(q[i]) = PageEnd(p) /\ p.base <= AfterNext
      <4>1. PageEnd(p) <= PageEnd(p)
        BY <3>4
      <4> QED
        BY <3>3, <3>4, <3>7, <4>1, PartIsClear
    <3> QED
      BY <3>2, <3>5, <3>6, <3>7
  <2>2. CASE ~ (PageEnd(p) > pages[n].base)
    BY <1>2, <1>4, <2>2
  <2> QED
    BY <2>1, <2>2
<1>6. \A i \in DOMAIN pages' : IsClear(pages'[i].base, PageEnd(pages'[i]))
  BY <1>1, <1>5
<1> QED
  BY <1>2, <1>6 DEF ClearIInv, IsClear

(* The pages that are merged are those of the multimap.                    *)
LEMMA WalkEndClear ==
    ASSUME LayoutIInv, ClearIInv, WalkEnd
    PROVE  ClearIInv'
<1>1. PICK F, m : F = FinalPages /\ m = fixed'
  OBVIOUS
<1>2. /\ m = [b \in DOMAIN F \cup DOMAIN fixed |-> IF b \in DOMAIN F THEN F[b] ELSE fixed[b]]
      /\ IsPages(pages) /\ pages' = pages
      /\ \A i \in DOMAIN pages : IsClear(pages[i].base, PageEnd(pages[i]))
      /\ \A b \in DOMAIN fixed : IsClear(b, b + Len(fixed[b]))
  BY <1>1 DEF WalkEnd, LayoutIInv, ClearIInv
<1>3. \A b \in DOMAIN m : IsClear(b, b + Len(m[b]))
  <2> TAKE b \in DOMAIN m
  <2>1. CASE b \in DOMAIN F
    <3>1. PICK i \in DOMAIN pages : pages[i].base = b /\ F[b] = pages[i].data
      BY <1>1, <1>2, <2>1, FinalPagesFacts
    <3>2. m[b] = F[b]
      BY <1>2, <2>1
    <3> QED
      BY <1>2, <3>1, <3>2 DEF PageEnd
  <2>2. CASE b \notin DOMAIN F
    BY <1>2, <2>2
  <2> QED
    BY <2>1, <2>2
<1>4. \A b \in DOMAIN fixed' : IsClear(b, b + Len(fixed'[b]))
  BY <1>1, <1>3
<1> QED
  BY <1>2, <1>4 DEF ClearIInv, IsClear, PageEnd

(* The next layout begins, or the memory is complete.                      *)
LEMMA EraseEndClear ==
    ASSUME FilesAreApart, IsCase, WorkListIInv, LayoutIInv, ClearIInv, EraseEnd
    PROVE  ClearIInv'
<1>1. /\ fixed' = fixed /\ IsMemory(fixed) /\ file \in FilesLoaded
      /\ \A b \in DOMAIN fixed : OutsideTls(b) /\ OutsideTls(b + Len(fixed[b]))
      /\ \A b \in DOMAIN fixed : IsClear(b, b + Len(fixed[b]))
  BY DEF EraseEnd, LayoutIInv, ClearIInv
<1>2. CASE file = 0
  <2>1. pages' = pages
    BY <1>2 DEF EraseEnd
  <2> QED
    BY <1>1, <2>1 DEF ClearIInv, IsClear, PageEnd
<1>3. CASE file # 0
  <2>1. PICK k, q, l : /\ k = (IF file < Len(loaded) THEN file + 1 ELSE 0)
                       /\ q = pages' /\ l = Len(loaded)
    OBVIOUS
  <2>2. q = g_pages(k, fixed)
    BY <1>3, <2>1 DEF EraseEnd, Layout
  <2>3. /\ l \in Nat /\ file \in 1 .. l /\ k = (IF file < l THEN file + 1 ELSE 0)
        /\ FilesLoaded = 0 .. l
    BY <1>1, <1>3, <2>1, LoadedAreFew DEF FilesLoaded
  <2>4. k \in FilesLoaded
    BY <2>3
  <2>5. IsLayout(q, k, fixed)
    BY <1>1, <2>2, <2>4, LayoutStarts
  <2>6. \A i \in DOMAIN q : Clear(q[i])
    BY <1>1, <2>4, <2>5, LayoutClear
  <2>7. \A i \in DOMAIN pages' : IsClear(pages'[i].base, PageEnd(pages'[i]))
    BY <2>1, <2>6 DEF Clear
  <2> QED
    BY <1>1, <2>7 DEF ClearIInv, IsClear
<1> QED
  BY <1>2, <1>3

(* The first layout begins.                                                *)
LEMMA DependenciesEndClear ==
    ASSUME FilesAreApart, IsCase, WorkListIInv, LayoutIInv, DependenciesEnd
    PROVE  ClearIInv'
<1>1. PICK k, q, none : k = (IF loaded = <<>> THEN 0 ELSE 1) /\ q = pages' /\ none = None
  OBVIOUS
<1>2. q = g_pages(k, none) /\ fixed' = fixed /\ DOMAIN fixed = {}
  BY <1>1 DEF DependenciesEnd, Layout, LayoutIInv
<1>3. k \in FilesLoaded
  <2>1. loaded \in Seq(FileNames(program))
    BY DEF WorkListIInv
  <2> QED
    BY <1>1, <2>1 DEF FilesLoaded
<1>4. DOMAIN none = {} /\ IsMemory(none)
  <2>1. DOMAIN none = {} /\ none = [b \in DOMAIN none |-> none[b]]
    BY <1>1 DEF None
  <2> QED
    BY <2>1, FS_EmptySet DEF IsMemory
<1>5. IsLayout(q, k, none)
  BY <1>2, <1>3, <1>4, LayoutStarts
<1>6. \A i \in DOMAIN q : Clear(q[i])
  BY <1>3, <1>4, <1>5, LayoutClear
<1>7. \A i \in DOMAIN pages' : IsClear(pages'[i].base, PageEnd(pages'[i]))
  BY <1>1, <1>6 DEF Clear
<1> QED
  BY <1>2, <1>7 DEF ClearIInv

(* Steps that leave the multimap alone and make no page longer, but for    *)
(* the page for TLS.                                                       *)
LEMMA SameClear ==
    ASSUME ClearIInv, pages' = pages, DOMAIN fixed' \subseteq DOMAIN fixed,
           \A b \in DOMAIN fixed' : \/ Len(fixed'[b]) = Len(fixed[b])
                                    \/ b = TlsAddr /\ IsClear(b, b + Len(fixed'[b]))
    PROVE  ClearIInv'
<1>1. \A b \in DOMAIN fixed' : IsClear(b, b + Len(fixed'[b]))
  BY DEF ClearIInv
<1> QED
  BY <1>1 DEF ClearIInv, IsClear, PageEnd

(* The page for TLS is as long as it should be.                            *)
LEMMA CopyTlsClear ==
    ASSUME FilesAreApart, LayoutIInv, ClearIInv, CopyTls
    PROVE  ClearIInv'
<1>1. PICK t : /\ pages' = pages
               /\ fixed' = fixed \/ fixed' = [fixed EXCEPT ![TlsAddr] = t]
               /\ Len(t) = TlsSize
  BY TlsImageFacts DEF CopyTls
<1>2. IsMemory(fixed)
  BY DEF LayoutIInv
<1>3. DOMAIN fixed' = DOMAIN fixed
  BY <1>1
<1>4. \A b \in DOMAIN fixed' : \/ Len(fixed'[b]) = Len(fixed[b])
                               \/ b = TlsAddr /\ IsClear(b, b + Len(fixed'[b]))
  <2>1. IsClear(TlsAddr, TlsAddr + TlsSize)
    BY ElfLoaderAssumption DEF FilesAreApart, IsClear
  <2> QED
    BY <1>1, <2>1
<1> QED
  BY <1>1, <1>3, <1>4, SameClear

(* Every step keeps pages on one side of the border.                       *)
LEMMA NextClearIInv ==
    /\ FilesAreApart /\ IsCase /\ WorkListIInv /\ LayoutIInv /\ ClearIInv
    /\ [Next]_loaderVars
    => ClearIInv'
<1> SUFFICES ASSUME FilesAreApart, IsCase, WorkListIInv, LayoutIInv, ClearIInv, [Next]_loaderVars
             PROVE  ClearIInv'
  OBVIOUS
<1>1. CASE UNCHANGED <<pages, fixed>>
  BY <1>1 DEF ClearIInv, IsClear, PageEnd
<1>2. CASE LoadDependencies
  BY <1>1, <1>2 DEF LoadDependencies, LoadDependency, DropLoaded, MissingDependency
<1>3. CASE FixPages
  <2>1. CASE KeepFinal
    BY <1>1, <2>1 DEF KeepFinal
  <2>2. CASE EraseEmpty
    <3>1. pages' = pages /\ fixed' = Restrict(fixed, DOMAIN fixed \ {it})
      BY <2>2 DEF EraseEmpty
    <3>2. DOMAIN fixed' \subseteq DOMAIN fixed /\ \A b \in DOMAIN fixed' : fixed'[b] = fixed[b]
      BY <3>1 DEF Restrict
    <3> QED
      BY <3>1, <3>2, SameClear
  <2> QED
    BY <1>3, <2>1, <2>2, FixPageClear, WalkEndClear, EraseEndClear DEF FixPages
<1>4. CASE PatchRelocations
  BY <1>4, RelocateShape, SameClear DEF SameShape
<1>5. CASE RunChild \/ Trace \/ TraceThrows \/ UNCHANGED loaderVars
  BY <1>1, <1>5 DEF RunChild, Trace, TraceThrows, loaderVars, elfVars
<1> QED
  BY <1>2, <1>3, <1>4, <1>5, DependenciesEndClear, CopyTlsClear DEF Next, LoadElf, ReadElf, ElfNext

(* Nothing is laid out at the start.                                       *)
LEMMA InitClearIInv == Init => ClearIInv
<1> SUFFICES ASSUME Init PROVE ClearIInv
  OBVIOUS
<1>1. pages = <<>> /\ fixed = [x \in {} |-> x]
  BY DEF Init, ElfInit, None
<1>2. DOMAIN pages = {} /\ DOMAIN fixed = {}
  BY <1>1
<1> QED
  BY <1>2 DEF ClearIInv

-----------------------------------------------------------------------------
(* The places that relocations patch                                       *)

(* Where the relocations of the files that are loaded are.                 *)
LEMMA PlaceFacts ==
    ASSUME PlacesAreApart, IsCase, WorkListIInv, NEW k \in FilesLoaded,
           NEW i \in DOMAIN File(k).relocations,
           NEW r, r = File(k).relocations[i], NEW x, x = Place(k, r)
    PROVE  /\ k \in Nat /\ i \in Nat /\ r.at \in Nat /\ x \in Nat /\ x = Offset(k) + r.at
           /\ Offset(k) <= x /\ x < Offset(k) + DepAdd
           /\ x < TlsAddr \/ x >= StackAddr + StackSize
<1>1. k \in Nat /\ k \in 0 .. Cardinality(DOMAIN program)
  <2>1. PICK l, c : l = Len(loaded) /\ c = Cardinality(DOMAIN program)
    OBVIOUS
  <2>2. l \in Nat /\ l <= c /\ k \in 0 .. l /\ c \in Nat
    <3>1. IsFiniteSet(DOMAIN program)
      BY LoadersAssumption DEF IsCase
    <3> QED
      BY <2>1, <3>1, LoadedAreFew, FS_CardinalityType DEF FilesLoaded
  <2>3. k \in Nat /\ k \in 0 .. c
    BY ONLY <2>2
  <2> QED
    BY <2>1, <2>3
<1>2. PICK f \in DOMAIN program : File(k) = program[f]
  BY FileExists
<1>3. PICK c \in Cases : program = c.program
  BY DEF IsCase
<1>4. r \in ToSet(c.program[f].relocations)
  BY <1>2, <1>3 DEF ToSet
<1>5. /\ r.at < DepAdd
      /\ Offset(k) + r.at < TlsAddr \/ Offset(k) + r.at >= StackAddr + StackSize
  BY <1>1, <1>2, <1>3, <1>4 DEF PlacesAreApart
<1>6. r.at \in Nat /\ i \in Nat
  BY RelocationFacts
<1>7. PICK o, a, d : o = Offset(k) /\ a = r.at /\ d = DepAdd
  OBVIOUS
<1>8. o \in Nat /\ a \in Nat /\ d \in Nat /\ a < d
  BY <1>1, <1>5, <1>6, <1>7, OffsetIsNat, ElfLoaderAssumption
<1>9. x = o + a
  BY <1>7 DEF Place
<1>10. x \in Nat /\ o <= x /\ x < o + d
  BY ONLY <1>8, <1>9
<1> QED
  BY <1>1, <1>5, <1>6, <1>7, <1>9, <1>10

(* A relocation stays in place when the cell it patched is left alone.     *)
LEMMA SameInPlace ==
    ASSUME UNCHANGED <<program, loaded>>, NEW k, NEW r, IsInPlace(k, r),
           LookedUp(Place(k, r))' = LookedUp(Place(k, r)), Cell(Place(k, r))' = Cell(Place(k, r)),
           DOMAIN found \subseteq DOMAIN found'
    PROVE  IsInPlace(k, r)'
<1>1. find_symbol_glob(k, r.name)' = find_symbol_glob(k, r.name)
  BY SameSymbols
<1>2. PICK a : a = IF r.type = "RELATIVE" THEN 0 ELSE find_symbol_glob(k, r.name)
  OBVIOUS
<1>3. (IF r.type = "RELATIVE" THEN 0 ELSE find_symbol_glob(k, r.name))' = a
  BY <1>1, <1>2
<1>4. Cell(Place(k, r)) = Patch(k, r, a)
  BY <1>2 DEF IsInPlace
<1>5. Mapped(Place(k, r))'
  BY DEF IsInPlace, Mapped
<1>6. r.type # "RELATIVE" => <<k, r.name>> \in DOMAIN found'
  BY DEF IsInPlace
<1> QED
  BY <1>3, <1>4, <1>5, <1>6 DEF IsInPlace

(* What is last after a step was last before it.                           *)
LEMMA LastBefore ==
    ASSUME UNCHANGED <<program, loaded>>, NEW k, NEW i, IsLast(k, i)',
           \A j \in i + 1 .. Len(File(k).relocations) : IsPatched(k, j) => IsPatched(k, j)'
    PROVE  IsLast(k, i)
<1>1. File(k)' = File(k)
  BY DEF File
<1> QED
  BY <1>1 DEF IsLast

(* The cell of an address whose page a step leaves alone.                  *)
LEMMA SameCell ==
    ASSUME IsMemory(fixed), NEW x \in Nat, NEW b \in LookedUp(x),
           DOMAIN fixed' = DOMAIN fixed, fixed'[b] = fixed[b]
    PROVE  LookedUp(x)' = LookedUp(x) /\ Cell(x)' = Cell(x)
<1>1. PICK m : m = fixed'
  OBVIOUS
<1>2. LookedUp(x)' = {e \in DOMAIN m : /\ e <= x /\ x < e + Len(m[e])
                                       /\ \A f \in DOMAIN m : f <= e \/ f > x}
  BY <1>1 DEF LookedUp
<1>3. /\ b \in DOMAIN fixed /\ b <= x /\ x < b + Len(fixed[b])
      /\ \A f \in DOMAIN fixed : f <= b \/ f > x
      /\ \A f \in DOMAIN fixed : f \in Nat
  BY DEF LookedUp, IsMemory
<1>4. b \in LookedUp(x)'
  BY <1>1, <1>2, <1>3
<1>5. ASSUME NEW e \in LookedUp(x)' PROVE e = b
  <2>1. e \in DOMAIN fixed /\ e <= x /\ (b <= e \/ b > x)
    BY <1>1, <1>2, <1>3
  <2>2. e \in Nat /\ b \in Nat /\ (e <= b \/ e > x)
    BY <1>3, <2>1
  <2> QED
    BY <1>3, <2>1, <2>2
<1>6. LookedUp(x)' = {b} /\ LookedUp(x) = {b}
  BY <1>4, <1>5, CellFacts
<1>7. Cell(x) = fixed[b][x - b + 1]
  BY CellFacts
<1>8. Cell(x)' = m[b][x - b + 1]
  <2>1. Cell(x)' = m[CHOOSE f \in LookedUp(x)' : TRUE][x - (CHOOSE f \in LookedUp(x)' : TRUE) + 1]
    BY <1>1 DEF Cell
  <2>2. (CHOOSE f \in LookedUp(x)' : TRUE) = b
    BY <1>6
  <2> QED
    BY <2>1, <2>2
<1> QED
  BY <1>1, <1>6, <1>7, <1>8

(* The store of a relocation: it is in place, and those before it that are *)
(* last at their places are elsewhere.                                     *)
LEMMA StoreInPlace ==
    ASSUME IsMemory(fixed), UNCHANGED <<program, loaded>>,
           NEW r, NEW x, x = Place(file, r), x \in Nat, Mapped(x),
           NEW a, a = IF r.type = "RELATIVE" THEN 0 ELSE find_symbol_glob(file, r.name),
           fixed' = Put(x, Patch(file, r, a)),
           r.type # "RELATIVE" => <<file, r.name>> \in DOMAIN found',
           NEW k, k = file
    PROVE  IsInPlace(k, r)'
<1>1. LookedUp(x)' = LookedUp(x) /\ Cell(x)' = Patch(k, r, a) /\ x = Place(k, r)
  BY PutFacts
<1>2. find_symbol_glob(k, r.name)' = find_symbol_glob(k, r.name)
  BY SameSymbols
<1>3. (IF r.type = "RELATIVE" THEN 0 ELSE find_symbol_glob(k, r.name))' = a
  BY <1>2
<1>4. Mapped(x)'
  BY <1>1 DEF Mapped
<1>5. r.type # "RELATIVE" => <<k, r.name>> \in DOMAIN found'
  OBVIOUS
<1> QED
  BY <1>1, <1>3, <1>4, <1>5 DEF IsInPlace

(* A relocation that stores a word.                                        *)
LEMMA StorePatchIInv ==
    ASSUME PlacesAreApart, IsCase, WorkListIInv, LayoutIInv, PatchIInv,
           RelocateSymbol \/ RelocateRelative
    PROVE  PatchIInv'
<1>1. PICK n, r, x, f : n = it /\ r = Relocation /\ x = Place(file, r) /\ f = file
  OBVIOUS
<1>2. /\ IsMemory(fixed) /\ f \in FilesLoaded /\ n \in Nat /\ n > 0 /\ n <= Len(Relocations)
      /\ UNCHANGED <<program, loaded, file, stage>> /\ stage = "relocate" /\ it' = n + 1
      /\ Mapped(x) /\ r.type \in BySymbol \cup {"RELATIVE"} /\ r.type \notin Later
  BY <1>1 DEF LayoutIInv, RelocateSymbol, RelocateRelative, AtRelocation, BySymbol, Later
<1>3. Relocations = File(f).relocations /\ r = File(f).relocations[n]
  BY <1>1 DEF Relocations, Relocation
<1>4. n \in DOMAIN File(f).relocations
  BY <1>2, <1>3, RelocationFacts
<1>5. /\ f \in Nat /\ r.at \in Nat /\ x \in Nat /\ x = Offset(f) + r.at
      /\ Offset(f) <= x
  BY <1>1, <1>2, <1>3, <1>4, PlaceFacts
<1>6. PICK a : a = IF r.type = "RELATIVE" THEN 0 ELSE find_symbol_glob(file, r.name)
  OBVIOUS
<1>7. /\ fixed' = Put(x, Patch(file, r, a))
      /\ DOMAIN found \subseteq DOMAIN found'
      /\ r.type # "RELATIVE" => <<file, r.name>> \in DOMAIN found'
  <2>1. CASE RelocateSymbol
    <3>1. r.type # "RELATIVE"
      BY <1>1, <2>1 DEF RelocateSymbol, BySymbol
    <3>2. a = find_symbol_glob(file, r.name)
      BY <1>6, <3>1
    <3> QED
      BY <1>1, <2>1, <3>2 DEF RelocateSymbol
  <2>2. CASE RelocateRelative
    BY <1>1, <1>6, <2>2 DEF RelocateRelative
  <2> QED
    BY <2>1, <2>2
<1>8. IsInPlace(f, r)'
  BY <1>1, <1>2, <1>5, <1>6, <1>7, StoreInPlace
<1>9. \A k : File(k)' = File(k)
  BY <1>2 DEF File
<1>10. \A k, i : IsPatched(k, i)' <=> k < f \/ (k = f /\ i < n + 1)
  BY <1>1, <1>2 DEF IsPatched
<1>11. \A k, i : IsPatched(k, i) <=> k < f \/ (k = f /\ i < n)
  BY <1>1 DEF IsPatched
<1>12. ASSUME NEW k \in FilesLoaded, NEW i \in DOMAIN File(k).relocations,
              IsPatched(k, i)', IsLast(k, i)', ~ (k = f /\ i = n)
       PROVE  IsInPlace(k, File(k).relocations[i])'
  <2>1. PICK s, y, l : /\ s = File(k).relocations[i] /\ y = Place(k, s)
                       /\ l = Len(File(k).relocations)
    OBVIOUS
  <2>2. /\ k \in Nat /\ i \in Nat /\ s.at \in Nat /\ y \in Nat /\ y = Offset(k) + s.at
        /\ Offset(k) <= y /\ y < Offset(k) + DepAdd
    BY <2>1, PlaceFacts
  <2>3. l \in Nat /\ DOMAIN File(k).relocations = 1 .. l
    BY <2>1, RelocationFacts
  <2>4. IsPatched(k, i)
    BY <1>2, <1>10, <1>11, <1>12, <2>2
  <2>5. \A j \in i + 1 .. l : IsPatched(k, j) => IsPatched(k, j)'
    BY <1>2, <1>10, <1>11, <2>2, <2>3
  <2>6. IsLast(k, i)
    BY <1>2, <1>12, <2>1, <2>5, LastBefore
  <2>7. IsInPlace(k, s)
    BY <1>2, <1>12, <2>1, <2>4, <2>6 DEF PatchIInv, LaidOut
  <2>8. y # x
    <3>1. CASE k = f
      <4>1. i < n
        BY <1>11, <2>4, <2>2, <3>1, <1>5
      <4>2. n \in i + 1 .. l /\ IsPatched(k, n)'
        BY <1>2, <1>3, <1>10, <2>1, <2>2, <2>3, <3>1, <4>1
      <4>3. File(k).relocations[n].at # s.at
        BY <1>2, <1>3, <1>9, <1>12, <2>1, <3>1, <4>2 DEF IsLast
      <4> QED
        BY <1>3, <1>5, <2>2, <3>1, <4>3, OffsetIsNat
    <3>2. CASE k # f
      <4>1. k < f
        BY <1>11, <2>4, <3>2
      <4>2. Offset(k) + DepAdd <= Offset(f)
        BY <1>5, <2>2, <4>1, OffsetsAreApart
      <4>3. /\ Offset(k) \in Nat /\ Offset(f) \in Nat /\ DepAdd \in Nat
        BY <1>5, <2>2, OffsetIsNat, ElfLoaderAssumption
      <4> QED
        BY <1>5, <2>2, <4>2, <4>3
    <3> QED
      BY <3>1, <3>2
  <2>9. LookedUp(y)' = LookedUp(y) /\ Cell(y)' = Cell(y)
    <3>1. Mapped(y)
      BY <2>1, <2>7 DEF IsInPlace
    <3> QED
      BY <1>2, <1>5, <1>7, <2>2, <2>8, <3>1, PutFacts
  <2>10. IsInPlace(k, s)'
    BY <1>2, <1>7, <2>1, <2>7, <2>9, SameInPlace
  <2>11. File(k)' = File(k)
    BY <1>9
  <2> QED
    BY <2>1, <2>10, <2>11
<1>13. \A k \in FilesLoaded : \A i \in DOMAIN File(k).relocations :
          IsPatched(k, i)' /\ IsLast(k, i)' => IsInPlace(k, File(k).relocations[i])'
  <2> SUFFICES ASSUME NEW k \in FilesLoaded, NEW i \in DOMAIN File(k).relocations,
                      IsPatched(k, i)', IsLast(k, i)'
               PROVE  IsInPlace(k, File(k).relocations[i])'
    OBVIOUS
  <2>1. CASE k = f /\ i = n
    <3>1. File(k).relocations[i] = r /\ (File(k).relocations[i])' = r
      BY <1>3, <1>9, <2>1
    <3>2. IsInPlace(k, r)'
      BY <1>8, <2>1
    <3> QED
      BY <3>1, <3>2
  <2> QED
    BY <1>12, <2>1
<1>14. stage' \notin {"tls", "loaded"} /\ FilesLoaded' = FilesLoaded
  BY <1>2 DEF FilesLoaded
<1> QED
  BY <1>9, <1>13, <1>14 DEF PatchIInv

(* Steps that write to no memory and come after the relocations they count *)
(* as patched.                                                             *)
LEMMA SamePatchIInv ==
    ASSUME IsCase, WorkListIInv, PatchIInv, LaidOut, UNCHANGED <<program, loaded, fixed, found>>,
           \A k \in FilesLoaded : \A i \in DOMAIN File(k).relocations :
              /\ IsPatched(k, i) => IsPatched(k, i)'
              /\ IsPatched(k, i)' => IsPatched(k, i) \/ File(k).relocations[i].type \in Later,
           stage' \in {"tls", "loaded"} => (file = Len(loaded) /\ it = Len(Relocations) + 1)'
    PROVE  PatchIInv'
<1>1. \A k : File(k)' = File(k)
  BY DEF File
<1>2. FilesLoaded' = FilesLoaded
  BY DEF FilesLoaded
<1>3. \A y : LookedUp(y)' = LookedUp(y)
  BY DEF LookedUp
<1>4. \A y : Cell(y)' = Cell(y)
  BY <1>3 DEF Cell
<1>5. ASSUME NEW k \in FilesLoaded, NEW i \in DOMAIN File(k).relocations,
             IsPatched(k, i)', IsLast(k, i)'
      PROVE  IsInPlace(k, File(k).relocations[i])'
  <2>1. PICK s, l : s = File(k).relocations[i] /\ l = Len(File(k).relocations)
    OBVIOUS
  <2>2. s.type \notin Later /\ (File(k).relocations[i])' = s
    BY <1>1, <1>5, <2>1 DEF IsLast
  <2>3. IsPatched(k, i)
    BY <1>5, <2>1, <2>2
  <2>4. \A j \in i + 1 .. l : IsPatched(k, j) => IsPatched(k, j)'
    <3>1. l \in Nat /\ DOMAIN File(k).relocations = 1 .. l
      BY <2>1, RelocationFacts
    <3>2. \A j \in i + 1 .. l : j \in 1 .. l
      BY <3>1
    <3> QED
      BY <3>1, <3>2
  <2>5. IsLast(k, i)
    BY <1>5, <2>1, <2>4, LastBefore
  <2>6. IsInPlace(k, s)
    BY <2>1, <2>3, <2>5 DEF PatchIInv
  <2>7. IsInPlace(k, s)'
    BY <1>3, <1>4, <2>6, SameInPlace
  <2> QED
    BY <2>2, <2>7
<1> QED
  BY <1>1, <1>2, <1>5 DEF PatchIInv

(* Any step of patch_relocations.                                          *)
LEMMA RelocatePatchIInv ==
    ASSUME PlacesAreApart, IsCase, WorkListIInv, LayoutIInv, PatchIInv, PatchRelocations
    PROVE  PatchIInv'
<1>1. /\ stage = "relocate" /\ LaidOut /\ it \in Nat /\ file \in FilesLoaded
      /\ it > 0
  BY DEF LayoutIInv, PatchRelocations, RelocateSymbol, RelocateRelative, RelocateLater, RelocateThrow,
     RelocateDangling, RelocateEnd, AtRelocation, LaidOut
<1>2. \A k \in FilesLoaded : /\ k \in Nat /\ Len(File(k).relocations) \in Nat
                             /\ DOMAIN File(k).relocations = 1 .. Len(File(k).relocations)
  <2>1. \A k \in FilesLoaded : k \in Nat
    BY LoadedAreFew DEF FilesLoaded
  <2> QED
    BY <2>1, RelocationFacts
<1>3. PICK n, f, l : n = it /\ f = file /\ l = Len(loaded)
  OBVIOUS
<1>4. l \in Nat /\ f \in 0 .. l /\ f \in Nat /\ n \in Nat
  BY <1>1, <1>2, <1>3, LoadedAreFew DEF FilesLoaded
<1>5. \A k, i : IsPatched(k, i) <=> k < f \/ (k = f /\ i < n)
  BY <1>3 DEF IsPatched
<1>6. CASE RelocateLater
  <2>1. /\ UNCHANGED <<program, loaded, fixed, found, file, stage>> /\ it' = n + 1
        /\ File(f).relocations[n].type \in Later
    BY <1>3, <1>6 DEF RelocateLater, Relocation, Relocations
  <2>2. \A k, i : IsPatched(k, i)' <=> k < f \/ (k = f /\ i < n + 1)
    BY <1>3, <2>1 DEF IsPatched
  <2>3. ASSUME NEW k \in FilesLoaded, NEW i \in DOMAIN File(k).relocations
        PROVE  /\ IsPatched(k, i) => IsPatched(k, i)'
               /\ IsPatched(k, i)' => IsPatched(k, i) \/ File(k).relocations[i].type \in Later
    <3>1. i \in Nat
      BY <1>2
    <3>2. i < n + 1 => i < n \/ i = n
      BY <1>4, <3>1
    <3>3. i < n => i < n + 1
      BY <1>4, <3>1
    <3> QED
      BY <1>5, <2>1, <2>2, <3>2, <3>3
  <2> QED
    BY <1>1, <2>1, <2>3, SamePatchIInv
<1>7. CASE RelocateThrow \/ RelocateDangling
  <2>1. UNCHANGED <<program, loaded, fixed, found, file, it, stage>>
    BY <1>7 DEF RelocateThrow, RelocateDangling
  <2>2. \A k, i : IsPatched(k, i)' <=> IsPatched(k, i)
    BY <2>1 DEF IsPatched
  <2> QED
    BY <1>1, <2>1, <2>2, SamePatchIInv
<1>8. CASE RelocateEnd
  <2>1. /\ UNCHANGED <<program, loaded, fixed, found>> /\ n = Len(File(f).relocations) + 1
        /\ \/ f < l /\ file' = f + 1 /\ it' = 1 /\ stage' = stage
           \/ ~ (f < l) /\ stage' = "tls" /\ file' = f /\ it' = n
    BY <1>3, <1>8 DEF RelocateEnd, Relocations
  <2>2. \A k, i : IsPatched(k, i)' <=> k < file' \/ (k = file' /\ i < it')
    BY DEF IsPatched
  <2>3. ASSUME NEW k \in FilesLoaded, NEW i \in DOMAIN File(k).relocations
        PROVE  IsPatched(k, i)' <=> IsPatched(k, i)
    <3>1. PICK m : m = Len(File(k).relocations)
      OBVIOUS
    <3>2. k \in Nat /\ m \in Nat /\ i \in 1 .. m /\ (k = f => n = m + 1)
      BY <1>2, <2>1, <3>1
    <3>3. CASE file' = f + 1 /\ it' = 1
      BY <1>4, <1>5, <2>2, <3>2, <3>3
    <3>4. CASE file' = f /\ it' = n
      BY <1>5, <2>2, <3>4
    <3> QED
      BY <2>1, <3>3, <3>4
  <2>4. stage' \in {"tls", "loaded"} => (file = Len(loaded) /\ it = Len(Relocations) + 1)'
    <3> SUFFICES ASSUME stage' \in {"tls", "loaded"}
                 PROVE  file' = Len(loaded') /\ it' = Len(Relocations') + 1
      OBVIOUS
    <3>1. ~ (f < l) /\ file' = f /\ it' = n
      BY <1>1, <2>1
    <3>2. f = l
      BY <1>4, <3>1
    <3>3. Relocations' = File(f).relocations
      BY <2>1, <3>1 DEF Relocations, File
    <3> QED
      BY <1>3, <2>1, <3>1, <3>2, <3>3
  <2> QED
    BY <1>1, <2>1, <2>3, <2>4, SamePatchIInv
<1> QED
  BY <1>6, <1>7, <1>8, StorePatchIInv DEF PatchRelocations

(* When the relocations begin none is patched.                             *)
LEMMA EraseEndPatchIInv ==
    ASSUME IsCase, WorkListIInv, EraseEnd
    PROVE  PatchIInv'
<1>1. CASE file = 0
  <2>1. UNCHANGED <<program, loaded, file>> /\ stage' = "relocate" /\ it' = 1
    BY <1>1 DEF EraseEnd
  <2>2. FilesLoaded' = FilesLoaded /\ \A k : File(k)' = File(k)
    BY <2>1 DEF FilesLoaded, File
  <2>3. ASSUME NEW k \in FilesLoaded, NEW i \in DOMAIN File(k).relocations
        PROVE  ~ IsPatched(k, i)'
    <3>1. k \in Nat /\ i \in Nat /\ i > 0
      <4>1. k \in Nat
        BY LoadedAreFew DEF FilesLoaded
      <4>2. Len(File(k).relocations) \in Nat /\ i \in 1 .. Len(File(k).relocations)
        BY RelocationFacts
      <4> QED
        BY <4>1, <4>2
    <3> QED
      BY <1>1, <2>1, <3>1 DEF IsPatched
  <2> QED
    BY <2>1, <2>2, <2>3 DEF PatchIInv
<1>2. CASE file # 0
  <2>1. stage' = "walk"
    BY <1>2 DEF EraseEnd
  <2> QED
    BY <2>1 DEF PatchIInv, LaidOut
<1> QED
  BY <1>1, <1>2

(* A place is never in the page for TLS.                                   *)
LEMMA PlaceIsElsewhere ==
    ASSUME FilesAreApart, IsMemory(fixed), ClearIInv, NEW x \in Nat,
           x < TlsAddr \/ x >= StackAddr + StackSize,
           NEW b \in LookedUp(x)
    PROVE  b # TlsAddr
<1> SUFFICES ASSUME b = TlsAddr PROVE FALSE
  OBVIOUS
<1>1. PICK l, t, z, s, e : /\ l = Len(fixed[b]) /\ t = TlsAddr /\ z = TlsSize
                           /\ s = StackAddr /\ e = StackSize
  OBVIOUS
<1>2. /\ l \in Nat /\ t \in Nat /\ z \in Nat /\ s \in Nat /\ e \in Nat /\ z > 0 /\ t + z <= s
  BY <1>1, ElfLoaderAssumption DEF LookedUp, IsMemory, FilesAreApart
<1>3. t <= x /\ x < t + l
  BY <1>1 DEF LookedUp
<1>4. t + l <= t \/ t >= s + e \/ (t <= t /\ t + l <= s + e)
  BY <1>1 DEF ClearIInv, IsClear, LookedUp
<1>5. x < t \/ x >= s + e
  BY <1>1
<1> QED
  BY ONLY <1>2, <1>3, <1>4, <1>5, x \in Nat

(* No place is in the page for TLS, which is written last.                 *)
LEMMA CopyTlsPatchIInv ==
    ASSUME FilesAreApart, PlacesAreApart, IsCase, WorkListIInv, LayoutIInv, ClearIInv, PatchIInv,
           CopyTls
    PROVE  PatchIInv'
<1>1. PICK t : /\ fixed' = fixed \/ fixed' = [fixed EXCEPT ![TlsAddr] = t]
               /\ UNCHANGED <<program, loaded, file, it, found>>
               /\ stage = "tls" /\ stage' = "loaded"
  BY DEF CopyTls
<1>2. IsMemory(fixed)
  BY DEF LayoutIInv
<1>3. \A k : File(k)' = File(k)
  BY <1>1 DEF File
<1>4. FilesLoaded' = FilesLoaded /\ Relocations' = Relocations
  BY <1>1, <1>3 DEF FilesLoaded, Relocations
<1>5. \A k, i : IsPatched(k, i)' <=> IsPatched(k, i)
  BY <1>1 DEF IsPatched
<1>6. ASSUME NEW k \in FilesLoaded, NEW i \in DOMAIN File(k).relocations,
             IsPatched(k, i)', IsLast(k, i)'
      PROVE  IsInPlace(k, File(k).relocations[i])'
  <2>1. PICK s, y : s = File(k).relocations[i] /\ y = Place(k, s)
    OBVIOUS
  <2>2. (File(k).relocations[i])' = s
    BY <1>3, <2>1
  <2>3. IsPatched(k, i) /\ IsLast(k, i)
    BY <1>1, <1>5, <1>6, LastBefore
  <2>4. IsInPlace(k, s)
    BY <1>1, <2>1, <2>3 DEF PatchIInv, LaidOut
  <2>5. y \in Nat /\ (y < TlsAddr \/ y >= StackAddr + StackSize)
    BY <2>1, PlaceFacts
  <2>6. PICK b : b \in LookedUp(y)
    BY <2>1, <2>4 DEF IsInPlace, Mapped
  <2>7. b # TlsAddr
    BY <1>2, <2>5, <2>6, PlaceIsElsewhere
  <2>8. DOMAIN fixed' = DOMAIN fixed /\ fixed'[b] = fixed[b]
    <3>1. b \in DOMAIN fixed
      BY <2>6 DEF LookedUp
    <3> QED
      BY <1>1, <2>7, <3>1
  <2>9. LookedUp(y)' = LookedUp(y) /\ Cell(y)' = Cell(y)
    BY <1>2, <2>5, <2>6, <2>8, SameCell
  <2>10. IsInPlace(k, s)'
    BY <1>1, <2>1, <2>4, <2>9, SameInPlace
  <2> QED
    BY <2>2, <2>10
<1>7. (file = Len(loaded) /\ it = Len(Relocations) + 1)'
  BY <1>1, <1>4 DEF PatchIInv
<1> QED
  BY <1>3, <1>4, <1>6, <1>7 DEF PatchIInv

(* Every step keeps what was patched in place.                             *)
LEMMA NextPatchIInv ==
    /\ FilesAreApart /\ PlacesAreApart /\ IsCase /\ WorkListIInv /\ LayoutIInv /\ ClearIInv
    /\ PatchIInv /\ [Next]_loaderVars
    => PatchIInv'
<1> SUFFICES ASSUME FilesAreApart, PlacesAreApart, IsCase, WorkListIInv, LayoutIInv, ClearIInv,
                    PatchIInv, [Next]_loaderVars
             PROVE  PatchIInv'
  OBVIOUS
<1>1. CASE stage' \in {"dependencies", "walk", "erase"}
  BY <1>1 DEF PatchIInv, LaidOut
<1>2. CASE LoadDependencies \/ DependenciesEnd
  BY <1>1, <1>2 DEF LoadDependencies, LoadDependency, DropLoaded, MissingDependency, AtDependency,
     DependenciesEnd
<1>3. CASE FixPages
  <2>1. CASE FixPage \/ WalkEnd \/ KeepFinal \/ EraseEmpty
    BY <1>1, <2>1 DEF FixPage, AtPage, WalkEnd, KeepFinal, EraseEmpty, AtFinal
  <2> QED
    BY <1>3, <2>1, EraseEndPatchIInv DEF FixPages
<1>4. CASE RunChild \/ Trace \/ TraceThrows \/ UNCHANGED loaderVars
  <2>1. UNCHANGED <<stage, program, loaded, file, it, fixed, found>>
    BY <1>4 DEF RunChild, Trace, TraceThrows, loaderVars, elfVars
  <2>2. CASE LaidOut
    <3>1. \A k, i : IsPatched(k, i)' <=> IsPatched(k, i)
      BY <2>1 DEF IsPatched
    <3>2. Relocations' = Relocations
      BY <2>1 DEF Relocations, File
    <3>3. stage' \in {"tls", "loaded"} => (file = Len(loaded) /\ it = Len(Relocations) + 1)'
      BY <2>1, <3>2 DEF PatchIInv
    <3> QED
      BY <2>1, <2>2, <3>1, <3>3, SamePatchIInv
  <2>3. CASE ~ LaidOut
    BY <2>1, <2>3 DEF PatchIInv, LaidOut
  <2> QED
    BY <2>2, <2>3
<1> QED
  BY <1>2, <1>3, <1>4, RelocatePatchIInv, CopyTlsPatchIInv DEF Next, LoadElf, ReadElf, ElfNext

(* ClearIInv is an inductive invariant of fix_pages and of what writes to  *)
(* memory after it.                                                        *)
THEOREM ClearIsInductive == FilesAreApart /\ Spec => []ClearIInv
<1>1. FilesAreApart /\ [Next]_loaderVars => FilesAreApart'
  BY DEF FilesAreApart, Offset
<1>2. Spec => []IsCase
  BY InitIsCase, NextIsCase, PTL DEF Spec
<1> QED
  BY <1>1, <1>2, InitClearIInv, WorkListIsInductive, LayoutIsInductive, NextClearIInv, PTL DEF Spec

(* PatchIInv is an inductive invariant of patch_relocations and of what    *)
(* writes the page for TLS.                                                *)
THEOREM PatchIsInductive == FilesAreApart /\ PlacesAreApart /\ Spec => []PatchIInv
<1>1. FilesAreApart /\ [Next]_loaderVars => FilesAreApart'
  BY DEF FilesAreApart, Offset
<1>2. PlacesAreApart /\ [Next]_loaderVars => PlacesAreApart'
  BY DEF PlacesAreApart, Offset
<1>3. Spec => []IsCase
  BY InitIsCase, NextIsCase, PTL DEF Spec
<1>4. Init => PatchIInv
  BY DEF Init, ElfInit, PatchIInv, LaidOut
<1> QED
  BY <1>1, <1>2, <1>3, <1>4, WorkListIsInductive, LayoutIsInductive, ClearIsInductive, NextPatchIInv,
     PTL DEF Spec

(* When everything is loaded, each place a file asks to be patched holds   *)
(* the word of the last relocation that names it, for any files whose      *)
(* segments and places are apart from the page for TLS (elf.cc:435).       *)
THEOREM RelocationsAreInPlace == FilesAreApart /\ PlacesAreApart /\ Spec => []RelocationsHold
<1>1. IsCase /\ WorkListIInv /\ LayoutIInv /\ PatchIInv /\ FoundIInv => RelocationsHold
  <2> SUFFICES ASSUME IsCase, WorkListIInv, LayoutIInv, PatchIInv, FoundIInv, stage = "loaded",
                      NEW k \in FilesLoaded, NEW i \in DOMAIN File(k).relocations,
                      File(k).relocations[i].type \notin Later,
                      \A j \in i + 1 .. Len(File(k).relocations) :
                         \/ File(k).relocations[j].type \in Later
                         \/ File(k).relocations[j].at # File(k).relocations[i].at
               PROVE  Cell(Offset(k) + File(k).relocations[i].at) =
                         Patch(k, File(k).relocations[i],
                               IF File(k).relocations[i].type = "RELATIVE" THEN 0
                               ELSE found[<<k, File(k).relocations[i].name>>])
    BY Zenon DEF RelocationsHold
  <2>1. PICK r, l, n : r = File(k).relocations[i] /\ l = Len(loaded) /\ n = it
    OBVIOUS
  <2>2. file = l /\ n = Len(Relocations) + 1
    BY <2>1 DEF PatchIInv
  <2>3. /\ k \in Nat /\ l \in Nat /\ k <= l /\ i \in 1 .. Len(File(k).relocations)
        /\ Len(File(k).relocations) \in Nat
    BY <2>1, RelocationFacts, LoadedAreFew DEF FilesLoaded
  <2>4. IsPatched(k, i)
    <3>1. k = l => n = Len(File(k).relocations) + 1
      BY <2>2 DEF Relocations
    <3>2. k < l \/ (k = l /\ i < n)
      BY <2>3, <3>1
    <3> QED
      BY <2>1, <2>2, <3>2 DEF IsPatched
  <2>5. IsLast(k, i)
    BY DEF IsLast
  <2>6. IsInPlace(k, r)
    BY <2>1, <2>4, <2>5 DEF PatchIInv, LaidOut
  <2>7. CASE r.type = "RELATIVE"
    BY <2>1, <2>6, <2>7 DEF IsInPlace, Place
  <2>8. CASE r.type # "RELATIVE"
    <3>1. <<k, r.name>> \in DOMAIN found
      BY <2>6, <2>8 DEF IsInPlace
    <3>2. found[<<k, r.name>>] = find_symbol_glob(k, r.name)
      BY <3>1 DEF FoundIInv
    <3>3. Cell(Place(k, r)) = Patch(k, r, find_symbol_glob(k, r.name))
      BY <2>6, <2>8 DEF IsInPlace
    <3> QED
      BY <2>1, <2>8, <3>2, <3>3 DEF Place
  <2> QED
    BY <2>7, <2>8
<1>2. Spec => []IsCase
  BY InitIsCase, NextIsCase, PTL DEF Spec
<1> QED
  BY <1>1, <1>2, WorkListIsInductive, LayoutIsInductive, PatchIsInductive, FoundIsInductive, PTL
=============================================================================
