----------------------------- MODULE MCLoaders ------------------------------
(* Loaders for TLC: programs that differ in what they need, in their       *)
(* segments, and in their symbols and relocations, one thing at a time.    *)
EXTENDS Loaders

Segment(v, filesz, memsz) == [vaddr |-> v, filesz |-> filesz, memsz |-> memsz, null |-> FALSE]
Plain(needed) ==
    [needed |-> needed, segments |-> <<Segment(0, 1, 1)>>, symbols |-> <<>>,
     relocations |-> <<>>, tdata |-> <<>>]

(* What three files need of each other and of a file that is not there.    *)
Short(S) == {<<>>} \cup {<<a>> : a \in S} \cup {s \in S \X S : s[1] # s[2]}

MCGraphs ==
    {[f \in {"exe", "a", "b"} |-> Plain(n[f])] :
        n \in [exe : {<<"a">>, <<"a", "b">>, <<"b", "exe">>},
               a : Short({"exe", "a", "b", "none"}), b : Short({"exe", "a", "b", "none"})]}

(* Segments in all positions to each other, one of them with memory beyond *)
(* its file contents, and the empty one that every linker adds.            *)
MCSegments == [vaddr : 0 .. 3, filesz : {2}, memsz : {0, 1, 4}, null : {FALSE}]

MCImages ==
    {[f \in {"exe"} |-> [Plain(<<>>) EXCEPT !.segments = s \o <<Segment(0, 0, 0)>>]] :
        s \in MCSegments \X MCSegments \X MCSegments}
    \cup {[f \in {"exe", "a"} |->
              IF f = "exe" THEN Plain(<<"a">>)
              ELSE [Plain(<<>>) EXCEPT !.segments =
                       <<Segment(0, 0, 0), Segment(0, 4, 4), s, [s EXCEPT !.null = TRUE, !.memsz = 4]>>]] :
            s \in MCSegments}

(* One symbol s that each of three files may have, refer to and define.    *)
Symbol(binding, defined) == <<[name |-> "s", value |-> 1, binding |-> binding, defined |-> defined]>>

MCSymbols == {Symbol("local", TRUE), Symbol("global", TRUE), Symbol("weak", TRUE), Symbol("global", FALSE)}

Relocate(type, name, at, addend) == [type |-> type, name |-> name, at |-> at, addend |-> addend]

MCRelocations(symbols) ==
    IF symbols = <<>> THEN {<<>>, <<Relocate("RELATIVE", "", 2, 3)>>}
    ELSE {<<Relocate("RELATIVE", "", 1, 1), Relocate("GLOB_DAT", "s", 1, 0), Relocate("TPOFF64", "", 0, 1)>>,
          <<Relocate("R64", "s", 2, 2), Relocate("IRELATIVE", "", 2, 0), Relocate("JUMP_SLOT", "s", 3, 0)>>}

MCFiles(needed, tdata) ==
    UNION {{[Plain(needed) EXCEPT !.segments = <<Segment(0, 4, 4)>>, !.symbols = s,
             !.relocations = r, !.tdata = t] :
        r \in MCRelocations(s), t \in tdata} : s \in MCSymbols \cup {<<>>}}

MCLinked ==
    {[f \in {"exe", "a", "b"} |-> IF f = "exe" THEN x ELSE IF f = "a" THEN y ELSE z] :
        x \in MCFiles(<<"b", "a">>, {<<>>, <<1, 2>>}),
        y \in {f \in MCFiles(<<>>, {<<2>>}) : Len(f.relocations) # 1 /\
                  \A r \in ToSet(f.relocations) : r.type # "GLOB_DAT"},
        z \in {f \in MCFiles(<<"a">>, {<<>>}) : f.relocations # <<>> /\
                  \A r \in ToSet(f.relocations) : r.type # "R64"}}

(* What cannot be loaded: an unknown relocation, one outside the segments, *)
(* a .tdata greater than the TLS page.                                     *)
MCBroken ==
    {[f \in {"exe"} |-> [Plain(<<>>) EXCEPT !.relocations = r, !.tdata = t]] :
        r \in {<<>>, <<Relocate("COPY", "", 0, 0)>>, <<Relocate("RELATIVE", "", 6, 0)>>},
        t \in {<<>>, <<0, 0, 0, 0>>}}

MCPrograms == MCGraphs \cup MCImages \cup MCLinked \cup MCBroken

MCGuests ==
    [moved : BOOLEAN, executes : BOOLEAN, signalled : BOOLEAN, arrives : BOOLEAN,
     regions : {<<[readable |-> TRUE, served |-> TRUE], [readable |-> FALSE, served |-> FALSE]>>,
                <<[readable |-> TRUE, served |-> TRUE], [readable |-> TRUE, served |-> FALSE]>>}]

MCProcess == CHOOSE g \in MCGuests : TRUE

MCCases ==
    [loader : {"elf"}, program : MCPrograms, guest : {MCProcess}]
    \cup [loader : {"lx86"}, guest : MCGuests,
          program : {p \in MCGraphs : p["exe"].needed = <<"a">> /\ Len(p["a"].needed) < 2
                                       /\ p["b"].needed = <<>>}]

ASSUME MCFilesAreApart == FilesAreApart /\ PlacesAreApart
=============================================================================
