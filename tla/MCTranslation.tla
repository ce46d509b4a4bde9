--------------------------- MODULE MCTranslation ----------------------------
(***************************************************************************)
(* Programs of one or two instructions, in every operand form that the     *)
(* translator translates exactly, on operands at both ends of every width. *)
(* The forms left out are the ones it does not: see the README.            *)
(***************************************************************************)
EXTENDS Translation

Widths == {W8, W16, W32, W64}
Wide   == {W32, W64}

Ends == {0, 1} \cup UNION {{2 ^ (b - 1) - 1, 2 ^ (b - 1), 2 ^ b - 1} : b \in Widths}
Few  == {0, 1, 2 ^ W8 - 1, 2 ^ W16, 2 ^ (W32 - 1), 2 ^ W32 - 1, 2 ^ (W64 - 1), 2 ^ W64 - 1}

DefaultRegs  == [RAX |-> 4660, RBX |-> 40, RCX |-> 2, RDX |-> 43981, RSP |-> 104,
                 RBP |-> 120, RSI |-> 48, RDI |-> 56, FS |-> 32]
DefaultFlags == [CF |-> 1, ZF |-> 0, SF |-> 1, OF |-> 0, DF |-> 0]
DefaultMem   == [a \in {32, 34, 40, 48, 52, 55, 56, 57, 58, 60, 64, 96, 104, 120} |->
                    IF a = 48 THEN 48 ELSE 700 + a]

(* What differs from the defaults.                                         *)
Regs(S)  == {r @@ DefaultRegs : r \in S}
Flags2(S) == {f @@ DefaultFlags : f \in S}
Mems(S)  == {m @@ DefaultMem : m \in S}

Same        == {<<>>}
RAXs(S)     == {[RAX |-> x] : x \in S}
RAXRDXs(S, T) == {[RAX |-> x, RDX |-> y] : x \in S, y \in T}
RAXRCXs(S, T) == {[RAX |-> x, RCX |-> n] : x \in S, n \in T}
RAXRBXs(S, T) == {[RAX |-> x, RBX |-> y] : x \in S, y \in T}
AnyOf(f)    == {f :> 0, f :> 1}
Cell(b, S)  == {40 :> v : v \in {x \in S : x < 2 ^ b}}

Case(ps, regs, flags, mems) ==
    [programs |-> ps, regs |-> Regs(regs), flags |-> Flags2(flags), mems |-> Mems(mems)]

(* Programs of one instruction: any of the mnemonics, any of the operands. *)
Ones(ms, os) == {<<Instruction(m, o)>> : m \in ms, o \in os}

A(b) == Reg(b, "RAX")
D(b) == Reg(b, "RDX")

-----------------------------------------------------------------------------
ArithmeticCases ==
    {Case(Ones({"add", "adc", "sub", "cmp"}, {<<A(b), D(b)>> : b \in Widths}),
          RAXRDXs(Ends, Ends), AnyOf("CF"), Same),
     Case(Ones({"sbb", "and", "or", "test", "mov"},
               {<<A(b), D(b)>> : b \in Widths} \cup {<<High("RAX"), D(W8)>>, <<D(W8), High("RAX")>>}),
          RAXRDXs(Few, Few), AnyOf("CF"), Same),
     Case(Ones({"add", "sub", "cmp"}, {<<High("RAX"), D(W8)>>, <<D(W8), High("RAX")>>}),
          RAXRDXs(Few, Few), AnyOf("CF"), Same),
     Case(Ones({"inc", "dec", "neg"}, {<<A(b)>> : b \in Widths}), RAXs(Ends), AnyOf("CF"), Same),
     \* an 8-bit immediate, which these sign-extend
     Case(Ones({"cmp", "and", "or"}, {<<A(b), Imm(W8, y)>> : b \in Widths, y \in Few}),
          RAXs(Few), Same, Same),
     Case(Ones({"add", "sub", "sbb", "xor"}, {<<A(W64), Imm(W64, y)>> : y \in Few}),
          RAXs(Few), Same, Same),
     \* the operand itself is computed on: exact for registers of 32 and 64 bits
     Case(Ones({"xor"}, {<<A(b), D(b)>> : b \in Wide}) \cup Ones({"not"}, {<<A(b)>> : b \in Wide}),
          RAXRDXs(Few, Few), Same, Same)}
    \cup
    {Case(Ones({"add", "sbb", "cmp", "or", "xor", "mov"}, {<<At(b, "RBX"), A(b)>>})
          \cup Ones({"add", "sub", "cmp", "and", "test", "mov"}, {<<A(b), At(b, "RBX")>>})
          \cup Ones({"not", "neg", "inc"}, {<<At(b, "RBX")>>}),
          RAXs(Few), Same, Cell(b, Few)) : b \in Widths}

(* Shifts by a constant, by one and by CL.  CL is masked by shr and sar.   *)
Counts == {1, 2, W8 - 1, W8, W16, W32 - 1}
By(b)  == {<<A(b), Reg(W8, "RCX")>>} \cup {<<A(b), Imm(W8, n)>> : n \in {1, W8 - 1}}

ShiftCases ==
    {Case(Ones({"shl", "shr", "sar"}, UNION {By(b) : b \in Wide}),
          RAXRCXs(Ends, Counts), Same, Same),
     Case(Ones({"shl", "shr", "sar"}, UNION {By(b) : b \in {W8, W16}}),
          RAXRCXs(Few, {1, W8 - 1}), Same, Same),
     Case(Ones({"rol", "ror"}, By(W64)), RAXRCXs(Few, Counts \cup {W64 - 1}), Same, Same),
     Case(Ones({"shr", "sar"}, {<<A(W64), Reg(W8, "RCX")>>}),
          RAXRCXs(Few, {0, W64, W64 + 3}), Same, Same),
     Case(Ones({"shl", "shr", "sar"}, {<<A(b), ImplicitOne>> : b \in Widths}),
          RAXs(Ends), AnyOf("OF"), Same),
     Case(Ones({"bt"}, {<<A(b), D(b)>> : b \in Wide}),
          RAXRDXs(Few, {0, 1, W32 - 1, W32, W64 + 2}), Same, Same),
     Case(Ones({"bsf"}, {<<A(b), D(b)>> : b \in Wide}),
          RAXRDXs({4660}, {1, 2, 96, 128, 255}), Same, Same)}

(* The products are bounded by TLC's integers.                             *)
Factors == {0, 1, 2, 15, 16, 127, 128, 255, 256, 257, 32767}
MultiplyCases ==
    {Case(Ones({"mul"}, {<<Reg(W64, "RBX")>>}), RAXRBXs(Factors \cup {65535}, Factors), Same, Same),
     Case(Ones({"imul"}, {<<A(b), D(b)>> : b \in Wide}), RAXRDXs(Factors, Factors), Same, Same),
     Case(Ones({"imul"}, {<<A(W64), D(W64), Imm(W64, y)>> : y \in Factors}),
          RAXRDXs({4660}, Factors), Same, Same),
     Case(Ones({"div"}, {<<Reg(W64, "RBX")>>}),
          {[RDX |-> 0] @@ r : r \in RAXRBXs(Ends, Factors \ {0})}, Same, Same)}

-----------------------------------------------------------------------------
(* Every form of an address.                                               *)
Minus8 == 2 ^ W8 - 8
Addresses ==
    {At(W64, "RBX"),
     Mem(W64, Reg(W64, "RBX"), None, 0, Imm(W8, 8)),
     Mem(W64, Reg(W64, "RBX"), None, 0, Imm(W8, Minus8)),
     Mem(W64, Reg(W64, "RBX"), Reg(W64, "RCX"), 8, None),
     Mem(W64, Reg(W64, "RBX"), Reg(W64, "RCX"), 4, Imm(W8, 8)),
     Mem(W64, None, Reg(W64, "RSI"), 0, Imm(W32, 8)),
     Mem(W64, None, None, 0, Imm(W32, 104)),
     InFS(Mem(W64, None, None, 0, Imm(W8, 8))),
     InFS(Mem(W64, None, None, 0, None)),
     InFS(Mem(W64, Reg(W64, "RCX"), None, 0, None))}

MoveCases ==
    {Case(Ones({"mov", "lea"}, {<<A(W64), a>> : a \in Addresses})
          \cup Ones({"mov"}, {<<a, A(W64)>> : a \in Addresses})
          \cup {<<[Instruction("mov", <<o, Imm(W32, y)>>) EXCEPT !.sext = TRUE]>> :
                   o \in {A(W64), At(W64, "RBX")}, y \in {1, 127, 128, 255}},
          Same, Same, Same),
     Case(Ones({"movzx", "movsx"}, {<<A(d), D(b)>> : d \in Wide, b \in {W8, W16}})
          \cup Ones({"movsxd"}, {<<A(W64), D(W32)>>}) \cup Ones({"cdqe"}, {<<>>}),
          RAXRDXs(Ends, Ends), Same, Same),
     \* what rsi points to is what rsi is: only then movsq is exact
     Case(Ones({"movsq", "stosd", "scasb", "std", "nop"}, {<<>>}), Same, AnyOf("DF"), Same)}
    \cup
    \* cmpxchg that succeeds
    {Case(Ones({"cmpxchg"}, {<<At(W64, "RBX"), D(W64)>>, <<A(W64), D(W64)>>}),
          RAXRDXs({x}, Few), Same, Cell(W64, {x})) : x \in Few}

StackCases ==
    {Case(Ones({"push"}, {<<A(W64)>>, <<At(W64, "RBX")>>, <<Imm(W8, 7)>>,
                          <<Imm(W8, Minus8)>>, <<Imm(W32, 200)>>})
          \cup Ones({"pop"}, {<<A(W64)>>}) \cup Ones({"leave"}, {<<>>}),
          Same, Same, Same),
     \* to a displacement, and to where the operand says, through rsp too
     Case(Ones({"call", "jmp"}, UNION {{<<Imm(b, 6)>>, <<Imm(b, -2)>>} : b \in {W8, W32}})
          \cup Ones({"call", "jmp"}, {<<A(W64)>>, <<At(W64, "RBX")>>, <<At(W64, "RSP")>>})
          \cup Ones({"ret"}, {<<>>}),
          Same, Same, Same),
     \* a call, and the return of what it called
     Case({<<Instruction("jmp", <<Imm(W8, 2)>>), Instruction("ret", <<>>),
             Instruction("nop", <<>>), Instruction("call", <<Imm(W8, -3)>>)>>},
          Same, Same, Same)}

(* Repeated while rcx is not 0: at rcx = 0 the code runs 2^W64 rounds.     *)
Repeated(m, prefix) == <<[Instruction(m, <<>>) EXCEPT !.rep = prefix]>>
RepeatCases ==
    {Case({Repeated("stosd", "rep"), Repeated("scasb", "repne")},
          RAXRCXs({5, 6, 7, 8}, 1 .. 3), AnyOf("ZF"), {56 :> 5 @@ 57 :> 6 @@ 58 :> 7}),
     Case({<<Instruction("std", <<>>)>> \o Repeated("scasb", "repne")},
          RAXRCXs({5, 6, 7}, {2}), Same, {56 :> 5 @@ 55 :> 6})}

(* A comparison, and what is decided by it.  seta is left out.             *)
Deciding ==
    Ones(DOMAIN Jump, {<<Imm(W8, 6)>>})
    \cup Ones(DOMAIN Move, {<<D(b), Reg(b, "RSI")>> : b \in Wide})
    \cup Ones(DOMAIN SetOn \ {"seta"}, {<<D(W8)>>})

ComparisonCases ==
    {Case({<<Instruction("cmp", <<A(b), Reg(b, "RBX")>>)>> \o p : b \in {W8, W64}, p \in Deciding},
          RAXRBXs(Few, Few), Same, Same)}

MCCases == ArithmeticCases \cup ShiftCases \cup MultiplyCases \cup MoveCases
           \cup StackCases \cup RepeatCases \cup ComparisonCases
=============================================================================
