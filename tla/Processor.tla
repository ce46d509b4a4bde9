----------------------------- MODULE Processor ------------------------------
(***************************************************************************)
(* The x86-64 processor, for the instructions the translator knows: the    *)
(* native process that a machine must agree with (test_vm.cc:137).  Not    *)
(* part of the program; written from the processor's definition, not from  *)
(* the translator.                                                         *)
(*                                                                         *)
(* A state s has registers s.reg of W64 bits, flags s.flag and memory      *)
(* s.mem.  A flag that an instruction leaves undefined is Undefined.       *)
(***************************************************************************)
EXTENDS Integers, Sequences, TLC

CONSTANTS W8, W16, W32, W64

LOCAL INSTANCE Bitwise

Undefined == 2
Flag(b) == IF b THEN 1 ELSE 0

Signed(b, v)    == IF v >= 2 ^ (b - 1) THEN v - 2 ^ b ELSE v
Extended(b, o)  == IF o.bits < b THEN Signed(o.bits, o.value) % 2 ^ b ELSE o.value
TopBit(b, v)    == v \div 2 ^ (b - 1)
Overflows(b, v) == v < -(2 ^ (b - 1)) \/ v >= 2 ^ (b - 1)

EffectiveAddress(s, o) ==
    ((IF o.seg.type = "reg" THEN s.reg[o.seg.id] ELSE 0)
      + (IF o.base.type = "reg" THEN s.reg[o.base.id] ELSE 0)
      + (IF o.index.type = "reg"
         THEN s.reg[o.index.id] * (IF o.scale = 0 THEN 1 ELSE o.scale) ELSE 0)
      + (IF o.displ.type = "imm" THEN Signed(o.displ.bits, o.displ.value) ELSE 0)) % 2 ^ W64

(* The value of an operand of an instruction of width b.                   *)
Read(s, b, o) ==
    CASE o.type = "reg"  -> s.reg[o.id] % 2 ^ o.bits
      [] o.type = "high" -> (s.reg[o.id] \div 2 ^ W8) % 2 ^ W8
      [] o.type = "mem"  -> s.mem[EffectiveAddress(s, o)] % 2 ^ o.bits
      [] o.type = "imm"  -> IF o.bits = 0 THEN o.value ELSE Extended(b, o)

(* A 32-bit result clears the upper half; a shorter one keeps the rest.    *)
Merged(old, o, v) ==
    CASE o.type = "high" -> old + (v - ((old \div 2 ^ W8) % 2 ^ W8)) * 2 ^ W8
      [] o.type = "reg" /\ o.bits \in {W32, W64} -> v
      [] o.type = "reg" /\ o.bits \in {W8, W16}  -> old - (old % 2 ^ o.bits) + v

Written(s, o, v) ==
    IF o.type = "mem" THEN [s EXCEPT !.mem[EffectiveAddress(s, o)] = v]
    ELSE [s EXCEPT !.reg[o.id] = Merged(@, o, v)]

WithFlags(s, f) == [s EXCEPT !.flag = f @@ @]

Signs(b, r)  == [ZF |-> Flag(r = 0), SF |-> TopBit(b, r)]
Logical(b, r) == Signs(b, r) @@ [CF |-> 0, OF |-> 0]

Sum(b, x, y, c) ==
    LET r == (x + y + c) % 2 ^ b IN
    [value |-> r,
     flags |-> Signs(b, r) @@ [CF |-> Flag(x + y + c >= 2 ^ b),
                               OF |-> Flag(Overflows(b, Signed(b, x) + Signed(b, y) + c))]]

Difference(b, x, y, c) ==
    LET r == (x - y - c) % 2 ^ b IN
    [value |-> r,
     flags |-> Signs(b, r) @@ [CF |-> Flag(x < y + c),
                               OF |-> Flag(Overflows(b, Signed(b, x) - Signed(b, y) - c))]]

Bitwise2(b, r) == [value |-> r, flags |-> Logical(b, r)]

Without(e, f) == [e EXCEPT !.flags = [g \in DOMAIN @ \ {f} |-> @[g]]]

(* Instructions with a destination and at most one more operand: the value *)
(* x of the first, y of the second, and the carry c.                       *)
Effect(m, b, x, y, c) ==
    CASE m = "add" -> Sum(b, x, y, 0)         [] m = "adc" -> Sum(b, x, y, c)
      [] m \in {"sub", "cmp"} -> Difference(b, x, y, 0)
      [] m = "sbb" -> Difference(b, x, y, c)
      [] m = "inc" -> Without(Sum(b, x, 1, 0), "CF")
      [] m = "dec" -> Without(Difference(b, x, 1, 0), "CF")
      [] m = "neg" -> Difference(b, 0, x, 0)
      [] m \in {"and", "test"} -> Bitwise2(b, x & y)
      [] m = "or"  -> Bitwise2(b, x | y)
      [] m = "xor" -> Bitwise2(b, x ^^ y)
      [] m = "not" -> [value |-> 2 ^ b - 1 - x, flags |-> <<>>]

Binaries == {"add", "adc", "sub", "sbb", "cmp", "inc", "dec", "neg", "and",
             "test", "or", "xor", "not"}

(* Shifts and rotations by n, the masked count.  Of the last bit shifted   *)
(* out CF is made.                                                         *)
Shifted(m, b, x, n) ==
    LET r == CASE m = "shl" -> (x * 2 ^ n) % 2 ^ b
               [] m = "shr" -> x \div 2 ^ n
               [] m = "sar" -> (Signed(b, x) \div 2 ^ n) % 2 ^ b
               [] m = "rol" -> ((x * 2 ^ (n % b)) % 2 ^ b) + x \div 2 ^ (b - (n % b))
               [] m = "ror" -> x \div 2 ^ (n % b) + ((x * 2 ^ (b - (n % b))) % 2 ^ b)
        carry == CASE m = "shl" -> IF n > b THEN Undefined ELSE (x \div 2 ^ (b - n)) % 2
                   [] m = "shr" -> IF n > b THEN Undefined ELSE (x \div 2 ^ (n - 1)) % 2
                   [] m = "sar" -> (Signed(b, x) \div 2 ^ (n - 1)) % 2
                   [] m = "rol" -> r % 2
                   [] m = "ror" -> TopBit(b, r)
        overflow == CASE n # 1      -> Undefined
                      [] m = "shl"  -> (TopBit(b, r) + carry) % 2
                      [] m = "shr"  -> TopBit(b, x)
                      [] m = "sar"  -> 0
                      [] m = "rol"  -> (TopBit(b, r) + carry) % 2
                      [] m = "ror"  -> (TopBit(b, r) + r \div 2 ^ (b - 2)) % 2
    IN  [value |-> r,
         flags |-> IF n = 0 THEN <<>>
                   ELSE IF m \in {"rol", "ror"} THEN [CF |-> carry, OF |-> overflow]
                   ELSE Signs(b, r) @@ [CF |-> carry, OF |-> overflow]]

Shifts == {"shl", "shr", "sar", "rol", "ror"}

Above(f) == f.CF = 0 /\ f.ZF = 0
Less(f)  == f.SF # f.OF
Met(cc, f) ==
    CASE cc = "a"  -> Above(f)             [] cc = "be" -> ~Above(f)
      [] cc = "ae" -> f.CF = 0             [] cc = "b"  -> f.CF = 1
      [] cc = "l"  -> Less(f)              [] cc = "ge" -> ~Less(f)
      [] cc = "le" -> Less(f) \/ f.ZF = 1  [] cc = "g"  -> ~Less(f) /\ f.ZF = 0
      [] cc = "s"  -> f.SF = 1             [] cc = "ns" -> f.SF = 0
      [] cc = "z"  -> f.ZF = 1             [] cc = "nz" -> f.ZF = 0

Jump == [ja |-> "a", jae |-> "ae", jb |-> "b", jbe |-> "be", jg |-> "g", jge |-> "ge",
         jl |-> "l", jle |-> "le", js |-> "s", jns |-> "ns", jz |-> "z", jnz |-> "nz"]
Move == [cmova |-> "a", cmovb |-> "b", cmovbe |-> "be", cmovs |-> "s",
         cmovz |-> "z", cmovnz |-> "nz"]
SetOn == [seta |-> "a", setg |-> "g", setl |-> "l", setle |-> "le", setnb |-> "ae",
          setz |-> "z", setnz |-> "nz"]

-----------------------------------------------------------------------------
Product(s, w) == s.reg.RAX * w
AllUndefined == [CF |-> Undefined, OF |-> Undefined, ZF |-> Undefined, SF |-> Undefined]

LowestBit(v) == CHOOSE i \in 0 .. W64 - 1 :
                    (v \div 2 ^ i) % 2 = 1 /\ \A j \in 0 .. i - 1 : (v \div 2 ^ j) % 2 = 0

Pushed(s, v) ==
    LET rsp == (s.reg.RSP - 8) % 2 ^ W64 IN
    [s EXCEPT !.reg.RSP = rsp, !.mem[rsp] = v]

Advanced(s, x, n) ==
    [s EXCEPT !.reg[x] = (IF s.flag.DF = 0 THEN @ + n ELSE @ - n) % 2 ^ W64]

(* The instructions that are not of one of the families above.             *)
Other(s, m, o) ==
    LET b == o[1].bits
        x == Read(s, b, o[1])
        y == Read(s, b, o[2])
        target == IF o[1].type = "imm" THEN (s.rip + Extended(W64, o[1])) % 2 ^ W64
                  ELSE Read(s, W64, o[1])
    IN  CASE m \in {"mov", "movzx"} -> Written(s, o[1], y)
          [] m \in {"movsx", "movsxd"} -> Written(s, o[1], Signed(o[2].bits, y) % 2 ^ b)
          [] m = "cdqe" -> [s EXCEPT !.reg.RAX = Signed(W32, @ % 2 ^ W32) % 2 ^ W64]
          [] m = "lea"  -> Written(s, o[1], EffectiveAddress(s, o[2]) % 2 ^ b)
          [] m = "push" -> Pushed(s, Read(s, W64, o[1]))
          [] m = "pop"  -> Written([s EXCEPT !.reg.RSP = (@ + 8) % 2 ^ W64],
                                   o[1], s.mem[s.reg.RSP])
          [] m = "leave" -> [s EXCEPT !.reg.RBP = s.mem[@],
                                      !.reg.RSP = (s.reg.RBP + 8) % 2 ^ W64]
          [] m = "call" -> [Pushed(s, s.rip) EXCEPT !.rip = target]
          [] m = "ret"  -> [s EXCEPT !.rip = s.mem[s.reg.RSP],
                                     !.reg.RSP = (@ + 8) % 2 ^ W64]
          [] m = "jmp"  -> [s EXCEPT !.rip = target]
          [] m \in DOMAIN Jump -> [s EXCEPT !.rip = IF Met(Jump[m], s.flag) THEN target ELSE @]
          [] m \in DOMAIN Move -> Written(s, o[1], IF Met(Move[m], s.flag) THEN y ELSE x)
          [] m \in DOMAIN SetOn -> Written(s, o[1], Flag(Met(SetOn[m], s.flag)))
          [] m = "mul" ->
                 (LET high == Product(s, x) \div 2 ^ W64 IN
                  WithFlags([s EXCEPT !.reg.RAX = Product(s, x) % 2 ^ W64, !.reg.RDX = high],
                            [CF |-> Flag(high # 0), OF |-> Flag(high # 0)]
                            @@ AllUndefined))
          [] m = "imul" ->
                 (LET third == IF Len(o) = 3 THEN Read(s, b, o[3]) ELSE x
                     full == Signed(b, y) * Signed(b, third)
                     over == Flag(Overflows(b, full))
                 IN  WithFlags(Written(s, o[1], full % 2 ^ b),
                               [CF |-> over, OF |-> over] @@ AllUndefined))
          [] m = "div" ->
                 (LET dividend == s.reg.RDX * 2 ^ W64 + s.reg.RAX IN
                 WithFlags([s EXCEPT !.reg.RAX = dividend \div x, !.reg.RDX = dividend % x],
                            AllUndefined))
          [] m = "bt" ->
                 WithFlags(s, [CF |-> (x \div 2 ^ (y % b)) % 2,
                               OF |-> Undefined, SF |-> Undefined])
          [] m = "bsf" ->
                 WithFlags(IF y = 0 THEN s ELSE Written(s, o[1], LowestBit(y)),
                           [ZF |-> Flag(y = 0)] @@ AllUndefined)
          [] m = "cmpxchg" ->
                 (LET rax == s.reg.RAX % 2 ^ b IN
                 WithFlags(IF rax = x THEN Written(s, o[1], y)
                           ELSE [s EXCEPT !.reg.RAX =
                                     Merged(@, [type |-> "reg", bits |-> b], x)],
                           Difference(b, rax, x, 0).flags))
          [] m = "std"   -> [s EXCEPT !.flag.DF = 1]
          [] m = "nop"   -> s
          [] m = "stosd" -> Advanced([s EXCEPT !.mem[s.reg.RDI] = s.reg.RAX % 2 ^ W32], "RDI", 4)
          [] m = "movsq" -> Advanced(Advanced([s EXCEPT !.mem[s.reg.RDI] = s.mem[s.reg.RSI]],
                                              "RDI", 8), "RSI", 8)
          [] m = "scasb" ->
                 Advanced(WithFlags(s, Difference(W8, s.reg.RAX % 2 ^ W8,
                                                  s.mem[s.reg.RDI] % 2 ^ W8, 0).flags),
                          "RDI", 1)

(* One instruction without its prefix, the instruction pointer being past  *)
(* it.                                                                     *)
Once(s, ins) ==
    LET m == ins.mnemonic
        o == ins.operands
        b == o[1].bits
        x == Read(s, b, o[1])
        masked == Read(s, W8, o[2]) % (IF b = W64 THEN W64 ELSE W32)
        e == IF m \in Shifts THEN Shifted(m, b, x, masked)
             ELSE Effect(m, b, x, IF Len(o) = 2 THEN Read(s, b, o[2]) ELSE 0, s.flag.CF)
    IN  IF m \in Binaries \cup Shifts
        THEN WithFlags(IF m \in {"cmp", "test"} THEN s ELSE Written(s, o[1], e.value), e.flags)
        ELSE Other(s, m, o)

(* A single step.  A repeated instruction does nothing once rcx is 0, and  *)
(* is the next one again until rcx or, for repne, the comparison ends it.  *)
Native(s, ins) ==
    LET after == [s EXCEPT !.rip = @ + 1]
        once  == [Once(after, ins) EXCEPT !.reg.RCX = @ - 1]
        done  == once.reg.RCX = 0 \/ (ins.rep = "repne" /\ once.flag.ZF = 1)
    IN  CASE ins.rep = "none" -> Once(after, ins)
          [] ins.rep # "none" /\ s.reg.RCX = 0 -> after
          [] ins.rep # "none" /\ s.reg.RCX # 0 -> [once EXCEPT !.rip = IF done THEN @ ELSE @ - 1]
=============================================================================
