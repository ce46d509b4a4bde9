----------------------------- MODULE Translator -----------------------------
(***************************************************************************)
(* The translator (translator.cc): from one instruction of the processor   *)
(* to a sequence of intermediate instructions.  One operator for each      *)
(* method, with the method's name; o is the sequence of its operands.      *)
(*                                                                         *)
(* Temporaries, which the code numbers afresh, have a name here: a machine *)
(* forgets them when the instruction is done.  The address and the size of *)
(* an instruction are not carried along, except by rep and repne; every    *)
(* instruction has size 1.  128-bit registers are not modelled.            *)
(***************************************************************************)
EXTENDS IntermediateCode

(* Operands of the processor, as udis86 describes them.  High(x) is the    *)
(* second byte of x (AH, CH, DH).  A memory operand is                     *)
(* seg:[base + index * scale + displ], each part None or 0 if absent.      *)
None        == [type |-> "none", bits |-> 0]
Reg(b, x)   == [type |-> "reg", bits |-> b, id |-> x]
High(x)     == [type |-> "high", bits |-> W8, id |-> x]
Imm(b, n)   == [type |-> "imm", bits |-> b, value |-> n % 2 ^ b]
ImplicitOne == [type |-> "imm", bits |-> 0, value |-> 1]
Mem(b, base, index, scale, displ) ==
    [type |-> "mem", bits |-> b, base |-> base, index |-> index,
     scale |-> scale, displ |-> displ, seg |-> None]
At(b, x)    == Mem(b, Reg(W64, x), None, 0, None)
InFS(o)     == [o EXCEPT !.seg = Reg(W64, "FS")]

RAX == Var(W64, "RAX")
RCX == Var(W64, "RCX")
RDX == Var(W64, "RDX")
RSP == Var(W64, "RSP")
RBP == Var(W64, "RBP")
RSI == Var(W64, "RSI")
RDI == Var(W64, "RDI")
RIP == Var(W64, "RIP")
CF == Var(1, "CF")
ZF == Var(1, "ZF")
SF == Var(1, "SF")
OF == Var(1, "OF")
DF == Var(1, "DF")
Bit(x) == Var(1, x)      \* a temporary of one bit

-----------------------------------------------------------------------------
(* operand, operand_load, operand_get, operand_set                         *)

Part(p) == IF p.type = "reg" THEN Var(p.bits, p.id) ELSE Const(p.bits, p.value)

BaseDisplacement(o) ==
    IF o.base # None /\ o.displ # None THEN Var(o.base.bits, "base_displacement")
    ELSE IF o.base # None THEN Part(o.base) ELSE Part(o.displ)

(* In a segment, the displacement counts if there is one, else the base.   *)
WithinSegment(o) == IF o.displ # None THEN o.displ ELSE o.base

(* The operand that holds the address of a memory operand, and the code    *)
(* that computes it.                                                       *)
Address(o) ==
    IF o.seg # None
    THEN IF WithinSegment(o) # None THEN Var(W64, "address") ELSE Part(o.seg)
    ELSE IF o.index # None THEN Var(W64, "address") ELSE BaseDisplacement(o)

SegmentCode(o) ==
    IF WithinSegment(o) = None THEN <<>>
    ELSE <<InstructionAdd(Address(o), Part(o.seg), Part(WithinSegment(o)))>>

FlatCode(o) ==
    LET scaled == IF o.scale # 0 THEN Var(W64, "index_scale") ELSE Part(o.index)
        sum == BaseDisplacement(o)
    IN  (IF o.index # None /\ o.scale # 0
         THEN <<InstructionMul(scaled, Part(o.index), Const(W8, o.scale))>> ELSE <<>>)
        \o
        (IF o.base # None /\ o.displ # None
         THEN <<InstructionSignExtend(sum, Part(o.displ)),
                InstructionAdd(sum, Part(o.base), sum)>> ELSE <<>>)
        \o
        (IF o.index # None THEN <<InstructionAdd(Address(o), scaled, sum)>> ELSE <<>>)

AddressCode(o) == IF o.seg # None THEN SegmentCode(o) ELSE FlatCode(o)

(* operand_get of the i-th operand: its value, and the code that fetches   *)
(* it.  (lea and pop use the plain operand instead, a register.)           *)
Get(o, i) ==
    CASE o[i].type = "reg"  -> Var(o[i].bits, o[i].id)
      [] o[i].type = "high" -> Var(W8, <<"high1", "high2", "high3">>[i])
      [] o[i].type = "mem"  -> Var(o[i].bits, "load_result")
      [] o[i].type = "imm"  -> Const(o[i].bits, o[i].value)

GetCode(o, i) ==
    CASE o[i].type = "high" -> <<InstructionShr(Get(o, i), Var(W64, o[i].id), Const(W8, W8))>>
      [] o[i].type = "mem"  -> AddressCode(o[i])
                               \o <<InstructionLoad(o[i].bits, Get(o, i), Address(o[i]))>>
      [] OTHER -> <<>>

BothCode(o) == GetCode(o, 1) \o GetCode(o, 2)

(* operand_set of the first operand.  A 32-bit write clears the upper half *)
(* of its register; an 8- or 16-bit one keeps what is above the value.     *)
Set(o, value) ==
    LET d == o[1]
        dst == Var(W64, d.id)
        one == Const(W64, 1)
        value_bits == IF value.bits < W8 THEN W8 ELSE value.bits
        mask == Var(W64, "mask")
        tmp == Var(W64, "set_tmp")
    IN  CASE d.type = "mem" ->
                 AddressCode(d) \o <<InstructionStore(d.bits, Address(d), value)>>
          [] d.type = "high" ->
                 <<InstructionAssign(tmp, value),
                   InstructionShl(tmp, tmp, Const(W8, W8)),
                   InstructionAnd(dst, dst, Const(W64, -1 - (2 ^ W8 - 1) * 2 ^ W8)),
                   InstructionOr(dst, dst, tmp)>>
          [] d.type = "reg" /\ d.bits \in {W8, W16} ->
                 <<InstructionShl(mask, one, Const(W64, value_bits)),
                   InstructionSub(mask, mask, one),
                   InstructionNot(mask, mask),
                   InstructionAnd(tmp, dst, mask),
                   InstructionOr(dst, tmp, value)>>
          [] d.type = "reg" /\ d.bits \in {W32, W64} ->
                 <<InstructionAssign(Var(d.bits, d.id), value)>>
          [] d.type = "imm" -> <<>>

-----------------------------------------------------------------------------
(* Arithmetic                                                              *)

ZeroOf(x) == Const(x.bits, 0)
Tmp(o)    == Var(o[1].bits, "tmp")

SetZF(x) == InstructionCmpEq(ZF, x, ZeroOf(x))
SetSF(x) == InstructionCmpLts(SF, x, ZeroOf(x))

(* The overflow flag as most methods compute it, from l < r and SF.        *)
SetOF(l, r) == <<InstructionCmpLts(Bit("SFxorOF"), l, r),
                 InstructionXor(OF, Bit("SFxorOF"), SF)>>

adc(o) ==
    LET lhs == Get(o, 1)  tmp == Tmp(o) IN
    BothCode(o)
    \o <<InstructionAdd(tmp, lhs, Get(o, 2)), InstructionAdd(tmp, tmp, CF),
         InstructionCmpLtu(CF, tmp, lhs), SetZF(tmp), SetSF(tmp)>>
    \o SetOF(lhs, Get(o, 2)) \o Set(o, tmp)

add(o) ==
    LET lhs == Get(o, 1)  tmp == Tmp(o) IN
    BothCode(o)
    \o <<InstructionAdd(tmp, lhs, Get(o, 2)),
         InstructionCmpLtu(CF, tmp, lhs), SetZF(tmp), SetSF(tmp)>>
    \o SetOF(lhs, Get(o, 2)) \o Set(o, tmp)

sub(o) ==
    LET lhs == Get(o, 1)  tmp == Tmp(o)  OFTmp == Var(lhs.bits, "OFTmp") IN
    BothCode(o)
    \o <<InstructionSub(tmp, lhs, Get(o, 2)),
         InstructionXor(OFTmp, tmp, lhs),
         InstructionShr(OF, OFTmp, Const(lhs.bits, lhs.bits - 1)),
         InstructionCmpLtu(CF, lhs, tmp), SetZF(tmp), SetSF(tmp)>>
    \o Set(o, tmp)

sbb(o) ==
    LET lhs == Get(o, 1)  rhs == Get(o, 2)  tmp == Tmp(o) IN
    BothCode(o)
    \o <<InstructionAdd(tmp, rhs, CF), InstructionSub(tmp, lhs, tmp),
         InstructionCmpLtu(CF, lhs, tmp), SetZF(tmp), SetSF(tmp)>>
    \o SetOF(tmp, rhs) \o Set(o, tmp)

(* Mutant: the overflow flag of cmp without the exclusive or with SF.      *)
cmpNoXor(o) ==
    LET lhs == Get(o, 1)  sext == Var(lhs.bits, "sext")  tmp == Tmp(o) IN
    BothCode(o)
    \o <<InstructionSignExtend(sext, Get(o, 2)),
         InstructionCmpLtu(CF, lhs, sext), InstructionCmpLts(OF, lhs, sext),
         InstructionCmpEq(ZF, lhs, sext), InstructionSub(tmp, lhs, sext), SetSF(tmp)>>

cmp(o) ==
    LET lhs == Get(o, 1)  sext == Var(lhs.bits, "sext")  tmp == Tmp(o) IN
    BothCode(o)
    \o <<InstructionSignExtend(sext, Get(o, 2)),
         InstructionCmpLtu(CF, lhs, sext),
         InstructionCmpLeu(Bit("CForZF"), lhs, sext),
         InstructionCmpLts(Bit("SFxorOF"), lhs, sext),
         InstructionCmpLes(Bit("SFxorOForZF"), lhs, sext),
         InstructionCmpEq(ZF, lhs, sext),
         InstructionSub(tmp, lhs, sext), SetSF(tmp),
         InstructionXor(OF, Bit("SFxorOF"), SF)>>

inc(o) ==
    LET dst == Get(o, 1)  tmp == Tmp(o) IN
    GetCode(o, 1)
    \o <<InstructionAdd(tmp, dst, Const(dst.bits, 1)), SetSF(tmp), SetZF(tmp)>>
    \o SetOF(tmp, dst) \o Set(o, tmp)

dec(o) ==
    LET dst == Get(o, 1)  tmp == Tmp(o) IN
    GetCode(o, 1)
    \o <<InstructionSub(tmp, dst, Const(dst.bits, 1)), SetSF(tmp), SetZF(tmp)>>
    \o SetOF(tmp, dst) \o Set(o, tmp)

neg(o) ==
    LET src == Get(o, 1)  tmp == Tmp(o) IN
    GetCode(o, 1)
    \o <<InstructionSub(tmp, ZeroOf(src), src),
         InstructionCmpEq(CF, src, ZeroOf(src)), SetZF(tmp), SetSF(tmp)>>
    \o SetOF(tmp, src) \o Set(o, tmp)

(* Bitwise operations.  OF and CF are assigned a zero of the operand's     *)
(* width.                                                                  *)
ClearOFCF(x) == <<InstructionAssign(OF, ZeroOf(x)), InstructionAssign(CF, ZeroOf(x))>>

And(o) ==
    LET extends == o[2].type = "imm" /\ o[2].bits = W8
        rhs == IF extends THEN Var(W64, "rhs") ELSE Get(o, 2)
        tmp == Tmp(o)
    IN  BothCode(o)
        \o (IF extends THEN <<InstructionSignExtend(rhs, Get(o, 2))>> ELSE <<>>)
        \o <<InstructionAnd(tmp, Get(o, 1), rhs)>>
        \o ClearOFCF(tmp) \o <<SetZF(tmp), SetSF(tmp)>> \o Set(o, tmp)

Or(o) ==
    LET tmp == Tmp(o) IN
    BothCode(o)
    \o <<InstructionSignExtend(tmp, Get(o, 2)), InstructionOr(tmp, Get(o, 1), tmp)>>
    \o Set(o, tmp)

(* The destination itself is the target of the operation, at its width.    *)
Xor(o) ==
    LET dst == Get(o, 1) IN
    BothCode(o) \o <<InstructionXor(dst, dst, Get(o, 2))>>
    \o ClearOFCF(dst) \o <<SetZF(dst), SetSF(dst)>> \o Set(o, dst)

Not(o) ==
    LET dst == Get(o, 1) IN
    GetCode(o, 1) \o <<InstructionNot(dst, dst)>> \o Set(o, dst)

test(o) ==
    LET tmp == Tmp(o) IN
    BothCode(o) \o <<InstructionAnd(tmp, Get(o, 1), Get(o, 2)), SetZF(tmp), SetSF(tmp)>>
    \o ClearOFCF(tmp)

-----------------------------------------------------------------------------
(* Shifts and rotations                                                    *)

(* The count of shr and sar: masked when it is in CL.                      *)
Masked(o) == o[2].type = "reg" /\ o[2].id = "RCX"

Count(o) == IF o[2].bits = 0 THEN Const(1, 1)
            ELSE IF Masked(o) THEN Var(W8, "count") ELSE Get(o, 2)

CountCode(o) ==
    IF Masked(o)
    THEN <<InstructionAnd(Count(o), Get(o, 2),
                          Const(W8, IF o[1].bits = W64 THEN W64 - 1 ELSE W32 - 1))>>
    ELSE <<>>

shr(o) ==
    LET bits == Count(o)  dst == Get(o, 1)  tmp == Tmp(o)
        bitsMinusOne == Var(dst.bits, "bitsMinusOne")
    IN  CountCode(o) \o GetCode(o, 1)
        \o <<InstructionShr(tmp, dst, bits),
             InstructionSub(bitsMinusOne, bits, Const(dst.bits, 1)),
             InstructionShr(CF, dst, bitsMinusOne),
             InstructionShr(OF, dst, Const(W8, dst.bits - 1)),
             SetSF(tmp), SetZF(tmp)>>
        \o Set(o, tmp)

sar(o) ==
    LET bits == Count(o)  dst == Get(o, 1)  tmp == Tmp(o)
        signMask == Var(dst.bits, "signMask")
        bitsMinusOne == Var(dst.bits, "bitsMinusOne")
    IN  CountCode(o) \o GetCode(o, 1)
        \o <<InstructionShr(tmp, dst, bits),
             InstructionShr(Bit("signBit"), dst, Const(W8, dst.bits - 1)),
             InstructionMul(signMask, Const(dst.bits, -1), Bit("signBit")),
             InstructionSub(Var(W8, "signShift"), Const(W8, dst.bits), bits),
             InstructionShl(signMask, signMask, Var(W8, "signShift")),
             InstructionOr(tmp, tmp, signMask),
             InstructionSub(bitsMinusOne, bits, Const(dst.bits, 1)),
             InstructionShr(CF, dst, bitsMinusOne),
             InstructionCmpEq(Bit("OFMask"), bits, Const(dst.bits, 1)),
             InstructionNot(Bit("OFMask"), Bit("OFMask")),
             InstructionAnd(OF, OF, Bit("OFMask")),
             SetSF(tmp), SetZF(tmp)>>
        \o Set(o, tmp)

(* The count of shl is not masked.  SF and ZF are those of the value OF is *)
(* taken from.                                                             *)
shl(o) ==
    LET bits == IF o[2].bits = 0 THEN Const(1, 1) ELSE Get(o, 2)
        dst == Get(o, 1)  tmp == Tmp(o)
        bitsMinusOne == Var(dst.bits, "bitsMinusOne")
        top == Const(dst.bits, dst.bits - 1)
    IN  GetCode(o, 2) \o GetCode(o, 1)
        \o <<InstructionSub(bitsMinusOne, bits, Const(dst.bits, 1)),
             InstructionShl(tmp, dst, bitsMinusOne), InstructionShr(CF, tmp, top),
             InstructionShl(tmp, dst, bitsMinusOne), InstructionAnd(tmp, tmp, dst),
             InstructionShr(OF, tmp, top),
             SetSF(tmp), SetZF(tmp),
             InstructionShl(tmp, dst, bits)>>
        \o Set(o, tmp)

(* Both rotations complete the count to 64 whatever the width.             *)
rol(o) ==
    LET src == Get(o, 1)  tmp == Tmp(o)
        tmpl == Var(src.bits, "tmpl")  tmpr == Var(src.bits, "tmpr")
    IN  BothCode(o)
        \o <<InstructionShl(tmpl, src, Get(o, 2)),
             InstructionSub(Var(W8, "countr"), Const(W8, W64), Get(o, 2)),
             InstructionShr(tmpr, src, Var(W8, "countr")),
             InstructionOr(tmp, tmpl, tmpr),
             InstructionAnd(CF, tmp, Const(W8, 1)),
             InstructionShr(OF, tmp, Const(W8, src.bits - 1)),
             InstructionXor(OF, OF, CF)>>
        \o Set(o, tmp)

ror(o) ==
    LET src == Get(o, 1)  tmp == Tmp(o)
        tmpl == Var(src.bits, "tmpl")  tmpr == Var(src.bits, "tmpr")
    IN  BothCode(o)
        \o <<InstructionShr(tmpr, src, Get(o, 2)),
             InstructionSub(Var(W8, "countl"), Const(W8, W64), Get(o, 2)),
             InstructionShl(tmpl, src, Var(W8, "countl")),
             InstructionOr(tmp, tmpr, tmpl),
             InstructionShr(CF, tmp, Const(W8, src.bits - 1)),
             InstructionShr(OF, tmp, Const(W8, src.bits - 2)),
             InstructionXor(OF, OF, CF)>>
        \o Set(o, tmp)

bt(o) ==
    LET needle == Var(W8, "needle") IN
    BothCode(o)
    \o <<InstructionAnd(needle, Get(o, 2), Const(W8, o[1].bits - 1)),
         InstructionShr(CF, Get(o, 1), needle)>>

(* The lowest set bit, found by a chain of instructions for each bit.      *)
bsf(o) ==
    LET src == Get(o, 2)
        result == Var(o[1].bits, "result")
        found == Bit("result_set")
        bit == Bit("bit")
        loc == Var(W8, "bitLocMul")
        Probe(i) ==
            <<InstructionShr(bit, src, Const(W8, i)),
              InstructionAnd(bit, bit, Const(src.bits, 1)),
              InstructionMul(loc, Const(W8, i), bit),
              InstructionNot(Bit("result_set_inverse"), found),
              InstructionMul(loc, loc, Bit("result_set_inverse")),
              InstructionOr(result, result, loc),
              InstructionOr(found, found, bit)>>
        Probes[i \in Nat] == IF i = 0 THEN <<>> ELSE Probes[i - 1] \o Probe(i - 1)
    IN  BothCode(o)
        \o <<InstructionAssign(result, ZeroOf(src)), InstructionAssign(found, ZeroOf(src))>>
        \o Probes[src.bits] \o <<InstructionAssign(Get(o, 1), result)>>

-----------------------------------------------------------------------------
(* Multiplication and division                                             *)

(* rdx is shifted left at its own width before it joins the dividend.      *)
div(o) ==
    LET dividend == Var(2 * W64, "dividend")
        divisor == Get(o, 1)
    IN  GetCode(o, 1)
        \o <<InstructionShl(dividend, RDX, Const(W8, W64)),
             InstructionOr(dividend, dividend, RAX),
             InstructionDiv(Var(W64, "quotient"), dividend, divisor),
             InstructionMod(Var(W64, "remainder"), dividend, divisor),
             InstructionAssign(RAX, Var(W64, "quotient")),
             InstructionAssign(RDX, Var(W64, "remainder"))>>

(* Two operands, or three.  The sign-extended operands are computed and    *)
(* not used.                                                               *)
imul(o) ==
    LET dst == Get(o, 1)
        a == IF Len(o) = 3 THEN 2 ELSE 1
        srca == Get(o, a)
        srcb == Get(o, a + 1)
        tmp == Var(2 * W64, "tmp")
        highBits == Var(W64, "highBits")
        zero == Const(W64, 0)
    IN  GetCode(o, a) \o GetCode(o, a + 1)
        \o <<InstructionSignExtend(Var(dst.bits, "srcaSext"), srca),
             InstructionSignExtend(Var(dst.bits, "srcbSext"), srcb),
             InstructionMul(tmp, srca, srcb), InstructionMul(dst, srca, srcb),
             InstructionShr(highBits, tmp, Const(W8, W64)),
             InstructionCmpEq(OF, highBits, zero), InstructionNot(OF, OF),
             InstructionAssign(CF, OF),
             InstructionCmpLts(SF, dst, zero), InstructionCmpEq(ZF, dst, zero)>>

(* rdx:rax = rax * src from four products of 32-bit halves: A B is src,    *)
(* C D is rax.                                                             *)
mul(o) ==
    LET w(x) == Var(W64, x)
        S32 == Const(W8, W32)
        A32 == Const(W64, 2 ^ W32 - 1)
        tmp == w("tmp")
        carry == w("carry")
        src == Get(o, 1)
        (* low and high half of l * r, and of l * r + carry                *)
        Product(l, r, low, high) ==
            <<InstructionMul(tmp, l, r),
              InstructionAnd(low, tmp, A32), InstructionShr(high, tmp, S32)>>
        ProductAndCarry(l, r, low, high) ==
            <<InstructionMul(tmp, l, r), InstructionAdd(tmp, tmp, carry),
              InstructionAnd(low, tmp, A32), InstructionShr(high, tmp, S32)>>
    IN  GetCode(o, 1)
        \o <<InstructionShr(w("A"), src, S32), InstructionAnd(w("B"), src, A32),
             InstructionShr(w("C"), RAX, S32), InstructionAnd(w("D"), RAX, A32)>>
        \o Product(w("B"), w("D"), w("G"), carry)
        \o ProductAndCarry(w("D"), w("A"), w("F"), w("E"))
        \o Product(w("C"), w("B"), w("J"), carry)
        \o ProductAndCarry(w("C"), w("A"), w("I"), w("H"))
        \o <<InstructionAdd(RAX, w("F"), w("J")), InstructionShr(carry, RAX, S32),
             InstructionShl(RAX, RAX, S32), InstructionAdd(RAX, RAX, w("G")),
             InstructionShl(RDX, w("H"), S32), InstructionAdd(RDX, RDX, w("E")),
             InstructionAdd(RDX, RDX, w("I")), InstructionAdd(RDX, RDX, carry),
             InstructionCmpEq(OF, RDX, Const(W64, 0)), InstructionNot(OF, OF),
             InstructionAssign(CF, OF)>>

-----------------------------------------------------------------------------
(* Moves and the stack                                                     *)

mov(o, sext) ==
    IF sext
    THEN GetCode(o, 2) \o <<InstructionSignExtend(Var(W64, "sext"), Get(o, 2))>>
         \o Set(o, Var(W64, "sext"))
    ELSE GetCode(o, 2) \o Set(o, Get(o, 2))

movzx(o) == GetCode(o, 2) \o Set(o, Get(o, 2))

movsx(o) ==
    BothCode(o) \o <<InstructionSignExtend(Get(o, 1), Get(o, 2))>> \o Set(o, Get(o, 1))

cdqe == <<InstructionSignExtend(RAX, Var(W32, "RAX"))>>

lea(o) == AddressCode(o[2]) \o <<InstructionAssign(Get(o, 1), Address(o[2]))>>

STACK_ELEMENT_SIZE == Const(W8, 8)

(* Mutant: push that stores before it lowers rsp.                          *)
pushStoresFirst(o) ==
    GetCode(o, 1)
    \o <<InstructionSignExtend(Var(W64, "sext"), Get(o, 1)),
         InstructionStore(W64, RSP, Var(W64, "sext")),
         InstructionSub(RSP, RSP, STACK_ELEMENT_SIZE)>>

(* rsp is lowered before the operand is read.                              *)
push(o) ==
    GetCode(o, 1)
    \o <<InstructionSub(RSP, RSP, STACK_ELEMENT_SIZE),
         InstructionSignExtend(Var(W64, "sext"), Get(o, 1)),
         InstructionStore(W64, RSP, Var(W64, "sext"))>>

(* rsp is raised after the operand is written.                             *)
pop(o) == <<InstructionLoad(o[1].bits, Get(o, 1), RSP),
            InstructionAdd(RSP, RSP, STACK_ELEMENT_SIZE)>>

leave == <<InstructionAssign(RSP, RBP), InstructionLoad(W64, RBP, RSP),
           InstructionAdd(RSP, RSP, Const(W8, 8))>>

(* On success dst becomes src; on failure rax becomes src, not dst.  The   *)
(* mask of eax is computed by shifting an int by 32, which on the          *)
(* processor shifts by 0 and leaves an empty mask.                         *)
cmpxchg(o) ==
    LET dst == Get(o, 1)  src == Get(o, 2)
        equal == Bit("raxCmp")  differ == Bit("notRaxCmp")
        futureDst == Var(dst.bits, "futureDst")
        futureDstTmp == Var(dst.bits, "futureDstTmp")
        futureRax == Var(W64, "futureRax")
        futureRaxTmp == Var(W64, "futureRaxTmp")
        rax_mask == Const(W64, IF dst.bits = W32 THEN 0 ELSE 2 ^ dst.bits - 1)
        raxTmp == IF dst.bits < W64 THEN Var(W64, "raxTmp") ELSE RAX
    IN  BothCode(o)
        \o (IF dst.bits < W64 THEN <<InstructionAnd(raxTmp, RAX, rax_mask)>> ELSE <<>>)
        \o <<InstructionCmpEq(equal, raxTmp, dst), InstructionNot(differ, equal),
             InstructionMul(futureDstTmp, src, equal),
             InstructionMul(futureDst, dst, differ),
             InstructionOr(futureDst, futureDst, futureDstTmp),
             InstructionMul(futureRax, RAX, equal),
             InstructionMul(futureRaxTmp, src, differ),
             InstructionOr(RAX, futureRax, futureRaxTmp),
             InstructionAssign(ZF, equal)>>
        \o Set(o, futureDst)

-----------------------------------------------------------------------------
(* Conditions: of jumps, conditional moves and set instructions            *)

jcc(o, cond) ==
    IF o[1].type = "imm"
    THEN <<InstructionSignExtend(Var(W64, "tmp"), Get(o, 1)),
           InstructionAdd(Var(W64, "tmp"), RIP, Var(W64, "tmp")),
           InstructionBrc(cond, Var(W64, "tmp"))>>
    ELSE GetCode(o, 1) \o <<InstructionBrc(cond, Get(o, 1))>>

cmovcc(o, cond) ==
    LET dst == Get(o, 1)  tmp == Tmp(o) IN
    BothCode(o)
    \o <<InstructionNot(Bit("notCond"), cond), InstructionMul(dst, dst, Bit("notCond")),
         InstructionMul(tmp, Get(o, 2), cond), InstructionOr(dst, dst, tmp)>>
    \o Set(o, dst)

CFandZF   == Bit("CFandZF")
CForZF    == Bit("CForZF")
notCForZF == Bit("notCForZF")
notCF     == Bit("notCF")
notZF     == Bit("notZF")
notSF     == Bit("notSF")
SFeqOF    == Bit("SFeqOF")
SFxorOF   == Bit("SFxorOF")
cond      == Bit("cond")

(* Mutant: ja that takes CF and ZF together, as seta does.                 *)
jaAsSeta(o) == <<InstructionAnd(CForZF, CF, ZF), InstructionNot(notCForZF, CForZF)>>
               \o jcc(o, notCForZF)

ja(o)  == <<InstructionOr(CForZF, CF, ZF), InstructionNot(notCForZF, CForZF)>>
          \o jcc(o, notCForZF)
jae(o) == <<InstructionNot(notCF, CF)>> \o jcc(o, notCF)
jb(o)  == jcc(o, CF)
jbe(o) == <<InstructionOr(CForZF, CF, ZF)>> \o jcc(o, CForZF)
jg(o)  == <<InstructionCmpEq(SFeqOF, SF, OF), InstructionNot(notZF, ZF),
            InstructionAnd(cond, notZF, SFeqOF)>> \o jcc(o, cond)
jge(o) == <<InstructionCmpEq(SFeqOF, SF, OF)>> \o jcc(o, SFeqOF)
jl(o)  == <<InstructionXor(SFxorOF, SF, OF)>> \o jcc(o, SFxorOF)
jle(o) == <<InstructionXor(cond, SF, OF), InstructionOr(cond, cond, ZF)>> \o jcc(o, cond)
jns(o) == <<InstructionNot(notSF, SF)>> \o jcc(o, notSF)
jnz(o) == <<InstructionNot(notZF, ZF)>> \o jcc(o, notZF)
js(o)  == jcc(o, SF)
jz(o)  == jcc(o, ZF)
jmp(o) == jcc(o, Const(1, 1))

cmova(o)  == <<InstructionNot(notZF, ZF), InstructionNot(notCF, CF),
               InstructionAnd(cond, notZF, notCF)>> \o cmovcc(o, cond)
cmovb(o)  == cmovcc(o, CF)
cmovbe(o) == <<InstructionOr(CForZF, CF, ZF)>> \o cmovcc(o, CForZF)
cmovnz(o) == <<InstructionNot(notZF, ZF)>> \o cmovcc(o, notZF)
cmovs(o)  == cmovcc(o, SF)
cmovz(o)  == cmovcc(o, ZF)

seta(o)  == <<InstructionAnd(CFandZF, CF, ZF), InstructionNot(cond, CFandZF)>> \o Set(o, cond)
setg(o)  == <<InstructionNot(notZF, ZF), InstructionCmpEq(SFeqOF, SF, OF),
              InstructionAnd(cond, notZF, SFeqOF)>> \o Set(o, cond)
setl(o)  == <<InstructionCmpEq(SFeqOF, SF, OF), InstructionNot(cond, SFeqOF)>> \o Set(o, cond)
setle(o) == <<InstructionCmpEq(SFeqOF, SF, OF), InstructionNot(cond, SFeqOF),
              InstructionOr(cond, ZF, cond)>> \o Set(o, cond)
setnb(o) == <<InstructionNot(notCF, CF)>> \o Set(o, notCF)
setnz(o) == <<InstructionNot(notZF, ZF)>> \o Set(o, notZF)
setz(o)  == Set(o, ZF)

(* The return address is that of the next instruction, RIP being advanced  *)
(* before anything is executed.                                            *)
call(o) ==
    LET off == Var(W64, "off") IN
    GetCode(o, 1)
    \o <<InstructionSub(RSP, RSP, STACK_ELEMENT_SIZE), InstructionStore(W64, RSP, RIP)>>
    \o IF o[1].type = "imm"
       THEN <<InstructionSignExtend(off, Get(o, 1)), InstructionAdd(off, RIP, off),
              InstructionBrc(Const(1, 1), off)>>
       ELSE <<InstructionBrc(Const(1, 1), Get(o, 1))>>

ret == <<InstructionLoad(W64, Var(W64, "dst"), RSP),
         InstructionAdd(RSP, RSP, STACK_ELEMENT_SIZE),
         InstructionBrc(Const(1, 1), Var(W64, "dst"))>>

nop == <<InstructionAssign(Bit("NOP"), Const(1, 0))>>

-----------------------------------------------------------------------------
(* String instructions                                                     *)

(* r += n, or r -= n if DF is set: n - 2 * n * DF is added.                *)
Advance(n, rs) ==
    <<InstructionAssign(Var(W64, "add"), Const(W64, n)),
      InstructionMul(Var(W64, "addTmp"), Const(W64, -(2 * n)), DF),
      InstructionAdd(Var(W64, "add"), Var(W64, "add"), Var(W64, "addTmp"))>>
    \o [k \in DOMAIN rs |-> InstructionAdd(rs[k], rs[k], Var(W64, "add"))]

std == <<InstructionAssign(DF, Const(1, 1))>>

stosd == <<InstructionStore(W32, RDI, Var(W32, "RAX"))>> \o Advance(4, <<RDI>>)

(* What is stored is rsi itself, not what it points to.                    *)
movsq == <<InstructionStore(W64, RDI, RSI)>> \o Advance(8, <<RDI, RSI>>)

(* The byte in memory is compared with al, not al with it.                 *)
scasb ==
    LET al == Var(W8, "al")  cmpByte == Var(W8, "cmpByte")  tmp0 == Var(W8, "tmp") IN
    <<InstructionAssign(al, RAX), InstructionLoad(W8, cmpByte, RDI),
      InstructionCmpLtu(CF, cmpByte, al), InstructionCmpLeu(CForZF, cmpByte, al),
      InstructionCmpLts(SFxorOF, cmpByte, al),
      InstructionCmpLes(Bit("SFxorOForZF"), cmpByte, al),
      InstructionCmpEq(ZF, cmpByte, al),
      InstructionSub(tmp0, cmpByte, al), SetSF(tmp0), InstructionXor(OF, SFxorOF, SF)>>
    \o Advance(1, <<RDI>>)

SizeConst == Const(W64, 1)      \* the size of every instruction
DecrementRCX == <<InstructionSub(RCX, RCX, Const(W64, 1)),
                  InstructionCmpEq(cond, RCX, Const(W64, 0)), InstructionNot(cond, cond)>>
Again == <<InstructionSub(Var(W64, "jmpDst"), RIP, SizeConst),
           InstructionBrc(cond, Var(W64, "jmpDst"))>>

(* Mutant: rep that does not count.                                        *)
repUncounted == <<InstructionCmpEq(cond, RCX, Const(W64, 0)), InstructionNot(cond, cond)>>
                \o Again

(* rcx is decremented after the instruction, and tested afterwards only.   *)
rep == DecrementRCX \o Again

repne == DecrementRCX
         \o <<InstructionNot(notZF, ZF), InstructionAnd(cond, cond, notZF)>> \o Again

-----------------------------------------------------------------------------
(* translate: the method of the mnemonic, followed by that of its prefix.  *)
(* Any other prefix throws.                                                *)

Instruction(m, o) == [mnemonic |-> m, operands |-> o, rep |-> "none", sext |-> FALSE]

Method(m, o, sext) ==
    CASE m = "adc" -> adc(o)  [] m = "add" -> add(o)   [] m = "and" -> And(o)
      [] m = "bsf" -> bsf(o)  [] m = "bt" -> bt(o)     [] m = "call" -> call(o)
      [] m = "cdqe" -> cdqe   [] m = "cmova" -> cmova(o)
      [] m = "cmovb" -> cmovb(o)   [] m = "cmovbe" -> cmovbe(o)
      [] m = "cmovnz" -> cmovnz(o) [] m = "cmovs" -> cmovs(o)
      [] m = "cmovz" -> cmovz(o)   [] m = "cmp" -> cmp(o)
      [] m = "cmpxchg" -> cmpxchg(o)
      [] m = "dec" -> dec(o)  [] m = "div" -> div(o)   [] m = "imul" -> imul(o)
      [] m = "inc" -> inc(o)  [] m = "ja" -> ja(o)     [] m = "jae" -> jae(o)
      [] m = "jb" -> jb(o)    [] m = "jbe" -> jbe(o)   [] m = "jg" -> jg(o)
      [] m = "jge" -> jge(o)  [] m = "jl" -> jl(o)     [] m = "jle" -> jle(o)
      [] m = "jmp" -> jmp(o)  [] m = "jns" -> jns(o)   [] m = "jnz" -> jnz(o)
      [] m = "js" -> js(o)    [] m = "jz" -> jz(o)     [] m = "lea" -> lea(o)
      [] m = "leave" -> leave [] m = "mov" -> mov(o, sext)
      [] m = "movsq" -> movsq [] m \in {"movsx", "movsxd"} -> movsx(o)
      [] m = "movzx" -> movzx(o)   [] m = "mul" -> mul(o)
      [] m = "nop" -> nop     [] m = "not" -> Not(o)   [] m = "neg" -> neg(o)
      [] m = "or" -> Or(o)    [] m = "pop" -> pop(o)   [] m = "push" -> push(o)
      [] m = "ret" -> ret     [] m = "rol" -> rol(o)   [] m = "ror" -> ror(o)
      [] m = "sar" -> sar(o)  [] m = "sbb" -> sbb(o)   [] m = "scasb" -> scasb
      [] m = "seta" -> seta(o)     [] m = "setg" -> setg(o)
      [] m = "setl" -> setl(o)     [] m = "setle" -> setle(o)
      [] m = "setnb" -> setnb(o)   [] m = "setnz" -> setnz(o)
      [] m = "setz" -> setz(o)     [] m = "shl" -> shl(o)
      [] m = "shr" -> shr(o)  [] m = "std" -> std      [] m = "stosd" -> stosd
      [] m = "sub" -> sub(o)  [] m = "test" -> test(o) [] m = "xor" -> Xor(o)

translate(ins) ==
    Method(ins.mnemonic, ins.operands, ins.sext)
    \o CASE ins.rep = "rep" /\ ins.mnemonic \in {"stosd", "movsq"} -> rep
         [] ins.rep = "repne" /\ ins.mnemonic = "scasb" -> repne
         [] ins.rep = "none" -> <<>>
         [] ins.rep = "rep" /\ ins.mnemonic = "ret" -> <<>>
=============================================================================
