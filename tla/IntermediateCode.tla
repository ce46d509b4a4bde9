-------------------------- MODULE IntermediateCode --------------------------
(***************************************************************************)
(* The intermediate instructions (instruction.h), the integers they        *)
(* compute with (uint.cc) and what a machine makes of each of them         *)
(* (VM::execute, vm.cc), for values that are known.                        *)
(*                                                                         *)
(* The widths 8, 16, 32 and 64 are parameters, so that TLC can enumerate   *)
(* operands at both ends of each range.  A value is its number: whatever a *)
(* UInt holds above its width is masked by everything that reads it.  The  *)
(* cells of memory hold whole operands; how bytes make up a word is in     *)
(* AddressSpace.                                                           *)
(***************************************************************************)
EXTENDS Integers, Sequences, TLC

LOCAL INSTANCE Bitwise

CONSTANTS W8, W16, W32, W64

(* What the translator relies on: AH lies in the low half of RAX, a 64-bit *)
(* word is two 32-bit ones, and an 8-bit constant can hold the number 64.  *)
ASSUME WidthAssumption ==
    /\ 1 < W8 /\ W8 < W16 /\ W16 < W32
    /\ 2 * W8 <= W64 /\ W64 = 2 * W32
    /\ W64 < 2 ^ W8

-----------------------------------------------------------------------------
(* Integers of a width                                                     *)

(* UInt::g_value128: the low b bits.  Of the 128-bit variables modelled    *)
(* here none ever holds more than 64 bits, and TLC's integers hold 31.     *)
Low(b, v) == IF b > W64 THEN v ELSE v % 2 ^ b

(* Operands: InstructionOperand with OPTYPE_VAR and OPTYPE_CONSTANT.       *)
Var(b, x)   == [type |-> "var", bits |-> b, id |-> x]
Const(b, n) == [type |-> "constant", bits |-> b, value |-> Low(b, n)]

(* UInt::g_svalue128: a value of one bit has no sign.                      *)
g_svalue(b, v) == IF b > 1 /\ v >= 2 ^ (b - 1) THEN v - 2 ^ b ELSE v

(* The UInt operators.  The result has the width b of the left operand.  A *)
(* shift by 128 or more, undefined in C++, is taken modulo 128 by the      *)
(* processor; the counts that occur then shift everything out.             *)
Compute(op, b, x, y) ==
    CASE op = "add" -> (x + y) % 2 ^ b
      [] op = "sub" -> (x - y) % 2 ^ b
      [] op = "mul" -> (x * y) % 2 ^ b
      [] op = "div" -> x \div y
      [] op = "mod" -> x % y
      [] op = "and" -> x & y
      [] op = "or"  -> Low(b, x | y)
      [] op = "xor" -> (x ^^ y) % 2 ^ b
      [] op = "shl" -> IF y >= b THEN 0 ELSE (x % 2 ^ (b - y)) * 2 ^ y
      [] op = "shr" -> IF y >= b THEN 0 ELSE x \div 2 ^ y

(* The comparisons; a signed one takes each operand at its own width.      *)
Holds(op, l, r, x, y) ==
    CASE op = "cmpeq"  -> x = y
      [] op = "cmpltu" -> x < y
      [] op = "cmpleu" -> x <= y
      [] op = "cmplts" -> g_svalue(l, x) < g_svalue(r, y)
      [] op = "cmples" -> g_svalue(l, x) <= g_svalue(r, y)

-----------------------------------------------------------------------------
(* Instructions                                                            *)

Arithmetic == {"add", "sub", "mul", "div", "mod", "and", "or", "xor", "shl", "shr"}
Comparison == {"cmpeq", "cmpltu", "cmpleu", "cmplts", "cmples"}
Unary      == {"assign", "not", "signextend"}

Binary(op, d, l, r) == [op |-> op, dst |-> d, lhs |-> l, rhs |-> r]
InstructionAdd(d, l, r)    == Binary("add", d, l, r)
InstructionSub(d, l, r)    == Binary("sub", d, l, r)
InstructionMul(d, l, r)    == Binary("mul", d, l, r)
InstructionDiv(d, l, r)    == Binary("div", d, l, r)
InstructionMod(d, l, r)    == Binary("mod", d, l, r)
InstructionAnd(d, l, r)    == Binary("and", d, l, r)
InstructionOr(d, l, r)     == Binary("or", d, l, r)
InstructionXor(d, l, r)    == Binary("xor", d, l, r)
InstructionShl(d, l, r)    == Binary("shl", d, l, r)
InstructionShr(d, l, r)    == Binary("shr", d, l, r)
InstructionCmpEq(d, l, r)  == Binary("cmpeq", d, l, r)
InstructionCmpLtu(d, l, r) == Binary("cmpltu", d, l, r)
InstructionCmpLeu(d, l, r) == Binary("cmpleu", d, l, r)
InstructionCmpLts(d, l, r) == Binary("cmplts", d, l, r)
InstructionCmpLes(d, l, r) == Binary("cmples", d, l, r)
InstructionAssign(d, s)     == [op |-> "assign", dst |-> d, src |-> s]
InstructionNot(d, s)        == [op |-> "not", dst |-> d, src |-> s]
InstructionSignExtend(d, s) == [op |-> "signextend", dst |-> d, src |-> s]
InstructionLoad(b, d, s)    == [op |-> "load", bits |-> b, dst |-> d, src |-> s]
InstructionStore(b, d, s)   == [op |-> "store", bits |-> b, dst |-> d, src |-> s]
InstructionBrc(c, d)        == [op |-> "brc", cond |-> c, dst |-> d]

-----------------------------------------------------------------------------
(* VM::g_value: an operand of the environment env, cut to its own width.   *)
g_value(env, o) ==
    IF o.type = "constant" THEN o.value ELSE Low(o.bits, env[o.id])

(* What VM::execute writes to the destination of an arithmetic or unary    *)
(* instruction or a comparison.                                            *)
Value(env, i) ==
    CASE i.op \in Arithmetic ->
             Compute(i.op, i.lhs.bits, g_value(env, i.lhs), g_value(env, i.rhs))
      [] i.op \in Comparison ->
             IF Holds(i.op, i.lhs.bits, i.rhs.bits,
                      g_value(env, i.lhs), g_value(env, i.rhs)) THEN 1 ELSE 0
      [] i.op = "assign"     -> g_value(env, i.src)
      [] i.op = "not"        -> 2 ^ i.src.bits - 1 - g_value(env, i.src)
      [] i.op = "signextend" -> g_svalue(i.src.bits, g_value(env, i.src))

(* variables[dst] = value.extend(dst.bits)                                 *)
Assigned(env, d, v) == (d.id :> Low(d.bits, v)) @@ env
=============================================================================
