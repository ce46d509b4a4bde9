--------------------------- MODULE SymbolicValues ---------------------------
(***************************************************************************)
(* Expressions over input that is not known (symbolicvalue.cc), as one     *)
(* machine builds them (vm.cc), what the solver makes of them, and what    *)
(* the machine concludes at a conditional branch.                          *)
(*                                                                         *)
(* The code executed is any sequence of the intermediate instructions that *)
(* compute; a machine of input bytes that are known runs the same          *)
(* instructions beside it, for every input.  A byte has W8 bits.  Who owns *)
(* the operands of an expression is the subject of SymbolicHeap, where a   *)
(* branch leads that of PathExploration.                                   *)
(***************************************************************************)
EXTENDS Integers, Sequences

CONSTANTS
    W8, W16,     \* bits of a byte and of a word; those of a flag are 1
    W128,        \* bits of the host's integers, in which UInt computes
    BitAnd(_, _), BitOr(_, _), BitXor(_, _),  \* the bitwise operations
    Operations,  \* the instructions of the code, of Arithmetic and Comparisons
    Forms,       \* the bits of their operands: left, right and dst
    Constants,   \* what the variable that is no input may start with
    Targets,     \* bound: the variables the code computes
    MaxSteps,    \* bound: computing instructions executed
    MaxBranches  \* bound: conditional branches executed

Arithmetic  == {"add", "sub", "mul", "div", "mod", "and", "or", "xor", "shl", "shr"}
Comparisons == {"eq", "leu", "ltu", "les", "lts"}

Vars   == {"x", "y"}
Widths == {1, W8, W16}
Reads  == {1, W8}   \* bound: the bits of the operands that are alone
Byte   == 0 .. 2 ^ W8 - 1
Inputs == Byte

ASSUME SymbolicValuesAssumption ==
    /\ W8 \in Nat \ {0, 1} /\ W16 \in Nat /\ W8 < W16 /\ W128 \in Nat
    /\ MaxSteps \in Nat /\ MaxBranches \in Nat
    /\ Operations \subseteq Arithmetic \cup Comparisons
    /\ Forms \subseteq [left : Widths, right : Widths, dst : Widths]
    /\ Constants \subseteq Byte /\ Targets \subseteq Vars

(* A bitwise operation needs no more bits than its operands.               *)
ASSUME BitwiseAssumption ==
    \A w \in Widths : \A l, r \in 0 .. 2 ^ w - 1 :
        {BitAnd(l, r), BitOr(l, r), BitXor(l, r)} \subseteq 0 .. 2 ^ w - 1

VARIABLES
    variables,   \* VM::variables: the expressions
    assertions,  \* VM::assertions: conditions and the values asserted of them
    names,       \* history: for every name symval_N, on every input, the
                 \* value it stands for
    runs,        \* history: the variables of the machine that knows the input
    path,        \* history: the inputs whose runs take this machine's path
    steps, branches

vars == <<variables, assertions, names, runs, path, steps, branches>>
-----------------------------------------------------------------------------
(* SymbolicValue                                                           *)

Wild(bits, ssa)   == [type |-> "wild", bits |-> bits, ssa |-> ssa]
Known(bits, v)    == [type |-> "constant", bits |-> bits, value |-> v % 2 ^ bits]
IsWild(t)         == t.type # "constant"
IsNode(t)         == t.type \notin {"constant", "wild"}

(* An operation on wild operands has the bits of its left one.  exact      *)
(* (history): it is one whose translation says what the machine computes,  *)
(* its operands are exact, and it has not been cut or sign-extended since. *)
(* even (history): in it, operations have two operands of the same bits.   *)
ExactOperations == {"add", "sub", "mul", "mod", "and", "or", "shl", "shr", "not"}
Exact(t)        == IsNode(t) => t.exact
Even(t)         == IsNode(t) => t.even
Node(op, l, r)  ==
    [type |-> op, bits |-> l.bits, lhs |-> l, rhs |-> r,
     exact |-> op \in ExactOperations /\ Exact(l) /\ Exact(r),
     even  |-> l.bits = r.bits /\ Even(l) /\ Even(r)]

(* The expressions of at most n levels of operations.                      *)
Leaves == [type : {"constant"}, bits : Widths, value : Nat] \cup
          [type : {"wild"}, bits : Widths, ssa : Nat]
Nodes(operands) ==
    [type : Arithmetic \cup Comparisons \cup {"not"}, bits : Widths,
     lhs : operands, rhs : operands, exact : BOOLEAN, even : BOOLEAN]
Trees[n \in 0 .. MaxSteps] ==
    IF n = 0 THEN Leaves ELSE Leaves \cup Nodes(Trees[n - 1])
Expressions == Trees[MaxSteps]

Signed(bits, v) == IF bits > 1 /\ v >= 2 ^ (bits - 1) THEN v - 2 ^ bits ELSE v

(* UInt: the operation on values that are known, l of bits and r of        *)
(* rbits; what it gives has the bits of its left one.                      *)
Computed(op, bits, rbits, l, r) ==
    CASE op = "add" -> (l + r) % 2 ^ bits
      [] op = "sub" -> (l - r) % 2 ^ bits
      [] op = "mul" -> (l * r) % 2 ^ bits
      [] op = "div" -> l \div r
      [] op = "mod" -> l % r
      [] op = "and" -> BitAnd(l, r) % 2 ^ bits
      [] op = "or"  -> BitOr(l, r) % 2 ^ bits
      [] op = "xor" -> BitXor(l, r) % 2 ^ bits
      [] op = "shl" -> (l * 2 ^ r) % 2 ^ bits
      [] op = "shr" -> l \div 2 ^ r
      [] op = "not" -> 2 ^ bits - 1 - l
      [] OTHER      -> IF \/ op = "eq" /\ l = r
                          \/ op = "leu" /\ l <= r
                          \/ op = "ltu" /\ l < r
                          \/ op = "les" /\ Signed(bits, l) <= Signed(rbits, r)
                          \/ op = "lts" /\ Signed(bits, l) < Signed(rbits, r)
                       THEN 1 ELSE 0

ResultBits(op, bits) == IF op \in Comparisons THEN 1 ELSE bits

(* Executed as such: a division by zero ends the program, a shift by the   *)
(* bits of the host's integers or more is undefined.                       *)
Undefined(op, r) == \/ op \in {"div", "mod"} /\ r = 0
                    \/ op \in {"shl", "shr"} /\ r >= W128

(* The operators of SymbolicValue.                                         *)
Operator(op, l, r) ==
    IF IsWild(l) \/ IsWild(r) THEN Node(op, l, r)
    ELSE Known(ResultBits(op, l.bits), Computed(op, l.bits, r.bits, l.value, r.value))

(* The copy has a new ssa, by which a wild value is known to the solver:   *)
(* the copy is another unknown.                                            *)
extend(t, bits, ssa) ==
    CASE t.type = "constant" -> Known(bits, t.value)
      [] t.type = "wild"     -> Wild(bits, ssa)
      [] IsNode(t)           -> [t EXCEPT !.bits = bits, !.exact = @ /\ t.bits <= bits]

(* The operands of an operation are kept: it is not sign-extended.         *)
signExtend(t, bits, ssa) ==
    CASE t.type = "constant" -> Known(bits, Signed(t.bits, t.value))
      [] t.type = "wild"     -> Wild(bits, ssa)
      [] IsNode(t)           -> [t EXCEPT !.bits = bits,
                                          !.exact = @ /\ t.bits \in {1, bits}]
-----------------------------------------------------------------------------
(* The formula of a value                                                  *)

Larger(a, b) == IF a < b THEN b ELSE a

(* Both operands of an operation must have the same number of bits; else   *)
(* Z3 refuses, and the exception ends the program.                         *)
WellSorted[f \in Expressions] ==
    IsNode(f) =>
        /\ WellSorted[f.lhs]
        /\ f.type # "not" => WellSorted[f.rhs] /\ f.lhs.bits = f.rhs.bits

Unknowns[f \in Expressions] ==
    CASE f.type = "constant" -> {}
      [] f.type = "wild"     -> {[ssa |-> f.ssa, bits |-> f.bits]}
      [] f.type = "not"      -> Unknowns[f.lhs]
      [] OTHER               -> Unknowns[f.lhs] \cup Unknowns[f.rhs]

(* What the solver may choose for the unknowns of expressions.             *)
Assignments(unknowns) ==
    {a \in [unknowns -> 0 .. 2 ^ W16 - 1] : \A u \in unknowns : a[u] < 2 ^ u.bits}

(* The bit-vector operations of Z3.  A one-bit vector has a sign there.    *)
Z3Signed(bits, v) == IF v >= 2 ^ (bits - 1) THEN v - 2 ^ bits ELSE v
Magnitude(v)      == IF v < 0 THEN -v ELSE v
Quotient(bits, l, r) ==
    LET q == Magnitude(l) \div Magnitude(r)
    IN  (IF (l < 0) = (r < 0) THEN q ELSE -q) % 2 ^ bits

Z3Computed(op, bits, l, r) ==
    LET sl == Z3Signed(bits, l)
        sr == Z3Signed(bits, r)
    IN CASE op = "div" -> IF r = 0 THEN (IF sl < 0 THEN 1 ELSE 2 ^ bits - 1)
                          ELSE Quotient(bits, sl, sr)
         [] op = "mod" -> IF r = 0 THEN l ELSE l % r
         [] op = "les" -> IF sl <= sr THEN 1 ELSE 0
         [] op = "lts" -> IF sl < sr THEN 1 ELSE 0
         [] OTHER      -> Computed(op, bits, bits, l, r)

(* The value of an expression, given the unknowns.                         *)
Value(f, a) ==
    LET value[g \in Expressions] ==
            CASE g.type = "constant" -> g.value
              [] g.type = "wild"     -> a[[ssa |-> g.ssa, bits |-> g.bits]]
              [] g.type = "not"      -> Z3Computed("not", g.lhs.bits, value[g.lhs], 0)
              [] OTHER -> Z3Computed(g.type, g.lhs.bits, value[g.lhs], value[g.rhs])
    IN  value[f]

(* Mutant: subtraction is given to the solver as an addition.              *)
TranslatedSub(op) == IF op = "sub" THEN "add" ELSE IF op = "xor" THEN "or" ELSE op

(* The operation Z3 is given for one of the machine's.                     *)
Translated(op) == IF op = "xor" THEN "or" ELSE op

(* contextCmp: a comparison that can hold, by a solver of its own and      *)
(* without the assertions, is the constant 1, one that cannot, 0.          *)
contextCmp(f, bits) ==
    Known(bits, IF \E a \in Assignments(Unknowns[f]) : Value(f, a) = 1 THEN 1 ELSE 0)

(* SymbolicValue::context: the expression for the solver, with the bits of *)
(* its sort.  It is extended to the bits of the value, never cut.          *)
context[t \in Expressions] ==
    IF ~IsNode(t) THEN t
    ELSE LET l == context[t.lhs]
             r == context[t.rhs]
             f == [t EXCEPT !.type = Translated(@), !.bits = Larger(l.bits, @),
                            !.lhs = l, !.rhs = r]
         IN  IF t.type \in Comparisons /\ WellSorted[f] THEN contextCmp(f, t.bits) ELSE f

(* sv_assert: the condition can have the value, a single bit, given the    *)
(* assertions.                                                             *)
Sorted(f) == WellSorted[f] /\ f.bits = 1
sv_assert(c, value, given) ==
    LET f == context[c]
        assumed == {<<context[g.condition], g.value>> : g \in given}
    IN  \E a \in Assignments(Unknowns[f] \cup UNION {Unknowns[g[1]] : g \in assumed}) :
            /\ Value(f, a) = value
            /\ \A g \in assumed : Value(g[1], a) = g[2]
-----------------------------------------------------------------------------
(* The machine                                                             *)

(* x is the input byte, y a constant.                                      *)
Init ==
    /\ \E k \in Constants :
        /\ variables = [x |-> Wild(W8, 1), y |-> Known(W8, k)]
        /\ runs = [i \in Inputs |-> [x |-> i, y |-> k]]
    /\ names = <<[i \in Inputs |-> i]>>
    /\ path = Inputs
    /\ assertions = {} /\ steps = 0 /\ branches = 0

(* g_value: a variable is read with the bits of the operand, and extended. *)
Reading(v, w, k)  == extend(variables[v], w, Len(names) + k)
Read(i, v, w)     == runs[i][v] % 2 ^ w
Meaning(V(_))     == [i \in DOMAIN runs |-> V(i)]

Step == steps < MaxSteps /\ steps' = steps + 1 /\ UNCHANGED <<assertions, branches>>

(* An instruction of two operands, each read with its own bits.  A run in  *)
(* which the operation is undefined ends there.                            *)
Execute(op, d, a, b, form) ==
    LET left(i)  == Read(i, a, form.left)
        right(i) == Read(i, b, form.right)
        ended    == {i \in DOMAIN runs : Undefined(op, right(i))}
        result(i) == Computed(op, form.left, form.right, left(i), right(i)) % 2 ^ form.dst
    IN  /\ Step
        /\ ended # DOMAIN runs
        /\ variables' = [variables EXCEPT ![d] =
               extend(Operator(op, Reading(a, form.left, 1), Reading(b, form.right, 2)),
                      form.dst, Len(names) + 3)]
        /\ names' = names \o <<Meaning(left), Meaning(right)>>
        /\ runs' = [i \in DOMAIN runs \ ended |-> [runs[i] EXCEPT ![d] = result(i)]]
        /\ path' = path \ ended

Negation(t) == IF IsWild(t) THEN Node("not", t, t)
               ELSE Known(t.bits, Computed("not", t.bits, t.bits, t.value, 0))

ExecuteNot(d, s, w, bits) ==
    LET value(i) == Read(i, s, w)
        not(i)   == Computed("not", w, w, value(i), 0) % 2 ^ bits
    IN  /\ Step
        /\ variables' = [variables EXCEPT ![d] =
               extend(Negation(Reading(s, w, 1)), bits, Len(names) + 2)]
        /\ names' = Append(names, Meaning(value))
        /\ runs' = [i \in DOMAIN runs |-> [runs[i] EXCEPT ![d] = not(i)]]
        /\ UNCHANGED path

(* Assign, from an operand of w bits to a variable of bits.                *)
ExecuteAssign(d, s, w, bits) ==
    LET from(i) == Read(i, s, w)
        to(i)   == from(i) % 2 ^ bits
    IN  /\ Step
        /\ variables' = [variables EXCEPT ![d] =
               extend(Reading(s, w, 1), bits, Len(names) + 2)]
        /\ names' = names \o <<Meaning(from), Meaning(to)>>
        /\ runs' = [i \in DOMAIN runs |-> [runs[i] EXCEPT ![d] = to(i)]]
        /\ UNCHANGED path

ExecuteSignExtend(d, s, w, bits) ==
    LET from(i) == Read(i, s, w)
        to(i)   == Signed(w, from(i)) % 2 ^ bits
    IN  /\ Step
        /\ variables' = [variables EXCEPT ![d] =
               signExtend(Reading(s, w, 1), bits, Len(names) + 2)]
        /\ names' = names \o <<Meaning(from), Meaning(to)>>
        /\ runs' = [i \in DOMAIN runs |-> [runs[i] EXCEPT ![d] = to(i)]]
        /\ UNCHANGED path
-----------------------------------------------------------------------------
(* Brc, on a wild condition of one bit                                     *)

Condition(c) == Reading(c, 1, 1)
Solvable(c)  == IsWild(Condition(c)) /\ Sorted(context[Condition(c)])
MayBe(c, value) == sv_assert(Condition(c), value, assertions)
With(c, value)  == {i \in path : Read(i, c, 1) = value}

Branch(c) ==
    /\ branches < MaxBranches /\ branches' = branches + 1
    /\ Solvable(c)
    /\ names' = Append(names, [i \in DOMAIN runs |-> Read(i, c, 1)])
    /\ UNCHANGED <<variables, runs, steps>>

Assertion(c, value) == [condition |-> Condition(c), value |-> value]

(* Mutant: the copy is given the assertion of the machine that jumps.      *)
ForkedAssertsTrue(c) ==
    /\ Branch(c)
    /\ MayBe(c, 1) /\ MayBe(c, 0)
    /\ assertions' = {Assertion(c, 1)}
    /\ path' = With(c, 0)

(* Both outcomes possible, seen from the copy: it has its own assertion    *)
(* only.                                                                   *)
Forked(c) ==
    /\ Branch(c)
    /\ MayBe(c, 1) /\ MayBe(c, 0)
    /\ assertions' = {Assertion(c, 0)}
    /\ path' = With(c, 0)

(* The machine jumps.                                                      *)
Jump(c) ==
    /\ Branch(c)
    /\ MayBe(c, 1)
    /\ assertions' = assertions \cup {Assertion(c, 1)}
    /\ path' = With(c, 1)

(* Also when neither is possible, and then nothing is asserted.            *)
OnlyFalse(c) ==
    /\ Branch(c)
    /\ ~MayBe(c, 1)
    /\ assertions' = assertions \cup
           (IF MayBe(c, 0) THEN {Assertion(c, 0)} ELSE {})
    /\ path' = With(c, 0)

Brc == \E c \in Vars : Forked(c) \/ Jump(c) \/ OnlyFalse(c)

Next ==
    \/ \E op \in Operations, d \in Targets, a, b \in Vars, form \in Forms :
           Execute(op, d, a, b, form)
    \/ \E d \in Targets, s \in Vars, w \in Reads, bits \in Widths :
           \/ ExecuteNot(d, s, w, bits)
           \/ ExecuteAssign(d, s, w, bits)
           \/ ExecuteSignExtend(d, s, w, bits)
    \/ Brc

Spec == Init /\ [][Next]_vars
-----------------------------------------------------------------------------
Standing(i, f) == [u \in Unknowns[f] |-> names[u.ssa][i]]

(* What the solver is told of a variable admits every input                *)
(* (symbolicvalue.cc:343): with the names standing for what they are on an *)
(* input, its formula is the value the machine computes when it knows the  *)
(* input; or Z3 refuses the formula, and then an instruction had operands  *)
(* of different bits.  Of a value made of exact operations only.           *)
EveryInputIsAdmitted ==
    \A v \in Vars : Exact(variables[v]) =>
        LET f == context[variables[v]] IN
        /\ WellSorted[f] <=> Even(variables[v])
        /\ WellSorted[f] => \A i \in DOMAIN runs : Value(f, Standing(i, f)) = runs[i][v]

OutcomesFound(c) ==
    \A i \in path : MayBe(c, Read(i, c, 1))

(* A branch does not lose inputs (vm.cc:296): an outcome that an input on  *)
(* the path of the machine has is found possible, whatever was asserted    *)
(* before.  Of conditions made of exact operations only.                   *)
NoOutcomeIsMissed ==
    \A c \in Vars :
        /\ Solvable(c)
        /\ Exact(Condition(c)) /\ \A g \in assertions : Exact(g.condition)
        => OutcomesFound(c)

(* The same of every condition: when both outcomes are possible, both are  *)
(* followed (vm.cc:302).                                                   *)
BothOutcomesAreFollowed ==
    \A c \in Vars : Solvable(c) => OutcomesFound(c)
=============================================================================
