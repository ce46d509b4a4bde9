------------------------ MODULE SymbolicValuesProofs ------------------------
(***************************************************************************)
(* What is proved of SymbolicValues, for any number of bits of a byte and  *)
(* of a word, any operations and any number of steps: the solver's formula *)
(* of an exact value admits every input, and a branch on exact conditions  *)
(* misses no outcome an input on the path has.                             *)
(***************************************************************************)
EXTENDS SymbolicValues, BasicFacts

-----------------------------------------------------------------------------
(* The sets of expressions                                                 *)

(* The recursive definition of Trees is that of a function.                *)
LEMMA TreesEquation ==
    Trees = [n \in 0 .. MaxSteps |->
                IF n = 0 THEN Leaves ELSE Leaves \cup Nodes(Trees[n - 1])]
<1> DEFINE P(f, m) == f = [n \in 0 .. m |->
                              IF n = 0 THEN Leaves ELSE Leaves \cup Nodes(f[n - 1])]
           T == {m \in Nat : \E f : P(f, m)}
<1>1. 0 \in T
  <2> DEFINE g == [n \in 0 .. 0 |-> Leaves]
  <2>1. \A n \in 0 .. 0 : n = 0
    OBVIOUS
  <2>2. [n \in 0 .. 0 |-> IF n = 0 THEN Leaves ELSE Leaves \cup Nodes(g[n - 1])]
          = [n \in 0 .. 0 |-> Leaves]
    BY <2>1
  <2>3. P(g, 0)
    BY <2>2
  <2> QED
    BY <2>3
<1>2. ASSUME NEW m \in T PROVE m + 1 \in T
  <2>1. PICK f : P(f, m)
    OBVIOUS
  <2> DEFINE g == [n \in 0 .. m + 1 |->
                      IF n = 0 THEN Leaves ELSE Leaves \cup Nodes(f[n - 1])]
  <2>2. ASSUME NEW n \in 0 .. m + 1, n # 0 PROVE g[n - 1] = f[n - 1]
    <3>1. n - 1 \in 0 .. m /\ n - 1 \in 0 .. m + 1
      BY <2>2
    <3> QED
      BY <2>1, <3>1
  <2>3. P(g, m + 1)
    BY <2>2
  <2>4. m + 1 \in Nat
    OBVIOUS
  <2> HIDE DEF P, g
  <2> QED
    BY <2>3, <2>4
<1>3. \E f : P(f, MaxSteps)
  <2>1. T \in SUBSET Nat
    OBVIOUS
  <2> HIDE DEF T
  <2>2. \A m \in Nat : m \in T
    BY <1>1, <1>2, <2>1, NumbersByInduction
  <2> USE DEF T
  <2> QED
    BY <2>2, SymbolicValuesAssumption
<1> QED
  BY <1>3 DEF Trees

(* What the sets of expressions are, level by level.                       *)
LEMMA TreeLevels ==
    /\ Trees[0] = Leaves
    /\ \A n \in 0 .. MaxSteps : n # 0 => Trees[n] = Leaves \cup Nodes(Trees[n - 1])
<1>1. 0 \in 0 .. MaxSteps
  BY SymbolicValuesAssumption
<1> QED
  BY <1>1, TreesEquation

(* A leaf is no operation.                                                 *)
LEMMA LeafIsNoNode ==
    /\ \A t \in Leaves : ~ IsNode(t)
    /\ \A X : \A t \in Nodes(X) : IsNode(t)
BY DEF Leaves, Nodes, IsNode, Arithmetic, Comparisons

(* An expression of some levels is one of more levels.                     *)
LEMMA TreesGrow ==
    ASSUME NEW n \in 0 .. MaxSteps
    PROVE  /\ Leaves \subseteq Trees[n]
           /\ Trees[n] \subseteq Expressions
           /\ n # MaxSteps => Trees[n] \subseteq Trees[n + 1]
<1> DEFINE T == {m \in Nat : m < MaxSteps => Trees[m] \subseteq Trees[m + 1]}
<1>1. \A X, Y : X \subseteq Y => Nodes(X) \subseteq Nodes(Y)
  BY DEF Nodes
<1>2. 0 \in T
  <2>1. ASSUME 0 < MaxSteps PROVE 0 + 1 \in 0 .. MaxSteps /\ 0 + 1 # 0 /\ (0 + 1) - 1 = 0
    BY <2>1, SymbolicValuesAssumption
  <2> QED
    BY <2>1, TreeLevels
<1>3. ASSUME NEW m \in T PROVE m + 1 \in T
  <2>1. SUFFICES ASSUME m + 1 < MaxSteps PROVE Trees[m + 1] \subseteq Trees[(m + 1) + 1]
    OBVIOUS
  <2>2. /\ m + 1 \in 0 .. MaxSteps /\ m + 1 # 0 /\ (m + 1) - 1 = m
        /\ (m + 1) + 1 \in 0 .. MaxSteps /\ (m + 1) + 1 # 0
        /\ ((m + 1) + 1) - 1 = m + 1
        /\ m < MaxSteps
    BY <2>1, SymbolicValuesAssumption
  <2>3. Trees[m + 1] = Leaves \cup Nodes(Trees[m])
    BY <2>2, TreeLevels
  <2>4. Trees[(m + 1) + 1] = Leaves \cup Nodes(Trees[m + 1])
    BY <2>2, TreeLevels
  <2>5. Trees[m] \subseteq Trees[m + 1]
    BY <2>2
  <2> QED
    BY <2>3, <2>4, <2>5, <1>1
<1>4. \A m \in Nat : m < MaxSteps => Trees[m] \subseteq Trees[m + 1]
  <2>1. T \in SUBSET Nat
    OBVIOUS
  <2> HIDE DEF T
  <2>2. \A m \in Nat : m \in T
    BY <1>2, <1>3, <2>1, NumbersByInduction
  <2> USE DEF T
  <2> QED
    BY <2>2
<1> DEFINE U == {m \in Nat : m <= MaxSteps => Trees[MaxSteps - m] \subseteq Trees[MaxSteps]}
<1>5. 0 \in U
  <2>1. MaxSteps - 0 = MaxSteps
    BY SymbolicValuesAssumption
  <2> QED
    BY <2>1
<1>6. ASSUME NEW m \in U PROVE m + 1 \in U
  <2>1. SUFFICES ASSUME m + 1 <= MaxSteps
                 PROVE  Trees[MaxSteps - (m + 1)] \subseteq Trees[MaxSteps]
    OBVIOUS
  <2>2. PICK k \in Nat : k = MaxSteps - (m + 1)
    BY <2>1, SymbolicValuesAssumption
  <2>3. k + 1 = MaxSteps - m /\ k < MaxSteps /\ m <= MaxSteps
    BY <2>1, <2>2, SymbolicValuesAssumption
  <2>4. Trees[k] \subseteq Trees[k + 1]
    BY <2>3, <1>4
  <2>5. Trees[MaxSteps - m] \subseteq Trees[MaxSteps]
    BY <2>3
  <2> QED
    BY <2>2, <2>3, <2>4, <2>5
<1>7. \A m \in Nat : m \in U
  <2>1. U \in SUBSET Nat
    OBVIOUS
  <2> HIDE DEF U
  <2> QED
    BY <1>5, <1>6, <2>1, NumbersByInduction
<1>8. Trees[n] \subseteq Trees[MaxSteps]
  <2>1. MaxSteps - n \in Nat /\ MaxSteps - n <= MaxSteps /\ MaxSteps - (MaxSteps - n) = n
    BY SymbolicValuesAssumption
  <2>2. MaxSteps - n \in U
    BY <2>1, <1>7
  <2> QED
    BY <2>1, <2>2
<1>9. Leaves \subseteq Trees[n]
  BY TreeLevels
<1>10. n # MaxSteps => n < MaxSteps /\ n \in Nat
  BY SymbolicValuesAssumption
<1> QED
  BY <1>4, <1>8, <1>9, <1>10 DEF Expressions

(* An expression is a leaf or an operation on expressions of one level     *)
(* less.                                                                   *)
LEMMA Operands ==
    /\ \A t \in Trees[0] : ~ IsNode(t)
    /\ \A n \in 0 .. MaxSteps : \A t \in Trees[n] :
          IsNode(t) => n # 0 /\ t \in Nodes(Trees[n - 1])
                       /\ t.lhs \in Trees[n - 1] /\ t.rhs \in Trees[n - 1]
<1>1. \A X : \A t \in Nodes(X) : t.lhs \in X /\ t.rhs \in X
  BY DEF Nodes
<1> QED
  BY <1>1, TreeLevels, LeafIsNoNode
-----------------------------------------------------------------------------
(* The recursive functions of expressions                                  *)

(* The recursive definition of WellSorted is that of a function.           *)
LEMMA WellSortedEquation ==
    WellSorted = [t \in Expressions |->
        IsNode(t) => /\ WellSorted[t.lhs]
                     /\ t.type # "not" => WellSorted[t.rhs] /\ t.lhs.bits = t.rhs.bits]
<1> DEFINE D(h, t) ==
               IsNode(t) => /\ h[t.lhs]
                            /\ t.type # "not" => h[t.rhs] /\ t.lhs.bits = t.rhs.bits
           P(h, n) == h = [t \in Trees[n] |-> D(h, t)]
           T == {n \in Nat : n <= MaxSteps => \E h : P(h, n)}
<1>1. ASSUME NEW h, NEW g, NEW t,
             IsNode(t) => g[t.lhs] = h[t.lhs] /\ g[t.rhs] = h[t.rhs]
      PROVE  D(g, t) = D(h, t)
  BY <1>1 DEF IsNode
<1> HIDE DEF D
<1>2. 0 \in T
  <2> DEFINE g == [t \in Trees[0] |-> D(Leaves, t)]
  <2>1. \A t \in Trees[0] : D(g, t) = D(Leaves, t)
    <3> HIDE DEF g
    <3> QED
      BY <1>1, Operands
  <2>2. P(g, 0)
    BY <2>1
  <2> HIDE DEF P, g
  <2> QED
    BY <2>2
<1>3. ASSUME NEW n \in T PROVE n + 1 \in T
  <2>1. SUFFICES ASSUME n + 1 <= MaxSteps PROVE \E h : P(h, n + 1)
    OBVIOUS
  <2>2. PICK m \in Nat : m = n + 1
    OBVIOUS
  <2>3. n \in 0 .. MaxSteps /\ m \in 0 .. MaxSteps /\ n # MaxSteps /\ m - 1 = n
    BY <2>1, <2>2, SymbolicValuesAssumption
  <2>4. PICK h : P(h, n)
    BY <2>3
  <2> DEFINE g == [t \in Trees[m] |-> D(h, t)]
  <2>5. ASSUME NEW t \in Trees[n] PROVE g[t] = h[t]
    <3>1. t \in Trees[m]
      BY <2>2, <2>3, TreesGrow
    <3> QED
      BY <2>4, <3>1
  <2>6. ASSUME NEW t \in Trees[m] PROVE D(g, t) = D(h, t)
    <3>1. IsNode(t) => t.lhs \in Trees[n] /\ t.rhs \in Trees[n]
      BY <2>3, Operands
    <3> HIDE DEF g
    <3> QED
      BY <1>1, <2>5, <3>1
  <2>7. P(g, m)
    BY <2>6
  <2> HIDE DEF P, g
  <2> QED
    BY <2>2, <2>7
<1>4. \E h : P(h, MaxSteps)
  <2>1. T \in SUBSET Nat
    OBVIOUS
  <2> HIDE DEF T
  <2>2. \A n \in Nat : n \in T
    BY <1>2, <1>3, <2>1, NumbersByInduction
  <2> USE DEF T
  <2> HIDE DEF P
  <2> QED
    BY <2>2, SymbolicValuesAssumption
<1> USE DEF D
<1> QED
  BY <1>4 DEF WellSorted, Expressions

(* The recursive definition of Unknowns is that of a function.             *)
LEMMA UnknownsEquation ==
    Unknowns = [t \in Expressions |->
        CASE t.type = "constant" -> {}
          [] t.type = "wild"     -> {[ssa |-> t.ssa, bits |-> t.bits]}
          [] t.type = "not"      -> Unknowns[t.lhs]
          [] OTHER               -> Unknowns[t.lhs] \cup Unknowns[t.rhs]]
<1> DEFINE D(h, t) ==
               CASE t.type = "constant" -> {}
                 [] t.type = "wild"     -> {[ssa |-> t.ssa, bits |-> t.bits]}
                 [] t.type = "not"      -> h[t.lhs]
                 [] OTHER               -> h[t.lhs] \cup h[t.rhs]
           P(h, n) == h = [t \in Trees[n] |-> D(h, t)]
           T == {n \in Nat : n <= MaxSteps => \E h : P(h, n)}
<1>1. ASSUME NEW h, NEW g, NEW t,
             IsNode(t) => g[t.lhs] = h[t.lhs] /\ g[t.rhs] = h[t.rhs]
      PROVE  D(g, t) = D(h, t)
  BY <1>1 DEF IsNode
<1> HIDE DEF D
<1>2. 0 \in T
  <2> DEFINE g == [t \in Trees[0] |-> D(Leaves, t)]
  <2>1. \A t \in Trees[0] : D(g, t) = D(Leaves, t)
    <3> HIDE DEF g
    <3> QED
      BY <1>1, Operands
  <2>2. P(g, 0)
    BY <2>1
  <2> HIDE DEF P, g
  <2> QED
    BY <2>2
<1>3. ASSUME NEW n \in T PROVE n + 1 \in T
  <2>1. SUFFICES ASSUME n + 1 <= MaxSteps PROVE \E h : P(h, n + 1)
    OBVIOUS
  <2>2. PICK m \in Nat : m = n + 1
    OBVIOUS
  <2>3. n \in 0 .. MaxSteps /\ m \in 0 .. MaxSteps /\ n # MaxSteps /\ m - 1 = n
    BY <2>1, <2>2, SymbolicValuesAssumption
  <2>4. PICK h : P(h, n)
    BY <2>3
  <2> DEFINE g == [t \in Trees[m] |-> D(h, t)]
  <2>5. ASSUME NEW t \in Trees[n] PROVE g[t] = h[t]
    <3>1. t \in Trees[m]
      BY <2>2, <2>3, TreesGrow
    <3> QED
      BY <2>4, <3>1
  <2>6. ASSUME NEW t \in Trees[m] PROVE D(g, t) = D(h, t)
    <3>1. IsNode(t) => t.lhs \in Trees[n] /\ t.rhs \in Trees[n]
      BY <2>3, Operands
    <3> HIDE DEF g
    <3> QED
      BY <1>1, <2>5, <3>1
  <2>7. P(g, m)
    BY <2>6
  <2> HIDE DEF P, g
  <2> QED
    BY <2>2, <2>7
<1>4. \E h : P(h, MaxSteps)
  <2>1. T \in SUBSET Nat
    OBVIOUS
  <2> HIDE DEF T
  <2>2. \A n \in Nat : n \in T
    BY <1>2, <1>3, <2>1, NumbersByInduction
  <2> USE DEF T
  <2> HIDE DEF P
  <2> QED
    BY <2>2, SymbolicValuesAssumption
<1> USE DEF D
<1> QED
  BY <1>4 DEF Unknowns, Expressions

(* The recursive definition of context is that of a function.              *)
LEMMA contextEquation ==
    context = [t \in Expressions |->
        IF ~IsNode(t) THEN t
        ELSE LET l == context[t.lhs]
                 r == context[t.rhs]
                 f == [t EXCEPT !.type = Translated(@), !.bits = Larger(l.bits, @),
                                !.lhs = l, !.rhs = r]
             IN  IF t.type \in Comparisons /\ WellSorted[f] THEN contextCmp(f, t.bits) ELSE f]
<1> DEFINE D(h, t) ==
               IF ~IsNode(t) THEN t
               ELSE LET l == h[t.lhs]
                        r == h[t.rhs]
                        f == [t EXCEPT !.type = Translated(@), !.bits = Larger(l.bits, @),
                                       !.lhs = l, !.rhs = r]
                    IN  IF t.type \in Comparisons /\ WellSorted[f] THEN contextCmp(f, t.bits) ELSE f
           P(h, n) == h = [t \in Trees[n] |-> D(h, t)]
           T == {n \in Nat : n <= MaxSteps => \E h : P(h, n)}
<1>1. ASSUME NEW h, NEW g, NEW t,
             IsNode(t) => g[t.lhs] = h[t.lhs] /\ g[t.rhs] = h[t.rhs]
      PROVE  D(g, t) = D(h, t)
  BY <1>1 DEF IsNode
<1> HIDE DEF D
<1>2. 0 \in T
  <2> DEFINE g == [t \in Trees[0] |-> D(Leaves, t)]
  <2>1. \A t \in Trees[0] : D(g, t) = D(Leaves, t)
    <3> HIDE DEF g
    <3> QED
      BY <1>1, Operands
  <2>2. P(g, 0)
    BY <2>1
  <2> HIDE DEF P, g
  <2> QED
    BY <2>2
<1>3. ASSUME NEW n \in T PROVE n + 1 \in T
  <2>1. SUFFICES ASSUME n + 1 <= MaxSteps PROVE \E h : P(h, n + 1)
    OBVIOUS
  <2>2. PICK m \in Nat : m = n + 1
    OBVIOUS
  <2>3. n \in 0 .. MaxSteps /\ m \in 0 .. MaxSteps /\ n # MaxSteps /\ m - 1 = n
    BY <2>1, <2>2, SymbolicValuesAssumption
  <2>4. PICK h : P(h, n)
    BY <2>3
  <2> DEFINE g == [t \in Trees[m] |-> D(h, t)]
  <2>5. ASSUME NEW t \in Trees[n] PROVE g[t] = h[t]
    <3>1. t \in Trees[m]
      BY <2>2, <2>3, TreesGrow
    <3> QED
      BY <2>4, <3>1
  <2>6. ASSUME NEW t \in Trees[m] PROVE D(g, t) = D(h, t)
    <3>1. IsNode(t) => t.lhs \in Trees[n] /\ t.rhs \in Trees[n]
      BY <2>3, Operands
    <3> HIDE DEF g
    <3> QED
      BY <1>1, <2>5, <3>1
  <2>7. P(g, m)
    BY <2>6
  <2> HIDE DEF P, g
  <2> QED
    BY <2>2, <2>7
<1>4. \E h : P(h, MaxSteps)
  <2>1. T \in SUBSET Nat
    OBVIOUS
  <2> HIDE DEF T
  <2>2. \A n \in Nat : n \in T
    BY <1>2, <1>3, <2>1, NumbersByInduction
  <2> USE DEF T
  <2> HIDE DEF P
  <2> QED
    BY <2>2, SymbolicValuesAssumption
<1> USE DEF D
<1> QED
  BY <1>4 DEF context, Expressions

(* The value of an expression is that of its operation on the values of    *)
(* its operands, whatever the unknowns are.                                *)
LEMMA ValueEquation ==
    ASSUME NEW a, NEW f \in Expressions
    PROVE  Value(f, a) =
               CASE f.type = "constant" -> f.value
                 [] f.type = "wild"     -> a[[ssa |-> f.ssa, bits |-> f.bits]]
                 [] f.type = "not"      -> Z3Computed("not", f.lhs.bits, Value(f.lhs, a), 0)
                 [] OTHER -> Z3Computed(f.type, f.lhs.bits, Value(f.lhs, a), Value(f.rhs, a))
<1> DEFINE D(h, t) ==
               CASE t.type = "constant" -> t.value
                 [] t.type = "wild"     -> a[[ssa |-> t.ssa, bits |-> t.bits]]
                 [] t.type = "not"      -> Z3Computed("not", t.lhs.bits, h[t.lhs], 0)
                 [] OTHER -> Z3Computed(t.type, t.lhs.bits, h[t.lhs], h[t.rhs])
           P(h, n) == h = [t \in Trees[n] |-> D(h, t)]
           T == {n \in Nat : n <= MaxSteps => \E h : P(h, n)}
<1>1. ASSUME NEW h, NEW g, NEW t,
             IsNode(t) => g[t.lhs] = h[t.lhs] /\ g[t.rhs] = h[t.rhs]
      PROVE  D(g, t) = D(h, t)
  BY <1>1 DEF IsNode
<1> HIDE DEF D
<1>2. 0 \in T
  <2> DEFINE g == [t \in Trees[0] |-> D(Leaves, t)]
  <2>1. \A t \in Trees[0] : D(g, t) = D(Leaves, t)
    <3> HIDE DEF g
    <3> QED
      BY <1>1, Operands
  <2>2. P(g, 0)
    BY <2>1
  <2> HIDE DEF P, g
  <2> QED
    BY <2>2
<1>3. ASSUME NEW n \in T PROVE n + 1 \in T
  <2>1. SUFFICES ASSUME n + 1 <= MaxSteps PROVE \E h : P(h, n + 1)
    OBVIOUS
  <2>2. PICK m \in Nat : m = n + 1
    OBVIOUS
  <2>3. n \in 0 .. MaxSteps /\ m \in 0 .. MaxSteps /\ n # MaxSteps /\ m - 1 = n
    BY <2>1, <2>2, SymbolicValuesAssumption
  <2>4. PICK h : P(h, n)
    BY <2>3
  <2> DEFINE g == [t \in Trees[m] |-> D(h, t)]
  <2>5. ASSUME NEW t \in Trees[n] PROVE g[t] = h[t]
    <3>1. t \in Trees[m]
      BY <2>2, <2>3, TreesGrow
    <3> QED
      BY <2>4, <3>1
  <2>6. ASSUME NEW t \in Trees[m] PROVE D(g, t) = D(h, t)
    <3>1. IsNode(t) => t.lhs \in Trees[n] /\ t.rhs \in Trees[n]
      BY <2>3, Operands
    <3> HIDE DEF g
    <3> QED
      BY <1>1, <2>5, <3>1
  <2>7. P(g, m)
    BY <2>6
  <2> HIDE DEF P, g
  <2> QED
    BY <2>2, <2>7
<1>4. \E h : P(h, MaxSteps)
  <2>1. T \in SUBSET Nat
    OBVIOUS
  <2> HIDE DEF T
  <2>2. \A n \in Nat : n \in T
    BY <1>2, <1>3, <2>1, NumbersByInduction
  <2> USE DEF T
  <2> HIDE DEF P
  <2> QED
    BY <2>2, SymbolicValuesAssumption
<1> DEFINE value == CHOOSE h : P(h, MaxSteps)
<1>5. P(value, MaxSteps)
  <2> HIDE DEF P
  <2> QED
    BY <1>4
<1>6. \A g : Value(g, a) = value[g]
  BY DEF Value, D, Expressions
<1> HIDE DEF value
<1>7. value[f] = D(value, f)
  BY <1>5 DEF Expressions
<1> USE DEF D
<1> QED
  BY <1>6, <1>7
-----------------------------------------------------------------------------
(* Values of a width                                                       *)

(* Powers of two are positive numbers that grow with the exponent.         *)
LEMMA PowersOfTwo ==
    /\ \A n \in Nat : 2 ^ n \in Nat /\ 2 ^ n >= 1
    /\ \A m, n \in Nat : m <= n => 2 ^ m <= 2 ^ n
<1> DEFINE S(n) == SUBSET (1 .. n)
<1>1. ASSUME NEW n \in Nat PROVE IsFiniteSet(S(n)) /\ Cardinality(S(n)) = 2 ^ n
  <2>1. IsFiniteSet(1 .. n) /\ Cardinality(1 .. n) = n
    BY FS_Interval
  <2> QED
    BY <2>1, FS_SUBSET
<1>2. ASSUME NEW n \in Nat PROVE 2 ^ n \in Nat /\ 2 ^ n >= 1
  <2>1. {} \in S(n)
    OBVIOUS
  <2> HIDE DEF S
  <2>2. Cardinality(S(n)) \in Nat /\ Cardinality(S(n)) # 0
    BY <1>1, <2>1, FS_CardinalityType, FS_EmptySet
  <2>3. 2 ^ n \in Nat /\ 2 ^ n # 0
    BY <1>1, <2>2
  <2> QED
    BY <2>3
<1>3. ASSUME NEW m \in Nat, NEW n \in Nat, m <= n PROVE 2 ^ m <= 2 ^ n
  <2>1. S(m) \subseteq S(n)
    BY <1>3
  <2> HIDE DEF S
  <2>2. Cardinality(S(m)) <= Cardinality(S(n))
    BY <1>1, <2>1, FS_Subset
  <2> QED
    BY <1>1, <2>2
<1> QED
  BY <1>2, <1>3

(* The widths of values, and the numbers of values they have.              *)
LEMMA WidthFacts ==
    /\ Widths \subseteq Nat /\ Reads \subseteq Widths
    /\ \A w \in Widths : 1 <= w /\ w <= W16 /\ 2 ^ w \in Nat /\ 2 ^ w >= 2
    /\ \A v, w \in Widths : v <= w => 2 ^ v <= 2 ^ w
<1>1. /\ Widths \subseteq Nat /\ Reads \subseteq Widths
      /\ \A w \in Widths : 1 <= w /\ w <= W16
  BY SymbolicValuesAssumption DEF Widths, Reads
<1>2. 2 ^ 1 = 2
  OBVIOUS
<1> QED
  BY <1>1, <1>2, PowersOfTwo

(* A bitwise operation on values of any two widths is an integer.          *)
LEMMA BitwiseIsInteger ==
    ASSUME NEW v \in Widths, NEW w \in Widths, NEW l \in 0 .. 2 ^ v - 1, NEW r \in 0 .. 2 ^ w - 1
    PROVE  {BitAnd(l, r), BitOr(l, r), BitXor(l, r)} \subseteq Int
<1>1. W16 \in Widths /\ v <= W16 /\ w <= W16
  BY WidthFacts DEF Widths
<1>2. PICK p, q, s \in Nat : /\ p = 2 ^ v /\ q = 2 ^ w /\ s = 2 ^ W16
                             /\ p <= s /\ q <= s
  BY <1>1, WidthFacts
<1>3. l \in 0 .. 2 ^ W16 - 1 /\ r \in 0 .. 2 ^ W16 - 1
  <2>1. l \in 0 .. p - 1 /\ r \in 0 .. q - 1
    BY <1>2
  <2>2. l \in 0 .. s - 1 /\ r \in 0 .. s - 1
    BY <1>2, <2>1
  <2> QED
    BY <1>2, <2>2
<1>4. {BitAnd(l, r), BitOr(l, r), BitXor(l, r)} \subseteq 0 .. 2 ^ W16 - 1
  BY <1>1, <1>3, BitwiseAssumption
<1> QED
  BY <1>4

(* What an instruction computes has the bits of its result.                *)
LEMMA ComputedInBits ==
    ASSUME NEW op \in Arithmetic \cup Comparisons \cup {"not"}, NEW w \in Widths,
           NEW wr \in Widths, NEW l \in 0 .. 2 ^ w - 1, NEW r \in 0 .. 2 ^ wr - 1,
           ~ Undefined(op, r)
    PROVE  /\ ResultBits(op, w) \in Widths /\ ResultBits(op, w) <= w
           /\ Computed(op, w, wr, l, r) \in 0 .. 2 ^ ResultBits(op, w) - 1
<1>1. PICK p \in Nat : p = 2 ^ w
  BY WidthFacts
<1>2. p >= 2 /\ l \in 0 .. p - 1 /\ r \in Nat
  <2>1. PICK q \in Nat : q = 2 ^ wr
    BY WidthFacts
  <2>2. r \in 0 .. q - 1
    BY <2>1
  <2> QED
    BY <1>1, <2>2, WidthFacts
<1>3. 2 ^ 1 = 2 /\ 1 \in Widths /\ 1 <= w
  BY WidthFacts DEF Widths
<1>4. CASE op \in {"add", "sub", "mul", "shl"}
  <2>1. /\ (l + r) % p \in 0 .. p - 1 /\ (l - r) % p \in 0 .. p - 1
        /\ (l * r) % p \in 0 .. p - 1
    BY <1>2
  <2>2. (l * 2 ^ r) % p \in 0 .. p - 1
    <3>1. PICK q \in Nat : q = 2 ^ r
      BY <1>2, PowersOfTwo
    <3>2. (l * q) % p \in 0 .. p - 1
      BY <1>2
    <3> QED
      BY <3>1, <3>2
  <2>3. ResultBits(op, w) = w
    BY <1>4 DEF ResultBits, Comparisons
  <2>4. Computed(op, w, wr, l, r) \in 0 .. p - 1
    BY <1>1, <1>4, <2>1, <2>2 DEF Computed
  <2> QED
    BY <1>1, <2>3, <2>4, WidthFacts
<1>5. CASE op \in {"div", "mod", "shr", "not"}
  <2>1. CASE op \in {"div", "mod"}
    <3>1. r >= 1
      BY <1>2, <2>1 DEF Undefined
    <3>2. l \div r \in 0 .. l /\ l % r \in 0 .. r - 1 /\ l % r <= l
      BY <1>2, <3>1
    <3>3. Computed(op, w, wr, l, r) \in 0 .. p - 1
      <4>1. l \div r \in 0 .. p - 1 /\ l % r \in 0 .. p - 1
        BY <1>2, <3>1, <3>2
      <4>2. Computed(op, w, wr, l, r) \in {l \div r, l % r}
        BY <2>1 DEF Computed
      <4> QED
        BY <4>1, <4>2
    <3>4. ResultBits(op, w) = w
      BY <2>1 DEF ResultBits, Comparisons
    <3> QED
      BY <1>1, <3>3, <3>4, WidthFacts
  <2>2. CASE op = "shr"
    <3>1. PICK q \in Nat : q = 2 ^ r /\ q >= 1
      BY <1>2, PowersOfTwo
    <3>2. l \div q \in 0 .. l
      BY <1>2, <3>1
    <3>3. Computed(op, w, wr, l, r) \in 0 .. p - 1
      BY <1>2, <2>2, <3>1, <3>2 DEF Computed
    <3>4. ResultBits(op, w) = w
      BY <2>2 DEF ResultBits, Comparisons
    <3> QED
      BY <1>1, <3>3, <3>4, WidthFacts
  <2>3. CASE op = "not"
    <3>1. p - 1 - l \in 0 .. p - 1
      BY <1>2
    <3>2. Computed(op, w, wr, l, r) \in 0 .. p - 1
      BY <1>1, <2>3, <3>1 DEF Computed
    <3>3. ResultBits(op, w) = w
      BY <2>3 DEF ResultBits, Comparisons
    <3> QED
      BY <1>1, <3>2, <3>3, WidthFacts
  <2> QED
    BY <1>5, <2>1, <2>2, <2>3
<1>6. CASE op \in {"and", "or", "xor"}
  <2>1. /\ BitAnd(l, r) % p \in 0 .. p - 1
        /\ BitOr(l, r) % p \in 0 .. p - 1
        /\ BitXor(l, r) % p \in 0 .. p - 1
    <3>1. BitAnd(l, r) \in Int /\ BitOr(l, r) \in Int /\ BitXor(l, r) \in Int
      BY BitwiseIsInteger
    <3> QED
      BY <1>2, <3>1
  <2>2. Computed(op, w, wr, l, r) \in 0 .. 2 ^ w - 1
    BY <1>1, <1>6, <2>1 DEF Computed
  <2>3. ResultBits(op, w) = w
    BY <1>6 DEF ResultBits, Comparisons
  <2> QED
    BY <2>2, <2>3, WidthFacts
<1>7. CASE op \in Comparisons
  <2>1. Computed(op, w, wr, l, r) \in {0, 1}
    BY <1>7 DEF Computed, Comparisons
  <2>2. ResultBits(op, w) = 1
    BY <1>7 DEF ResultBits
  <2> QED
    BY <1>3, <2>1, <2>2
<1> QED
  BY <1>4, <1>5, <1>6, <1>7 DEF Arithmetic, Comparisons

(* What is cut to a width has its bits.                                    *)
LEMMA CutToWidth ==
    ASSUME NEW w \in Widths, NEW v \in Int
    PROVE  /\ v % 2 ^ w \in 0 .. 2 ^ w - 1 /\ v % 2 ^ w \in Nat
           /\ v \in 0 .. 2 ^ w - 1 => v % 2 ^ w = v
<1>1. PICK p \in Nat : p = 2 ^ w /\ p >= 2
  BY WidthFacts
<1>2. v % p \in 0 .. p - 1 /\ (v \in 0 .. p - 1 => v % p = v)
  BY <1>1
<1> QED
  BY <1>1, <1>2

(* A known value has the bits it is made with.                             *)
LEMMA KnownFacts ==
    ASSUME NEW w \in Widths, NEW v \in Int
    PROVE  /\ Known(w, v) \in Leaves /\ ~ IsWild(Known(w, v))
           /\ Known(w, v).value = v % 2 ^ w /\ Known(w, v).value \in 0 .. 2 ^ w - 1
           /\ v \in 0 .. 2 ^ w - 1 => Known(w, v).value = v
<1>1. PICK p \in Nat : p = 2 ^ w /\ p >= 2
  BY WidthFacts
<1>2. v % p \in 0 .. p - 1 /\ (v \in 0 .. p - 1 => v % p = v)
  BY <1>1
<1>3. v % 2 ^ w \in Nat
  BY <1>1, <1>2
<1> QED
  BY <1>1, <1>2, <1>3 DEF Known, Leaves, IsWild

(* The formula of an expression is an expression of as many levels.        *)
LEMMA contextLevel ==
    \A n \in 0 .. MaxSteps : \A t \in Trees[n] : context[t] \in Trees[n]
<1> DEFINE T == {n \in Nat : n <= MaxSteps => \A t \in Trees[n] : context[t] \in Trees[n]}
<1>1. ASSUME NEW n \in 0 .. MaxSteps, NEW t \in Trees[n], ~ IsNode(t)
      PROVE  context[t] \in Trees[n]
  BY <1>1, TreesGrow, contextEquation
<1>2. 0 \in T
  <2>1. 0 \in 0 .. MaxSteps
    BY SymbolicValuesAssumption
  <2> QED
    BY <1>1, <2>1, Operands
<1>3. ASSUME NEW n \in T PROVE n + 1 \in T
  <2>1. PICK m \in Nat : m = n + 1
    OBVIOUS
  <2>2. SUFFICES ASSUME m <= MaxSteps, NEW t \in Trees[m], IsNode(t)
                 PROVE  context[t] \in Trees[m]
    BY <1>1, <2>1, SymbolicValuesAssumption
  <2>3. n \in 0 .. MaxSteps /\ m \in 0 .. MaxSteps /\ m # 0 /\ m - 1 = n
    BY <2>1, <2>2, SymbolicValuesAssumption
  <2>4. t \in Nodes(Trees[n]) /\ t.lhs \in Trees[n] /\ t.rhs \in Trees[n] /\ t \in Expressions
    BY <2>2, <2>3, Operands, TreesGrow
  <2> DEFINE l == context[t.lhs]
             r == context[t.rhs]
             f == [t EXCEPT !.type = Translated(@), !.bits = Larger(l.bits, @),
                            !.lhs = l, !.rhs = r]
  <2>5. l \in Trees[n] /\ r \in Trees[n]
    BY <2>3, <2>4
  <2>6. l.bits \in Widths
    <3>1. \A g \in Trees[n] : g.bits \in Widths
      <4>1. \A X : \A g \in Leaves \cup Nodes(X) : g.bits \in Widths
        BY DEF Leaves, Nodes
      <4> QED
        BY <2>3, <4>1, TreeLevels
    <3> QED
      BY <2>5, <3>1
  <2> HIDE DEF l, r
  <2>7. f \in Nodes(Trees[n])
    BY <2>4, <2>5, <2>6 DEF Nodes, Translated, Larger, Arithmetic
  <2>8. contextCmp(f, t.bits) \in Leaves
    <3>1. t.bits \in Widths
      BY <2>4 DEF Nodes
    <3> QED
      BY <3>1, KnownFacts DEF contextCmp
  <2>9. context[t] \in {f, contextCmp(f, t.bits)}
    <3> HIDE DEF f
    <3>1. context[t] = IF t.type \in Comparisons /\ WellSorted[f]
                       THEN contextCmp(f, t.bits) ELSE f
      BY <2>2, <2>4, contextEquation DEF f, l, r
    <3> QED
      BY <3>1
  <2>10. Trees[m] = Leaves \cup Nodes(Trees[n])
    BY <2>3, TreeLevels
  <2> HIDE DEF f
  <2> QED
    BY <2>7, <2>8, <2>9, <2>10
<1> QED
  <2>1. T \in SUBSET Nat
    OBVIOUS
  <2> HIDE DEF T
  <2>2. \A n \in Nat : n \in T
    BY <1>2, <1>3, <2>1, NumbersByInduction
  <2> USE DEF T
  <2> QED
    BY <2>2
-----------------------------------------------------------------------------
(* What an expression means                                                *)

(* The formula f is n whenever the names nm stand for what they are on the *)
(* input i, and there are such values for them.                            *)
Admits(f, i, n, nm) ==
    /\ WellSorted[f]
    /\ \A u \in Unknowns[f] : /\ u.bits \in Widths /\ u.ssa \in 1 .. Len(nm)
                              /\ nm[u.ssa][i] \in 0 .. 2 ^ u.bits - 1
    /\ \A a : (\A u \in Unknowns[f] : a[u] = nm[u.ssa][i]) => Value(f, a) = n

(* The expression t stands for the value n on the input i.  Its formula is *)
(* refused by Z3 when operands of different bits were combined.            *)
Means(t, i, n, nm) ==
    /\ n \in 0 .. 2 ^ t.bits - 1
    /\ ~ IsWild(t) => t.value = n
    /\ Exact(t) => /\ IsNode(t) => t.type \in ExactOperations
                   /\ context[t].bits = t.bits
                   /\ WellSorted[context[t]] <=> Even(t)
                   /\ Even(t) => Admits(context[t], i, n, nm)

(* nm2 says of the input i what nm does, and perhaps more.                 *)
Extends(nm2, nm, i) ==
    /\ Len(nm) \in Nat /\ Len(nm2) \in Nat /\ Len(nm) <= Len(nm2)
    /\ \A k \in 1 .. Len(nm) : nm2[k][i] = nm[k][i]

(* More names do not change what an expression means.                      *)
LEMMA MeansLater ==
    ASSUME NEW t, NEW i, NEW n, NEW nm, NEW nm2, Extends(nm2, nm, i), Means(t, i, n, nm)
    PROVE  Means(t, i, n, nm2)
<1>1. ASSUME NEW f, Admits(f, i, n, nm) PROVE Admits(f, i, n, nm2)
  <2>1. \A u \in Unknowns[f] : /\ u.bits \in Widths /\ u.ssa \in 1 .. Len(nm)
                               /\ nm[u.ssa][i] \in 0 .. 2 ^ u.bits - 1
    BY <1>1 DEF Admits
  <2>2. \A u \in Unknowns[f] : u.ssa \in 1 .. Len(nm2) /\ nm2[u.ssa][i] = nm[u.ssa][i]
    BY <2>1 DEF Extends
  <2>3. \A u \in Unknowns[f] : nm2[u.ssa][i] \in 0 .. 2 ^ u.bits - 1
    BY <2>1, <2>2
  <2>4. ASSUME NEW a, \A u \in Unknowns[f] : a[u] = nm2[u.ssa][i] PROVE Value(f, a) = n
    <3>1. \A u \in Unknowns[f] : a[u] = nm[u.ssa][i]
      BY <2>2, <2>4
    <3> QED
      BY <1>1, <3>1 DEF Admits
  <2> QED
    BY <1>1, <2>1, <2>2, <2>3, <2>4 DEF Admits
<1> QED
  BY <1>1 DEF Means

(* A leaf is an expression, and its own formula.                           *)
LEMMA LeafFormula ==
    ASSUME NEW t \in Leaves
    PROVE  /\ t \in Expressions /\ ~ IsNode(t) /\ context[t] = t /\ WellSorted[t]
           /\ IF IsWild(t) THEN /\ t.type = "wild"
                                /\ Unknowns[t] = {[ssa |-> t.ssa, bits |-> t.bits]}
                                /\ \A a : Value(t, a) = a[[ssa |-> t.ssa, bits |-> t.bits]]
              ELSE Unknowns[t] = {} /\ \A a : Value(t, a) = t.value
<1>1. t \in Expressions
  BY TreesGrow, SymbolicValuesAssumption
<1>2. t.type \in {"constant", "wild"}
  BY DEF Leaves
<1>3. ~ IsNode(t) /\ context[t] = t /\ WellSorted[t]
  BY <1>1, <1>2, contextEquation, WellSortedEquation DEF IsNode
<1>4. CASE t.type = "wild"
  <2>1. Unknowns[t] = {[ssa |-> t.ssa, bits |-> t.bits]}
    BY <1>1, <1>4, UnknownsEquation
  <2>2. ASSUME NEW a PROVE Value(t, a) = a[[ssa |-> t.ssa, bits |-> t.bits]]
    BY <1>1, <1>4, ValueEquation
  <2> QED
    BY <1>1, <1>3, <1>4, <2>1, <2>2 DEF IsWild
<1>5. CASE t.type = "constant"
  <2>1. Unknowns[t] = {}
    BY <1>1, <1>5, UnknownsEquation
  <2>2. ASSUME NEW a PROVE Value(t, a) = t.value
    BY <1>1, <1>5, ValueEquation
  <2> QED
    BY <1>1, <1>3, <1>5, <2>1, <2>2 DEF IsWild
<1> QED
  BY <1>2, <1>4, <1>5

(* A constant stands for its value, on every input.                        *)
LEMMA KnownMeans ==
    ASSUME NEW w \in Widths, NEW v \in Int, NEW i, NEW nm
    PROVE  Means(Known(w, v), i, v % 2 ^ w, nm)
<1> DEFINE t == Known(w, v)
<1>1. t \in Leaves /\ ~ IsWild(t) /\ t.value = v % 2 ^ w /\ t.value \in 0 .. 2 ^ w - 1
  BY KnownFacts
<1>2. t.bits = w
  BY DEF Known
<1> HIDE DEF t
<1>3. t \in Expressions /\ ~ IsNode(t) /\ context[t] = t /\ WellSorted[t]
  BY <1>1, LeafFormula
<1>4. Unknowns[t] = {} /\ \A a : Value(t, a) = t.value
  BY <1>1, LeafFormula
<1>5. Admits(t, i, t.value, nm)
  BY <1>3, <1>4 DEF Admits
<1>6. Means(t, i, t.value, nm)
  BY <1>1, <1>2, <1>3, <1>5 DEF Means, Even
<1> QED
  BY <1>1, <1>6 DEF t

(* A wild value stands for what its name stands for.                       *)
LEMMA WildMeans ==
    ASSUME NEW w \in Widths, NEW nm, NEW ssa \in 1 .. Len(nm), NEW i, Len(nm) \in Nat,
           nm[ssa][i] \in 0 .. 2 ^ w - 1
    PROVE  Means(Wild(w, ssa), i, nm[ssa][i], nm)
<1> DEFINE t == Wild(w, ssa)
           u == [ssa |-> ssa, bits |-> w]
<1>1. t \in Leaves /\ IsWild(t) /\ t.bits = w /\ t.ssa = ssa
  BY DEF Wild, Leaves, IsWild
<1> HIDE DEF t
<1>2. t \in Expressions /\ ~ IsNode(t) /\ context[t] = t /\ WellSorted[t]
  BY <1>1, LeafFormula
<1>3. Unknowns[t] = {u} /\ \A a : Value(t, a) = a[u]
  BY <1>1, LeafFormula
<1>4. Admits(t, i, nm[ssa][i], nm)
  <2>1. u.bits = w /\ u.ssa = ssa
    OBVIOUS
  <2> HIDE DEF u
  <2> QED
    BY <1>2, <1>3, <2>1 DEF Admits
<1>5. Means(t, i, nm[ssa][i], nm)
  BY <1>1, <1>2, <1>4 DEF Means, Even
<1> QED
  BY <1>5 DEF t

(* The formula of an exact operation.                                      *)
LEMMA NodeFormula ==
    ASSUME NEW k \in 0 .. MaxSteps, NEW t \in Trees[k], IsNode(t), t.type \in ExactOperations
    PROVE  /\ t.lhs \in Expressions /\ t.rhs \in Expressions
           /\ context[t] \in Expressions /\ IsNode(context[t])
           /\ context[t].type = t.type
           /\ context[t].bits = Larger(context[t.lhs].bits, t.bits)
           /\ context[t].lhs = context[t.lhs] /\ context[t].rhs = context[t.rhs]
<1>1. /\ k # 0 /\ k - 1 \in 0 .. MaxSteps /\ t \in Expressions
      /\ t \in Nodes(Trees[k - 1]) /\ t.lhs \in Trees[k - 1] /\ t.rhs \in Trees[k - 1]
  <2>1. /\ k # 0 /\ t \in Nodes(Trees[k - 1])
        /\ t.lhs \in Trees[k - 1] /\ t.rhs \in Trees[k - 1]
    BY Operands
  <2>2. k - 1 \in 0 .. MaxSteps
    BY <2>1, SymbolicValuesAssumption
  <2>3. t \in Expressions
    BY TreesGrow
  <2> QED
    BY <2>1, <2>2, <2>3
<1> DEFINE l == context[t.lhs]
           r == context[t.rhs]
           f == [t EXCEPT !.type = Translated(@), !.bits = Larger(l.bits, @),
                          !.lhs = l, !.rhs = r]
<1>2. t.type \notin Comparisons /\ Translated(t.type) = t.type
  BY DEF ExactOperations, Comparisons, Translated
<1>3. context[t] = f
  BY <1>1, <1>2, contextEquation
<1> HIDE DEF l, r
<1>4. /\ f.type = Translated(t.type) /\ f.bits = Larger(l.bits, t.bits)
      /\ f.lhs = l /\ f.rhs = r
  BY <1>1 DEF Nodes
<1>5. context[t] \in Expressions
  BY contextLevel, TreesGrow
<1> HIDE DEF f
<1>6. IsNode(f)
  BY <1>2, <1>4 DEF IsNode
<1> QED
  BY <1>1, <1>2, <1>3, <1>4, <1>5, <1>6, TreesGrow DEF l, r

(* The recursive functions at an operation.                                *)
LEMMA AtAnOperation ==
    ASSUME NEW f \in Expressions, IsNode(f)
    PROVE  /\ WellSorted[f] <=>
                 /\ WellSorted[f.lhs]
                 /\ f.type # "not" => WellSorted[f.rhs] /\ f.lhs.bits = f.rhs.bits
           /\ Unknowns[f] = IF f.type = "not" THEN Unknowns[f.lhs]
                            ELSE Unknowns[f.lhs] \cup Unknowns[f.rhs]
           /\ \A a : Value(f, a) =
                  IF f.type = "not" THEN Z3Computed("not", f.lhs.bits, Value(f.lhs, a), 0)
                  ELSE Z3Computed(f.type, f.lhs.bits, Value(f.lhs, a), Value(f.rhs, a))
<1>1. f.type \notin {"constant", "wild"}
  BY DEF IsNode
<1>2. WellSorted[f] <=>
          /\ WellSorted[f.lhs]
          /\ f.type # "not" => WellSorted[f.rhs] /\ f.lhs.bits = f.rhs.bits
  <2>1. WellSorted[f] =
            (IsNode(f) => /\ WellSorted[f.lhs]
                          /\ f.type # "not" => WellSorted[f.rhs] /\ f.lhs.bits = f.rhs.bits)
    BY WellSortedEquation
  <2> QED
    BY <2>1
<1>3. Unknowns[f] = IF f.type = "not" THEN Unknowns[f.lhs]
                    ELSE Unknowns[f.lhs] \cup Unknowns[f.rhs]
  BY <1>1, UnknownsEquation
<1>4. ASSUME NEW a
      PROVE  Value(f, a) =
                 IF f.type = "not" THEN Z3Computed("not", f.lhs.bits, Value(f.lhs, a), 0)
                 ELSE Z3Computed(f.type, f.lhs.bits, Value(f.lhs, a), Value(f.rhs, a))
  BY <1>1, ValueEquation
<1> QED
  BY <1>2, <1>3, <1>4

(* An exact operation is given to the solver as what the machine computes. *)
LEMMA ExactComputed ==
    ASSUME NEW op \in ExactOperations, NEW w, NEW l, NEW r, ~ Undefined(op, r)
    PROVE  Z3Computed(op, w, l, r) = Computed(op, w, w, l, r)
<1>1. CASE op = "mod"
  <2>1. r # 0
    BY <1>1 DEF Undefined
  <2> QED
    BY <1>1, <2>1 DEF Z3Computed, Computed
<1>2. CASE op # "mod"
  <2>1. op \notin {"div", "mod", "les", "lts"}
    BY <1>2 DEF ExactOperations
  <2> QED
    BY <2>1 DEF Z3Computed
<1> QED
  BY <1>1, <1>2

(* An operation on expressions stands for what the machine computes of     *)
(* what they stand for.                                                    *)
LEMMA NodeMeans ==
    ASSUME NEW k \in 0 .. MaxSteps, k # MaxSteps, NEW l \in Trees[k], NEW r \in Trees[k],
           NEW op \in Arithmetic \cup Comparisons \cup {"not"},
           NEW i, NEW nl, NEW nr, NEW nm, Means(l, i, nl, nm), Means(r, i, nr, nm),
           l.bits \in Widths, r.bits \in Widths, ~ Undefined(op, nr),
           op = "not" => r = l
    PROVE  Means(Node(op, l, r), i, Computed(op, l.bits, r.bits, nl, nr), nm)
<1> DEFINE t == Node(op, l, r)
           w == l.bits
           v == r.bits
           n == Computed(op, w, v, nl, nr)
<1>1. nl \in 0 .. 2 ^ w - 1 /\ nr \in 0 .. 2 ^ v - 1
  BY DEF Means
<1>2. n \in 0 .. 2 ^ w - 1
  <2>1. /\ ResultBits(op, w) \in Widths /\ ResultBits(op, w) <= w
        /\ n \in 0 .. 2 ^ ResultBits(op, w) - 1
    BY <1>1, ComputedInBits
  <2>2. PICK p, q \in Nat : p = 2 ^ w /\ q = 2 ^ ResultBits(op, w) /\ q <= p
    BY <2>1, WidthFacts
  <2> QED
    BY <2>1, <2>2
<1>3. /\ t.type = op /\ t.bits = w /\ t.lhs = l /\ t.rhs = r /\ IsNode(t) /\ IsWild(t)
      /\ Exact(t) => op \in ExactOperations /\ Exact(l) /\ Exact(r)
      /\ Even(t) <=> w = v /\ Even(l) /\ Even(r)
  BY DEF Node, IsNode, IsWild, Exact, Even, Arithmetic, Comparisons
<1>4. k + 1 \in 0 .. MaxSteps /\ k + 1 # 0 /\ (k + 1) - 1 = k
  BY SymbolicValuesAssumption
<1>5. t \in Trees[k + 1]
  <2>1. t \in Nodes(Trees[k])
    BY DEF Node, Nodes, Exact, Even, IsNode
  <2> HIDE DEF t
  <2> QED
    BY <1>4, <2>1, TreeLevels
<1> SUFFICES Means(t, i, n, nm)
  OBVIOUS
<1> HIDE DEF t, n, w, v
<1>6. SUFFICES ASSUME Exact(t)
               PROVE  /\ context[t].bits = w
                      /\ WellSorted[context[t]] <=> Even(t)
                      /\ Even(t) => Admits(context[t], i, n, nm)
  BY <1>2, <1>3 DEF Means
<1> DEFINE f  == context[t]
           cl == context[l]
           cr == context[r]
<1>7. op \in ExactOperations /\ Exact(l) /\ Exact(r)
  BY <1>3, <1>6
<1>8. /\ cl.bits = w /\ (WellSorted[cl] <=> Even(l)) /\ (Even(l) => Admits(cl, i, nl, nm))
      /\ cr.bits = v /\ (WellSorted[cr] <=> Even(r)) /\ (Even(r) => Admits(cr, i, nr, nm))
  BY <1>7 DEF Means, w, v
<1>9. /\ f \in Expressions /\ IsNode(f) /\ f.type = op /\ f.lhs = cl /\ f.rhs = cr
      /\ f.bits = Larger(cl.bits, w)
  BY <1>3, <1>4, <1>5, <1>7, NodeFormula
<1> HIDE DEF f, cl, cr
<1>10. f.bits = w
  BY <1>8, <1>9 DEF Larger
<1>11. WellSorted[f] <=> Even(t)
  <2>1. op = "not" => v = w /\ (Even(r) <=> Even(l))
    BY DEF v, w
  <2> QED
    BY <1>3, <1>8, <1>9, <2>1, AtAnOperation
<1>12. SUFFICES ASSUME Even(t) PROVE Admits(f, i, n, nm)
  BY <1>10, <1>11 DEF f
<1>13. v = w /\ Admits(cl, i, nl, nm) /\ Admits(cr, i, nr, nm)
  BY <1>3, <1>8, <1>12
<1>14. Unknowns[f] = IF op = "not" THEN Unknowns[cl] ELSE Unknowns[cl] \cup Unknowns[cr]
  BY <1>9, AtAnOperation
<1>15. \A u \in Unknowns[f] : /\ u.bits \in Widths /\ u.ssa \in 1 .. Len(nm)
                              /\ nm[u.ssa][i] \in 0 .. 2 ^ u.bits - 1
  BY <1>14, <1>13 DEF Admits
<1>16. ASSUME NEW a, \A u \in Unknowns[f] : a[u] = nm[u.ssa][i] PROVE Value(f, a) = n
  <2>1. Value(cl, a) = nl
    BY <1>14, <1>16, <1>13 DEF Admits
  <2>2. CASE op = "not"
    <3>1. Value(f, a) = Z3Computed("not", w, nl, 0)
      BY <1>8, <1>9, <2>1, <2>2, AtAnOperation
    <3>2. Z3Computed("not", w, nl, 0) = Computed("not", w, w, nl, 0)
      BY ExactComputed DEF ExactOperations, Undefined
    <3>3. Computed("not", w, w, nl, 0) = Computed("not", w, v, nl, nr)
      BY DEF Computed
    <3> QED
      BY <2>2, <3>1, <3>2, <3>3 DEF n
  <2>3. CASE op # "not"
    <3>1. Value(cr, a) = nr
      BY <1>14, <1>16, <1>13, <2>3 DEF Admits
    <3>2. Value(f, a) = Z3Computed(op, w, nl, nr)
      BY <1>8, <1>9, <2>1, <2>3, <3>1, AtAnOperation
    <3> QED
      BY <1>7, <1>13, <3>2, ExactComputed DEF n
  <2> QED
    BY <2>2, <2>3
<1>17. WellSorted[f]
  BY <1>11, <1>12
<1> QED
  BY <1>15, <1>16, <1>17 DEF Admits

(* An exact operation whose value is given more bits.                      *)
LEMMA WiderOperation ==
    ASSUME NEW k \in 0 .. MaxSteps, NEW t \in Trees[k], NEW t2 \in Trees[k],
           IsNode(t), IsNode(t2), Exact(t), Exact(t2), t2.type = t.type,
           t2.lhs = t.lhs, t2.rhs = t.rhs, t2.even = t.even,
           t.bits \in Widths, t2.bits \in Widths, t.bits <= t2.bits,
           NEW i, NEW n, NEW nm, Means(t, i, n, nm)
    PROVE  Means(t2, i, n, nm)
<1> DEFINE f  == context[t]
           f2 == context[t2]
           cl == context[t.lhs]
<1>1. /\ t.type \in ExactOperations /\ f.bits = t.bits
      /\ WellSorted[f] <=> Even(t)
      /\ Even(t) => Admits(f, i, n, nm)
      /\ Even(t2) <=> Even(t)
  BY DEF Means, Even
<1>2. /\ f \in Expressions /\ IsNode(f) /\ f.type = t.type
      /\ f.bits = Larger(cl.bits, t.bits) /\ f.lhs = cl /\ f.rhs = context[t.rhs]
  BY <1>1, NodeFormula
<1>3. /\ f2 \in Expressions /\ IsNode(f2) /\ f2.type = t.type
      /\ f2.bits = Larger(cl.bits, t2.bits) /\ f2.lhs = cl /\ f2.rhs = context[t.rhs]
  BY <1>1, NodeFormula
<1>4. f2.bits = t2.bits
  <2>1. cl.bits \in Widths
    <3>1. \A X : \A g \in Leaves \cup Nodes(X) : g.bits \in Widths
      BY DEF Leaves, Nodes
    <3>2. \A m \in 0 .. MaxSteps : \A g \in Trees[m] : g.bits \in Widths
      BY <3>1, TreeLevels
    <3>3. t.lhs \in Expressions
      BY <1>1, NodeFormula
    <3>4. MaxSteps \in 0 .. MaxSteps
      BY SymbolicValuesAssumption
    <3>5. cl \in Expressions
      BY <3>3, <3>4, contextLevel DEF Expressions
    <3> QED
      BY <3>2, <3>4, <3>5 DEF Expressions
  <2>2. cl.bits \in Nat /\ t.bits \in Nat /\ t2.bits \in Nat
    BY <2>1, WidthFacts
  <2> HIDE DEF f, f2, cl
  <2>3. cl.bits <= t.bits
    BY <1>1, <1>2, <2>2 DEF Larger
  <2> QED
    BY <1>3, <2>2, <2>3 DEF Larger
<1> HIDE DEF f, f2, cl
<1> DEFINE cr == context[t.rhs]
<1> HIDE DEF cr
<1>5. /\ f.type = t.type /\ f.lhs = cl /\ f.rhs = cr
      /\ f2.type = t.type /\ f2.lhs = cl /\ f2.rhs = cr
  BY ONLY <1>2, <1>3 DEF cr
<1>6. f \in Expressions /\ IsNode(f) /\ f2 \in Expressions /\ IsNode(f2)
  BY ONLY <1>2, <1>3
<1>7. WellSorted[f2] <=> WellSorted[f]
  <2>1. WellSorted[f] <=> /\ WellSorted[cl]
                          /\ t.type # "not" => WellSorted[cr] /\ cl.bits = cr.bits
    BY ONLY <1>5, <1>6, AtAnOperation
  <2>2. WellSorted[f2] <=> /\ WellSorted[cl]
                           /\ t.type # "not" => WellSorted[cr] /\ cl.bits = cr.bits
    BY ONLY <1>5, <1>6, AtAnOperation
  <2> QED
    BY ONLY <2>1, <2>2
<1>8. Unknowns[f2] = Unknowns[f]
  <2>1. Unknowns[f] = IF t.type = "not" THEN Unknowns[cl] ELSE Unknowns[cl] \cup Unknowns[cr]
    BY ONLY <1>5, <1>6, AtAnOperation
  <2>2. Unknowns[f2] = IF t.type = "not" THEN Unknowns[cl] ELSE Unknowns[cl] \cup Unknowns[cr]
    BY ONLY <1>5, <1>6, AtAnOperation
  <2> QED
    BY ONLY <2>1, <2>2
<1>9. ASSUME NEW a PROVE Value(f2, a) = Value(f, a)
  <2>1. Value(f, a) = IF t.type = "not" THEN Z3Computed("not", cl.bits, Value(cl, a), 0)
                      ELSE Z3Computed(t.type, cl.bits, Value(cl, a), Value(cr, a))
    BY ONLY <1>5, <1>6, AtAnOperation
  <2>2. Value(f2, a) = IF t.type = "not" THEN Z3Computed("not", cl.bits, Value(cl, a), 0)
                       ELSE Z3Computed(t.type, cl.bits, Value(cl, a), Value(cr, a))
    BY ONLY <1>5, <1>6, AtAnOperation
  <2> QED
    BY ONLY <2>1, <2>2
<1>10. Even(t2) => Admits(f2, i, n, nm)
  BY <1>1, <1>7, <1>8, <1>9 DEF Admits
<1>11. n \in 0 .. 2 ^ t2.bits - 1
  <2>1. PICK p, q \in Nat : p = 2 ^ t.bits /\ q = 2 ^ t2.bits /\ p <= q
    BY WidthFacts
  <2>2. n \in 0 .. 2 ^ t.bits - 1
    BY DEF Means
  <2> QED
    BY <2>1, <2>2
<1>12. IsWild(t2)
  BY DEF IsNode, IsWild
<1> QED
  BY <1>1, <1>4, <1>7, <1>10, <1>11, <1>12 DEF Means, f2

(* The kinds of expressions.                                               *)
LEMMA Kinds ==
    ASSUME NEW k \in 0 .. MaxSteps, NEW t \in Trees[k]
    PROVE  /\ t.bits \in Widths
           /\ \/ t.type = "constant" /\ t \in Leaves /\ t.value \in Nat
              \/ t.type = "wild" /\ t \in Leaves
              \/ IsNode(t) /\ k # 0 /\ k - 1 \in 0 .. MaxSteps /\ t \in Nodes(Trees[k - 1])
<1>1. CASE IsNode(t)
  <2>1. k # 0 /\ t \in Nodes(Trees[k - 1])
    BY <1>1, Operands
  <2>2. k - 1 \in 0 .. MaxSteps
    BY <2>1, SymbolicValuesAssumption
  <2>3. t.bits \in Widths
    BY <2>1 DEF Nodes
  <2> QED
    BY <1>1, <2>1, <2>2, <2>3
<1>2. CASE ~ IsNode(t)
  <2>1. t \in Leaves
    BY <1>2, TreeLevels, LeafIsNoNode
  <2> QED
    BY <2>1 DEF Leaves
<1> QED
  BY <1>1, <1>2

(* An operation with other bits.                                           *)
Resized(t, b, e) == [t EXCEPT !.bits = b, !.exact = e]

(* An operation whose value is cut or extended is one of as many levels.   *)
LEMMA ResizedOperation ==
    ASSUME NEW k \in 0 .. MaxSteps, NEW t \in Trees[k], IsNode(t),
           NEW b \in Widths, NEW e \in BOOLEAN
    PROVE  /\ Resized(t, b, e) \in Trees[k] /\ IsNode(Resized(t, b, e))
           /\ Resized(t, b, e).type = t.type /\ Resized(t, b, e).bits = b
           /\ Resized(t, b, e).lhs = t.lhs /\ Resized(t, b, e).rhs = t.rhs
           /\ Resized(t, b, e).exact = e /\ Resized(t, b, e).even = t.even
<1> DEFINE t2 == Resized(t, b, e)
<1>1. k # 0 /\ t \in Nodes(Trees[k - 1])
  BY Operands
<1>2. /\ t2 \in Nodes(Trees[k - 1]) /\ t2.type = t.type /\ t2.bits = b
      /\ t2.lhs = t.lhs /\ t2.rhs = t.rhs /\ t2.exact = e /\ t2.even = t.even
  BY <1>1 DEF Nodes, Resized
<1> HIDE DEF t2
<1>3. IsNode(t2)
  BY <1>2 DEF IsNode
<1>4. t2 \in Trees[k]
  BY <1>1, <1>2, TreeLevels
<1> QED
  BY <1>2, <1>3, <1>4 DEF t2

(* A sign extension of the value to its own width, or of a single bit,     *)
(* changes nothing.                                                        *)
LEMMA SignedFacts ==
    ASSUME NEW w \in Widths, NEW v \in 0 .. 2 ^ w - 1
    PROVE  /\ Signed(w, v) \in Int
           /\ Signed(w, v) % 2 ^ w = v
           /\ w = 1 => Signed(w, v) = v
<1>1. PICK p \in Nat : p = 2 ^ w /\ p >= 2
  BY WidthFacts
<1>2. v \in 0 .. p - 1
  BY <1>1
<1>3. v % p = v /\ (v - p) % p = v /\ v - p \in Int
  BY <1>1, <1>2
<1>4. Signed(w, v) \in {v, v - p} /\ (w = 1 => Signed(w, v) = v)
  BY <1>1 DEF Signed
<1> QED
  BY <1>1, <1>2, <1>3, <1>4

(* Extension and sign extension add no level and give the bits asked for.  *)
LEMMA ExtendLevel ==
    ASSUME NEW k \in 0 .. MaxSteps, NEW t \in Trees[k], NEW b \in Widths, NEW ssa \in Nat
    PROVE  /\ extend(t, b, ssa) \in Trees[k] /\ extend(t, b, ssa).bits = b
           /\ signExtend(t, b, ssa) \in Trees[k] /\ signExtend(t, b, ssa).bits = b
<1>1. CASE t.type = "constant"
  <2>1. t.value \in Nat /\ t.bits \in Widths
    BY <1>1, Kinds DEF IsNode
  <2>2. Signed(t.bits, t.value) \in Int
    <3>1. PICK p \in Nat : p = 2 ^ t.bits
      BY <2>1, WidthFacts
    <3> QED
      BY <2>1, <3>1 DEF Signed
  <2>3. extend(t, b, ssa) = Known(b, t.value)
    BY <1>1 DEF extend, IsNode
  <2>4. signExtend(t, b, ssa) = Known(b, Signed(t.bits, t.value))
    BY <1>1 DEF signExtend, IsNode
  <2>5. \A v : Known(b, v).bits = b
    BY DEF Known
  <2> QED
    BY <2>1, <2>2, <2>3, <2>4, <2>5, KnownFacts, TreesGrow
<1>2. CASE t.type = "wild"
  <2>1. Wild(b, ssa) \in Leaves /\ Wild(b, ssa).bits = b
    BY DEF Wild, Leaves
  <2>2. extend(t, b, ssa) = Wild(b, ssa) /\ signExtend(t, b, ssa) = Wild(b, ssa)
    BY <1>2 DEF extend, signExtend, IsNode
  <2> QED
    BY <2>1, <2>2, TreesGrow
<1>3. CASE IsNode(t)
  <2>1. t.exact \in BOOLEAN
    BY <1>3, Operands DEF Nodes
  <2> DEFINE e1 == t.exact /\ t.bits <= b
             e2 == t.exact /\ t.bits \in {1, b}
  <2>2. e1 \in BOOLEAN /\ e2 \in BOOLEAN
    OBVIOUS
  <2>3. extend(t, b, ssa) = Resized(t, b, e1) /\ signExtend(t, b, ssa) = Resized(t, b, e2)
    BY <1>3 DEF extend, signExtend, IsNode, Resized
  <2> HIDE DEF e1, e2
  <2> QED
    BY <1>3, <2>2, <2>3, ResizedOperation
<1> QED
  BY <1>1, <1>2, <1>3 DEF IsNode

(* Extending or cutting an expression.                                     *)
LEMMA ExtendMeans ==
    ASSUME NEW k \in 0 .. MaxSteps, NEW t \in Trees[k], NEW b \in Widths,
           NEW nm, Len(nm) \in Nat, NEW ssa, NEW i, NEW n, Means(t, i, n, nm),
           t.type = "wild" => ssa \in 1 .. Len(nm) /\ nm[ssa][i] = n % 2 ^ b
    PROVE  Means(extend(t, b, ssa), i, n % 2 ^ b, nm)
<1>1. t.bits \in Widths /\ n \in 0 .. 2 ^ t.bits - 1
  BY Kinds DEF Means
<1>2. PICK p, q \in Nat : p = 2 ^ b /\ q = 2 ^ t.bits /\ p >= 2 /\ q >= 2
                          /\ (t.bits <= b => q <= p)
  BY <1>1, WidthFacts
<1>3. /\ n \in Int /\ n % 2 ^ b \in 0 .. 2 ^ b - 1
      /\ t.bits <= b => n % 2 ^ b = n
  <2>1. n \in 0 .. q - 1
    BY <1>1, <1>2
  <2>2. n \in Int /\ (q <= p => n \in 0 .. 2 ^ b - 1)
    BY <1>2, <2>1
  <2> QED
    BY <1>2, <2>2, CutToWidth
<1>4. CASE t.type = "constant"
  <2>1. extend(t, b, ssa) = Known(b, n)
    BY <1>4 DEF extend, IsNode, Means, IsWild
  <2> QED
    BY <1>3, <2>1, KnownMeans
<1>5. CASE t.type = "wild"
  <2>1. extend(t, b, ssa) = Wild(b, ssa)
    BY <1>5 DEF extend, IsNode
  <2>2. Means(Wild(b, ssa), i, nm[ssa][i], nm)
    BY <1>3, <1>5, WildMeans
  <2> QED
    BY <1>5, <2>1, <2>2
<1>6. CASE IsNode(t)
  <2>1. t.exact \in BOOLEAN
    BY <1>6, Operands DEF Nodes
  <2> DEFINE e  == t.exact /\ t.bits <= b
             t2 == Resized(t, b, e)
  <2>2. e \in BOOLEAN
    OBVIOUS
  <2>3. extend(t, b, ssa) = t2
    BY <1>6 DEF extend, IsNode, Resized
  <2>4. e => t.exact /\ t.bits <= b
    OBVIOUS
  <2> HIDE DEF e
  <2>5. /\ t2 \in Trees[k] /\ IsNode(t2) /\ t2.type = t.type /\ t2.bits = b
        /\ t2.lhs = t.lhs /\ t2.rhs = t.rhs /\ t2.exact = e /\ t2.even = t.even
    BY <1>6, <2>2, ResizedOperation
  <2> HIDE DEF t2
  <2>6. CASE e
    <3>1. Exact(t) /\ Exact(t2) /\ t.bits <= t2.bits /\ n % 2 ^ b = n
      BY <1>3, <2>4, <2>5, <2>6 DEF Exact
    <3>2. Means(t2, i, n, nm)
      BY <1>1, <1>6, <2>5, <3>1, WiderOperation
    <3> QED
      BY <2>3, <3>1, <3>2
  <2>7. CASE ~ e
    <3>1. ~ Exact(t2) /\ IsWild(t2)
      BY <2>5, <2>7 DEF Exact, IsWild, IsNode
    <3> QED
      BY <1>3, <2>3, <2>5, <3>1 DEF Means
  <2> QED
    BY <2>6, <2>7
<1> QED
  BY <1>4, <1>5, <1>6 DEF IsNode

(* Sign-extending or cutting an expression.                                *)
LEMMA SignExtendMeans ==
    ASSUME NEW k \in 0 .. MaxSteps, NEW t \in Trees[k], NEW b \in Widths,
           NEW nm, Len(nm) \in Nat, NEW ssa \in 1 .. Len(nm), NEW i, NEW n,
           Means(t, i, n, nm), nm[ssa][i] = Signed(t.bits, n) % 2 ^ b
    PROVE  Means(signExtend(t, b, ssa), i, Signed(t.bits, n) % 2 ^ b, nm)
<1>1. t.bits \in Widths /\ n \in 0 .. 2 ^ t.bits - 1
  BY Kinds DEF Means
<1>2. PICK p, q \in Nat : p = 2 ^ b /\ q = 2 ^ t.bits /\ p >= 2 /\ q >= 2
                          /\ (t.bits <= b => q <= p)
  BY <1>1, WidthFacts
<1> DEFINE s == Signed(t.bits, n)
<1>3. s \in Int /\ s % q = n /\ (t.bits = 1 => s = n)
  BY <1>1, <1>2, SignedFacts
<1> HIDE DEF s
<1>4. /\ s % 2 ^ b \in 0 .. 2 ^ b - 1
      /\ t.bits \in {1, b} => s % 2 ^ b = n /\ t.bits <= b
  <2>1. s % 2 ^ b \in 0 .. 2 ^ b - 1
    BY <1>3, CutToWidth
  <2>2. ASSUME t.bits = b PROVE s % 2 ^ b = n /\ t.bits <= b
    <3>1. b <= b
      BY WidthFacts
    <3> QED
      BY <1>2, <1>3, <2>2, <3>1
  <2>3. ASSUME t.bits = 1 PROVE s % 2 ^ b = n /\ t.bits <= b
    <3>1. t.bits <= b /\ q <= p
      BY <1>1, <1>2, <2>3, WidthFacts
    <3>2. n \in 0 .. q - 1
      BY <1>1, <1>2
    <3>3. n \in 0 .. 2 ^ b - 1 /\ n \in Int
      BY <1>2, <3>1, <3>2
    <3>4. n % 2 ^ b = n
      BY <3>3, CutToWidth
    <3> QED
      BY <1>3, <2>3, <3>1, <3>4
  <2> QED
    BY <2>1, <2>2, <2>3
<1>5. CASE t.type = "constant"
  <2>1. signExtend(t, b, ssa) = Known(b, s)
    BY <1>5 DEF signExtend, IsNode, Means, IsWild, s
  <2> QED
    BY <1>3, <2>1, KnownMeans DEF s
<1>6. CASE t.type = "wild"
  <2>1. signExtend(t, b, ssa) = Wild(b, ssa)
    BY <1>6 DEF signExtend, IsNode
  <2>2. Means(Wild(b, ssa), i, nm[ssa][i], nm)
    BY <1>4, WildMeans DEF s
  <2> QED
    BY <2>1, <2>2
<1>7. CASE IsNode(t)
  <2>1. t.exact \in BOOLEAN
    BY <1>7, Operands DEF Nodes
  <2> DEFINE e  == t.exact /\ t.bits \in {1, b}
             t2 == Resized(t, b, e)
  <2>2. e \in BOOLEAN
    OBVIOUS
  <2>3. signExtend(t, b, ssa) = t2
    BY <1>7 DEF signExtend, IsNode, Resized
  <2>4. e => t.exact /\ t.bits \in {1, b}
    OBVIOUS
  <2> HIDE DEF e
  <2>5. /\ t2 \in Trees[k] /\ IsNode(t2) /\ t2.type = t.type /\ t2.bits = b
        /\ t2.lhs = t.lhs /\ t2.rhs = t.rhs /\ t2.exact = e /\ t2.even = t.even
    BY <1>7, <2>2, ResizedOperation
  <2> HIDE DEF t2
  <2>6. CASE e
    <3>1. Exact(t) /\ Exact(t2) /\ t.bits <= t2.bits /\ s % 2 ^ b = n
      BY <1>4, <2>4, <2>5, <2>6 DEF Exact
    <3>2. Means(t2, i, n, nm)
      BY <1>1, <1>7, <2>5, <3>1, WiderOperation
    <3> QED
      BY <2>3, <3>1, <3>2 DEF s
  <2>7. CASE ~ e
    <3>1. ~ Exact(t2) /\ IsWild(t2)
      BY <2>5, <2>7 DEF Exact, IsWild, IsNode
    <3> QED
      BY <1>4, <2>3, <2>5, <3>1 DEF Means, s
  <2> QED
    BY <2>6, <2>7
<1> QED
  BY <1>5, <1>6, <1>7 DEF IsNode
-----------------------------------------------------------------------------
(* The inductive invariant                                                 *)

Meanings == UNION {[S -> Nat] : S \in SUBSET Inputs}

(* The expressions have no more levels than instructions were executed.    *)
LevelInv ==
    /\ steps \in 0 .. MaxSteps
    /\ variables \in [Vars -> Trees[steps]]

RunsInv ==
    /\ names \in Seq(Meanings)
    /\ DOMAIN runs \subseteq Inputs /\ DOMAIN runs # {}
    /\ runs \in [DOMAIN runs -> [Vars -> Nat]]
    /\ path \subseteq DOMAIN runs

(* Every variable stands for what every run has in it.                     *)
VariablesInv ==
    \A v \in Vars, i \in DOMAIN runs : Means(variables[v], i, runs[i][v], names)

(* What is asserted holds for every input on the path, and Z3 takes it.    *)
AssertionsInv ==
    \A g \in assertions :
        /\ g.condition \in Expressions
        /\ WellSorted[context[g.condition]]
        /\ \A i \in path : Means(g.condition, i, g.value, names)

IInv == LevelInv /\ RunsInv /\ VariablesInv /\ AssertionsInv

(* At first the name symval_1 stands for the input.                        *)
LEMMA InitIInv == Init => IInv
<1> SUFFICES ASSUME Init PROVE IInv
  OBVIOUS
<1>1. PICK c \in Constants : /\ variables = [x |-> Wild(W8, 1), y |-> Known(W8, c)]
                             /\ runs = [i \in Inputs |-> [x |-> i, y |-> c]]
  BY DEF Init
<1>2. /\ names = <<[i \in Inputs |-> i]>> /\ path = Inputs /\ assertions = {} /\ steps = 0
  BY DEF Init
<1>3. W8 \in Widths /\ c \in Byte /\ 0 \in 0 .. MaxSteps
  BY SymbolicValuesAssumption DEF Widths
<1>4. Inputs \subseteq Nat
  BY WidthFacts, <1>3 DEF Inputs, Byte
<1>5. LevelInv
  <2>1. Wild(W8, 1) \in Leaves
    BY <1>3 DEF Wild, Leaves
  <2>2. Known(W8, c) \in Leaves
    BY <1>3, <1>4, KnownFacts DEF Inputs
  <2> QED
    BY <1>1, <1>2, <1>3, <2>1, <2>2, TreeLevels DEF LevelInv, Vars
<1>6. RunsInv
  <2>1. [i \in Inputs |-> i] \in Meanings
    BY <1>4 DEF Meanings
  <2>2. names \in Seq(Meanings)
    BY <1>2, <2>1
  <2>3. runs \in [Inputs -> [Vars -> Nat]]
    BY <1>1, <1>3, <1>4 DEF Vars, Inputs
  <2>4. 0 \in Inputs
    BY <1>3, WidthFacts DEF Inputs, Byte
  <2> QED
    BY <1>2, <2>2, <2>3, <2>4 DEF RunsInv
<1>7. VariablesInv
  <2>1. SUFFICES ASSUME NEW i \in Inputs
                 PROVE  /\ Means(Wild(W8, 1), i, i, names)
                        /\ Means(Known(W8, c), i, c, names)
    BY <1>1 DEF VariablesInv, Vars
  <2>2. Len(names) = 1 /\ names[1][i] = i
    BY <1>2
  <2>3. Means(Wild(W8, 1), i, names[1][i], names)
    BY <1>3, <2>2, WildMeans DEF Inputs, Byte
  <2>4. c \in Int /\ c % 2 ^ W8 = c
    BY <1>3, <1>4, KnownFacts DEF Inputs, Byte
  <2>5. Means(Known(W8, c), i, c % 2 ^ W8, names)
    BY <1>3, <2>4, KnownMeans
  <2> QED
    BY <2>2, <2>3, <2>4, <2>5
<1>8. AssertionsInv
  BY <1>2 DEF AssertionsInv
<1> QED
  BY <1>5, <1>6, <1>7, <1>8 DEF IInv

(* What a variable is read as stands for what the run reads.  nm are names *)
(* with that of the reading.                                               *)
LEMMA ReadingMeans ==
    ASSUME IInv, NEW v \in Vars, NEW w \in Widths, NEW k \in Nat,
           NEW i \in DOMAIN runs, NEW nm, Extends(nm, names, i),
           Len(names) + k \in 1 .. Len(nm), nm[Len(names) + k][i] = Read(i, v, w)
    PROVE  Means(Reading(v, w, k), i, Read(i, v, w), nm)
<1>1. variables[v] \in Trees[steps] /\ steps \in 0 .. MaxSteps
  BY DEF IInv, LevelInv
<1>2. Means(variables[v], i, runs[i][v], names)
  BY DEF IInv, VariablesInv
<1>3. Means(variables[v], i, runs[i][v], nm)
  BY <1>2, MeansLater
<1>4. Len(nm) \in Nat
  BY DEF Extends
<1> QED
  BY <1>1, <1>3, <1>4, ExtendMeans DEF Reading, Read

(* An operand read has the levels of its variable and the bits it is read  *)
(* with, and so does what a run reads.                                     *)
LEMMA ReadingLevel ==
    ASSUME IInv, NEW v \in Vars, NEW w \in Widths, NEW k \in Nat
    PROVE  /\ Reading(v, w, k) \in Trees[steps] /\ Reading(v, w, k).bits = w
           /\ \A i \in DOMAIN runs : Read(i, v, w) \in 0 .. 2 ^ w - 1
<1>1. variables[v] \in Trees[steps] /\ steps \in 0 .. MaxSteps
  BY DEF IInv, LevelInv
<1>2. Len(names) + k \in Nat
  BY DEF IInv, RunsInv
<1>3. ASSUME NEW i \in DOMAIN runs PROVE Read(i, v, w) \in 0 .. 2 ^ w - 1
  <2>1. runs[i][v] \in Nat
    BY DEF IInv, RunsInv
  <2>2. PICK n \in Nat : n = runs[i][v]
    BY <2>1
  <2>3. n % 2 ^ w \in 0 .. 2 ^ w - 1
    BY KnownFacts
  <2> QED
    BY <2>2, <2>3 DEF Read
<1> QED
  BY <1>1, <1>2, <1>3, ExtendLevel DEF Reading
-----------------------------------------------------------------------------
(* The steps of the machine                                                *)

(* An instruction that computes keeps the invariant, when the expression   *)
(* stored stands for what every run that goes on computes.                 *)
LEMMA ComputingStep ==
    ASSUME IInv, Step, NEW d \in Vars, NEW S \in SUBSET DOMAIN runs, S # {}, NEW t, NEW res,
           t \in Trees[steps'], variables' = [variables EXCEPT ![d] = t],
           names' \in Seq(Meanings), \A i \in S : Extends(names', names, i),
           runs' = [i \in S |-> [runs[i] EXCEPT ![d] = res[i]]],
           path' \subseteq path, path' \subseteq S,
           \A i \in S : res[i] \in Nat /\ Means(t, i, res[i], names')
    PROVE  IInv'
<1>1. steps' \in 0 .. MaxSteps /\ assertions' = assertions
  BY SymbolicValuesAssumption DEF IInv, LevelInv, Step
<1>2. Trees[steps] \subseteq Trees[steps']
  <2>1. steps \in 0 .. MaxSteps /\ steps # MaxSteps /\ steps' = steps + 1
    BY SymbolicValuesAssumption DEF IInv, LevelInv, Step
  <2> QED
    BY <2>1, TreesGrow
<1>3. LevelInv'
  BY <1>1, <1>2 DEF IInv, LevelInv
<1>4. RunsInv'
  <2>1. runs \in [DOMAIN runs -> [Vars -> Nat]] /\ DOMAIN runs \subseteq Inputs
    BY DEF IInv, RunsInv
  <2>2. DOMAIN runs' = S
    OBVIOUS
  <2>3. runs' \in [S -> [Vars -> Nat]]
    BY <2>1
  <2> QED
    BY <2>1, <2>2, <2>3 DEF RunsInv
<1>5. VariablesInv'
  <2>1. SUFFICES ASSUME NEW v \in Vars, NEW i \in S
                 PROVE  Means(variables'[v], i, runs'[i][v], names')
    BY DEF VariablesInv
  <2>2. i \in DOMAIN runs /\ runs[i] \in [Vars -> Nat] /\ variables \in [Vars -> Trees[steps]]
    BY DEF IInv, RunsInv, LevelInv
  <2>3. CASE v = d
    BY <2>2, <2>3
  <2>4. CASE v # d
    <3>1. variables'[v] = variables[v] /\ runs'[i][v] = runs[i][v]
      BY <2>2, <2>4
    <3>2. Means(variables[v], i, runs[i][v], names)
      BY <2>2 DEF IInv, VariablesInv
    <3>3. Means(variables[v], i, runs[i][v], names')
      BY <3>2, MeansLater
    <3> QED
      BY <3>1, <3>3
  <2> QED
    BY <2>3, <2>4
<1>6. AssertionsInv'
  <2>1. SUFFICES ASSUME NEW g \in assertions
                 PROVE  /\ g.condition \in Expressions
                        /\ WellSorted[context[g.condition]]
                        /\ \A i \in path' : Means(g.condition, i, g.value, names')
    BY <1>1 DEF AssertionsInv
  <2>2. g.condition \in Expressions /\ WellSorted[context[g.condition]]
    BY DEF IInv, AssertionsInv
  <2>3. ASSUME NEW i \in path' PROVE Means(g.condition, i, g.value, names')
    <3>1. Means(g.condition, i, g.value, names)
      BY DEF IInv, AssertionsInv
    <3>2. Extends(names', names, i)
      OBVIOUS
    <3> QED
      BY <3>1, <3>2, MeansLater
  <2> QED
    BY <2>2, <2>3
<1> QED
  BY <1>3, <1>4, <1>5, <1>6 DEF IInv

(* Two names more.                                                         *)
LEMMA TwoNames ==
    ASSUME NEW nm \in Seq(Meanings), NEW m1 \in Meanings, NEW m2 \in Meanings
    PROVE  /\ nm \o <<m1, m2>> \in Seq(Meanings)
           /\ Len(nm \o <<m1, m2>>) = Len(nm) + 2
           /\ (nm \o <<m1, m2>>)[Len(nm) + 1] = m1
           /\ (nm \o <<m1, m2>>)[Len(nm) + 2] = m2
           /\ \A i : Extends(nm \o <<m1, m2>>, nm, i)
<1> DEFINE two == <<m1, m2>>
<1>1. two \in Seq(Meanings) /\ Len(two) = 2 /\ two[1] = m1 /\ two[2] = m2
  OBVIOUS
<1> HIDE DEF two
<1> DEFINE nm2 == nm \o two
<1>2. /\ nm2 \in Seq(Meanings) /\ Len(nm2) = Len(nm) + 2
      /\ \A k \in 1 .. Len(nm) : nm2[k] = nm[k]
      /\ \A k \in 1 .. 2 : nm2[Len(nm) + k] = two[k]
  BY <1>1, ConcatElements
<1> HIDE DEF nm2
<1>3. nm2[Len(nm) + 1] = m1 /\ nm2[Len(nm) + 2] = m2
  BY <1>1, <1>2
<1>4. Len(nm) \in Nat /\ Len(nm2) \in Nat
  BY <1>2
<1>5. \A i : Extends(nm2, nm, i)
  BY <1>2, <1>4 DEF Extends
<1> QED
  BY <1>2, <1>3, <1>5 DEF nm2, two

(* One name more.                                                          *)
LEMMA OneName ==
    ASSUME NEW nm \in Seq(Meanings), NEW m \in Meanings
    PROVE  /\ Append(nm, m) \in Seq(Meanings)
           /\ Len(Append(nm, m)) = Len(nm) + 1
           /\ Append(nm, m)[Len(nm) + 1] = m
           /\ \A i : Extends(Append(nm, m), nm, i)
<1>1. /\ Append(nm, m) \in Seq(Meanings) /\ Len(Append(nm, m)) = Len(nm) + 1
      /\ Append(nm, m)[Len(nm) + 1] = m /\ Len(nm) \in Nat
      /\ \A k \in 1 .. Len(nm) : Append(nm, m)[k] = nm[k]
  OBVIOUS
<1> QED
  BY <1>1 DEF Extends

(* The width of a computed value is one of the widths.                     *)
LEMMA ResultWidth ==
    ASSUME NEW op, NEW w \in Widths
    PROVE  ResultBits(op, w) \in Widths
BY DEF ResultBits, Widths

(* The expressions l and r stand on the runs of S for ln and rn, on which  *)
(* the operation is defined.                                               *)
StandFor(op, S, l, r, ln, rn, nm) ==
    \A i \in S : /\ Means(l, i, ln[i], nm) /\ Means(r, i, rn[i], nm)
                 /\ ~ Undefined(op, rn[i])

(* An operator applied to two readings: the value before it is stored.     *)
LEMMA OperatorMeans ==
    ASSUME NEW k \in 0 .. MaxSteps, k # MaxSteps, NEW m, m = k + 1,
           NEW l \in Trees[k], NEW r \in Trees[k], NEW w \in Widths, NEW wr \in Widths,
           l.bits = w, r.bits = wr, NEW op \in Arithmetic \cup Comparisons,
           NEW nm, NEW S, S # {}, NEW ln, NEW rn, StandFor(op, S, l, r, ln, rn, nm)
    PROVE  /\ Operator(op, l, r) \in Trees[m] /\ Operator(op, l, r).type # "wild"
           /\ \A i \in S :
                 /\ Computed(op, w, wr, ln[i], rn[i]) \in 0 .. 2 ^ ResultBits(op, w) - 1
                 /\ Means(Operator(op, l, r), i, Computed(op, w, wr, ln[i], rn[i]), nm)
<1>1. m \in 0 .. MaxSteps /\ m # 0 /\ m - 1 = k
  BY SymbolicValuesAssumption
<1>2. ASSUME NEW i \in S
      PROVE  /\ ln[i] \in 0 .. 2 ^ w - 1 /\ rn[i] \in 0 .. 2 ^ wr - 1
             /\ ~ IsWild(l) => l.value = ln[i]
             /\ ~ IsWild(r) => r.value = rn[i]
             /\ Means(l, i, ln[i], nm) /\ Means(r, i, rn[i], nm)
             /\ ~ Undefined(op, rn[i])
  BY DEF Means, StandFor
<1>3. ASSUME NEW i \in S
      PROVE  Computed(op, w, wr, ln[i], rn[i]) \in 0 .. 2 ^ ResultBits(op, w) - 1
  BY <1>2, ComputedInBits
<1>4. CASE IsWild(l) \/ IsWild(r)
  <2>1. Operator(op, l, r) = Node(op, l, r)
    BY <1>4 DEF Operator
  <2>2. Node(op, l, r) \in Nodes(Trees[k])
    BY DEF Node, Nodes, Exact, Even, IsNode
  <2>3. Node(op, l, r) \in Trees[m]
    BY <1>1, <2>2, TreeLevels
  <2>4. Node(op, l, r).type # "wild"
    BY DEF Node, Arithmetic, Comparisons
  <2>5. ASSUME NEW i \in S PROVE Means(Node(op, l, r), i, Computed(op, w, wr, ln[i], rn[i]), nm)
    <3>1. op # "not"
      BY DEF Arithmetic, Comparisons
    <3> QED
      BY <1>2, <3>1, NodeMeans
  <2> QED
    BY <1>3, <2>1, <2>3, <2>4, <2>5
<1>5. CASE ~ IsWild(l) /\ ~ IsWild(r)
  <2> DEFINE b == ResultBits(op, w)
             v == Computed(op, w, wr, l.value, r.value)
  <2>1. Operator(op, l, r) = Known(b, v)
    BY <1>5 DEF Operator
  <2>2. \A i \in S : v = Computed(op, w, wr, ln[i], rn[i])
    BY <1>2, <1>5
  <2>3. b \in Widths
    BY ResultWidth
  <2> HIDE DEF v, b
  <2>4. v \in 0 .. 2 ^ b - 1
    BY <1>3, <2>2 DEF b
  <2>5. v \in Int /\ v % 2 ^ b = v
    <3>1. v \in Int
      BY <2>3, <2>4, WidthFacts
    <3> QED
      BY <2>3, <2>4, <3>1, KnownFacts
  <2>6. Known(b, v) \in Trees[m]
    BY <1>1, <2>3, <2>5, KnownFacts, TreesGrow
  <2>7. Known(b, v).type # "wild"
    BY DEF Known
  <2>8. \A i \in S : Means(Known(b, v), i, v, nm)
    BY <2>3, <2>5, KnownMeans
  <2> QED
    BY <1>3, <2>1, <2>2, <2>6, <2>7, <2>8
<1> QED
  BY <1>4, <1>5

(* An instruction of two operands keeps the invariant: the operation       *)
(* stands for what each run computes, and what is stored is extended under *)
(* a new name.                                                             *)
LEMMA ExecuteStep ==
    ASSUME IInv, NEW op \in Operations, NEW d \in Targets, NEW a \in Vars, NEW b \in Vars,
           NEW form \in Forms, Execute(op, d, a, b, form)
    PROVE  IInv'
<1>0. PICK w, wr, bits \in Widths : w = form.left /\ wr = form.right /\ bits = form.dst
  BY SymbolicValuesAssumption
<1> DEFINE S    == {i \in DOMAIN runs : ~ Undefined(op, Read(i, b, wr))}
           ln   == [i \in DOMAIN runs |-> Read(i, a, w)]
           rn   == [i \in DOMAIN runs |-> Read(i, b, wr)]
           l    == Reading(a, w, 1)
           r    == Reading(b, wr, 2)
           o    == Operator(op, l, r)
           t    == extend(o, bits, Len(names) + 3)
           made == [i \in S |-> Computed(op, w, wr, Read(i, a, w), Read(i, b, wr))]
           res  == [i \in S |-> made[i] % 2 ^ bits]
<1>1. /\ Step /\ S # {} /\ S \in SUBSET DOMAIN runs
      /\ variables' = [variables EXCEPT ![d] = t]
      /\ names' = names \o <<ln, rn>>
      /\ runs' = [i \in S |-> [runs[i] EXCEPT ![d] = res[i]]]
      /\ path' = path \ {i \in DOMAIN runs : Undefined(op, Read(i, b, wr))}
  <2>1. DOMAIN runs \ {i \in DOMAIN runs : Undefined(op, Read(i, b, wr))} = S
    OBVIOUS
  <2>2. S # {}
    BY <1>0, <2>1 DEF Execute
  <2>3. runs' = [i \in S |-> [runs[i] EXCEPT ![d] =
                    Computed(op, w, wr, Read(i, a, w), Read(i, b, wr)) % 2 ^ bits]]
    BY <1>0, <2>1 DEF Execute
  <2>4. /\ Step
        /\ variables' = [variables EXCEPT ![d] = t]
        /\ names' = names \o <<ln, rn>>
        /\ path' = path \ {i \in DOMAIN runs : Undefined(op, Read(i, b, wr))}
    BY <1>0 DEF Execute, Meaning
  <2> HIDE DEF t, ln, rn
  <2> QED
    BY <2>2, <2>3, <2>4
<1>2. path' \subseteq path /\ path' \subseteq S
  BY <1>1 DEF IInv, RunsInv
<1>3. /\ d \in Vars /\ op \in Arithmetic \cup Comparisons
      /\ Len(names) \in Nat /\ names \in Seq(Meanings)
  BY SymbolicValuesAssumption DEF IInv, RunsInv
<1>4. /\ steps \in 0 .. MaxSteps /\ steps # MaxSteps /\ steps' = steps + 1
      /\ steps' \in 0 .. MaxSteps
  BY <1>1, SymbolicValuesAssumption DEF IInv, LevelInv, Step
<1>5. /\ l \in Trees[steps] /\ l.bits = w /\ r \in Trees[steps] /\ r.bits = wr
      /\ \A i \in DOMAIN runs : ln[i] \in 0 .. 2 ^ w - 1 /\ rn[i] \in 0 .. 2 ^ wr - 1
  BY <1>3, ReadingLevel
<1>6. ln \in Meanings /\ rn \in Meanings
  <2>1. \A i \in DOMAIN runs : Read(i, a, w) \in Nat /\ Read(i, b, wr) \in Nat
    BY <1>3, <1>5, WidthFacts
  <2>2. DOMAIN runs \in SUBSET Inputs
    BY DEF IInv, RunsInv
  <2> QED
    BY <2>1, <2>2 DEF Meanings
<1> HIDE DEF l, r, o, t
<1>7. PICK nm : nm = names'
  OBVIOUS
<1>8. /\ nm \in Seq(Meanings) /\ Len(nm) = Len(names) + 2
      /\ nm[Len(names) + 1] = ln /\ nm[Len(names) + 2] = rn
      /\ \A i : Extends(nm, names, i)
  <2> HIDE DEF ln, rn
  <2> QED
    BY <1>1, <1>3, <1>6, <1>7, TwoNames
<1>9. ASSUME NEW i \in S PROVE Means(l, i, ln[i], nm) /\ Means(r, i, rn[i], nm)
  <2>1. /\ i \in DOMAIN runs /\ ln[i] = Read(i, a, w) /\ rn[i] = Read(i, b, wr)
        /\ nm[Len(names) + 1][i] = Read(i, a, w) /\ nm[Len(names) + 2][i] = Read(i, b, wr)
        /\ Len(names) + 1 \in 1 .. Len(nm) /\ Len(names) + 2 \in 1 .. Len(nm)
    BY <1>3, <1>8
  <2>2. Means(Reading(a, w, 1), i, Read(i, a, w), nm)
    BY <1>3, <1>8, <2>1, ReadingMeans
  <2>3. Means(Reading(b, wr, 2), i, Read(i, b, wr), nm)
    BY <1>3, <1>8, <2>1, ReadingMeans
  <2> QED
    BY <2>1, <2>2, <2>3 DEF l, r
<1>10. \A i \in S : /\ ~ Undefined(op, rn[i]) /\ made[i] = Computed(op, w, wr, ln[i], rn[i])
                    /\ res[i] = made[i] % 2 ^ bits
  OBVIOUS
<1> HIDE DEF S, ln, rn, res, made
<1>11. /\ o \in Trees[steps'] /\ o.type # "wild"
       /\ \A i \in S : made[i] \in 0 .. 2 ^ ResultBits(op, w) - 1 /\ Means(o, i, made[i], nm)
  <2>1. PICK k, m : k = steps /\ m = steps'
    OBVIOUS
  <2>2. /\ k \in 0 .. MaxSteps /\ k # MaxSteps /\ m = k + 1
        /\ l \in Trees[k] /\ r \in Trees[k] /\ l.bits = w /\ r.bits = wr
    BY <1>4, <1>5, <2>1
  <2>3. StandFor(op, S, l, r, ln, rn, nm)
    BY <1>9, <1>10 DEF StandFor
  <2>4. S # {} /\ w \in Widths /\ wr \in Widths /\ op \in Arithmetic \cup Comparisons
    BY <1>1, <1>3
  <2>5. /\ Operator(op, l, r) \in Trees[m] /\ Operator(op, l, r).type # "wild"
        /\ \A i \in S :
              /\ Computed(op, w, wr, ln[i], rn[i]) \in 0 .. 2 ^ ResultBits(op, w) - 1
              /\ Means(Operator(op, l, r), i, Computed(op, w, wr, ln[i], rn[i]), nm)
    BY ONLY <2>2, <2>3, <2>4, OperatorMeans
  <2> QED
    BY <1>10, <2>1, <2>5 DEF o
<1>12. t \in Trees[steps']
  BY <1>3, <1>4, <1>11, ExtendLevel DEF t
<1>13. ASSUME NEW i \in S PROVE res[i] \in Nat /\ Means(t, i, res[i], nm)
  <2>1. res[i] \in Nat
    <3>1. ResultBits(op, w) \in Widths
      BY ResultWidth
    <3>2. made[i] \in Int
      BY <1>11, <3>1, WidthFacts
    <3> QED
      BY <1>10, <3>2, CutToWidth
  <2>2. Means(t, i, made[i] % 2 ^ bits, nm)
    BY <1>3, <1>4, <1>8, <1>11, ExtendMeans DEF t
  <2> QED
    BY <1>10, <2>1, <2>2
<1> QED
  BY <1>1, <1>2, <1>3, <1>7, <1>8, <1>12, <1>13, ComputingStep

(* What is read of one variable, named by the first new name.              *)
LEMMA OneReading ==
    ASSUME IInv, NEW v \in Vars, NEW w \in Reads,
           NEW ln, ln = [i \in DOMAIN runs |-> Read(i, v, w)],
           NEW nm, Len(nm) \in Nat, Len(names) + 1 \in 1 .. Len(nm),
           nm[Len(names) + 1] = ln, \A i : Extends(nm, names, i)
    PROVE  \A i \in DOMAIN runs : Means(Reading(v, w, 1), i, Read(i, v, w), nm)
<1>1. w \in Widths
  BY WidthFacts
<1>2. ASSUME NEW i \in DOMAIN runs PROVE nm[Len(names) + 1][i] = Read(i, v, w)
  OBVIOUS
<1> QED
  BY <1>1, <1>2, ReadingMeans

(* What an instruction of one operand reads.                               *)
LEMMA ReadingFacts ==
    ASSUME IInv, Step, NEW v \in Vars, NEW w \in Reads
    PROVE  /\ w \in Widths /\ Len(names) \in Nat /\ names \in Seq(Meanings)
           /\ steps \in 0 .. MaxSteps /\ steps # MaxSteps /\ steps' = steps + 1
           /\ steps' \in 0 .. MaxSteps
           /\ Trees[steps] \subseteq Trees[steps']
           /\ Reading(v, w, 1) \in Trees[steps] /\ Reading(v, w, 1).bits = w
           /\ \A i \in DOMAIN runs : Read(i, v, w) \in 0 .. 2 ^ w - 1 /\ Read(i, v, w) \in Nat
           /\ [i \in DOMAIN runs |-> Read(i, v, w)] \in Meanings
<1>1. w \in Widths
  BY WidthFacts
<1>2. /\ steps \in 0 .. MaxSteps /\ steps # MaxSteps /\ steps' = steps + 1
      /\ steps' \in 0 .. MaxSteps
  BY SymbolicValuesAssumption DEF IInv, LevelInv, Step
<1>3. Trees[steps] \subseteq Trees[steps']
  BY <1>2, TreesGrow
<1>4. names \in Seq(Meanings) /\ Len(names) \in Nat
  BY DEF IInv, RunsInv
<1>5. /\ Reading(v, w, 1) \in Trees[steps] /\ Reading(v, w, 1).bits = w
      /\ \A i \in DOMAIN runs : Read(i, v, w) \in 0 .. 2 ^ w - 1
  BY <1>1, ReadingLevel
<1>6. \A i \in DOMAIN runs : Read(i, v, w) \in Nat
  BY <1>1, <1>5, WidthFacts
<1>7. [i \in DOMAIN runs |-> Read(i, v, w)] \in Meanings
  <2>1. DOMAIN runs \in SUBSET Inputs
    BY DEF IInv, RunsInv
  <2> QED
    BY <1>6, <2>1 DEF Meanings
<1> QED
  BY <1>1, <1>2, <1>3, <1>4, <1>5, <1>6, <1>7

(* The negation keeps the invariant.                                       *)
LEMMA ExecuteNotStep ==
    ASSUME IInv, NEW d \in Targets, NEW s \in Vars, NEW w \in Reads, NEW bits \in Widths,
           ExecuteNot(d, s, w, bits)
    PROVE  IInv'
<1> DEFINE S    == DOMAIN runs
           ln   == [i \in S |-> Read(i, s, w)]
           src  == Reading(s, w, 1)
           o    == Negation(src)
           t    == extend(o, bits, Len(names) + 2)
           made == [i \in S |-> Computed("not", w, w, Read(i, s, w), 0)]
           res  == [i \in S |-> made[i] % 2 ^ bits]
<1>1. /\ Step
      /\ variables' = [variables EXCEPT ![d] = t]
      /\ names' = Append(names, ln)
      /\ runs' = [i \in S |-> [runs[i] EXCEPT ![d] = res[i]]]
      /\ path' = path
  <2>1. runs' = [i \in S |-> [runs[i] EXCEPT ![d] = res[i]]]
    BY DEF ExecuteNot
  <2>2. /\ Step
        /\ variables' = [variables EXCEPT ![d] = t]
        /\ names' = Append(names, ln)
        /\ path' = path
    BY DEF ExecuteNot, Meaning
  <2> HIDE DEF t, ln, res
  <2> QED
    BY <2>1, <2>2
<1>2. /\ w \in Widths /\ Len(names) \in Nat /\ names \in Seq(Meanings)
      /\ steps \in 0 .. MaxSteps /\ steps # MaxSteps /\ steps' = steps + 1
      /\ steps' \in 0 .. MaxSteps /\ Trees[steps] \subseteq Trees[steps']
      /\ src \in Trees[steps] /\ src.bits = w
      /\ \A i \in S : Read(i, s, w) \in 0 .. 2 ^ w - 1 /\ Read(i, s, w) \in Nat
      /\ ln \in Meanings
  BY <1>1, ReadingFacts
<1>3. PICK nm : nm = names'
  OBVIOUS
<1>4. /\ nm \in Seq(Meanings) /\ Len(nm) = Len(names) + 1 /\ nm[Len(names) + 1] = ln
      /\ \A i : Extends(nm, names, i)
  <2> HIDE DEF ln
  <2> QED
    BY <1>1, <1>2, <1>3, OneName
<1>5. \A i \in S : Means(src, i, Read(i, s, w), nm)
  <2>1. Len(nm) \in Nat /\ Len(names) + 1 \in 1 .. Len(nm)
    BY <1>2, <1>4
  <2>2. nm[Len(names) + 1] = [i \in DOMAIN runs |-> Read(i, s, w)]
    BY <1>4
  <2>3. \A i : Extends(nm, names, i)
    BY <1>4
  <2> QED
    BY <2>1, <2>2, <2>3, OneReading
<1>6. \A i \in S : /\ made[i] = Computed("not", w, w, Read(i, s, w), 0)
                   /\ res[i] = made[i] % 2 ^ bits
  OBVIOUS
<1>7. path \subseteq S /\ S # {} /\ d \in Vars
  BY SymbolicValuesAssumption DEF IInv, RunsInv
<1>8. "not" \in Arithmetic \cup Comparisons \cup {"not"} /\ \A n : ~ Undefined("not", n)
  BY DEF Undefined
<1> HIDE DEF src, res, made, o
<1>9. \A i \in S : made[i] \in 0 .. 2 ^ w - 1 /\ made[i] \in Int /\ res[i] \in Nat
  <2>1. SUFFICES ASSUME NEW i \in S
                 PROVE  made[i] \in 0 .. 2 ^ w - 1 /\ made[i] \in Int /\ res[i] \in Nat
    OBVIOUS
  <2>2. PICK p \in Nat : p = 2 ^ w
    BY <1>2, WidthFacts
  <2>3. made[i] = p - 1 - Read(i, s, w)
    BY <1>6, <2>2 DEF Computed
  <2>4. made[i] \in 0 .. p - 1 /\ made[i] \in Int
    BY <1>2, <2>2, <2>3
  <2>5. res[i] \in Nat
    BY <1>6, <2>4, CutToWidth
  <2> QED
    BY <2>2, <2>4, <2>5
<1>10. /\ o \in Trees[steps'] /\ o.type # "wild"
       /\ \A i \in S : Means(o, i, made[i], nm)
  <2>1. CASE IsWild(src)
    <3>1. o = Node("not", src, src)
      BY <2>1 DEF o, Negation
    <3>2. Node("not", src, src) \in Nodes(Trees[steps])
      BY <1>2 DEF Node, Nodes, Exact, Even, IsNode
    <3>3. steps' # 0 /\ steps' - 1 = steps
      BY <1>2
    <3>4. o \in Trees[steps'] /\ o.type # "wild"
      <4>1. o \in Trees[steps']
        BY <1>2, <3>1, <3>2, <3>3, TreeLevels
      <4> QED
        BY <3>1, <4>1 DEF Node
    <3>5. ASSUME NEW i \in S PROVE Means(o, i, made[i], nm)
      <4>1. PICK n : n = Read(i, s, w)
        OBVIOUS
      <4>2. Means(Node("not", src, src), i, Computed("not", w, w, n, n), nm)
        BY <1>2, <1>5, <1>8, <4>1, NodeMeans
      <4>3. Computed("not", w, w, n, n) = Computed("not", w, w, n, 0)
        BY DEF Computed
      <4> QED
        BY <1>6, <3>1, <4>1, <4>2, <4>3
    <3> QED
      BY <3>4, <3>5
  <2>2. CASE ~ IsWild(src)
    <3> DEFINE v == Computed("not", w, w, src.value, 0)
    <3>1. o = Known(w, v)
      BY <1>2, <2>2 DEF o, Negation
    <3>2. src.value \in Nat
      BY <1>2, <2>2, Kinds DEF IsWild, IsNode
    <3>3. v \in Int
      <4>1. PICK p \in Nat : p = 2 ^ w
        BY <1>2, WidthFacts
      <4>2. v = p - 1 - src.value
        BY <4>1 DEF Computed
      <4> QED
        BY <3>2, <4>2
    <3>4. \A i \in S : v = made[i]
      BY <1>5, <1>6, <2>2 DEF Means
    <3> HIDE DEF v
    <3>5. o \in Trees[steps'] /\ o.type # "wild"
      <4>1. o \in Trees[steps']
        BY <1>2, <3>1, <3>3, KnownFacts, TreesGrow
      <4> QED
        BY <3>1, <4>1 DEF Known
    <3>6. ASSUME NEW i \in S PROVE Means(o, i, made[i], nm)
      <4>1. Means(Known(w, v), i, v % 2 ^ w, nm)
        BY <1>2, <3>3, KnownMeans
      <4>2. v % 2 ^ w = v
        <5>1. v \in 0 .. 2 ^ w - 1
          BY <1>9, <3>4
        <5> QED
          BY <1>2, <3>3, <5>1, CutToWidth
      <4> QED
        BY <3>1, <3>4, <4>1, <4>2
    <3> QED
      BY <3>5, <3>6
  <2> QED
    BY <2>1, <2>2
<1> HIDE DEF ln
<1>11. t \in Trees[steps']
  <2>1. Len(names) + 2 \in Nat
    BY <1>2
  <2> QED
    BY <1>2, <1>10, <2>1, ExtendLevel
<1>12. ASSUME NEW i \in S PROVE Means(t, i, res[i], nm)
  <2>1. Means(t, i, made[i] % 2 ^ bits, nm)
    BY <1>2, <1>4, <1>10, ExtendMeans
  <2> QED
    BY <1>6, <2>1
<1> HIDE DEF t
<1> QED
  BY <1>1, <1>3, <1>4, <1>7, <1>9, <1>11, <1>12, ComputingStep

(* An assignment and a sign extension keep the invariant.                  *)
LEMMA ExecuteAssignStep ==
    ASSUME IInv, NEW d \in Targets, NEW s \in Vars, NEW w \in Reads, NEW bits \in Widths,
           ExecuteAssign(d, s, w, bits) \/ ExecuteSignExtend(d, s, w, bits)
    PROVE  IInv'
<1> DEFINE S   == DOMAIN runs
           src == Reading(s, w, 1)
           ssa == Len(names) + 2
           ln  == [i \in S |-> Read(i, s, w)]
<1>1. PICK res, t :
          /\ Step
          /\ variables' = [variables EXCEPT ![d] = t]
          /\ names' = names \o <<ln, res>>
          /\ runs' = [i \in S |-> [runs[i] EXCEPT ![d] = res[i]]]
          /\ path' = path
          /\ \/ /\ t = extend(src, bits, ssa)
                /\ res = [i \in S |-> Read(i, s, w) % 2 ^ bits]
             \/ /\ t = signExtend(src, bits, ssa)
                /\ res = [i \in S |-> Signed(w, Read(i, s, w)) % 2 ^ bits]
  <2>1. CASE ExecuteAssign(d, s, w, bits)
    <3> DEFINE res == [i \in S |-> Read(i, s, w) % 2 ^ bits]
    <3>1. runs' = [i \in S |-> [runs[i] EXCEPT ![d] = res[i]]]
      BY <2>1 DEF ExecuteAssign
    <3>2. /\ Step
          /\ variables' = [variables EXCEPT ![d] = extend(src, bits, ssa)]
          /\ names' = names \o <<ln, res>>
          /\ path' = path
      BY <2>1 DEF ExecuteAssign, Meaning
    <3> HIDE DEF src, ssa, ln
    <3> QED
      BY <3>1, <3>2
  <2>2. CASE ExecuteSignExtend(d, s, w, bits)
    <3> DEFINE res == [i \in S |-> Signed(w, Read(i, s, w)) % 2 ^ bits]
    <3>1. runs' = [i \in S |-> [runs[i] EXCEPT ![d] = res[i]]]
      BY <2>2 DEF ExecuteSignExtend
    <3>2. /\ Step
          /\ variables' = [variables EXCEPT ![d] = signExtend(src, bits, ssa)]
          /\ names' = names \o <<ln, res>>
          /\ path' = path
      BY <2>2 DEF ExecuteSignExtend, Meaning
    <3> HIDE DEF src, ssa, ln
    <3> QED
      BY <3>1, <3>2
  <2> QED
    BY <2>1, <2>2
<1>2. /\ w \in Widths /\ Len(names) \in Nat /\ names \in Seq(Meanings)
      /\ steps \in 0 .. MaxSteps /\ steps' \in 0 .. MaxSteps
      /\ Trees[steps] \subseteq Trees[steps']
      /\ src \in Trees[steps] /\ src.bits = w
      /\ \A i \in S : Read(i, s, w) \in 0 .. 2 ^ w - 1 /\ Read(i, s, w) \in Nat
      /\ ln \in Meanings
  BY <1>1, ReadingFacts
<1>3. \A i \in S : res[i] \in Nat
  <2>1. SUFFICES ASSUME NEW i \in S PROVE res[i] \in Nat
    OBVIOUS
  <2>2. PICK n : n = Read(i, s, w)
    OBVIOUS
  <2>3. n % 2 ^ bits \in Nat
    BY <1>2, <2>2, CutToWidth
  <2>4. Signed(w, n) % 2 ^ bits \in Nat
    BY <1>2, <2>2, SignedFacts, CutToWidth
  <2> QED
    BY <1>1, <2>2, <2>3, <2>4
<1>4. res \in Meanings
  <2>1. S \in SUBSET Inputs
    BY DEF IInv, RunsInv
  <2>2. res \in [S -> Nat]
    BY <1>1, <1>3
  <2> QED
    BY <2>1, <2>2 DEF Meanings
<1>5. PICK nm : nm = names'
  OBVIOUS
<1>6. /\ nm \in Seq(Meanings) /\ Len(nm) = Len(names) + 2
      /\ nm[Len(names) + 1] = ln /\ nm[Len(names) + 2] = res
      /\ \A i : Extends(nm, names, i)
  <2> HIDE DEF ln
  <2>1. nm = names \o <<ln, res>>
    BY <1>1, <1>5
  <2>2. names \in Seq(Meanings) /\ ln \in Meanings
    BY <1>2
  <2> QED
    BY <1>4, <2>1, <2>2, TwoNames
<1>7. \A i \in S : Means(src, i, Read(i, s, w), nm)
  <2>1. Len(nm) \in Nat /\ Len(names) + 1 \in 1 .. Len(nm)
    BY <1>2, <1>6
  <2>2. nm[Len(names) + 1] = [i \in DOMAIN runs |-> Read(i, s, w)]
    BY <1>6
  <2>3. \A i : Extends(nm, names, i)
    BY <1>6
  <2> QED
    BY <2>1, <2>2, <2>3, OneReading
<1>8. path \subseteq S /\ S # {} /\ d \in Vars
  BY SymbolicValuesAssumption DEF IInv, RunsInv
<1>9. ssa \in 1 .. Len(nm) /\ ssa \in Nat /\ Len(nm) \in Nat /\ nm[ssa] = res
  BY <1>2, <1>6
<1> HIDE DEF src, ln, ssa
<1>10. t \in Trees[steps']
  BY <1>1, <1>2, <1>9, ExtendLevel
<1>11. ASSUME NEW i \in S PROVE Means(t, i, res[i], nm)
  <2>1. PICK n : n = Read(i, s, w)
    OBVIOUS
  <2>2. CASE t = extend(src, bits, ssa) /\ res = [j \in S |-> Read(j, s, w) % 2 ^ bits]
    <3>1. res[i] = n % 2 ^ bits
      BY <2>1, <2>2
    <3>2. Means(extend(src, bits, ssa), i, n % 2 ^ bits, nm)
      BY <1>2, <1>7, <1>9, <2>1, <3>1, ExtendMeans
    <3> QED
      BY <2>2, <3>1, <3>2
  <2>3. CASE t = signExtend(src, bits, ssa)
             /\ res = [j \in S |-> Signed(w, Read(j, s, w)) % 2 ^ bits]
    <3>1. res[i] = Signed(w, n) % 2 ^ bits
      BY <2>1, <2>3
    <3>2. Means(signExtend(src, bits, ssa), i, Signed(w, n) % 2 ^ bits, nm)
      BY <1>2, <1>7, <1>9, <2>1, <3>1, SignExtendMeans
    <3> QED
      BY <2>3, <3>1, <3>2
  <2> QED
    BY <1>1, <2>2, <2>3
<1> QED
  BY <1>1, <1>3, <1>5, <1>6, <1>8, <1>10, <1>11, ComputingStep

(* A conditional branch keeps the invariant, when what is asserted now was *)
(* asserted before, or is that the condition has the value it has on every *)
(* input of the new path.                                                  *)
LEMMA BranchStep ==
    ASSUME IInv, NEW c \in Vars, NEW value, Branch(c), path' = With(c, value),
           assertions' \subseteq assertions \cup {Assertion(c, value)}
    PROVE  IInv'
<1> DEFINE ln == [i \in DOMAIN runs |-> Read(i, c, 1)]
<1>1. names' = Append(names, ln) /\ UNCHANGED <<variables, runs, steps>>
  BY DEF Branch
<1>2. names \in Seq(Meanings) /\ Len(names) \in Nat /\ 1 \in Widths
  BY DEF IInv, RunsInv, Widths
<1>3. Condition(c) \in Expressions /\ \A i \in DOMAIN runs : Read(i, c, 1) \in Nat
  <2>1. /\ Reading(c, 1, 1) \in Trees[steps]
        /\ \A i \in DOMAIN runs : Read(i, c, 1) \in 0 .. 2 ^ 1 - 1
    BY <1>2, ReadingLevel
  <2>2. steps \in 0 .. MaxSteps
    BY DEF IInv, LevelInv
  <2> QED
    BY <1>2, <2>1, <2>2, TreesGrow, WidthFacts DEF Condition
<1>4. ln \in Meanings
  <2>1. DOMAIN runs \in SUBSET Inputs
    BY DEF IInv, RunsInv
  <2> QED
    BY <1>3, <2>1 DEF Meanings
<1>5. PICK nm : nm = names'
  OBVIOUS
<1>6. /\ nm \in Seq(Meanings) /\ Len(nm) = Len(names) + 1 /\ nm[Len(names) + 1] = ln
      /\ \A i : Extends(nm, names, i)
  <2> HIDE DEF ln
  <2> QED
    BY <1>1, <1>2, <1>4, <1>5, OneName
<1>7. \A i \in DOMAIN runs : Means(Condition(c), i, Read(i, c, 1), nm)
  <2>1. ASSUME NEW i \in DOMAIN runs PROVE nm[Len(names) + 1][i] = Read(i, c, 1)
    BY <1>6
  <2> QED
    BY <1>2, <1>6, <2>1, ReadingMeans DEF Condition
<1>8. path \subseteq DOMAIN runs /\ path' \subseteq path
  BY DEF IInv, RunsInv, With
<1>9. LevelInv'
  BY <1>1 DEF IInv, LevelInv
<1>10. RunsInv'
  <2>1. runs' = runs /\ names' \in Seq(Meanings)
    BY <1>1, <1>5, <1>6
  <2> QED
    BY <1>8, <2>1 DEF IInv, RunsInv
<1>11. VariablesInv'
  <2>1. SUFFICES ASSUME NEW v \in Vars, NEW i \in DOMAIN runs
                 PROVE  Means(variables[v], i, runs[i][v], nm)
    BY <1>1, <1>5 DEF VariablesInv
  <2>2. Means(variables[v], i, runs[i][v], names)
    BY DEF IInv, VariablesInv
  <2> QED
    BY <1>6, <2>2, MeansLater
<1>12. AssertionsInv'
  <2>1. SUFFICES ASSUME NEW g \in assertions'
                 PROVE  /\ g.condition \in Expressions
                        /\ WellSorted[context[g.condition]]
                        /\ \A i \in path' : Means(g.condition, i, g.value, nm)
    BY <1>5 DEF AssertionsInv
  <2>2. CASE g \in assertions
    <3>1. g.condition \in Expressions /\ WellSorted[context[g.condition]]
      BY <2>2 DEF IInv, AssertionsInv
    <3>2. ASSUME NEW i \in path' PROVE Means(g.condition, i, g.value, nm)
      <4>1. Means(g.condition, i, g.value, names)
        BY <1>8, <2>2 DEF IInv, AssertionsInv
      <4> QED
        BY <1>6, <4>1, MeansLater
    <3> QED
      BY <3>1, <3>2
  <2>3. CASE g = Assertion(c, value)
    <3>1. g.condition = Condition(c) /\ g.value = value
      BY <2>3 DEF Assertion
    <3>2. \A i \in path' : i \in DOMAIN runs /\ Read(i, c, 1) = value
      BY <1>8 DEF With
    <3>3. WellSorted[context[Condition(c)]]
      BY DEF Branch, Solvable, Sorted
    <3> QED
      BY <1>3, <1>7, <3>1, <3>2, <3>3
  <2> QED
    BY <2>2, <2>3
<1> QED
  BY <1>9, <1>10, <1>11, <1>12 DEF IInv

(* The invariant is inductive.                                             *)
LEMMA NextIInv == IInv /\ [Next]_vars => IInv'
<1> SUFFICES ASSUME IInv, [Next]_vars PROVE IInv'
  OBVIOUS
<1>1. CASE UNCHANGED vars
  BY <1>1 DEF vars, IInv, LevelInv, RunsInv, VariablesInv, AssertionsInv
<1>2. ASSUME NEW op \in Operations, NEW d \in Targets, NEW a \in Vars, NEW b \in Vars,
             NEW form \in Forms, Execute(op, d, a, b, form)
      PROVE  IInv'
  BY <1>2, ExecuteStep
<1>3. ASSUME NEW d \in Targets, NEW s \in Vars, NEW w \in Reads, NEW bits \in Widths,
             ExecuteNot(d, s, w, bits)
      PROVE  IInv'
  BY <1>3, ExecuteNotStep
<1>4. ASSUME NEW d \in Targets, NEW s \in Vars, NEW w \in Reads, NEW bits \in Widths,
             ExecuteAssign(d, s, w, bits) \/ ExecuteSignExtend(d, s, w, bits)
      PROVE  IInv'
  BY <1>4, ExecuteAssignStep
<1>5. ASSUME NEW c \in Vars, Forked(c) PROVE IInv'
  BY <1>5, BranchStep DEF Forked
<1>6. ASSUME NEW c \in Vars, Jump(c) PROVE IInv'
  BY <1>6, BranchStep DEF Jump
<1>7. ASSUME NEW c \in Vars, OnlyFalse(c) PROVE IInv'
  <2>1. assertions' \subseteq assertions \cup {Assertion(c, 0)}
    BY <1>7 DEF OnlyFalse
  <2> QED
    BY <1>7, <2>1, BranchStep DEF OnlyFalse
<1> QED
  BY <1>1, <1>2, <1>3, <1>4, <1>5, <1>6, <1>7 DEF Next, Brc

(* At every step of every execution each expression stands, on every       *)
(* input, for what the machine that knows the input computes               *)
(* (symbolicvalue.cc:343), and what is asserted holds for the inputs on    *)
(* the path (vm.cc:296).                                                   *)
THEOREM InvariantHolds == Spec => []IInv
<1> QED
  BY InitIInv, NextIInv, PTL DEF Spec
-----------------------------------------------------------------------------
(* What is proved                                                          *)

(* With the names standing for what they are on an input, the formula of   *)
(* an exact value is the value of the run, unless operands of different    *)
(* bits were combined.                                                     *)
LEMMA IInvAdmits == IInv => EveryInputIsAdmitted
<1> SUFFICES ASSUME IInv, NEW v \in Vars, Exact(variables[v])
             PROVE  /\ WellSorted[context[variables[v]]] <=> Even(variables[v])
                    /\ WellSorted[context[variables[v]]] =>
                       \A i \in DOMAIN runs :
                          Value(context[variables[v]],
                                Standing(i, context[variables[v]])) = runs[i][v]
  BY DEF EveryInputIsAdmitted
<1> DEFINE f == context[variables[v]]
<1>1. /\ WellSorted[f] <=> Even(variables[v])
      /\ Even(variables[v]) => \A i \in DOMAIN runs : Admits(f, i, runs[i][v], names)
  BY DEF IInv, VariablesInv, RunsInv, Means
<1> HIDE DEF f
<1>2. ASSUME Even(variables[v]), NEW i \in DOMAIN runs
      PROVE  Value(f, Standing(i, f)) = runs[i][v]
  <2>1. PICK a : a = Standing(i, f)
    OBVIOUS
  <2>2. \A u \in Unknowns[f] : a[u] = names[u.ssa][i]
    BY <2>1 DEF Standing
  <2> QED
    BY <1>1, <1>2, <2>1, <2>2 DEF Admits
<1> QED
  BY <1>1, <1>2 DEF f

(* The values of an input on the path are an assignment that the solver    *)
(* may choose: it makes all that is asserted true and the condition what   *)
(* the input makes it.                                                     *)
LEMMA IInvMissesNothing == IInv => NoOutcomeIsMissed
<1> SUFFICES ASSUME IInv, NEW c \in Vars, Solvable(c), Exact(Condition(c)),
                    \A g \in assertions : Exact(g.condition), NEW i \in path
             PROVE  MayBe(c, Read(i, c, 1))
  BY DEF NoOutcomeIsMissed, OutcomesFound
<1> DEFINE ln == [j \in DOMAIN runs |-> Read(j, c, 1)]
           nm == Append(names, ln)
           f  == context[Condition(c)]
           n  == Read(i, c, 1)
           assumed == {<<context[g.condition], g.value>> : g \in assertions}
           U  == Unknowns[f] \cup UNION {Unknowns[g[1]] : g \in assumed}
           a  == [u \in U |-> nm[u.ssa][i]]
<1>1. i \in DOMAIN runs /\ names \in Seq(Meanings) /\ Len(names) \in Nat /\ 1 \in Widths
  BY DEF IInv, RunsInv, Widths
<1>2. \A j \in DOMAIN runs : Read(j, c, 1) \in Nat
  <2>1. \A j \in DOMAIN runs : Read(j, c, 1) \in 0 .. 2 ^ 1 - 1
    BY <1>1, ReadingLevel
  <2> QED
    BY <1>1, <2>1, WidthFacts
<1>3. ln \in Meanings
  <2>1. DOMAIN runs \in SUBSET Inputs
    BY DEF IInv, RunsInv
  <2> QED
    BY <1>2, <2>1 DEF Meanings
<1>4. /\ nm \in Seq(Meanings) /\ Len(nm) = Len(names) + 1 /\ nm[Len(names) + 1] = ln
      /\ Extends(nm, names, i)
  <2> HIDE DEF ln
  <2> QED
    BY <1>1, <1>3, OneName
<1>5. nm[Len(names) + 1][i] = n
  BY <1>1, <1>4
<1> HIDE DEF nm, n
<1>6. Admits(f, i, n, nm)
  <2>1. Means(Reading(c, 1, 1), i, n, nm)
    BY <1>1, <1>4, <1>5, ReadingMeans DEF n
  <2>2. WellSorted[f]
    BY DEF Solvable, Sorted
  <2> QED
    BY <2>1, <2>2 DEF Means, Condition
<1>7. ASSUME NEW g \in assumed PROVE Admits(g[1], i, g[2], nm)
  <2>1. PICK h \in assertions : g = <<context[h.condition], h.value>>
    OBVIOUS
  <2>2. Means(h.condition, i, h.value, names) /\ WellSorted[context[h.condition]]
    BY DEF IInv, AssertionsInv
  <2>3. Means(h.condition, i, h.value, nm)
    BY <1>4, <2>2, MeansLater
  <2> QED
    BY <2>1, <2>2, <2>3 DEF Means
<1> HIDE DEF f, assumed
<1>8. \A u \in U : u.bits \in Widths /\ nm[u.ssa][i] \in 0 .. 2 ^ u.bits - 1
  BY <1>6, <1>7 DEF Admits
<1>9. a \in Assignments(U)
  <2>1. ASSUME NEW u \in U PROVE nm[u.ssa][i] \in 0 .. 2 ^ W16 - 1 /\ nm[u.ssa][i] < 2 ^ u.bits
    <3>1. PICK p, q \in Nat : p = 2 ^ u.bits /\ q = 2 ^ W16 /\ p <= q
      BY <1>8, WidthFacts DEF Widths
    <3>2. nm[u.ssa][i] \in 0 .. p - 1
      BY <1>8, <3>1
    <3> QED
      BY <3>1, <3>2
  <2> HIDE DEF U
  <2> QED
    BY <2>1 DEF Assignments
<1>10. Value(f, a) = n
  <2>1. \A u \in Unknowns[f] : a[u] = nm[u.ssa][i]
    OBVIOUS
  <2> HIDE DEF a
  <2> QED
    BY <1>6, <2>1 DEF Admits
<1>11. ASSUME NEW g \in assumed PROVE Value(g[1], a) = g[2]
  <2>1. \A u \in Unknowns[g[1]] : a[u] = nm[u.ssa][i]
    OBVIOUS
  <2> HIDE DEF a
  <2> QED
    BY <1>7, <2>1 DEF Admits
<1> HIDE DEF a
<1>12. \E b \in Assignments(U) : Value(f, b) = n /\ \A g \in assumed : Value(g[1], b) = g[2]
  BY <1>9, <1>10, <1>11
<1> QED
  BY <1>12 DEF MayBe, sv_assert, f, assumed, n

(* EveryInputIsAdmitted: what the solver is told of an exact value admits  *)
(* every input (symbolicvalue.cc:343).                                     *)
THEOREM InputsAdmitted == Spec => []EveryInputIsAdmitted
<1> QED
  BY InvariantHolds, IInvAdmits, PTL

(* NoOutcomeIsMissed: a branch on exact conditions misses no outcome that  *)
(* an input on the path has (vm.cc:296).                                   *)
THEOREM OutcomesNotMissed == Spec => []NoOutcomeIsMissed
<1> QED
  BY InvariantHolds, IInvMissesNothing, PTL
=============================================================================
