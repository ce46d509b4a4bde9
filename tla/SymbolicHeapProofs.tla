------------------------- MODULE SymbolicHeapProofs -------------------------
(***************************************************************************)
(* Who owns the expressions, for any number of machines, variables and     *)
(* operands.                                                               *)
(***************************************************************************)
EXTENDS SymbolicHeap, TLAPS

(* Nothing is allocated at the start.                                      *)
LEMMA InitIInv == Init => IInv
<1> SUFFICES ASSUME Init PROVE IInv
  OBVIOUS
<1>1. TypeOK
  BY SymbolicHeapAssumption DEF Init, TypeOK
<1>2. FreshIsUnknown /\ OwnedOnce
  BY SymbolicHeapAssumption DEF Init, FreshIsUnknown, OwnedOnce, Fresh
<1>3. IntactUntilFork /\ LostAreResults
  BY SymbolicHeapAssumption DEF Init, IntactUntilFork, VariablesAreIntact, Intact, LostAreResults
<1> QED
  BY <1>1, <1>2, <1>3 DEF IInv

(* operator= with new operands, or with none (symbolicvalue.cc:91).        *)
LEMMA ReplaceIInv ==
    ASSUME IInv, NEW m \in alive, NEW d \in Vars, NEW n \in Fresh \cup {NULL},
           NEW made \in SUBSET Fresh, n \notin made, Replace(m, d, n, made)
    PROVE  IInv'
<1> USE DEF IInv
<1>1. /\ m \in VMs /\ n \in Nodes \cup {NULL} /\ made \subseteq Nodes
      /\ variables' = [variables EXCEPT ![m][d] = n] /\ results' = results \cup made
      /\ UNCHANGED <<alive, assertions, fault>>
  BY DEF TypeOK, Replace, Fresh
<1>2. status' = [x \in Nodes |-> IF x \in made \cup {n} THEN "allocated"
                                  ELSE IF x = variables[m][d] THEN "deleted" ELSE status[x]]
  BY DEF Replace
<1>3. TypeOK'
  BY <1>1, <1>2 DEF TypeOK
<1>4. \A x \in Fresh' : x \in Fresh /\ x # n
  BY <1>2 DEF Fresh, TypeOK
<1>5. FreshIsUnknown'
  <2> SUFFICES ASSUME NEW x \in Fresh'
               PROVE  /\ \A l \in VMs, v \in Vars : variables'[l][v] # x
                      /\ \A l \in VMs : x \notin assertions'[l]
    BY DEF FreshIsUnknown
  <2>1. x \in Fresh /\ x # n
    BY <1>4
  <2> QED
    BY <1>1, <2>1 DEF FreshIsUnknown, TypeOK
<1>6. n # NULL => \A l \in VMs, v \in Vars : variables[l][v] # n
  BY DEF FreshIsUnknown
<1>7. OwnedOnce'
  BY <1>1, <1>6 DEF OwnedOnce, TypeOK
<1>8. IntactUntilFork'
  <2> SUFFICES ASSUME alive = {Root}, NEW l \in alive, NEW v \in Vars,
                      variables'[l][v] # NULL
               PROVE  status'[variables'[l][v]] = "allocated"
    BY <1>1 DEF IntactUntilFork, VariablesAreIntact, Intact
  <2>1. l = m
    OBVIOUS
  <2>2. CASE v = d
    BY <1>1, <1>2, <2>1, <2>2 DEF TypeOK
  <2>3. CASE v # d
    <3>1. variables'[l][v] = variables[l][v] /\ variables[l][v] \in Nodes
      BY <1>1, <2>1, <2>3 DEF TypeOK
    <3>2. status[variables[l][v]] = "allocated" /\ variables[l][v] # variables[m][d]
      BY <2>1, <2>3, <3>1 DEF IntactUntilFork, VariablesAreIntact, Intact, OwnedOnce
    <3> QED
      BY <1>2, <3>1, <3>2
  <2> QED
    BY <2>2, <2>3
<1>9. LostAreResults'
  <2> SUFFICES ASSUME NEW x \in Nodes
               PROVE  status'[x] = "allocated" /\ ~Owned(x)' <=> x \in results'
    <3>1. results' \subseteq Nodes
      BY <1>3 DEF TypeOK
    <3> QED
      BY <3>1 DEF LostAreResults
  <2>1. Owned(x)' <=> \E l \in alive, v \in Vars : variables'[l][v] = x
    BY <1>1 DEF Owned
  <2>2. \A l \in alive, v \in Vars :
            variables'[l][v] = IF l = m /\ v = d THEN n ELSE variables[l][v]
    BY <1>1 DEF TypeOK
  <2>3. x \in results <=> status[x] = "allocated" /\ ~Owned(x)
    BY DEF LostAreResults
  <2>4. CASE x = n
    <3>1. Owned(x)'
      BY <2>1, <2>2, <2>4
    <3>2. x \notin results /\ x \notin made
      BY <1>1, <2>3, <2>4, SymbolicHeapAssumption DEF Fresh
    <3> QED
      BY <1>1, <3>1, <3>2
  <2>5. CASE x \in made
    <3>1. \A l \in alive, v \in Vars : variables[l][v] # x
      BY <2>5 DEF FreshIsUnknown, TypeOK
    <3>2. ~Owned(x)'
      BY <2>1, <2>2, <2>5, <3>1
    <3> QED
      BY <1>1, <1>2, <2>5, <3>2
  <2>6. CASE x # n /\ x \notin made /\ x = variables[m][d]
    <3>1. Owned(x)
      BY <2>6 DEF Owned
    <3>2. status'[x] = "deleted"
      BY <1>2, <2>6
    <3> QED
      BY <1>1, <2>3, <2>6, <3>1, <3>2
  <2>7. CASE x # n /\ x \notin made /\ x # variables[m][d]
    <3>1. Owned(x)' <=> Owned(x)
      BY <2>1, <2>2, <2>7 DEF Owned
    <3>2. status'[x] = status[x]
      BY <1>2, <2>7
    <3> QED
      BY <1>1, <2>3, <2>7, <3>1, <3>2
  <2> QED
    BY <2>4, <2>5, <2>6, <2>7
<1> QED
  BY <1>3, <1>5, <1>7, <1>8, <1>9

(* What is not modelled further keeps the invariant.                       *)
LEMMA FaultIInv ==
    ASSUME IInv, Fault
    PROVE  IInv'
BY DEF IInv, Fault, TypeOK, FreshIsUnknown, OwnedOnce, IntactUntilFork, LostAreResults, Owned,
       VariablesAreIntact, Intact, Fresh

(* Arithmetic, loads and assignments (symbolicvalue.cc:62-122, vm.cc).     *)
LEMMA AssignIInv ==
    ASSUME IInv, NEW m \in VMs, NEW d \in Vars, NEW s \in Vars, Assign(m, d, s)
    PROVE  IInv'
<1> DEFINE from == variables[m][s]
           to   == variables[m][d]
<1>1. m \in alive
  BY DEF Assign
<1>2. \/ Fault
      \/ Replace(m, d, NULL, {})
      \/ \E n \in Fresh : Replace(m, d, n, {})
  BY DEF Assign
<1> QED
  BY <1>1, <1>2, FaultIInv, ReplaceIInv

(* A step that neither branches nor forks.                                 *)
LEMMA StraightIInv ==
    ASSUME IInv, NEW m \in VMs, Straight(m) \/ Extension(m)
    PROVE  IInv'
<1>1. ASSUME NEW d \in Vars, NEW a \in Vars, NEW b \in Vars, Compute(m, d, a, b)
      PROVE  IInv'
  <2>1. m \in alive
    BY <1>1 DEF Compute
  <2>2. CASE Fault
    BY <2>2, FaultIInv
  <2>3. CASE \E r, n \in Fresh : r # n /\ Replace(m, d, n, {r})
    <3>1. PICK r \in Fresh, n \in Fresh : r # n /\ Replace(m, d, n, {r})
      BY <2>3
    <3>2. {r} \in SUBSET Fresh /\ n \notin {r}
      BY <3>1
    <3> QED
      BY <2>1, <3>1, <3>2, ReplaceIInv
  <2> QED
    BY <1>1, <2>2, <2>3 DEF Compute
<1>2. ASSUME NEW d \in Vars, ComputeLeaf(m, d)
      PROVE  IInv'
  BY <1>2, FaultIInv, ReplaceIInv DEF ComputeLeaf
<1> QED
  BY <1>1, <1>2, AssignIInv DEF Straight, Extension

(* An assertion adds no owner (vm.cc:302).                                 *)
LEMMA BranchIInv ==
    ASSUME IInv, NEW m \in VMs, NEW c \in Vars, Branch(m, c)
    PROVE  IInv'
<1> USE DEF IInv
<1>1. CASE Fault
  BY <1>1, FaultIInv
<1>2. CASE ~Fault
  <2>1. /\ assertions' = [assertions EXCEPT ![m] = @ \cup Asserted(m, c)]
        /\ UNCHANGED <<alive, variables, status, fault, results>>
    BY <1>2 DEF Branch
  <2>2. Asserted(m, c) \subseteq Nodes
    BY DEF Asserted, TypeOK
  <2>3. TypeOK'
    BY <2>1, <2>2 DEF TypeOK
  <2>4. FreshIsUnknown'
    BY <2>1 DEF FreshIsUnknown, Fresh, Asserted, TypeOK
  <2>5. OwnedOnce' /\ IntactUntilFork' /\ LostAreResults'
    BY <2>1 DEF OwnedOnce, IntactUntilFork, LostAreResults, Owned, VariablesAreIntact, Intact
  <2> QED
    BY <2>3, <2>4, <2>5
<1> QED
  BY <1>1, <1>2

(* The variables of a fork point to what those of its parent point to      *)
(* (vm.cc:186).                                                            *)
LEMMA ForkIInv ==
    ASSUME IInv, NEW m \in VMs, NEW n \in VMs, NEW c \in Vars, Fork(m, n, c)
    PROVE  IInv'
<1> USE DEF IInv
<1>1. CASE Fault
  BY <1>1, FaultIInv
<1>2. CASE ~Fault
  <2>1. /\ m \in alive /\ n \notin alive /\ alive' = alive \cup {n}
        /\ variables' = [variables EXCEPT ![n] = variables[m]]
        /\ assertions' = [assertions EXCEPT ![n] = Asserted(m, c),
                                            ![m] = @ \cup Asserted(m, c)]
        /\ UNCHANGED <<status, fault, results>>
    BY <1>2 DEF Fork
  <2>2. Asserted(m, c) \subseteq Nodes
    BY DEF Asserted, TypeOK
  <2>3. TypeOK'
    BY <2>1, <2>2 DEF TypeOK
  <2>4. FreshIsUnknown'
    BY <2>1 DEF FreshIsUnknown, Fresh, Asserted, TypeOK
  <2>5. OwnedOnce'
    BY <2>1 DEF OwnedOnce, TypeOK
  <2>6. IntactUntilFork'
    BY <2>1 DEF IntactUntilFork, TypeOK
  <2>7. LostAreResults'
    <3>1. /\ \A l \in alive, v \in Vars : variables'[l][v] = variables[l][v]
          /\ \A v \in Vars : variables'[n][v] = variables[m][v]
      BY <2>1 DEF TypeOK
    <3>2. \A x : Owned(x)' <=> Owned(x)
      BY <2>1, <3>1 DEF Owned
    <3> QED
      BY <2>1, <3>2 DEF LostAreResults
  <2> QED
    BY <2>3, <2>4, <2>5, <2>6, <2>7
<1> QED
  BY <1>1, <1>2

(* Every step keeps the invariant.                                         *)
LEMMA NextIInv == IInv /\ [Next]_vars => IInv'
<1> SUFFICES ASSUME IInv, [Next]_vars PROVE IInv'
  OBVIOUS
<1>1. CASE UNCHANGED vars
  BY <1>1 DEF vars, IInv, TypeOK, FreshIsUnknown, OwnedOnce, IntactUntilFork,
              LostAreResults, Owned, VariablesAreIntact, Intact, Fresh
<1>2. CASE Next
  BY <1>2, StraightIInv, BranchIInv, ForkIInv DEF Next, Branches, Forks
<1> QED
  BY <1>1, <1>2

(* IInv is an inductive invariant of all that machines do with their       *)
(* values, forks included.                                                 *)
THEOREM InductiveInvariant == Spec => []IInv
BY InitIInv, NextIInv, PTL DEF Spec

(* No two variables of a machine share operands (symbolicvalue.cc:91),     *)
(* before and after forks.                                                 *)
THEOREM OperandsAreOwnedOnce == Spec => []OwnedOnce
<1>1. IInv => OwnedOnce
  BY DEF IInv
<1> QED
  BY <1>1, InductiveInvariant, PTL

(* As long as there is one machine, no variable points to operands that    *)
(* have been deleted (symbolicvalue.cc:98).                                *)
THEOREM OperandsAreIntactUntilFork == Spec => []IntactUntilFork
<1>1. IInv => IntactUntilFork
  BY DEF IInv
<1> QED
  BY <1>1, InductiveInvariant, PTL

(* What is lost is exactly the pair that each result's constructor makes   *)
(* and its destructor does not delete (symbolicvalue.cc:76,                *)
(* symbolicvalue.cc:82); operator= loses nothing.                          *)
THEOREM ResultsAreLost == Spec => []LostAreResults
<1>1. IInv => LostAreResults
  BY DEF IInv
<1> QED
  BY <1>1, InductiveInvariant, PTL
=============================================================================
