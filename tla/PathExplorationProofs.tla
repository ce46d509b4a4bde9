------------------------ MODULE PathExplorationProofs -------------------------
(***************************************************************************)
(* The exploration of a program is its native runs up to the comparisons   *)
(* that lose them, for any set of inputs, any program of forward branches  *)
(* on conditions of any kind and any number of machines: nothing else is   *)
(* lost, nothing is done twice, and what a machine assumes is so.          *)
(***************************************************************************)
EXTENDS PathExploration, TLAPS

-----------------------------------------------------------------------------
(* Traces                                                                  *)

(* A trace that grows is on the run of an input if it was and the new      *)
(* address is the next one; what it was before stays.                      *)
LEMMA RunsAlongAppend ==
    ASSUME NEW t \in Seq(PCs), t # <<>>, NEW x \in PCs, NEW i
    PROVE  LET u == Append(t, x) IN
           /\ RunsAlong(u, Len(u), i) <=>
                  RunsAlong(t, Len(t), i) /\ x = Successor(t[Len(t)], i)
           /\ \A k \in 1 .. Len(t) :
                  /\ k \in 1 .. Len(u) - 1 /\ u[k] = t[k]
                  /\ RunsAlong(u, k, i) <=> RunsAlong(t, k, i)
<1> DEFINE u == Append(t, x)
<1>1. /\ Len(t) \in Nat \ {0} /\ Len(u) = Len(t) + 1 /\ u[Len(t) + 1] = x
      /\ \A k \in 1 .. Len(t) : u[k] = t[k]
  OBVIOUS
<1> HIDE DEF u
<1>2. RunsAlong(u, Len(u), i) <=> \A k \in 1 .. Len(t) : u[k + 1] = Successor(u[k], i)
  BY <1>1 DEF RunsAlong
<1>3. RunsAlong(t, Len(t), i) <=> \A k \in 1 .. Len(t) - 1 : t[k + 1] = Successor(t[k], i)
  BY DEF RunsAlong
<1>4. \A k \in 1 .. Len(t) - 1 :
          /\ k \in 1 .. Len(t) /\ k + 1 \in 1 .. Len(t)
          /\ u[k + 1] = t[k + 1] /\ u[k] = t[k]
  BY <1>1
<1>5. Len(t) \in 1 .. Len(t) /\ u[Len(t)] = t[Len(t)]
  BY <1>1
<1>6. \A k \in 1 .. Len(t) : k = Len(t) \/ k \in 1 .. Len(t) - 1
  BY <1>1
<1>7. RunsAlong(u, Len(u), i) <=>
          RunsAlong(t, Len(t), i) /\ x = Successor(t[Len(t)], i)
  BY <1>1, <1>2, <1>3, <1>4, <1>5, <1>6
<1>8. ASSUME NEW k \in 1 .. Len(t)
      PROVE  /\ k \in 1 .. Len(u) - 1 /\ u[k] = t[k]
             /\ RunsAlong(u, k, i) <=> RunsAlong(t, k, i)
  <2>1. \A j \in 1 .. k - 1 : j \in 1 .. Len(t) - 1
    BY <1>1
  <2>2. \A j \in 1 .. k - 1 : u[j + 1] = t[j + 1] /\ u[j] = t[j]
    BY <1>4, <2>1
  <2>3. RunsAlong(u, k, i) <=> RunsAlong(t, k, i)
    BY <2>2 DEF RunsAlong
  <2> QED
    BY <1>1, <2>3
<1> QED
  BY <1>7, <1>8 DEF u

(* Traces are on the runs of the same inputs while the program is the same. *)
LEMMA RunsAlongNext ==
    ASSUME NEW m, program' = program
    PROVE  /\ Followers(m)' = {i \in Inputs : RunsAlong(trace'[m], Len(trace'[m]), i)}
           /\ \A i : LeftBehind(m, i)' <=>
                  \E k \in 1 .. Len(trace'[m]) - 1 :
                      /\ RunsAlong(trace'[m], k, i)
                      /\ Excluded(program[trace'[m][k]].cond, i)
BY DEF Followers, LeftBehind, RunsAlong, Successor, Excluded

(* A machine that goes to x keeps the inputs that go there natively and    *)
(* leaves behind those the comparison it was at rules out.                 *)
LEMMA FollowersOfStep ==
    ASSUME IInv, NEW m \in created, NEW n \in VMs, NEW x \in PCs, program' = program,
           trace'[n] = Append(trace[m], x)
    PROVE  /\ Followers(n)' = {i \in Followers(m) : x = Successor(pc[m], i)}
           /\ \A i \in Inputs : LeftBehind(m, i) => LeftBehind(n, i)'
           /\ \A i \in Followers(m) : Excluded(program[pc[m]].cond, i) => LeftBehind(n, i)'
<1> DEFINE t == trace[m]  u == Append(t, x)
<1>1. t \in Seq(PCs) /\ t # <<>> /\ t[Len(t)] = pc[m]
  BY DEF IInv, TypeOK, TracesEndAtPC
<1>2. Len(t) \in 1 .. Len(t)
  BY <1>1
<1>3. ASSUME NEW i
      PROVE  /\ RunsAlong(u, Len(u), i) <=> RunsAlong(t, Len(t), i) /\ x = Successor(pc[m], i)
             /\ \A k \in 1 .. Len(t) :
                    /\ k \in 1 .. Len(u) - 1 /\ u[k] = t[k]
                    /\ RunsAlong(u, k, i) <=> RunsAlong(t, k, i)
  BY <1>1, RunsAlongAppend
<1>4. /\ Followers(n)' = {i \in Inputs : RunsAlong(u, Len(u), i)}
      /\ \A i : LeftBehind(n, i)' <=>
             \E k \in 1 .. Len(u) - 1 :
                 RunsAlong(u, k, i) /\ Excluded(program[u[k]].cond, i)
  BY RunsAlongNext
<1>5. Followers(m) = {i \in Inputs : RunsAlong(t, Len(t), i)}
  BY DEF Followers
<1>6. \A i : LeftBehind(m, i) <=>
          \E k \in 1 .. Len(t) - 1 :
              RunsAlong(t, k, i) /\ Excluded(program[t[k]].cond, i)
  BY DEF LeftBehind
<1>7. \A k \in 1 .. Len(t) - 1 : k \in 1 .. Len(t)
  BY <1>1
<1> HIDE DEF t, u
<1>8. Followers(n)' = {i \in Followers(m) : x = Successor(pc[m], i)}
  BY <1>3, <1>4, <1>5
<1>9. \A i \in Inputs : LeftBehind(m, i) => LeftBehind(n, i)'
  BY <1>3, <1>4, <1>6, <1>7
<1>10. \A i \in Followers(m) : Excluded(program[pc[m]].cond, i) => LeftBehind(n, i)'
  BY <1>1, <1>2, <1>3, <1>4, <1>5
<1> QED
  BY <1>8, <1>9, <1>10
-----------------------------------------------------------------------------
(* One step of a machine                                                   *)

(* Where a machine may go from a branch.                                   *)
LEMMA BranchFacts ==
    ASSUME IInv, AtBranch
    PROVE  /\ Current \in created /\ Current \in VMs
           /\ pc[Current] \in 1 .. Branches /\ pc[Current] \in PCs
           /\ Branch = program[pc[Current]] /\ Branch.cond \in Conditions
           /\ Branch.to \in PCs /\ pc[Current] + 1 \in PCs /\ Branch.to # pc[Current] + 1
           /\ \A i \in Inputs : Successor(pc[Current], i) =
                  IF i \in Branch.cond.holds THEN Branch.to ELSE pc[Current] + 1
<1>1. /\ created \subseteq VMs /\ vms \in Seq(created) /\ it \in Nat
      /\ program \in Programs /\ pc \in [VMs -> PCs]
  BY DEF IInv, TypeOK
<1>2. it \in 1 .. Len(vms) /\ pc[Current] \notin End
  BY DEF AtBranch, E!AtVM
<1>3. Current \in created /\ Current \in VMs
  BY <1>1, <1>2 DEF Current
<1>4. pc[Current] \in 1 .. Branches /\ pc[Current] \in PCs /\ pc[Current] + 1 \in PCs
  BY <1>1, <1>2, <1>3, PathExplorationAssumption DEF PCs, End
<1>5. /\ Branch.cond \in Conditions /\ Branch.to \in PCs /\ Branch.to > pc[Current] + 1
  BY <1>1, <1>4 DEF Programs, Branch
<1>6. Branch.to # pc[Current] + 1
  BY <1>4, <1>5 DEF PCs
<1>7. \A i \in Inputs : Successor(pc[Current], i) =
          IF i \in Branch.cond.holds THEN Branch.to ELSE pc[Current] + 1
  BY <1>2 DEF Successor, Branch
<1> QED
  BY <1>3, <1>4, <1>5, <1>6, <1>7 DEF Branch

(* A formula is a proposition on the names; every input is a value all     *)
(* names may have, and says of a condition that is no comparison what      *)
(* holds.                                                                  *)
LEMMA ConditionFacts ==
    ASSUME NEW c \in Conditions
    PROVE  /\ c.kind = "concrete" => c.holds \in {{}, Inputs}
           /\ c.kind = "compared" =>
                  c.answer \in BOOLEAN /\ \A f : Says(f, c) = c.answer
           /\ \A i \in Inputs : c.kind = "bits" =>
                  Says([x \in Names |-> i], c) = (i \in c.holds)
<1>1. CASE c \in [kind : {"concrete"}, holds : {{}, Inputs}]
  BY <1>1
<1>2. CASE c \in [kind : {"bits"}, holds : SUBSET Inputs, name : Names]
  BY <1>2 DEF Says
<1>3. CASE c \in [kind : {"compared"}, holds : SUBSET Inputs, answer : BOOLEAN]
  BY <1>3 DEF Says
<1>4. CASE c \in [kind : {"unsorted"}, holds : {{}}]
  BY <1>4
<1> QED
  BY <1>1, <1>2, <1>3, <1>4 DEF Conditions

(* An outcome that sv_assert rules out is one that no input on the path    *)
(* has, unless the condition is a comparison whose constant is the other   *)
(* outcome; and one outcome is always left.                                *)
LEMMA RuledOut ==
    ASSUME IInv, AtWild, NEW value \in BOOLEAN, ~ MayBe(value)
    PROVE  /\ MayBe(~ value)
           /\ \A i \in Followers(Current) :
                  (i \in Branch.cond.holds) = value <=> Excluded(Branch.cond, i)
<1>1. /\ Current \in created /\ Branch.cond \in Conditions
      /\ Branch.cond.kind \in {"bits", "compared"}
  BY BranchFacts DEF AtWild
<1>2. PICK f \in [Names -> Inputs] : Satisfies(f, assertions[Current])
  BY <1>1 DEF IInv, AssertionsArePossible, Possible
<1>3. Says(f, Branch.cond) \in BOOLEAN
  <2>1. CASE Branch.cond.kind = "bits"
    BY <2>1 DEF Says
  <2>2. CASE Branch.cond.kind = "compared"
    <3>1. Branch.cond.answer \in BOOLEAN /\ Says(f, Branch.cond) = Branch.cond.answer
      BY <1>1, <2>2, ConditionFacts
    <3> QED
      BY <3>1
  <2> QED
    BY <1>1, <2>1, <2>2
<1>4. Says(f, Branch.cond) # value
  BY <1>2 DEF MayBe, sv_assert
<1>5. Says(f, Branch.cond) = (~ value)
  BY <1>3, <1>4
<1>6. MayBe(~ value)
  BY <1>2, <1>5 DEF MayBe, sv_assert
<1>7. ASSUME NEW i \in Followers(Current)
      PROVE  (i \in Branch.cond.holds) = value <=> Excluded(Branch.cond, i)
  <2>1. CASE Branch.cond.kind = "compared"
    <3>1. Branch.cond.answer = (~ value)
      BY <1>1, <1>5, <2>1, ConditionFacts
    <3> QED
      BY <2>1, <3>1 DEF Excluded
  <2>2. CASE Branch.cond.kind = "bits"
    <3>1. i \in Inputs
      BY DEF Followers
    <3>2. PICK g \in [Names -> Inputs] : g = [x \in Names |-> i]
      BY <3>1
    <3>3. ASSUME NEW a \in assertions[Current] PROVE Says(g, a.cond) = a.value
      <4>1. /\ a.cond \in Conditions /\ a.cond.kind \in {"bits", "compared"}
            /\ (i \in a.cond.holds) = a.value /\ Says(f, a.cond) = a.value
        BY <1>1, <1>2, BranchFacts
           DEF IInv, TypeOK, AssertionsHold, AssertionsArePossible, Possible, Satisfies, AtWild
      <4>2. CASE a.cond.kind = "bits"
        <5>1. Says(g, a.cond) = (i \in a.cond.holds)
          BY <3>1, <3>2, <4>1, <4>2, ConditionFacts
        <5> QED
          BY <4>1, <5>1
      <4>3. CASE a.cond.kind = "compared"
        <5>1. Says(g, a.cond) = a.cond.answer /\ Says(f, a.cond) = a.cond.answer
          BY <4>1, <4>3, ConditionFacts
        <5> QED
          BY <4>1, <5>1
      <4> QED
        BY <4>1, <4>2, <4>3
    <3>4. Satisfies(g, assertions[Current])
      BY <3>3 DEF Satisfies
    <3>5. Says(g, Branch.cond) # value
      BY <3>4 DEF MayBe, sv_assert
    <3>6. Says(g, Branch.cond) = (i \in Branch.cond.holds)
      BY <1>1, <2>2, <3>1, <3>2, ConditionFacts
    <3> QED
      BY <2>2, <3>5, <3>6 DEF Excluded
  <2> QED
    BY <1>1, <2>1, <2>2
<1> QED
  BY <1>6, <1>7

(* What is asserted of the branch is possible if sv_assert says so.        *)
LEMMA AssertedPossible ==
    ASSUME IInv, AtWild, NEW value \in BOOLEAN, MayBe(value)
    PROVE  /\ Possible(Asserted(value))
           /\ Possible({[cond |-> Branch.cond, value |-> value]})
           /\ Asserted(value) \in SUBSET [cond : Conditions, value : BOOLEAN]
           /\ {[cond |-> Branch.cond, value |-> value]}
                  \in SUBSET [cond : Conditions, value : BOOLEAN]
<1> DEFINE a == [cond |-> Branch.cond, value |-> value]
<1>1. /\ Current \in created /\ Current \in VMs /\ Branch.cond \in Conditions
      /\ Branch.cond.kind \in {"bits", "compared"}
  BY BranchFacts DEF AtWild
<1>2. a.cond = Branch.cond /\ a.value = value /\ a \in [cond : Conditions, value : BOOLEAN]
  BY <1>1
<1>3. PICK f \in [Names -> Inputs] :
          Satisfies(f, assertions[Current]) /\ Says(f, Branch.cond) = value
  BY DEF MayBe, sv_assert
<1>4. /\ Possible(assertions[Current])
      /\ assertions[Current] \in SUBSET [cond : Conditions, value : BOOLEAN]
  BY <1>1 DEF IInv, AssertionsArePossible, TypeOK
<1>5. Asserted(value) = assertions[Current] \cup {a}
  BY DEF Asserted
<1> HIDE DEF a
<1>6. Satisfies(f, {a}) /\ Satisfies(f, Asserted(value))
  BY <1>2, <1>3, <1>5 DEF Satisfies
<1>7. Possible({a}) /\ Possible(Asserted(value))
  BY <1>1, <1>2, <1>4, <1>5, <1>6 DEF Possible
<1> QED
  BY <1>2, <1>4, <1>5, <1>7 DEF a

(* What a machine does that goes on alone: to where every input on its     *)
(* path goes that a comparison does not rule out, knowing what is so.      *)
GoesOn(x, known) ==
    /\ GoTo(x, known) /\ AtBranch /\ Possible(known)
    /\ x \in PCs /\ known \in SUBSET [cond : Conditions, value : BOOLEAN]
    /\ \A i \in Followers(Current) :
           x # Successor(pc[Current], i) <=> Excluded(Branch.cond, i)
    /\ \A i \in Followers(Current) : x = Successor(pc[Current], i) =>
           \A a \in known : (i \in a.cond.holds) = a.value

(* Such a step keeps the invariant, and of the inputs on the machine's     *)
(* path those that go where it goes natively.                              *)
LEMMA GoesOnIInv ==
    ASSUME IInv, NEW x, NEW known, GoesOn(x, known)
    PROVE  /\ IInv'
           /\ created' = created
           /\ \A m \in created : Followers(m)' =
                  IF m = Current THEN {i \in Followers(m) : x = Successor(pc[m], i)}
                  ELSE Followers(m)
           /\ \A m \in created : pc'[m] = IF m = Current THEN x ELSE pc[m]
<1>1. /\ pc' = [pc EXCEPT ![Current] = x]
      /\ trace' = [trace EXCEPT ![Current] = Append(@, x)]
      /\ assertions' = [assertions EXCEPT ![Current] = known]
      /\ program' = program /\ it' = it + 1 /\ vms' = vms /\ created' = created
      /\ x \in PCs /\ known \in SUBSET [cond : Conditions, value : BOOLEAN]
      /\ Possible(known) /\ AtBranch
  BY DEF GoesOn, GoTo, E!StepVM
<1>2. /\ TypeOK /\ TracesEndAtPC /\ AssertionsArePossible
      /\ LostOnlyAtComparisons /\ PathsAreDisjoint /\ AssertionsHold
  BY DEF IInv
<1>3. PICK cur : cur = Current
  OBVIOUS
<1>4. /\ cur \in created /\ cur \in VMs /\ Branch = program[pc[cur]]
  BY <1>1, <1>3, BranchFacts
<1>5. /\ created \subseteq VMs /\ pc \in [VMs -> PCs] /\ trace \in [VMs -> Seq(PCs)]
      /\ assertions \in [VMs -> SUBSET [cond : Conditions, value : BOOLEAN]]
  BY <1>2 DEF TypeOK
<1>6. /\ \A i \in Followers(cur) :
             x # Successor(pc[cur], i) <=> Excluded(program[pc[cur]].cond, i)
      /\ \A i \in Followers(cur) : x = Successor(pc[cur], i) =>
             \A a \in known : (i \in a.cond.holds) = a.value
  BY <1>3, <1>4 DEF GoesOn
<1>7. \A m \in created :
          /\ m \in VMs
          /\ pc'[m] = IF m = cur THEN x ELSE pc[m]
          /\ trace'[m] = IF m = cur THEN Append(trace[cur], x) ELSE trace[m]
          /\ assertions'[m] = IF m = cur THEN known ELSE assertions[m]
  BY <1>1, <1>3, <1>4, <1>5
<1>8. TypeOK'
  <2>1. trace' \in [VMs -> Seq(PCs)]
    BY <1>1, <1>3, <1>4, <1>5
  <2>2. assertions' \in [VMs -> SUBSET [cond : Conditions, value : BOOLEAN]]
    BY <1>1, <1>3, <1>4, <1>5
  <2>3. pc' \in [VMs -> PCs]
    BY <1>1, <1>3, <1>4, <1>5
  <2> QED
    BY <1>1, <1>2, <2>1, <2>2, <2>3 DEF TypeOK
<1>9. TracesEndAtPC'
  <2>1. \A t \in Seq(PCs) : Append(t, x) # <<>> /\ Append(t, x)[Len(Append(t, x))] = x
    BY <1>1
  <2>2. trace[cur] \in Seq(PCs)
    BY <1>4, <1>5
  <2>3. ASSUME NEW m \in created PROVE trace'[m] # <<>> /\ trace'[m][Len(trace'[m])] = pc'[m]
    <3>1. CASE m = cur
      <4>1. trace'[m] = Append(trace[cur], x) /\ pc'[m] = x
        BY <1>7, <3>1
      <4> QED
        BY <2>1, <2>2, <4>1
    <3>2. CASE m # cur
      BY <1>2, <1>7, <3>2 DEF TracesEndAtPC
    <3> QED
      BY <3>1, <3>2
  <2> QED
    BY <1>1, <2>3 DEF TracesEndAtPC
<1>10. AssertionsArePossible'
  <2>1. ASSUME NEW m \in created PROVE Possible(assertions'[m])
    <3>1. CASE m = cur
      BY <1>1, <1>7, <3>1
    <3>2. CASE m # cur
      BY <1>2, <1>7, <3>2 DEF AssertionsArePossible
    <3> QED
      BY <3>1, <3>2
  <2> QED
    BY <1>1, <2>1 DEF AssertionsArePossible, Possible, Satisfies, Says
<1>11. /\ Followers(cur)' = {i \in Followers(cur) : x = Successor(pc[cur], i)}
       /\ \A i \in Inputs : LeftBehind(cur, i) => LeftBehind(cur, i)'
       /\ \A i \in Followers(cur) : Excluded(program[pc[cur]].cond, i) => LeftBehind(cur, i)'
  <2>1. trace'[cur] = Append(trace[cur], x)
    BY <1>4, <1>7
  <2> QED
    BY <1>1, <1>4, <2>1, FollowersOfStep
<1>12. ASSUME NEW m \in created, m # cur
       PROVE  Followers(m)' = Followers(m) /\ \A i : LeftBehind(m, i) => LeftBehind(m, i)'
  <2>1. trace'[m] = trace[m]
    BY <1>7, <1>12
  <2> QED
    BY <1>1, <2>1, RunsAlongNext DEF Followers, LeftBehind
<1>13. LostOnlyAtComparisons'
  <2>1. ASSUME NEW i \in Inputs
        PROVE  \E m \in created : i \in Followers(m)' \/ LeftBehind(m, i)'
    <3>1. PICK m \in created : i \in Followers(m) \/ LeftBehind(m, i)
      BY <1>2 DEF LostOnlyAtComparisons
    <3>2. CASE m # cur
      BY <1>12, <3>1, <3>2
    <3>3. CASE m = cur
      BY <1>6, <1>11, <3>1, <3>3
    <3> QED
      BY <3>2, <3>3
  <2> QED
    BY <1>1, <2>1 DEF LostOnlyAtComparisons
<1>14. PathsAreDisjoint'
  <2>1. \A m \in created : Followers(m)' \subseteq Followers(m)
    BY <1>11, <1>12
  <2> QED
    BY <1>1, <1>2, <2>1 DEF PathsAreDisjoint
<1>15. AssertionsHold'
  <2>1. ASSUME NEW m \in created, NEW i \in Followers(m)', NEW a \in assertions'[m]
        PROVE  (i \in a.cond.holds) = a.value
    <3>1. CASE m # cur
      BY <1>2, <1>7, <1>12, <2>1, <3>1 DEF AssertionsHold
    <3>2. CASE m = cur
      <4>1. i \in Followers(cur) /\ x = Successor(pc[cur], i) /\ a \in known
        BY <1>7, <1>11, <2>1, <3>2
      <4> QED
        BY <1>6, <4>1
    <3> QED
      BY <3>1, <3>2
  <2> QED
    BY <1>1, <2>1 DEF AssertionsHold
<1>16. \A m \in created : Followers(m)' =
           IF m = Current THEN {i \in Followers(m) : x = Successor(pc[m], i)} ELSE Followers(m)
  BY <1>3, <1>11, <1>12
<1>17. \A m \in created : pc'[m] = IF m = Current THEN x ELSE pc[m]
  BY <1>3, <1>7
<1>18. IInv'
  BY <1>8, <1>9, <1>10, <1>13, <1>14, <1>15 DEF IInv
<1> QED
  BY <1>1, <1>16, <1>17, <1>18

(* Brc on a condition that is not wild, or of which one outcome is         *)
(* possible (vm.cc:323, vm.cc:327).                                        *)
LEMMA BrcOneWayGoesOn ==
    ASSUME IInv, BrcConcrete \/ BrcFalse \/ BrcTrue
    PROVE  \E x, known : GoesOn(x, known)
<1>1. AtBranch
  BY DEF BrcConcrete, BrcFalse, BrcTrue, AtWild
<1>2. /\ Current \in created /\ Current \in VMs /\ Branch.cond \in Conditions
      /\ Branch.to \in PCs /\ pc[Current] + 1 \in PCs /\ Branch.to # pc[Current] + 1
      /\ \A i \in Inputs : Successor(pc[Current], i) =
             IF i \in Branch.cond.holds THEN Branch.to ELSE pc[Current] + 1
  BY <1>1, BranchFacts
<1>3. \A i \in Followers(Current) : i \in Inputs
  BY DEF Followers
<1>4. /\ Possible(assertions[Current])
      /\ assertions[Current] \in SUBSET [cond : Conditions, value : BOOLEAN]
      /\ \A i \in Followers(Current) : \A a \in assertions[Current] :
             (i \in a.cond.holds) = a.value
  BY <1>2 DEF IInv, AssertionsArePossible, TypeOK, AssertionsHold
<1>5. CASE BrcConcrete
  <2>1. PICK x : x = IF Branch.cond.holds = Inputs THEN Branch.to ELSE pc[Current] + 1
    OBVIOUS
  <2>2. Branch.cond.kind = "concrete" /\ GoTo(x, assertions[Current])
    BY <1>5, <2>1 DEF BrcConcrete
  <2>3. Branch.cond.holds \in {{}, Inputs}
    BY <1>2, <2>2, ConditionFacts
  <2>4. \A i \in Followers(Current) :
            x = Successor(pc[Current], i) /\ ~ Excluded(Branch.cond, i)
    BY <1>2, <1>3, <2>1, <2>2, <2>3 DEF Excluded
  <2>5. x \in PCs
    BY <1>2, <2>1
  <2> QED
    BY <1>1, <1>4, <2>2, <2>4, <2>5 DEF GoesOn
<1>6. ASSUME NEW value \in BOOLEAN, AtWild, ~ MayBe(~ value),
             NEW x, x = IF value THEN Branch.to ELSE pc[Current] + 1,
             GoTo(x, Asserted(value))
      PROVE  GoesOn(x, Asserted(value))
  <2>1. PICK other \in BOOLEAN : other = (~ value)
    OBVIOUS
  <2>2. /\ MayBe(~ other)
        /\ \A i \in Followers(Current) :
               (i \in Branch.cond.holds) = other <=> Excluded(Branch.cond, i)
    BY <1>6, <2>1, RuledOut
  <2>3. MayBe(value)
    BY <2>1, <2>2
  <2>4. /\ Possible(Asserted(value))
        /\ Asserted(value) \in SUBSET [cond : Conditions, value : BOOLEAN]
    BY <1>6, <2>3, AssertedPossible
  <2>5. \A i \in Followers(Current) :
            x # Successor(pc[Current], i) <=> Excluded(Branch.cond, i)
    BY <1>2, <1>3, <1>6, <2>1, <2>2
  <2>6. ASSUME NEW i \in Followers(Current), x = Successor(pc[Current], i),
               NEW a \in Asserted(value)
        PROVE  (i \in a.cond.holds) = a.value
    <3>1. (i \in Branch.cond.holds) = value
      BY <1>2, <1>3, <1>6, <2>6
    <3>2. CASE a \in assertions[Current]
      BY <1>4, <3>2
    <3>3. CASE a = [cond |-> Branch.cond, value |-> value]
      <4>1. a.cond = Branch.cond /\ a.value = value
        BY <3>3
      <4> QED
        BY <3>1, <4>1
    <3> QED
      BY <2>6, <3>2, <3>3 DEF Asserted
  <2>7. x \in PCs
    BY <1>2, <1>6
  <2> QED
    BY <1>1, <1>6, <2>4, <2>5, <2>6, <2>7 DEF GoesOn
<1>7. CASE BrcTrue
  <2>1. PICK x : x = Branch.to
    OBVIOUS
  <2>2. AtWild /\ ~ MayBe(FALSE) /\ GoTo(x, Asserted(TRUE))
    BY <1>7, <2>1 DEF BrcTrue
  <2>3. (~ TRUE) = FALSE
    OBVIOUS
  <2>4. GoesOn(x, Asserted(TRUE))
    BY <1>6, <2>1, <2>2, <2>3
  <2> QED
    BY <2>4
<1>8. CASE BrcFalse
  <2>1. PICK x : x = pc[Current] + 1
    OBVIOUS
  <2>2. AtWild /\ ~ MayBe(TRUE)
    BY <1>8 DEF BrcFalse
  <2>3. (~ FALSE) = TRUE /\ (~ TRUE) = FALSE
    OBVIOUS
  <2>4. MayBe(FALSE)
    BY <2>2, <2>3, RuledOut
  <2>5. GoTo(x, Asserted(FALSE))
    BY <1>8, <2>1, <2>4 DEF BrcFalse
  <2>6. GoesOn(x, Asserted(FALSE))
    BY <1>6, <2>1, <2>2, <2>3, <2>5
  <2> QED
    BY <2>6
<1> QED
  BY <1>5, <1>7, <1>8
-----------------------------------------------------------------------------
(* Brc with two possible outcomes: the path splits (vm.cc:302)             *)

(* Of a comparison only one outcome is ever possible.                      *)
LEMMA BothPossible ==
    ASSUME IInv, BrcFork
    PROVE  \A i : ~ Excluded(Branch.cond, i)
<1>1. /\ AtBranch /\ Branch.cond \in Conditions /\ MayBe(TRUE) /\ MayBe(FALSE)
  BY BranchFacts DEF BrcFork, AtWild
<1>2. PICK f, g : Says(f, Branch.cond) = TRUE /\ Says(g, Branch.cond) = FALSE
  BY <1>1 DEF MayBe, sv_assert
<1>3. Branch.cond.kind # "compared"
  BY <1>1, <1>2, ConditionFacts
<1> QED
  BY <1>3 DEF Excluded

(* The two machines divide the inputs of the one between them: each input  *)
(* goes on with the machine that goes where it goes natively.              *)
LEMMA BrcForkIInv ==
    ASSUME IInv, BrcFork
    PROVE  \E child \in VMs \ created :
               /\ IInv' /\ created' = created \cup {child} /\ Current \in created
               /\ \A m \in created \ {Current} : Followers(m)' = Followers(m) /\ pc'[m] = pc[m]
               /\ \A m \in {Current, child} : \A i \in Followers(m)' :
                      i \in Followers(Current) /\ pc'[m] = Successor(pc[Current], i)
               /\ \A i \in Followers(Current) : \E m \in {Current, child} : i \in Followers(m)'
<1>1. PICK child :
          /\ AtWild /\ child \in VMs /\ E!StepFork(child) /\ program' = program
          /\ pc' = [pc EXCEPT ![child] = pc[Current] + 1, ![Current] = Branch.to]
          /\ trace' = [trace EXCEPT ![child] = Append(trace[Current], pc[Current] + 1),
                                    ![Current] = Append(@, Branch.to)]
          /\ assertions' = [assertions EXCEPT ![child] = {[cond |-> Branch.cond, value |-> FALSE]},
                                              ![Current] = Asserted(TRUE)]
  BY DEF BrcFork
<1>2. /\ child \notin created /\ created' = created \cup {child}
      /\ vms' = Append(vms, child) /\ it' = it + 1
  BY <1>1 DEF E!StepFork
<1>3. AtWild /\ AtBranch /\ child \in VMs /\ program' = program
  BY <1>1 DEF AtWild
<1>4. PICK c, yes, no :
          /\ c = Branch.cond /\ yes = Branch.to /\ no = pc[Current] + 1
  OBVIOUS
<1>5. /\ Current \in created /\ Current \in VMs /\ c \in Conditions
      /\ yes \in PCs /\ no \in PCs /\ yes # no
      /\ \A i \in Inputs : Successor(pc[Current], i) = IF i \in c.holds THEN yes ELSE no
  BY <1>3, <1>4, BranchFacts
<1>6. /\ TypeOK /\ TracesEndAtPC /\ AssertionsArePossible
      /\ LostOnlyAtComparisons /\ PathsAreDisjoint /\ AssertionsHold
  BY DEF IInv
<1>7. /\ created \subseteq VMs /\ pc \in [VMs -> PCs] /\ trace \in [VMs -> Seq(PCs)]
      /\ assertions \in [VMs -> SUBSET [cond : Conditions, value : BOOLEAN]]
      /\ vms \in Seq(created) /\ it \in Nat
  BY <1>6 DEF TypeOK
<1>8. PICK cur \in created : cur = Current
  BY <1>5
<1>9. cur # child /\ cur \in VMs
  BY <1>2, <1>5, <1>8
<1>10. /\ pc' = [pc EXCEPT ![child] = no, ![cur] = yes]
      /\ trace' = [trace EXCEPT ![child] = Append(trace[cur], no),
                                ![cur] = Append(trace[cur], yes)]
      /\ assertions' = [assertions EXCEPT
                            ![child] = {[cond |-> c, value |-> FALSE]},
                            ![cur] = assertions[cur] \cup {[cond |-> c, value |-> TRUE]}]
  BY <1>1, <1>7, <1>8, <1>9, <1>4 DEF Asserted
<1>11. /\ pc'[cur] = yes /\ trace'[cur] = Append(trace[cur], yes)
      /\ assertions'[cur] = assertions[cur] \cup {[cond |-> c, value |-> TRUE]}
  BY <1>7, <1>9, <1>10
<1>12. /\ pc'[child] = no /\ trace'[child] = Append(trace[cur], no)
       /\ assertions'[child] = {[cond |-> c, value |-> FALSE]}
  BY <1>1, <1>7, <1>9, <1>10
<1>13. \A m \in created \ {cur} :
          pc'[m] = pc[m] /\ trace'[m] = trace[m] /\ assertions'[m] = assertions[m]
  BY <1>2, <1>7, <1>10
<1>14. /\ Append(trace[cur], yes) \in Seq(PCs) /\ Append(trace[cur], no) \in Seq(PCs)
       /\ \A x \in PCs : Append(trace[cur], x) # <<>>
                         /\ Append(trace[cur], x)[Len(Append(trace[cur], x))] = x
  <2>1. \A t \in Seq(PCs) : \A x \in PCs :
            /\ Append(t, x) \in Seq(PCs) /\ Append(t, x) # <<>>
            /\ Append(t, x)[Len(Append(t, x))] = x
    OBVIOUS
  <2> QED
    BY <1>5, <1>7, <1>9, <2>1
<1>15. TypeOK'
  <2>1. pc' \in [VMs -> PCs]
    BY <1>5, <1>7, <1>10
  <2>2. trace' \in [VMs -> Seq(PCs)]
    BY <1>7, <1>10, <1>14
  <2>3. assertions' \in [VMs -> SUBSET [cond : Conditions, value : BOOLEAN]]
    <3>1. /\ {[cond |-> c, value |-> FALSE]} \in SUBSET [cond : Conditions, value : BOOLEAN]
          /\ assertions[cur] \cup {[cond |-> c, value |-> TRUE]}
                 \in SUBSET [cond : Conditions, value : BOOLEAN]
      <4>1. \A v \in BOOLEAN : [cond |-> c, value |-> v] \in [cond : Conditions, value : BOOLEAN]
        BY <1>5
      <4>2. /\ [cond |-> c, value |-> TRUE] \in [cond : Conditions, value : BOOLEAN]
            /\ [cond |-> c, value |-> FALSE] \in [cond : Conditions, value : BOOLEAN]
        BY <4>1
      <4> QED
        BY <1>7, <1>9, <4>2
    <3> QED
      BY <1>7, <1>10, <3>1
  <2>4. vms' \in Seq(created') /\ created' \subseteq VMs /\ it' \in Nat
    BY <1>1, <1>2, <1>7
  <2> QED
    BY <1>1, <1>6, <2>1, <2>2, <2>3, <2>4 DEF TypeOK
<1>16. TracesEndAtPC'
  BY <1>2, <1>5, <1>6, <1>11, <1>12, <1>13, <1>14 DEF TracesEndAtPC
<1>17. \A i \in Followers(cur) :
          i \in Inputs /\ Successor(pc[cur], i) = IF i \in c.holds THEN yes ELSE no
  BY <1>5, <1>8 DEF Followers
<1>18. Followers(cur)' = {i \in Followers(cur) : i \in c.holds}
  <2>1. Followers(cur)' = {i \in Followers(cur) : yes = Successor(pc[cur], i)}
    <3>1. trace'[cur] = Append(trace[cur], yes)
      BY <1>11
    <3> QED
      BY <1>5, <1>9, <1>3, <3>1, FollowersOfStep
  <2> QED
    BY <1>5, <1>17, <2>1
<1>19. Followers(child)' = {i \in Followers(cur) : i \notin c.holds}
  <2>1. Followers(child)' = {i \in Followers(cur) : no = Successor(pc[cur], i)}
    <3>1. trace'[child] = Append(trace[cur], no)
      BY <1>12
    <3> QED
      BY <1>5, <1>3, <3>1, FollowersOfStep
  <2> QED
    BY <1>5, <1>17, <2>1
<1>20. ASSUME NEW m \in created \ {cur} PROVE Followers(m)' = Followers(m)
  <2>1. trace'[m] = trace[m]
    BY <1>13
  <2> QED
    BY <1>1, <2>1, RunsAlongNext DEF Followers
<1>21. LostOnlyAtComparisons'
  <2>1. trace'[cur] = Append(trace[cur], yes)
    BY <1>11
  <2>2. \A i \in Inputs : LeftBehind(cur, i) => LeftBehind(cur, i)'
    BY <1>5, <1>9, <1>3, <2>1, FollowersOfStep
  <2>3. ASSUME NEW m \in created \ {cur} PROVE \A i : LeftBehind(m, i) => LeftBehind(m, i)'
    <3>1. trace'[m] = trace[m]
      BY <1>13
    <3> QED
      BY <1>1, <3>1, RunsAlongNext DEF LeftBehind
  <2>4. ASSUME NEW i \in Inputs
        PROVE  \E m \in created' : i \in Followers(m)' \/ LeftBehind(m, i)'
    <3>1. PICK m \in created : i \in Followers(m) \/ LeftBehind(m, i)
      BY <1>6 DEF LostOnlyAtComparisons
    <3>2. CASE m = cur
      BY <1>2, <1>18, <1>19, <2>2, <3>1, <3>2
    <3>3. CASE m # cur
      BY <1>2, <1>20, <2>3, <3>1, <3>3
    <3> QED
      BY <3>2, <3>3
  <2> QED
    BY <2>4 DEF LostOnlyAtComparisons
<1>22. PathsAreDisjoint'
  <2>1. \A m, n \in created : m # n => Followers(m) \cap Followers(n) = {}
    BY <1>6 DEF PathsAreDisjoint
  <2> QED
    BY <1>2, <1>18, <1>19, <1>20, <2>1 DEF PathsAreDisjoint
<1>23. AssertionsHold'
  <2>1. \A m \in created : \A i \in Followers(m) : \A a \in assertions[m] :
            (i \in a.cond.holds) = a.value
    BY <1>6 DEF AssertionsHold
  <2>2. ASSUME NEW i \in Followers(child)', NEW a \in assertions'[child]
        PROVE  (i \in a.cond.holds) = a.value
    <3>1. a = [cond |-> c, value |-> FALSE] /\ i \notin c.holds
      BY <1>12, <1>19, <2>2
    <3>2. a.cond = c /\ a.value = FALSE
      BY <3>1
    <3>3. (i \in c.holds) = FALSE
      BY <3>1
    <3> QED
      BY <3>2, <3>3, Zenon
  <2>3. ASSUME NEW i \in Followers(cur)', NEW a \in assertions'[cur]
        PROVE  (i \in a.cond.holds) = a.value
    <3>1. i \in c.holds /\ i \in Followers(cur)
      BY <1>18, <2>3
    <3>2. a \in assertions[cur] \/ a = [cond |-> c, value |-> TRUE]
      BY <1>11, <2>3
    <3>3. CASE a = [cond |-> c, value |-> TRUE]
      <4>1. a.cond = c /\ a.value = TRUE
        BY <3>3
      <4> QED
        BY <3>1, <4>1
    <3> QED
      BY <2>1, <3>1, <3>2, <3>3
  <2>4. ASSUME NEW m \in created \ {cur}, NEW i \in Followers(m)', NEW a \in assertions'[m]
        PROVE  (i \in a.cond.holds) = a.value
    BY <1>13, <1>20, <2>1, <2>4
  <2> QED
    BY <1>2, <2>2, <2>3, <2>4 DEF AssertionsHold
<1>24. \A i \in Followers(cur) : i \in Followers(cur)' \/ i \in Followers(child)'
  BY <1>18, <1>19
<1>25. \A m \in {cur, child} : \A i \in Followers(m)' :
          i \in Followers(cur) /\ pc'[m] = Successor(pc[cur], i)
  BY <1>11, <1>12, <1>17, <1>18, <1>19
<1>26. IInv'
  <2>1. /\ MayBe(TRUE) /\ MayBe(FALSE) /\ IInv
    BY DEF BrcFork
  <2>2. /\ Possible(Asserted(TRUE)) /\ Possible({[cond |-> Branch.cond, value |-> FALSE]})
    BY <1>3, <2>1, AssertedPossible
  <2>3. Possible(assertions'[cur]) /\ Possible(assertions'[child])
    <3>1. assertions'[cur] = Asserted(TRUE)
      BY <1>8, <1>11, <1>4 DEF Asserted
    <3>2. assertions'[child] = {[cond |-> Branch.cond, value |-> FALSE]}
      BY <1>12, <1>4
    <3> QED
      BY <2>2, <3>1, <3>2
  <2>4. \A m \in created \ {cur} : Possible(assertions'[m])
    BY <1>6, <1>13 DEF AssertionsArePossible
  <2>5. AssertionsArePossible'
    BY <1>2, <2>3, <2>4 DEF AssertionsArePossible, Possible, Satisfies, Says
  <2> QED
    BY <1>15, <1>16, <1>21, <1>22, <1>23, <2>5 DEF IInv
<1>27. \A m \in created \ {cur} : Followers(m)' = Followers(m) /\ pc'[m] = pc[m]
  BY <1>13, <1>20
<1> QED
  <2>1. child \in VMs \ created
    BY <1>1, <1>2
  <2> QED
    BY <1>2, <1>8, <1>24, <1>25, <1>26, <1>27, <2>1
-----------------------------------------------------------------------------
(* The exploration                                                         *)

(* The one machine at the start follows every input.                       *)
LEMMA InitIInv == Init => IInv
<1> SUFFICES ASSUME Init PROVE IInv
  OBVIOUS
<1>1. /\ vms = <<Root>> /\ created = {Root} /\ it = 0
      /\ program \in Programs /\ pc = [m \in VMs |-> 1]
      /\ assertions = [m \in VMs |-> {}] /\ trace = [m \in VMs |-> <<1>>]
  BY DEF Init, E!Init
<1>2. Root \in VMs /\ 1 \in PCs
  BY PathExplorationAssumption DEF Root, VMs, PCs
<1>3. TypeOK
  BY <1>1, <1>2 DEF TypeOK
<1>4. TracesEndAtPC
  BY <1>1, <1>2 DEF TracesEndAtPC
<1>5. Followers(Root) = Inputs
  BY <1>1, <1>2 DEF Followers, RunsAlong
<1>6. AssertionsArePossible
  <2>1. PICK i : i \in Inputs
    BY PathExplorationAssumption
  <2>2. [x \in Names |-> i] \in [Names -> Inputs]
    BY <2>1
  <2>3. Possible({})
    BY <2>2 DEF Possible, Satisfies
  <2> QED
    BY <1>1, <1>2, <2>3 DEF AssertionsArePossible
<1>7. LostOnlyAtComparisons /\ PathsAreDisjoint /\ AssertionsHold
  BY <1>1, <1>2, <1>5 DEF LostOnlyAtComparisons, PathsAreDisjoint, AssertionsHold
<1> QED
  BY <1>3, <1>4, <1>6, <1>7 DEF IInv

(* The machine that follows an input is where its native run is, and the   *)
(* run on an input that none follows is lost.                              *)
FollowerIsAt ==
    /\ \A m \in created : \A i \in Followers(m) : i \in Inputs /\ at[i] = pc[m]
    /\ \A i \in Inputs : (\A m \in created : i \notin Followers(m)) => at[i] = Lost

(* While no two machines follow one input, the place of a run is well      *)
(* defined.                                                                *)
LEMMA AtOfFollower == PathsAreDisjoint => FollowerIsAt
<1> SUFFICES ASSUME PathsAreDisjoint PROVE FollowerIsAt
  OBVIOUS
<1>1. ASSUME NEW m \in created, NEW i \in Followers(m) PROVE i \in Inputs /\ at[i] = pc[m]
  <2>1. i \in Inputs
    BY DEF Followers
  <2>2. \A n \in created : i \in Followers(n) => n = m
    BY DEF PathsAreDisjoint
  <2> QED
    BY <2>1, <2>2 DEF at
<1>2. \A i \in Inputs : (\A m \in created : i \notin Followers(m)) => at[i] = Lost
  BY DEF at
<1> QED
  BY <1>1, <1>2 DEF FollowerIsAt

(* Every step keeps the invariant and is a step of the native runs of the  *)
(* inputs that the machine that takes it follows.                          *)
LEMMA NextIInv ==
    IInv /\ [Next]_vars => IInv' /\ [Native!Next]_<<program, at>>
<1> SUFFICES ASSUME IInv, [Next]_vars PROVE IInv' /\ [Native!Next]_<<program, at>>
  OBVIOUS
<1>1. FollowerIsAt
  BY AtOfFollower DEF IInv
<1>2. PathsAreDisjoint' => FollowerIsAt'
  BY AtOfFollower, PTL
<1>3. IInv' =>
          /\ \A m \in created' : \A i \in Followers(m)' : i \in Inputs /\ at'[i] = pc'[m]
          /\ \A i \in Inputs : (\A m \in created' : i \notin Followers(m)') => at'[i] = Lost
  BY <1>2 DEF FollowerIsAt, IInv
<1>4. at = [i \in Inputs |-> at[i]] /\ at' = [i \in Inputs |-> at'[i]]
  BY DEF at
<1>5. ASSUME NEW S \in SUBSET Inputs, program' = program,
             \A i \in S : at'[i] = Native!Successor(at[i], i),
             \A i \in Inputs \ S : at'[i] = at[i]
      PROVE  Native!Next
  <2>1. \A i \in Inputs : at'[i] = IF i \in S THEN Native!Successor(at[i], i) ELSE at[i]
    BY <1>5
  <2>2. at' = [i \in Inputs |-> IF i \in S THEN Native!Successor(at[i], i) ELSE at[i]]
    BY <1>4, <2>1
  <2> QED
    BY <1>5, <2>2 DEF Native!Next
<1>6. ASSUME AtBranch, NEW i \in Followers(Current)
      PROVE  /\ i \in Inputs /\ at[i] = pc[Current]
             /\ Native!Successor(at[i], i) =
                    IF Excluded(Branch.cond, i) THEN Lost ELSE Successor(pc[Current], i)
  <2>1. /\ Current \in created /\ pc[Current] \in 1 .. Branches
        /\ Branch = program[pc[Current]]
    BY <1>6, BranchFacts
  <2>2. i \in Inputs /\ at[i] = pc[Current]
    BY <1>1, <2>1 DEF FollowerIsAt
  <2>3. pc[Current] \notin End \cup {Lost}
    BY <2>1, PathExplorationAssumption DEF End, Lost
  <2> QED
    BY <2>1, <2>2, <2>3 DEF Native!Successor, Successor, Native!Excluded, Excluded
<1>7. ASSUME NEW cur \in created, created \subseteq created',
             \A m \in created' : \A i \in Followers(m)' :
                 (m \in created /\ i \in Followers(m)) \/ i \in Followers(cur),
             \A m \in created \ {cur} : Followers(m)' = Followers(m) /\ pc'[m] = pc[m],
             IInv'
      PROVE  \A i \in Inputs \ Followers(cur) : at'[i] = at[i]
  <2> SUFFICES ASSUME NEW i \in Inputs \ Followers(cur) PROVE at'[i] = at[i]
    OBVIOUS
  <2>1. CASE \E m \in created : i \in Followers(m)
    <3>1. PICK m \in created \ {cur} : i \in Followers(m)
      BY <2>1
    <3>2. i \in Followers(m)' /\ pc'[m] = pc[m] /\ m \in created'
      BY <1>7, <3>1
    <3> QED
      BY <1>1, <1>3, <1>7, <3>1, <3>2 DEF FollowerIsAt
  <2>2. CASE \A m \in created : i \notin Followers(m)
    <3>1. \A m \in created' : i \notin Followers(m)'
      BY <1>7, <2>2
    <3> QED
      BY <1>1, <1>3, <1>7, <2>2, <3>1 DEF FollowerIsAt
  <2> QED
    BY <2>1, <2>2
<1>8. CASE \/ UNCHANGED vars \/ Loop \/ BrcThrows
           \/ (E!StepBegin \/ E!StepEnd) /\ UNCHANGED pathVars
  <2>1. UNCHANGED <<program, pc, assertions, trace, vms, created>>
    BY <1>8 DEF vars, engineVars, pathVars, Loop, BrcThrows, E!StepBegin, E!StepEnd, E!StepVM,
       E!StepThrow
  <2>2. it' \in Nat
    BY <1>8 DEF vars, engineVars, Loop, BrcThrows, E!StepBegin, E!StepEnd, E!StepVM, E!StepThrow,
       IInv, TypeOK
  <2>3. \A m : Followers(m)' = Followers(m)
    BY <2>1 DEF Followers, RunsAlong, Successor
  <2>4. IInv'
    <3>1. TypeOK' /\ TracesEndAtPC' /\ PathsAreDisjoint' /\ AssertionsHold'
      BY <2>1, <2>2, <2>3 DEF IInv, TypeOK, TracesEndAtPC, PathsAreDisjoint, AssertionsHold
    <3>2. AssertionsArePossible'
      BY <2>1 DEF IInv, AssertionsArePossible, Possible, Satisfies, Says
    <3>3. \A m, i : LeftBehind(m, i)' <=> LeftBehind(m, i)
      BY <2>1 DEF LeftBehind, RunsAlong, Successor, Excluded
    <3>4. LostOnlyAtComparisons'
      BY <2>1, <2>3, <3>3 DEF IInv, LostOnlyAtComparisons
    <3> QED
      BY <3>1, <3>2, <3>4 DEF IInv
  <2>5. at' = at
    <3>1. \A i \in Inputs : at'[i] = at[i]
      BY <1>1, <1>3, <2>1, <2>3, <2>4 DEF FollowerIsAt
    <3> QED
      BY <1>4, <3>1
  <2> QED
    BY <2>1, <2>4, <2>5
<1>9. CASE BrcConcrete \/ BrcFalse \/ BrcTrue
  <2>1. PICK x, known : GoesOn(x, known)
    BY <1>9, BrcOneWayGoesOn
  <2>2. AtBranch /\ program' = program
    BY <2>1 DEF GoesOn, GoTo
  <2>3. PICK cur \in created : cur = Current
    BY <2>2, BranchFacts
  <2>4. /\ IInv' /\ created' = created
        /\ \A m \in created : Followers(m)' =
               IF m = cur THEN {i \in Followers(m) : x = Successor(pc[m], i)} ELSE Followers(m)
        /\ \A m \in created : pc'[m] = IF m = cur THEN x ELSE pc[m]
    BY <2>1, <2>3, GoesOnIInv
  <2>5. ASSUME NEW i \in Followers(cur) PROVE at'[i] = Native!Successor(at[i], i)
    <3>1. /\ i \in Inputs
          /\ Native!Successor(at[i], i) =
                 IF Excluded(Branch.cond, i) THEN Lost ELSE Successor(pc[cur], i)
          /\ x # Successor(pc[cur], i) <=> Excluded(Branch.cond, i)
      BY <1>6, <2>1, <2>2, <2>3 DEF GoesOn
    <3>2. CASE x = Successor(pc[cur], i)
      <4>1. i \in Followers(cur)' /\ pc'[cur] = x /\ cur \in created'
        BY <2>4, <3>2
      <4> QED
        BY <1>3, <2>4, <3>1, <3>2, <4>1
    <3>3. CASE x # Successor(pc[cur], i)
      <4>1. \A m \in created' : i \notin Followers(m)'
        BY <2>4, <3>3 DEF IInv, PathsAreDisjoint
      <4> QED
        BY <1>3, <2>4, <3>1, <3>3, <4>1
    <3> QED
      BY <3>2, <3>3
  <2>6. \A i \in Inputs \ Followers(cur) : at'[i] = at[i]
    <3>1. \A m \in created' : \A i \in Followers(m)' :
              (m \in created /\ i \in Followers(m)) \/ i \in Followers(cur)
      BY <2>4
    <3>2. \A m \in created \ {cur} : Followers(m)' = Followers(m) /\ pc'[m] = pc[m]
      BY <2>4
    <3> QED
      BY <1>7, <2>4, <3>1, <3>2
  <2>7. Followers(cur) \subseteq Inputs
    BY DEF Followers
  <2> QED
    BY <1>5, <2>2, <2>4, <2>5, <2>6, <2>7
<1>10. CASE BrcFork
  <2>1. PICK child \in VMs \ created :
            /\ IInv' /\ created' = created \cup {child} /\ Current \in created
            /\ \A m \in created \ {Current} : Followers(m)' = Followers(m) /\ pc'[m] = pc[m]
            /\ \A m \in {Current, child} : \A i \in Followers(m)' :
                   i \in Followers(Current) /\ pc'[m] = Successor(pc[Current], i)
            /\ \A i \in Followers(Current) : \E m \in {Current, child} : i \in Followers(m)'
    BY <1>10, BrcForkIInv
  <2>2. AtBranch /\ program' = program
    BY <1>10 DEF BrcFork, AtWild
  <2>3. PICK cur \in created : cur = Current
    BY <2>1
  <2>4. ASSUME NEW i \in Followers(cur) PROVE at'[i] = Native!Successor(at[i], i)
    <3>1. PICK m \in {cur, child} : i \in Followers(m)'
      BY <2>1, <2>3
    <3>2. pc'[m] = Successor(pc[cur], i) /\ m \in created'
      BY <2>1, <2>3, <3>1
    <3>3. at'[i] = Successor(pc[cur], i)
      BY <1>3, <2>1, <3>1, <3>2
    <3>4. Native!Successor(at[i], i) = Successor(pc[cur], i)
      BY <1>6, <1>10, <2>2, <2>3, BothPossible
    <3> QED
      BY <3>3, <3>4
  <2>5. \A i \in Inputs \ Followers(cur) : at'[i] = at[i]
    <3>1. \A m \in created' : \A i \in Followers(m)' :
              (m \in created /\ i \in Followers(m)) \/ i \in Followers(cur)
      BY <2>1, <2>3
    <3>2. \A m \in created \ {cur} : Followers(m)' = Followers(m) /\ pc'[m] = pc[m]
      BY <2>1, <2>3
    <3> QED
      BY <1>7, <2>1, <3>1, <3>2
  <2>6. Followers(cur) \subseteq Inputs
    BY DEF Followers
  <2> QED
    BY <1>5, <2>1, <2>2, <2>4, <2>5, <2>6
<1> QED
  BY <1>8, <1>9, <1>10 DEF Next

(* IInv is an inductive invariant of the exploration.                      *)
THEOREM InductiveInvariant == Spec => []IInv
<1>1. IInv /\ [Next]_vars => IInv'
  BY NextIInv
<1> QED
  BY <1>1, InitIInv, PTL DEF Spec

(* Nothing else is lost (vm.cc:302): every input is followed by a machine, *)
(* or a comparison whose constant rules its outcome out has lost it.       *)
THEOREM NothingElseIsLost == Spec => []LostOnlyAtComparisons
<1>1. IInv => LostOnlyAtComparisons
  BY DEF IInv
<1> QED
  BY <1>1, InductiveInvariant, PTL

(* Nothing is done twice (vm.cc:302): no two machines follow one input.    *)
THEOREM NothingIsDoneTwice == Spec => []PathsAreDisjoint
<1>1. IInv => PathsAreDisjoint
  BY DEF IInv
<1> QED
  BY <1>1, InductiveInvariant, PTL

(* What a machine asserts of the input holds of every input on its path    *)
(* (vm.cc:315, vm.cc:322).                                                 *)
THEOREM AssertionsAreTrue == Spec => []AssertionsHold
<1>1. IInv => AssertionsHold
  BY DEF IInv
<1> QED
  BY <1>1, InductiveInvariant, PTL

(* The machines together are the native runs of the program, on every      *)
(* input at once, up to the comparisons that lose them: the exploration    *)
(* implements NativeExecution (vm.cc:290, engine.cc:19).                   *)
THEOREM ExplorationIsNative == Spec => ExploresNativeRuns
<1>1. Init => Native!Init
  <2> SUFFICES ASSUME Init PROVE Native!Init
    OBVIOUS
  <2>1. created = {Root} /\ pc = [m \in VMs |-> 1] /\ Root \in VMs /\ trace[Root] = <<1>>
    BY PathExplorationAssumption DEF Init, E!Init, Root, VMs
  <2>2. Followers(Root) = Inputs
    BY <2>1 DEF Followers, RunsAlong
  <2>3. FollowerIsAt
    BY InitIInv, AtOfFollower DEF IInv
  <2>4. \A i \in Inputs : at[i] = 1
    BY <2>1, <2>2, <2>3 DEF FollowerIsAt
  <2> QED
    BY <2>4 DEF at, Native!Init
<1>2. IInv /\ [Next]_vars => [Native!Next]_<<program, at>>
  BY NextIInv
<1> QED
  BY <1>1, <1>2, InductiveInvariant, PTL DEF Spec, ExploresNativeRuns, Native!Spec
=============================================================================
