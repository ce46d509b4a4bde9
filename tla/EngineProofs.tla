---------------------------- MODULE EngineProofs ----------------------------
(***************************************************************************)
(* The engine's walk over its list of machines and the output of the       *)
(* emulated kernel, for any number of machines, descriptors, buffers and   *)
(* calls.                                                                  *)
(***************************************************************************)
EXTENDS Kernel, BasicFacts

-----------------------------------------------------------------------------
(* Selections                                                              *)

(* Only what of S occurs in t matters to a selection from t.               *)
LEMMA SameSelection ==
    ASSUME NEW A, NEW s \in Seq(A), NEW t \in Seq(A), NEW S, NEW R, IsSelection(s, t, S),
           \A x \in ToSet(t) : x \in S <=> x \in R
    PROVE  IsSelection(s, t, R)
<1>1. \A k \in 1 .. Len(t) : t[k] \in S <=> t[k] \in R
  BY ToSetMembers
<1> QED
  BY <1>1 DEF IsSelection

LEMMA EmptySelection ==
    ASSUME NEW S
    PROVE  IsSelection(<<>>, <<>>, S)
<1> DEFINE at == [i \in 1 .. 0 |-> 0]
<1>1. Len(<<>>) = 0 /\ 1 .. 0 = {}
  OBVIOUS
<1>2. at \in [1 .. 0 -> 1 .. 0]
  BY <1>1
<1>3. \A i \in 1 .. 0 : FALSE
  BY <1>1
<1> QED
  BY <1>1, <1>2, <1>3 DEF IsSelection

(* What is not kept is appended.                                           *)
LEMMA SelectionSkips ==
    ASSUME NEW A, NEW s \in Seq(A), NEW t \in Seq(A), NEW u \in Seq(A), NEW S,
           IsSelection(s, t, S), \A i \in 1 .. Len(u) : u[i] \notin S
    PROVE  IsSelection(s, t \o u, S)
<1>1. PICK at \in [1 .. Len(s) -> 1 .. Len(t)] :
          /\ \A i, j \in 1 .. Len(s) : i < j => at[i] < at[j]
          /\ \A i \in 1 .. Len(s) : s[i] = t[at[i]]
          /\ \A k \in 1 .. Len(t) : t[k] \in S <=> \E i \in 1 .. Len(s) : at[i] = k
  BY DEF IsSelection
<1>2. /\ Len(t \o u) = Len(t) + Len(u) /\ Len(t) \in Nat /\ Len(u) \in Nat /\ Len(s) \in Nat
      /\ \A i \in 1 .. Len(t) : (t \o u)[i] = t[i]
      /\ \A i \in Len(t) + 1 .. Len(t) + Len(u) : (t \o u)[i] = u[i - Len(t)]
  OBVIOUS
<1>3. at \in [1 .. Len(s) -> 1 .. Len(t \o u)]
  BY <1>2
<1>4. \A i \in 1 .. Len(s) : s[i] = (t \o u)[at[i]]
  BY <1>1, <1>2
<1>5. \A k \in 1 .. Len(t \o u) : (t \o u)[k] \in S <=> \E i \in 1 .. Len(s) : at[i] = k
  <2> SUFFICES ASSUME NEW k \in 1 .. Len(t) + Len(u)
               PROVE  (t \o u)[k] \in S <=> \E i \in 1 .. Len(s) : at[i] = k
    BY <1>2
  <2>1. CASE k <= Len(t)
    <3>1. k \in 1 .. Len(t)
      BY <1>2, <2>1
    <3> QED
      BY <1>1, <1>2, <3>1
  <2>2. CASE k > Len(t)
    <3>1. k \in Len(t) + 1 .. Len(t) + Len(u) /\ k - Len(t) \in 1 .. Len(u)
      BY <1>2, <2>2
    <3>2. (t \o u)[k] \notin S
      BY <1>2, <3>1
    <3>3. \A i \in 1 .. Len(s) : at[i] # k
      BY <1>2, <2>2
    <3> QED
      BY <3>2, <3>3
  <2> QED
    BY <1>2, <2>1, <2>2
<1> QED
  BY <1>1, <1>3, <1>4, <1>5 DEF IsSelection

(* What is kept is appended to both.                                       *)
LEMMA SelectionGrows ==
    ASSUME NEW A, NEW s \in Seq(A), NEW t \in Seq(A), NEW u \in Seq(A), NEW S,
           IsSelection(s, t, S), \A i \in 1 .. Len(u) : u[i] \in S
    PROVE  IsSelection(s \o u, t \o u, S)
<1>1. PICK at \in [1 .. Len(s) -> 1 .. Len(t)] :
          /\ \A i, j \in 1 .. Len(s) : i < j => at[i] < at[j]
          /\ \A i \in 1 .. Len(s) : s[i] = t[at[i]]
          /\ \A k \in 1 .. Len(t) : t[k] \in S <=> \E i \in 1 .. Len(s) : at[i] = k
  BY DEF IsSelection
<1>2. /\ Len(t \o u) = Len(t) + Len(u) /\ Len(t) \in Nat /\ Len(u) \in Nat /\ Len(s) \in Nat
      /\ Len(s \o u) = Len(s) + Len(u)
      /\ \A i \in 1 .. Len(t) : (t \o u)[i] = t[i]
      /\ \A i \in Len(t) + 1 .. Len(t) + Len(u) : (t \o u)[i] = u[i - Len(t)]
      /\ \A i \in 1 .. Len(s) : (s \o u)[i] = s[i]
      /\ \A i \in Len(s) + 1 .. Len(s) + Len(u) : (s \o u)[i] = u[i - Len(s)]
  OBVIOUS
<1> DEFINE to == [i \in 1 .. Len(s) + Len(u) |->
                    IF i <= Len(s) THEN at[i] ELSE Len(t) + (i - Len(s))]
<1>3. /\ \A i \in 1 .. Len(s) : to[i] = at[i] /\ at[i] \in 1 .. Len(t)
      /\ \A i \in Len(s) + 1 .. Len(s) + Len(u) : to[i] = Len(t) + (i - Len(s))
      /\ \A i \in 1 .. Len(s) + Len(u) : i \in 1 .. Len(s) \/ i \in Len(s) + 1 .. Len(s) + Len(u)
  <2>1. \A i \in 1 .. Len(s) : i \in 1 .. Len(s) + Len(u) /\ i <= Len(s)
    BY <1>2
  <2>2. \A i \in Len(s) + 1 .. Len(s) + Len(u) : i \in 1 .. Len(s) + Len(u) /\ ~ (i <= Len(s))
    BY <1>2
  <2>3. \A i \in 1 .. Len(s) + Len(u) : i \in 1 .. Len(s) \/ i \in Len(s) + 1 .. Len(s) + Len(u)
    BY <1>2
  <2> QED
    BY <2>1, <2>2, <2>3
<1>4. to \in [1 .. Len(s \o u) -> 1 .. Len(t \o u)]
  <2>1. to = [i \in 1 .. Len(s) + Len(u) |-> to[i]]
    OBVIOUS
  <2> HIDE DEF to
  <2>2. ASSUME NEW i \in 1 .. Len(s) + Len(u)
        PROVE  to[i] \in 1 .. Len(t) + Len(u)
    <3>1. CASE i \in 1 .. Len(s)
      BY <1>2, <1>3, <3>1
    <3>2. CASE i \in Len(s) + 1 .. Len(s) + Len(u)
      <4>1. i - Len(s) \in 1 .. Len(u)
        BY <1>2, <3>2
      <4> QED
        BY <1>2, <1>3, <3>2, <4>1
    <3> QED
      BY <1>3, <3>1, <3>2
  <2> QED
    BY <1>2, <2>1, <2>2
<1> HIDE DEF to
<1>5. \A i, j \in 1 .. Len(s \o u) : i < j => to[i] < to[j]
  <2> SUFFICES ASSUME NEW i \in 1 .. Len(s) + Len(u), NEW j \in 1 .. Len(s) + Len(u), i < j
               PROVE  to[i] < to[j]
    BY <1>2
  <2>1. CASE j \in 1 .. Len(s)
    <3>1. i \in 1 .. Len(s)
      BY <1>2, <2>1
    <3> QED
      BY <1>1, <1>3, <2>1, <3>1
  <2>2. CASE j \in Len(s) + 1 .. Len(s) + Len(u)
    <3>1. to[j] = Len(t) + (j - Len(s)) /\ j - Len(s) >= 1
      BY <1>2, <1>3, <2>2
    <3>2. CASE i \in 1 .. Len(s)
      BY <1>2, <1>3, <3>1, <3>2
    <3>3. CASE i \in Len(s) + 1 .. Len(s) + Len(u)
      BY <1>2, <1>3, <3>1, <3>3
    <3> QED
      BY <1>3, <3>2, <3>3
  <2> QED
    BY <1>3, <2>1, <2>2
<1>6. \A i \in 1 .. Len(s \o u) : (s \o u)[i] = (t \o u)[to[i]]
  <2> SUFFICES ASSUME NEW i \in 1 .. Len(s) + Len(u)
               PROVE  (s \o u)[i] = (t \o u)[to[i]]
    BY <1>2
  <2>1. CASE i \in 1 .. Len(s)
    BY <1>1, <1>2, <1>3, <2>1
  <2>2. CASE i \in Len(s) + 1 .. Len(s) + Len(u)
    <3>1. to[i] \in Len(t) + 1 .. Len(t) + Len(u) /\ to[i] - Len(t) = i - Len(s)
      BY <1>2, <1>3, <2>2
    <3> QED
      BY <1>2, <2>2, <3>1
  <2> QED
    BY <1>3, <2>1, <2>2
<1>7. \A k \in 1 .. Len(t \o u) : (t \o u)[k] \in S <=> \E i \in 1 .. Len(s \o u) : to[i] = k
  <2> SUFFICES ASSUME NEW k \in 1 .. Len(t) + Len(u)
               PROVE  (t \o u)[k] \in S <=> \E i \in 1 .. Len(s) + Len(u) : to[i] = k
    BY <1>2
  <2>1. CASE k <= Len(t)
    <3>1. k \in 1 .. Len(t)
      BY <1>2, <2>1
    <3>2. (t \o u)[k] \in S <=> \E i \in 1 .. Len(s) : at[i] = k
      BY <1>1, <1>2, <3>1
    <3>3. \A i \in 1 .. Len(s) + Len(u) : to[i] = k => i \in 1 .. Len(s)
      BY <1>2, <1>3, <2>1
    <3>4. \A i \in 1 .. Len(s) : i \in 1 .. Len(s) + Len(u)
      BY <1>2
    <3> QED
      BY <1>3, <3>2, <3>3, <3>4
  <2>2. CASE k > Len(t)
    <3>1. k \in Len(t) + 1 .. Len(t) + Len(u) /\ k - Len(t) \in 1 .. Len(u)
      BY <1>2, <2>2
    <3>2. (t \o u)[k] \in S
      BY <1>2, <3>1
    <3>3. /\ Len(s) + (k - Len(t)) \in Len(s) + 1 .. Len(s) + Len(u)
          /\ Len(t) + ((Len(s) + (k - Len(t))) - Len(s)) = k
          /\ Len(s) + (k - Len(t)) \in 1 .. Len(s) + Len(u)
      BY <1>2, <3>1
    <3>4. to[Len(s) + (k - Len(t))] = k
      BY <1>3, <3>3
    <3> QED
      BY <3>2, <3>3, <3>4
  <2> QED
    BY <1>2, <2>1, <2>2
<1> QED
  BY <1>4, <1>5, <1>6, <1>7 DEF IsSelection

-----------------------------------------------------------------------------
(* Engine::step                                                            *)

LEMMA InitIInv == Init => IInv
<1> SUFFICES ASSUME Init PROVE IInv
  OBVIOUS
<1>1. /\ vms = <<Root>> /\ stepped = <<>> /\ it = 0 /\ process = "running"
      /\ created = {Root} /\ Root \in VMs
  BY EngineAssumption DEF Init
<1>2. TypeOK
  BY <1>1 DEF TypeOK, IsInjective
<1>3. IsInjective(stepped)
  BY <1>1 DEF IsInjective
<1>4. ToSet(vms) \subseteq created
  BY <1>1 DEF ToSet
<1> QED
  BY <1>1, <1>2, <1>3, <1>4 DEF IInv, WalkFollowsList

(* What the invariant says while a call of step walks the list: the        *)
(* machine it is at, and those behind it, have not been stepped.           *)
LEMMA CurrentIsFresh ==
    ASSUME IInv, AtVM
    PROVE  /\ it \in 1 .. Len(vms) /\ Len(vms) \in Nat /\ Len(stepped) \in Nat
           /\ Current \in created /\ Current \in ToSet(vms)
           /\ Current \notin ToSet(stepped)
           /\ IsSelection(SubSeq(vms, 1, it - 1), stepped, ToSet(vms))
<1>1. /\ vms \in Seq(VMs) /\ IsInjective(vms) /\ stepped \in Seq(created)
      /\ it \in 1 .. Len(vms) /\ Running /\ it > 0
  BY DEF IInv, TypeOK, AtVM
<1>2. IsSelection(SubSeq(vms, 1, it - 1), stepped, ToSet(vms))
  BY <1>1 DEF IInv, WalkFollowsList
<1>3. Current \in ToSet(vms)
  BY <1>1, ToSetMembers DEF Current
<1>4. Current \notin ToSet(stepped)
  <2> DEFINE s == SubSeq(vms, 1, it - 1)
  <2>1. PICK at \in [1 .. Len(s) -> 1 .. Len(stepped)] :
            /\ \A i \in 1 .. Len(s) : s[i] = stepped[at[i]]
            /\ \A k \in 1 .. Len(stepped) :
                   stepped[k] \in ToSet(vms) <=> \E i \in 1 .. Len(s) : at[i] = k
    BY <1>2 DEF IsSelection
  <2>2. Len(s) = it - 1 /\ \A i \in 1 .. it - 1 : s[i] = vms[i]
    BY <1>1
  <2> HIDE DEF s
  <2>3. SUFFICES ASSUME NEW k \in 1 .. Len(stepped), stepped[k] = vms[it] PROVE FALSE
    BY <1>1, ToSetMembers DEF Current
  <2>4. PICK i \in 1 .. it - 1 : at[i] = k
    BY <1>3, <2>1, <2>2, <2>3 DEF Current
  <2>5. vms[i] = vms[it] /\ i # it /\ i \in DOMAIN vms /\ it \in DOMAIN vms
    BY <1>1, <2>1, <2>2, <2>3, <2>4
  <2> QED
    BY <1>1, <2>5 DEF IsInjective
<1> QED
  BY <1>1, <1>2, <1>3, <1>4 DEF IInv

(* Stepping the machine the walk is at: it is stepped once.                *)
LEMMA SteppedOnce ==
    ASSUME IInv, AtVM, stepped' = Append(stepped, Current), created \subseteq created'
    PROVE  /\ stepped' \in Seq(created') /\ IsInjective(stepped')
           /\ stepped' = stepped \o <<Current>>
<1>1. stepped \in Seq(created) /\ IsInjective(stepped) /\ Current \in created
  BY CurrentIsFresh DEF IInv, TypeOK, WalkFollowsList
<1>2. \A i \in 1 .. Len(stepped) : stepped[i] # Current
  BY <1>1, CurrentIsFresh, ToSetMembers
<1> DEFINE c == Current
<1> HIDE DEF c
<1>3. ASSUME NEW i \in 1 .. Len(stepped) + 1, NEW j \in 1 .. Len(stepped) + 1,
             Append(stepped, c)[i] = Append(stepped, c)[j], c = Current
      PROVE  i = j
  BY <1>1, <1>2, <1>3 DEF IsInjective
<1>4. c = Current
  BY DEF c
<1>5. DOMAIN Append(stepped, c) = 1 .. Len(stepped) + 1
  BY <1>1, <1>4
<1>6. IsInjective(stepped')
  BY <1>3, <1>4, <1>5 DEF IsInjective
<1>7. stepped' \in Seq(created') /\ stepped' = stepped \o <<Current>>
  BY <1>1
<1> QED
  BY <1>6, <1>7

LEMMA StepVMIInv ==
    ASSUME IInv, StepVM
    PROVE  IInv'
<1>1. /\ AtVM /\ stepped' = Append(stepped, Current) /\ it' = it + 1
      /\ UNCHANGED <<process, vms, created>>
  BY DEF StepVM
<1>2. TypeOK
  BY DEF IInv
<1>3. /\ stepped' \in Seq(created) /\ IsInjective(stepped')
      /\ stepped' = stepped \o <<Current>>
  BY <1>1, SteppedOnce
<1>4. /\ it \in 1 .. Len(vms) /\ Len(vms) \in Nat
      /\ Current \in created /\ Current \in ToSet(vms)
      /\ IsSelection(SubSeq(vms, 1, it - 1), stepped, ToSet(vms))
  BY <1>1, CurrentIsFresh
<1>5. TypeOK'
  BY <1>1, <1>2, <1>3, <1>4 DEF TypeOK
<1>6. SubSeq(vms, 1, it) = SubSeq(vms, 1, it - 1) \o <<Current>>
  BY <1>2, <1>4 DEF TypeOK, Current
<1>7. IsSelection(SubSeq(vms, 1, it - 1) \o <<Current>>, stepped \o <<Current>>, ToSet(vms))
  <2>1. SubSeq(vms, 1, it - 1) \in Seq(VMs) /\ stepped \in Seq(VMs) /\ <<Current>> \in Seq(VMs)
    BY <1>2, <1>4 DEF TypeOK
  <2>2. \A i \in 1 .. Len(<<Current>>) : <<Current>>[i] \in ToSet(vms)
    BY <1>4
  <2> QED
    BY <1>4, <2>1, <2>2, SelectionGrows
<1>8. IsSelection(SubSeq(vms', 1, it' - 1), stepped', ToSet(vms'))
  <2>1. it' - 1 = it
    BY <1>1, <1>4
  <2> QED
    BY <1>1, <1>3, <1>6, <1>7, <2>1
<1> QED
  BY <1>1, <1>3, <1>5, <1>8 DEF IInv, WalkFollowsList

LEMMA StepForkIInv ==
    ASSUME IInv, NEW child \in VMs, StepFork(child)
    PROVE  IInv'
<1>1. /\ AtVM /\ stepped' = Append(stepped, Current) /\ it' = it + 1
      /\ child \notin created /\ created' = created \cup {child}
      /\ vms' = Append(vms, child) /\ process' = process
  BY DEF StepFork
<1>2. /\ vms \in Seq(VMs) /\ IsInjective(vms) /\ stepped \in Seq(created)
      /\ created \subseteq VMs /\ ToSet(vms) \subseteq created /\ process \in {"running", "ended", "terminated", "crashed"}
  BY DEF IInv, TypeOK
<1>3. /\ stepped' \in Seq(created') /\ IsInjective(stepped')
      /\ stepped' = stepped \o <<Current>>
  BY <1>1, SteppedOnce
<1>4. /\ it \in 1 .. Len(vms) /\ Len(vms) \in Nat
      /\ Current \in created /\ Current \in ToSet(vms)
      /\ IsSelection(SubSeq(vms, 1, it - 1), stepped, ToSet(vms))
  BY <1>1, CurrentIsFresh
<1>5. /\ Len(vms') = Len(vms) + 1 /\ vms' \in Seq(VMs)
      /\ \A i \in 1 .. Len(vms) : vms'[i] = vms[i]
      /\ vms'[Len(vms) + 1] = child
  BY <1>1, <1>2
<1>6. IsInjective(vms')
  <2>1. \A i \in 1 .. Len(vms) : vms[i] # child
    BY <1>1, <1>2, ToSetMembers
  <2>2. ASSUME NEW i \in 1 .. Len(vms) + 1, NEW j \in 1 .. Len(vms) + 1, vms'[i] = vms'[j]
        PROVE  i = j
    <3>1. CASE i = Len(vms) + 1 \/ j = Len(vms) + 1
      <4>1. \A k \in 1 .. Len(vms) + 1 : k # Len(vms) + 1 => k \in 1 .. Len(vms)
        BY <1>4
      <4> QED
        BY <1>5, <2>1, <2>2, <3>1, <4>1
    <3>2. CASE i # Len(vms) + 1 /\ j # Len(vms) + 1
      <4>1. i \in 1 .. Len(vms) /\ j \in 1 .. Len(vms)
        BY <1>4, <3>2
      <4>2. vms[i] = vms[j] /\ i \in DOMAIN vms /\ j \in DOMAIN vms
        BY <1>2, <1>5, <2>2, <4>1
      <4> QED
        BY <1>2, <4>2 DEF IsInjective
    <3> QED
      BY <3>1, <3>2
  <2>3. DOMAIN vms' = 1 .. Len(vms) + 1
    BY <1>5
  <2> QED
    BY <2>2, <2>3 DEF IsInjective
<1>7. ToSet(vms') = ToSet(vms) \cup {child}
  <2>1. vms' = vms \o <<child>> /\ <<child>> \in Seq(VMs)
    BY <1>1, <1>2
  <2>2. ToSet(<<child>>) = {child}
    BY DEF ToSet
  <2>3. ToSet(vms \o <<child>>) = ToSet(vms) \cup ToSet(<<child>>)
    BY <1>2, <2>1, ToSetOfConcat
  <2> QED
    BY <2>1, <2>2, <2>3
<1>8. TypeOK'
  BY <1>1, <1>2, <1>3, <1>4, <1>5, <1>6 DEF TypeOK
<1>9. SubSeq(vms', 1, it) = SubSeq(vms, 1, it - 1) \o <<Current>>
  BY <1>1, <1>2, <1>4 DEF Current
<1>10. IsSelection(SubSeq(vms', 1, it), stepped', ToSet(vms'))
  <2>1. SubSeq(vms, 1, it - 1) \in Seq(VMs) /\ stepped \in Seq(VMs) /\ <<Current>> \in Seq(VMs)
    BY <1>2, <1>4
  <2>2. \A x \in ToSet(stepped) : x \in ToSet(vms) <=> x \in ToSet(vms')
    <3>1. ToSet(stepped) \subseteq created
      BY <1>2, ToSetMembers
    <3> QED
      BY <1>1, <1>7, <3>1
  <2>3. IsSelection(SubSeq(vms, 1, it - 1), stepped, ToSet(vms'))
    BY <1>4, <2>1, <2>2, SameSelection
  <2>4. \A i \in 1 .. Len(<<Current>>) : <<Current>>[i] \in ToSet(vms')
    BY <1>4, <1>7
  <2>5. IsSelection(SubSeq(vms, 1, it - 1) \o <<Current>>, stepped \o <<Current>>, ToSet(vms'))
    BY <2>1, <2>3, <2>4, SelectionGrows
  <2> QED
    BY <1>3, <1>9, <2>5
<1>11. it' - 1 = it
  BY <1>1, <1>4
<1> QED
  BY <1>1, <1>2, <1>3, <1>7, <1>8, <1>10, <1>11 DEF IInv, WalkFollowsList

(* hlt (engine.cc:54): the machine is erased under the iterator, and what  *)
(* was behind it comes to be at the place of the iterator.                 *)
LEMMA StepHltIInv ==
    ASSUME IInv, StepHlt
    PROVE  IInv'
<1>1. /\ AtVM /\ stepped' = Append(stepped, Current)
      /\ vms' = SubSeq(vms, 1, it - 1) \o SubSeq(vms, it + 1, Len(vms))
      /\ process' \in {"running", "crashed"} /\ it' = it /\ created' = created
  BY DEF StepHlt, RemoveAt
<1>2. /\ vms \in Seq(VMs) /\ IsInjective(vms) /\ stepped \in Seq(created)
      /\ created \subseteq VMs /\ ToSet(vms) \subseteq created
  BY DEF IInv, TypeOK
<1>3. /\ stepped' \in Seq(created') /\ IsInjective(stepped')
      /\ stepped' = stepped \o <<Current>>
  BY <1>1, SteppedOnce
<1>4. /\ it \in 1 .. Len(vms) /\ Len(vms) \in Nat
      /\ Current \in created /\ Current \in ToSet(vms) /\ Current \notin ToSet(stepped)
      /\ IsSelection(SubSeq(vms, 1, it - 1), stepped, ToSet(vms))
  BY <1>1, CurrentIsFresh
<1> DEFINE was(i) == IF i < it THEN i ELSE i + 1
<1>5. /\ vms' \in Seq(VMs) /\ Len(vms') = Len(vms) - 1
      /\ \A i \in 1 .. Len(vms) - 1 : vms'[i] = vms[was(i)]
  <2>1. /\ SubSeq(vms, 1, it - 1) \in Seq(VMs) /\ Len(SubSeq(vms, 1, it - 1)) = it - 1
        /\ \A i \in 1 .. it - 1 : SubSeq(vms, 1, it - 1)[i] = vms[i]
    BY <1>2, <1>4
  <2>2. /\ SubSeq(vms, it + 1, Len(vms)) \in Seq(VMs)
        /\ Len(SubSeq(vms, it + 1, Len(vms))) = Len(vms) - it
        /\ \A i \in 1 .. Len(vms) - it : SubSeq(vms, it + 1, Len(vms))[i] = vms[it + i]
    BY <1>2, <1>4
  <2> DEFINE front == SubSeq(vms, 1, it - 1)
             back  == SubSeq(vms, it + 1, Len(vms))
  <2>3. vms' = front \o back
    BY <1>1
  <2>4. /\ front \in Seq(VMs) /\ Len(front) = it - 1
        /\ \A i \in 1 .. it - 1 : front[i] = vms[i]
        /\ back \in Seq(VMs) /\ Len(back) = Len(vms) - it
        /\ \A i \in 1 .. Len(vms) - it : back[i] = vms[it + i]
    BY <2>1, <2>2
  <2> HIDE DEF front, back
  <2>5. /\ vms' \in Seq(VMs) /\ Len(vms') = Len(vms) - 1
        /\ \A i \in 1 .. it - 1 : vms'[i] = front[i]
        /\ \A i \in 1 .. Len(vms) - it : vms'[it - 1 + i] = back[i]
    <3>1. /\ front \o back \in Seq(VMs) /\ Len(front \o back) = Len(front) + Len(back)
          /\ \A i \in 1 .. Len(front) : (front \o back)[i] = front[i]
          /\ \A i \in 1 .. Len(back) : (front \o back)[Len(front) + i] = back[i]
      <4>1. front \in Seq(VMs) /\ back \in Seq(VMs)
        BY <2>4
      <4> QED
        BY ONLY <4>1
    <3>2. it - 1 + (Len(vms) - it) = Len(vms) - 1
      BY <1>4
    <3> QED
      BY <2>3, <2>4, <3>1, <3>2
  <2>6. ASSUME NEW i \in 1 .. Len(vms) - 1 PROVE vms'[i] = vms[was(i)]
    <3>1. CASE i < it
      <4>1. i \in 1 .. it - 1
        BY <1>4, <3>1
      <4> QED
        BY <2>4, <2>5, <3>1, <4>1
    <3>2. CASE i >= it
      <4>1. PICK k \in 1 .. Len(vms) - it : i = it - 1 + k
        <5>1. i - it + 1 \in 1 .. Len(vms) - it /\ i = it - 1 + (i - it + 1)
          BY <1>4, <3>2
        <5> QED
          BY <5>1
      <4>2. vms'[i] = vms[it + k] /\ it + k = i + 1 /\ ~ (i < it)
        BY <1>4, <2>4, <2>5, <3>2, <4>1
      <4> QED
        BY <4>2
    <3> QED
      BY <1>4, <3>1, <3>2
  <2> QED
    BY <2>5, <2>6
<1>6. \A i, j \in 1 .. Len(vms) - 1 :
          /\ was(i) \in 1 .. Len(vms) /\ was(i) # it
          /\ was(i) = was(j) => i = j
  BY <1>4
<1>7. IsInjective(vms')
  <2>1. DOMAIN vms' = 1 .. Len(vms) - 1 /\ DOMAIN vms = 1 .. Len(vms)
    BY <1>2, <1>5
  <2> HIDE DEF was
  <2> QED
    BY <1>2, <1>5, <1>6, <2>1 DEF IsInjective
<1>8. \A x : x \in ToSet(vms') <=> x \in ToSet(vms) /\ x # Current
  <2> SUFFICES ASSUME NEW x
               PROVE  x \in ToSet(vms') <=> x \in ToSet(vms) /\ x # Current
    OBVIOUS
  <2>1. x \in ToSet(vms') <=> \E i \in 1 .. Len(vms) - 1 : vms'[i] = x
    BY <1>5, ToSetMembers
  <2>2. x \in ToSet(vms) <=> \E i \in 1 .. Len(vms) : vms[i] = x
    BY <1>2, ToSetMembers
  <2>3. ASSUME NEW i \in 1 .. Len(vms) - 1, vms'[i] = x
        PROVE  x \in ToSet(vms) /\ x # Current
    <3>1. vms[was(i)] = x /\ was(i) \in 1 .. Len(vms) /\ was(i) # it
      BY <1>5, <1>6, <2>3
    <3> HIDE DEF was
    <3>2. was(i) \in DOMAIN vms /\ it \in DOMAIN vms
      BY <1>2, <1>4, <3>1
    <3> QED
      BY <1>2, <2>2, <3>1, <3>2 DEF IsInjective, Current
  <2>4. ASSUME NEW i \in 1 .. Len(vms), vms[i] = x, x # Current
        PROVE  x \in ToSet(vms')
    <3>1. i # it
      BY <2>4 DEF Current
    <3>2. CASE i < it
      <4>1. i \in 1 .. Len(vms) - 1 /\ was(i) = i
        BY <1>4, <3>2
      <4> QED
        BY <1>5, <2>1, <2>4, <4>1
    <3>3. CASE i > it
      <4>1. i - 1 \in 1 .. Len(vms) - 1 /\ was(i - 1) = i
        BY <1>4, <3>3
      <4> QED
        BY <1>5, <2>1, <2>4, <4>1
    <3> QED
      BY <1>4, <3>1, <3>2, <3>3
  <2> QED
    BY <2>1, <2>2, <2>3, <2>4
<1> HIDE DEF was
<1>9. TypeOK'
  <2>1. it' \in 0 .. Len(vms') + 1
    <3>1. it' = it
      BY <1>1
    <3>2. Len(vms') + 1 = Len(vms)
      BY <1>4, <1>5
    <3> QED
      BY <1>4, <3>1, <3>2
  <2>2. process' \in {"running", "ended", "terminated", "crashed"}
    BY <1>1
  <2> QED
    BY <1>1, <1>2, <1>3, <1>5, <1>7, <2>1, <2>2 DEF TypeOK
<1>10. SubSeq(vms', 1, it - 1) = SubSeq(vms, 1, it - 1)
  <2>1. /\ SubSeq(vms, 1, it - 1) \in Seq(VMs) /\ Len(SubSeq(vms, 1, it - 1)) = it - 1
        /\ \A i \in 1 .. it - 1 : SubSeq(vms, 1, it - 1)[i] = vms[i]
    BY <1>2, <1>4
  <2> DEFINE w == vms'
  <2>2. /\ w \in Seq(VMs) /\ it - 1 <= Len(w) /\ it - 1 \in Nat
        /\ \A i \in 1 .. it - 1 : w[i] = vms[i]
    <3>1. \A i \in 1 .. it - 1 : i \in 1 .. Len(vms) - 1 /\ i < it
      BY <1>4
    <3> QED
      BY <1>4, <1>5, <3>1 DEF was
  <2> HIDE DEF w
  <2>3. /\ SubSeq(w, 1, it - 1) \in Seq(VMs) /\ Len(SubSeq(w, 1, it - 1)) = it - 1
        /\ \A i \in 1 .. it - 1 : SubSeq(w, 1, it - 1)[i] = w[i]
    BY <2>2
  <2>4. SubSeq(w, 1, it - 1) = SubSeq(vms, 1, it - 1)
    BY <2>1, <2>2, <2>3
  <2> QED
    BY <2>4 DEF w
<1>11. IsSelection(SubSeq(vms, 1, it - 1), stepped', ToSet(vms'))
  <2>1. SubSeq(vms, 1, it - 1) \in Seq(VMs) /\ stepped \in Seq(VMs) /\ <<Current>> \in Seq(VMs)
    BY <1>2, <1>4
  <2>2. IsSelection(SubSeq(vms, 1, it - 1), stepped, ToSet(vms'))
    BY <1>4, <1>8, <2>1, SameSelection
  <2>3. \A i \in 1 .. Len(<<Current>>) : <<Current>>[i] \notin ToSet(vms')
    BY <1>8
  <2> QED
    BY <1>3, <2>1, <2>2, <2>3, SelectionSkips
<1> QED
  BY <1>1, <1>2, <1>3, <1>8, <1>9, <1>10, <1>11 DEF IInv, WalkFollowsList

LEMMA StepBeginIInv ==
    ASSUME IInv, StepBegin
    PROVE  IInv'
<1>1. it' = 1 /\ stepped' = <<>> /\ UNCHANGED <<process, vms, created>>
  BY DEF StepBegin
<1>2. TypeOK' /\ IsInjective(stepped')
  BY <1>1 DEF IInv, TypeOK, IsInjective
<1>3. SubSeq(vms', 1, it' - 1) = <<>>
  BY <1>1 DEF IInv, TypeOK
<1> QED
  BY <1>1, <1>2, <1>3, EmptySelection DEF IInv, WalkFollowsList

LEMMA NextIInv == IInv /\ [Next]_vars => IInv'
<1> SUFFICES ASSUME IInv, [Next]_vars PROVE IInv'
  OBVIOUS
<1>1. CASE UNCHANGED vars
  BY <1>1 DEF vars, IInv, TypeOK, WalkFollowsList, Running
<1>2. CASE StepEnd
  BY <1>2 DEF StepEnd, IInv, TypeOK, WalkFollowsList
<1>3. CASE StepThrow \/ Quit
  BY <1>3 DEF StepThrow, Quit, IInv, TypeOK, WalkFollowsList, Running
<1> QED
  BY <1>1, <1>2, <1>3, StepBeginIInv, StepVMIInv, StepForkIInv, StepHltIInv
     DEF Next, EngineStep

(* When a call of step returns every machine of the list has been stepped. *)
LEMMA StepEndSkipsNone ==
    ASSUME IInv, StepEnd
    PROVE  ToSet(vms) \subseteq ToSet(stepped)
<1>1. /\ vms \in Seq(VMs) /\ stepped \in Seq(created) /\ it = Len(vms) + 1 /\ it > 0 /\ Running
  BY DEF IInv, TypeOK, StepEnd
<1>2. SubSeq(vms, 1, it - 1) = vms
  BY <1>1
<1>3. IsSelection(vms, stepped, ToSet(vms))
  BY <1>1, <1>2 DEF IInv, WalkFollowsList
<1>4. PICK at \in [1 .. Len(vms) -> 1 .. Len(stepped)] :
          \A i \in 1 .. Len(vms) : vms[i] = stepped[at[i]]
  BY <1>3 DEF IsSelection
<1>5. ASSUME NEW i \in 1 .. Len(vms) PROVE vms[i] \in ToSet(stepped)
  BY <1>1, <1>4, ToSetMembers
<1> QED
  BY <1>1, <1>5, ToSetMembers

(* IInv is an inductive invariant of Engine::step and of main's loop.      *)
THEOREM InductiveInvariant == Spec => []IInv
BY InitIInv, NextIInv, PTL DEF Spec

(* The walk of Engine::step steps machines in the order of the list and    *)
(* none twice, however they fork and halt (engine.cc:19-60).               *)
THEOREM WalkIsInOrder == Spec => []WalkFollowsList
<1>1. IInv => WalkFollowsList
  BY DEF IInv
<1> QED
  BY <1>1, InductiveInvariant, PTL

(* A call of Engine::step that returns has stepped every machine that is   *)
(* then in the list (engine.cc:23).                                        *)
THEOREM EveryMachineIsStepped == Spec => NoMachineSkipped
<1>1. IInv /\ [Next]_vars => [StepEnd => ToSet(vms) \subseteq ToSet(stepped)]_vars
  BY StepEndSkipsNone
<1> QED
  BY <1>1, InductiveInvariant, PTL DEF Spec, NoMachineSkipped
-----------------------------------------------------------------------------
(* The output of the emulated kernel                                       *)

KernelFacts == KernelTypeOK /\ CallsAreNumbered /\ PathOutputIsKept

LEMMA KernelStepsAreEngineSteps == [KernelNext]_<<vars, kernelVars>> => [Next]_vars
<1> SUFFICES ASSUME KernelNext PROVE [Next]_vars
  OBVIOUS
<1>1. CASE syscall
  <2>1. ASSUME NEW fd \in Fds, NEW n \in 0 .. MaxCount, Write(fd, n) PROVE Next
    BY <2>1 DEF Write, Next, EngineStep
  <2>2. ASSUME NEW fd \in Fds, NEW lengths \in Lengths, Writev(fd, lengths) PROVE Next
    BY <2>2 DEF Writev, Next, EngineStep
  <2> QED
    BY <1>1, <2>1, <2>2 DEF syscall, LocalCall, Next, EngineStep
<1>2. CASE \E m \in VMs : Fork(m)
  BY <1>2 DEF Fork, Next, EngineStep
<1>3. CASE \E fd \in Fds : WritevThrows(fd)
  BY <1>3 DEF WritevThrows, Next
<1> QED
  BY <1>1, <1>2, <1>3 DEF KernelNext, KernelStep, WriteBeyondMemory, CallThrows, Next, EngineStep

LEMMA InitKernelIInv == KernelInit => KernelIInv
<1> SUFFICES ASSUME KernelInit PROVE KernelIInv
  OBVIOUS
<1>1. IInv
  BY InitIInv DEF KernelInit
<1>2. /\ files = [fd \in Fds |-> <<>>] /\ calls = 0 /\ vectored = {}
      /\ told = [m \in VMs |-> [fd \in Fds |-> 0]]
      /\ output = [m \in VMs |-> [fd \in Fds |-> <<>>]]
  BY DEF KernelInit
<1>3. KernelTypeOK
  BY <1>2 DEF KernelTypeOK
<1>4. ToSet(<<>>) = {}
  BY DEF ToSet
<1>5. CallsAreNumbered
  BY <1>2, <1>4 DEF CallsAreNumbered
<1>6. PathOutputIsKept
  <2>1. created \subseteq VMs
    BY <1>1 DEF IInv, TypeOK
  <2> QED
    BY <1>2, <1>4, <2>1, EmptySelection DEF PathOutputIsKept
<1> QED
  BY <1>1, <1>3, <1>5, <1>6 DEF KernelIInv

(* The bytes of a call, which no file and no path has yet.                 *)
LEMMA BytesAreFresh ==
    ASSUME KernelIInv, AtVM, NEW n \in Nat
    PROVE  /\ Bytes(n) \in Seq(VMs \X Nat) /\ Len(Bytes(n)) = n
           /\ \A i \in 1 .. n : Bytes(n)[i] = <<Current, calls + 1>>
           /\ ToSet(Bytes(n)) \subseteq {<<Current, calls + 1>>}
           /\ \A fd \in Fds :
                /\ <<Current, calls + 1>> \notin ToSet(files[fd])
                /\ \A m \in VMs : <<Current, calls + 1>> \notin ToSet(output[m][fd])
<1>1. Current \in VMs /\ calls \in Nat
  BY CurrentIsFresh DEF KernelIInv, KernelTypeOK, IInv, TypeOK
<1>2. <<Current, calls + 1>> \in VMs \X Nat /\ ~ (<<Current, calls + 1>>[2] <= calls)
  BY <1>1
<1>3. /\ Bytes(n) \in Seq(VMs \X Nat) /\ Len(Bytes(n)) = n
      /\ \A i \in 1 .. n : Bytes(n)[i] = <<Current, calls + 1>>
  BY <1>2 DEF Bytes
<1>4. ToSet(Bytes(n)) \subseteq {<<Current, calls + 1>>}
  BY <1>3, ToSetMembers
<1>5. CallsAreNumbered
  BY DEF KernelIInv
<1> QED
  BY <1>2, <1>3, <1>4, <1>5 DEF CallsAreNumbered

(* sys_write appends to the file and to the path alike; to the other paths *)
(* the bytes are nothing (kernel.cc:217).                                  *)
LEMMA WriteKernelFacts ==
    ASSUME KernelIInv, NEW fd \in Fds, NEW n \in 0 .. MaxCount, Write(fd, n)
    PROVE  KernelFacts'
<1> DEFINE b == Bytes(n)
           P == VMs \X Nat
<1>1. /\ AtVM /\ Counted /\ vectored' = vectored /\ created' = created
      /\ files' = [files EXCEPT ![fd] = @ \o b]
      /\ told' = [told EXCEPT ![Current][fd] = @ + n]
      /\ output' = [output EXCEPT ![Current][fd] = @ \o b]
  BY DEF Write, StepVM, Returns, Wrote
<1>2. n \in Nat /\ calls \in Nat /\ calls' = calls + 1
  BY KernelAssumption, <1>1 DEF KernelIInv, KernelTypeOK, Counted
<1>3. /\ b \in Seq(P) /\ Len(b) = n
      /\ \A i \in 1 .. n : b[i] = <<Current, calls + 1>>
      /\ ToSet(b) \subseteq {<<Current, calls + 1>>}
      /\ \A f \in Fds : /\ <<Current, calls + 1>> \notin ToSet(files[f])
                        /\ \A m \in VMs : <<Current, calls + 1>> \notin ToSet(output[m][f])
  BY <1>1, <1>2, BytesAreFresh
<1> HIDE DEF b
<1>4. /\ files \in [Fds -> Seq(P)] /\ told \in [VMs -> [Fds -> Nat]]
      /\ output \in [VMs -> [Fds -> Seq(P)]] /\ vectored \subseteq Fds
      /\ Current \in VMs /\ created \subseteq VMs
  BY <1>1, CurrentIsFresh DEF KernelIInv, KernelTypeOK, IInv, TypeOK
<1> HIDE DEF P
<1>5. \A f \in Fds : files'[f] = IF f = fd THEN files[f] \o b ELSE files[f]
  BY <1>1, <1>4
<1>6. \A m \in VMs : \A f \in Fds :
          /\ output'[m][f] = IF m = Current /\ f = fd THEN output[m][f] \o b ELSE output[m][f]
          /\ told'[m][f] = IF m = Current /\ f = fd THEN told[m][f] + n ELSE told[m][f]
  BY <1>1, <1>4
<1>7. \A s \in Seq(P) : s \o b \in Seq(P) /\ Len(s \o b) = Len(s) + n
  BY <1>3, ConcatElements
<1>8. KernelTypeOK'
  <2>1. files' \in [Fds -> Seq(P)]
    BY <1>1, <1>4, <1>7
  <2>2. told' \in [VMs -> [Fds -> Nat]]
    BY <1>1, <1>2, <1>4
  <2>3. output' \in [VMs -> [Fds -> Seq(P)]]
    BY <1>1, <1>4, <1>7
  <2> QED
    BY <1>1, <1>2, <1>4, <2>1, <2>2, <2>3 DEF KernelTypeOK, P
<1>9. \A s \in Seq(P) : ToSet(s \o b) = ToSet(s) \cup ToSet(b)
  BY <1>3, ToSetOfConcat
<1>10. CallsAreNumbered'
  <2>1. /\ \A f \in Fds : \A x \in ToSet(files[f]) : x[2] <= calls /\ x[2] \in Nat
        /\ \A m \in VMs, f \in Fds : \A x \in ToSet(output[m][f]) : x[2] <= calls /\ x[2] \in Nat
    <3>1. \A s \in Seq(P) : \A x \in ToSet(s) : x[2] \in Nat
      <4>1. \A s \in Seq(P) : ToSet(s) \subseteq P
        BY ToSetMembers
      <4> QED
        BY <4>1 DEF P
    <3> QED
      BY <1>4, <3>1 DEF KernelIInv, CallsAreNumbered
  <2>2. <<Current, calls + 1>>[2] <= calls + 1
    BY <1>2
  <2>3. ASSUME NEW f \in Fds, NEW x \in ToSet(files'[f]) PROVE x[2] <= calls + 1
    <3>1. x \in ToSet(files[f]) \/ x \in ToSet(b)
      BY <1>4, <1>5, <1>9, <2>3
    <3> QED
      BY <1>2, <1>3, <2>1, <2>2, <3>1
  <2>4. ASSUME NEW m \in VMs, NEW f \in Fds, NEW x \in ToSet(output'[m][f]) PROVE x[2] <= calls + 1
    <3>1. x \in ToSet(output[m][f]) \/ x \in ToSet(b)
      BY <1>4, <1>6, <1>9, <2>4
    <3> QED
      BY <1>2, <1>3, <2>1, <2>2, <3>1
  <2> QED
    BY <1>2, <2>3, <2>4 DEF CallsAreNumbered
<1>11. ASSUME NEW m \in created, NEW f \in Fds \ vectored
       PROVE  /\ IsSelection(output'[m][f], files'[f], ToSet(output'[m][f]))
              /\ Len(output'[m][f]) = told'[m][f]
  <2>1. /\ IsSelection(output[m][f], files[f], ToSet(output[m][f]))
        /\ Len(output[m][f]) = told[m][f]
    BY DEF KernelIInv, PathOutputIsKept
  <2>2. /\ m \in VMs /\ f \in Fds /\ output[m][f] \in Seq(P) /\ files[f] \in Seq(P)
    BY <1>4
  <2>3. CASE f # fd
    BY <1>5, <1>6, <2>1, <2>2, <2>3
  <2>4. CASE f = fd /\ m # Current
    <3>1. /\ files'[f] = files[f] \o b /\ output'[m][f] = output[m][f] /\ told'[m][f] = told[m][f]
      BY <1>5, <1>6, <2>2, <2>4
    <3>2. \A i \in 1 .. Len(b) : b[i] \notin ToSet(output[m][f])
      BY <1>3, <2>2
    <3>3. IsSelection(output[m][f], files[f] \o b, ToSet(output[m][f]))
      BY <1>3, <2>1, <2>2, <3>2, SelectionSkips
    <3> QED
      BY <2>1, <3>1, <3>3
  <2>5. CASE f = fd /\ m = Current
    <3>1. /\ files'[f] = files[f] \o b /\ output'[m][f] = output[m][f] \o b
          /\ told'[m][f] = told[m][f] + n
      BY <1>5, <1>6, <2>2, <2>5
    <3> DEFINE R == ToSet(output[m][f]) \cup ToSet(b)
    <3>2. ToSet(output'[m][f]) = R
      BY <1>9, <2>2, <3>1
    <3>3. \A x \in ToSet(files[f]) : x \in ToSet(output[m][f]) <=> x \in R
      BY <1>3, <2>2
    <3>4. \A i \in 1 .. Len(b) : b[i] \in R
      BY <1>3, ToSetMembers
    <3> HIDE DEF R
    <3>5. IsSelection(output[m][f], files[f], R)
      BY <2>1, <2>2, <3>3, SameSelection
    <3>6. IsSelection(output[m][f] \o b, files[f] \o b, R)
      BY <1>3, <2>2, <3>4, <3>5, SelectionGrows
    <3>7. Len(output[m][f] \o b) = told[m][f] + n
      BY <1>7, <2>1, <2>2
    <3> QED
      BY <3>1, <3>2, <3>6, <3>7
  <2> QED
    BY <2>3, <2>4, <2>5
<1> QED
  BY <1>1, <1>8, <1>10, <1>11 DEF KernelFacts, PathOutputIsKept

(* sys_writev leaves the files it has not opened alone (kernel.cc:240).    *)
LEMMA WritevKernelFacts ==
    ASSUME KernelIInv, NEW fd \in Fds, NEW lengths \in Lengths, Writev(fd, lengths)
    PROVE  KernelFacts'
<1> DEFINE first == IF lengths = <<>> THEN 0 ELSE lengths[1]
           n == Len(lengths) * first
           P == VMs \X Nat
<1>1. /\ AtVM /\ Counted /\ vectored' = vectored \cup {fd} /\ created' = created
      /\ files' = [files EXCEPT ![fd] = Bytes(n)]
      /\ told' = [told EXCEPT ![Current][fd] = @ + n]
      /\ output' = [output EXCEPT ![Current][fd] = @ \o Bytes(n)]
  BY DEF Writev, StepVM, Returns, Wrote
<1>2. n \in Nat
  <2>1. PICK k \in 0 .. MaxBuffers : lengths \in [1 .. k -> 0 .. MaxCount]
    BY DEF Lengths
  <2>2. k \in Nat /\ 0 .. MaxCount \subseteq Nat
    BY KernelAssumption
  <2>3. lengths \in Seq(Nat)
    BY <2>1, <2>2
  <2>4. Len(lengths) \in Nat /\ first \in Nat
    BY <2>3
  <2> HIDE DEF first
  <2> QED
    BY <2>4
<1> HIDE DEF first, n
<1>3. calls \in Nat /\ calls' = calls + 1
  BY <1>1 DEF KernelIInv, KernelTypeOK, Counted
<1> DEFINE b == Bytes(n)
<1>4. /\ b \in Seq(P) /\ Len(b) = n
      /\ ToSet(b) \subseteq {<<Current, calls + 1>>}
  BY <1>1, <1>2, BytesAreFresh
<1>5. /\ files' = [files EXCEPT ![fd] = b]
      /\ output' = [output EXCEPT ![Current][fd] = @ \o b]
  BY <1>1
<1> HIDE DEF b
<1>6. /\ files \in [Fds -> Seq(P)] /\ told \in [VMs -> [Fds -> Nat]]
      /\ output \in [VMs -> [Fds -> Seq(P)]] /\ vectored \subseteq Fds
      /\ Current \in VMs /\ created \subseteq VMs
  BY <1>1, CurrentIsFresh DEF KernelIInv, KernelTypeOK, IInv, TypeOK
<1> HIDE DEF P
<1>7. \A f \in Fds : files'[f] = IF f = fd THEN b ELSE files[f]
  BY <1>5, <1>6
<1>8. \A m \in VMs : \A f \in Fds :
          /\ output'[m][f] = IF m = Current /\ f = fd THEN output[m][f] \o b ELSE output[m][f]
          /\ told'[m][f] = IF m = Current /\ f = fd THEN told[m][f] + n ELSE told[m][f]
  BY <1>1, <1>5, <1>6
<1>9. \A s \in Seq(P) : s \o b \in Seq(P) /\ ToSet(s \o b) = ToSet(s) \cup ToSet(b)
  BY <1>4, ToSetOfConcat
<1>10. KernelTypeOK'
  <2>1. files' \in [Fds -> Seq(P)]
    BY <1>4, <1>5, <1>6
  <2>2. told' \in [VMs -> [Fds -> Nat]]
    BY <1>1, <1>2, <1>6
  <2>3. output' \in [VMs -> [Fds -> Seq(P)]]
    BY <1>5, <1>6, <1>9
  <2> QED
    BY <1>1, <1>3, <1>6, <2>1, <2>2, <2>3 DEF KernelTypeOK, P
<1>11. CallsAreNumbered'
  <2>1. /\ \A f \in Fds : \A x \in ToSet(files[f]) : x[2] <= calls /\ x[2] \in Nat
        /\ \A m \in VMs, f \in Fds : \A x \in ToSet(output[m][f]) : x[2] <= calls /\ x[2] \in Nat
    <3>1. \A s \in Seq(P) : \A x \in ToSet(s) : x[2] \in Nat
      <4>1. \A s \in Seq(P) : ToSet(s) \subseteq P
        BY ToSetMembers
      <4> QED
        BY <4>1 DEF P
    <3> QED
      BY <1>6, <3>1 DEF KernelIInv, CallsAreNumbered
  <2>2. <<Current, calls + 1>>[2] <= calls + 1
    BY <1>3
  <2>3. ASSUME NEW f \in Fds, NEW x \in ToSet(files'[f]) PROVE x[2] <= calls + 1
    <3>1. x \in ToSet(files[f]) \/ x \in ToSet(b)
      BY <1>6, <1>7, <2>3
    <3> QED
      BY <1>3, <1>4, <2>1, <2>2, <3>1
  <2>4. ASSUME NEW m \in VMs, NEW f \in Fds, NEW x \in ToSet(output'[m][f]) PROVE x[2] <= calls + 1
    <3>1. x \in ToSet(output[m][f]) \/ x \in ToSet(b)
      BY <1>6, <1>8, <1>9, <2>4
    <3> QED
      BY <1>3, <1>4, <2>1, <2>2, <3>1
  <2> QED
    BY <1>3, <2>3, <2>4 DEF CallsAreNumbered
<1>12. ASSUME NEW m \in created, NEW f \in Fds \ vectored'
       PROVE  /\ IsSelection(output'[m][f], files'[f], ToSet(output'[m][f]))
              /\ Len(output'[m][f]) = told'[m][f]
  <2>1. /\ f \in Fds \ vectored /\ f # fd /\ m \in VMs
    BY <1>1, <1>6
  <2>2. files'[f] = files[f] /\ output'[m][f] = output[m][f] /\ told'[m][f] = told[m][f]
    BY <1>7, <1>8, <2>1
  <2> QED
    BY <2>1, <2>2 DEF KernelIInv, PathOutputIsKept
<1> QED
  BY <1>1, <1>10, <1>11, <1>12 DEF KernelFacts, PathOutputIsKept

LEMMA WritevThrowsKernelFacts ==
    ASSUME KernelIInv, NEW fd \in Fds, WritevThrows(fd)
    PROVE  KernelFacts'
<1>1. /\ files' = [files EXCEPT ![fd] = <<>>] /\ vectored' = vectored \cup {fd}
      /\ UNCHANGED <<told, calls, output, created>>
  BY DEF WritevThrows, StepThrow
<1>2. /\ KernelTypeOK /\ CallsAreNumbered /\ PathOutputIsKept
  BY DEF KernelIInv
<1>3. KernelTypeOK'
  BY <1>1, <1>2 DEF KernelTypeOK
<1>4. \A f \in Fds : files'[f] = IF f = fd THEN <<>> ELSE files[f]
  BY <1>1, <1>2 DEF KernelTypeOK
<1>5. ToSet(<<>>) = {}
  BY DEF ToSet
<1>6. CallsAreNumbered'
  BY <1>1, <1>2, <1>4, <1>5 DEF CallsAreNumbered
<1>7. PathOutputIsKept'
  BY <1>1, <1>2, <1>4 DEF PathOutputIsKept
<1> QED
  BY <1>3, <1>6, <1>7 DEF KernelFacts

(* The child's path is its parent's so far (vm.cc:137).                    *)
LEMMA ForkKernelFacts ==
    ASSUME KernelIInv, NEW m \in VMs, Fork(m)
    PROVE  KernelFacts'
<1>1. /\ output' = [output EXCEPT ![m] = output[Current]]
      /\ told' = [told EXCEPT ![m] = told[Current]]
      /\ created' = created \cup {m} /\ AtVM
      /\ UNCHANGED <<files, calls, vectored>>
  BY DEF Fork, StepFork
<1>2. /\ KernelTypeOK /\ CallsAreNumbered /\ PathOutputIsKept
  BY DEF KernelIInv
<1>3. Current \in created /\ created \subseteq VMs
  BY <1>1, CurrentIsFresh DEF KernelIInv, IInv, TypeOK
<1>4. \A k \in VMs : /\ output'[k] = IF k = m THEN output[Current] ELSE output[k]
                     /\ told'[k] = IF k = m THEN told[Current] ELSE told[k]
  BY <1>1, <1>2, <1>3 DEF KernelTypeOK
<1>5. KernelTypeOK'
  BY <1>1, <1>2, <1>3 DEF KernelTypeOK
<1>6. CallsAreNumbered'
  BY <1>1, <1>2, <1>3, <1>4 DEF CallsAreNumbered
<1>7. PathOutputIsKept'
  BY <1>1, <1>2, <1>3, <1>4 DEF PathOutputIsKept
<1> QED
  BY <1>5, <1>6, <1>7 DEF KernelFacts

LEMMA NextKernelIInv == KernelIInv /\ [KernelNext]_<<vars, kernelVars>> => KernelIInv'
<1> SUFFICES ASSUME KernelIInv, [KernelNext]_<<vars, kernelVars>> PROVE KernelIInv'
  OBVIOUS
<1>1. IInv'
  BY KernelStepsAreEngineSteps, NextIInv DEF KernelIInv
<1>2. ASSUME UNCHANGED <<kernelVars, created>> PROVE KernelFacts'
  BY <1>2 DEF KernelIInv, KernelFacts, KernelTypeOK, CallsAreNumbered, PathOutputIsKept, kernelVars
<1>3. KernelFacts'
  <2>1. CASE UNCHANGED <<vars, kernelVars>>
    BY <1>2, <2>1 DEF vars
  <2>2. CASE LocalCall \/ WriteBeyondMemory \/ CallThrows
    BY <1>2, <2>2 DEF LocalCall, WriteBeyondMemory, CallThrows, StepVM, StepThrow
  <2>3. CASE (StepBegin \/ StepHlt \/ StepEnd \/ Quit) /\ UNCHANGED kernelVars
    BY <1>2, <2>3 DEF StepBegin, StepHlt, StepEnd, Quit
  <2> QED
    BY <2>1, <2>2, <2>3, WriteKernelFacts, WritevKernelFacts, WritevThrowsKernelFacts,
       ForkKernelFacts DEF KernelNext, KernelStep, syscall
<1> QED
  BY <1>1, <1>3 DEF KernelIInv, KernelFacts

(* KernelIInv is an inductive invariant of the engine with its system      *)
(* calls.                                                                  *)
THEOREM KernelIsInductive == KernelSpec => []KernelIInv
BY InitKernelIInv, NextKernelIInv, PTL DEF KernelSpec

(* A file that no machine writes by vector has all that each path wrote to *)
(* it, in order, and as much as the guest was told (kernel.cc:217).        *)
THEOREM OutputIsKept == KernelSpec => []PathOutputIsKept
<1>1. KernelIInv => PathOutputIsKept
  BY DEF KernelIInv
<1> QED
  BY <1>1, KernelIsInductive, PTL

(* With its system calls the engine is still the engine: what is proved of *)
(* Spec holds of KernelSpec.                                               *)
THEOREM KernelKeepsTheWalk == KernelSpec => [](WalkFollowsList) /\ NoMachineSkipped
<1>1. KernelIInv => IInv /\ WalkFollowsList
  BY DEF KernelIInv, IInv
<1>2. KernelIInv /\ [KernelNext]_<<vars, kernelVars>>
      => [StepEnd => ToSet(vms) \subseteq ToSet(stepped)]_vars
  BY <1>1, StepEndSkipsNone
<1> QED
  BY <1>1, <1>2, KernelIsInductive, PTL DEF KernelSpec, NoMachineSkipped
=============================================================================
