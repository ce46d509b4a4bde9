-------------------------- MODULE PathExploration ---------------------------
(***************************************************************************)
(* Symbolic execution proper: machines (vm.cc) that meet conditional       *)
(* branches on input they do not know, the solver they ask                 *)
(* (SymbolicValue::sv_assert, symbolicvalue.cc), and the engine that runs  *)
(* the machines a branch forks (Engine).                                   *)
(*                                                                         *)
(* The unknown input is one of Inputs.  A program is a sequence of         *)
(* conditional branches, each forward, and ends in a jump to itself; the   *)
(* condition of a branch is the set of inputs on which it is true together *)
(* with the kind of value the machine computes it as.  Every program is an *)
(* initial state.                                                          *)
(*                                                                         *)
(* The expressions of conditions and assertions keep their meaning here.   *)
(* When the program deletes them too early is the subject of SymbolicHeap; *)
(* what forks share of their memories is the subject of CowMemory.         *)
(***************************************************************************)
EXTENDS Naturals, Sequences, FiniteSets

CONSTANTS
    MaxVMs,    \* bound: machines the engine may hold; no program here needs more
    Inputs,    \* what the guest may read from its standard input
    Names,     \* the unknowns the readings of the input are to the solver
    Branches   \* branches in a program

ASSUME PathExplorationAssumption ==
    /\ MaxVMs \in Nat \ {0} /\ Branches \in Nat
    /\ Inputs # {}

VMs  == 1 .. MaxVMs
Root == 1
End  == {Branches + 1, Branches + 2}
PCs  == 1 .. Branches + 2
Lost == 0    \* no address: where the run on an input is that is lost

VARIABLES
    process, vms, it, created, stepped,  \* the engine
    program,      \* the branches of the guest program
    pc,           \* UD_R_RIP of every machine
    assertions,   \* VM::assertions, as a set
    trace         \* history: the addresses every machine has been at

engineVars == <<process, vms, it, created, stepped>>
pathVars   == <<program, pc, assertions, trace>>
vars       == <<engineVars, pathVars>>

E == INSTANCE Engine

(* What a condition may be.  One that is not wild is the same on every     *)
(* input.  A wild value of the arithmetic and bitwise operations is        *)
(* translated node by node, over the name its reading of the input has.  A *)
(* comparison, or what is made of comparisons, is translated to a          *)
(* constant, its answer: contextCmp asks whether a comparison can hold at  *)
(* all and puts 1 or 0 in its place, so that the answer of a combination   *)
(* may be either, whatever holds.  On a value whose operands have          *)
(* different widths Z3 throws, and what would hold does not matter.        *)
Conditions ==
    [kind : {"concrete"}, holds : {{}, Inputs}]
    \cup [kind : {"bits"}, holds : SUBSET Inputs, name : Names]
    \cup [kind : {"compared"}, holds : SUBSET Inputs, answer : BOOLEAN]
    \cup [kind : {"unsorted"}, holds : {{}}]

Programs ==
    {p \in [1 .. Branches -> [cond : Conditions, to : PCs]] :
        \A k \in 1 .. Branches : p[k].to > k + 1}

Init ==
    /\ E!Init
    /\ program \in Programs
    /\ pc = [m \in VMs |-> 1]
    /\ assertions = [m \in VMs |-> {}]
    /\ trace = [m \in VMs |-> <<1>>]
-----------------------------------------------------------------------------
(* The solver                                                              *)

(* Mutant: a solver that takes the true branch of every condition that is  *)
(* not a comparison for granted.                                           *)
SaysTrue(f, c) == IF c.kind = "bits" THEN TRUE ELSE c.answer

(* What the formula SymbolicValue::context builds for "the condition is 1" *)
(* says of the values f of the names.                                      *)
Says(f, c) == IF c.kind = "bits" THEN f[c.name] \in c.holds ELSE c.answer

Satisfies(f, given) == \A a \in given : Says(f, a.cond) = a.value

(* sv_assert: the condition can have the value, given the assertions.  To  *)
(* the solver the names are independent, whatever input the guest read.    *)
sv_assert(c, value, given) ==
    \E f \in [Names -> Inputs] : Satisfies(f, given) /\ Says(f, c) = value
-----------------------------------------------------------------------------
(* One step of a machine, inside one round of the engine                   *)

Current == vms[it]
Branch  == program[pc[Current]]
MayBe(value) == sv_assert(Branch.cond, value, assertions[Current])
Asserted(value) == assertions[Current] \cup {[cond |-> Branch.cond, value |-> value]}

AtBranch == E!AtVM /\ pc[Current] \notin End
AtWild   == AtBranch /\ Branch.cond.kind \in {"bits", "compared"}

(* The machine goes on alone at address a, knowing what known says.        *)
GoTo(a, known) ==
    /\ E!StepVM
    /\ pc' = [pc EXCEPT ![Current] = a]
    /\ trace' = [trace EXCEPT ![Current] = Append(@, a)]
    /\ assertions' = [assertions EXCEPT ![Current] = known]
    /\ UNCHANGED program

(* Brc on a condition that is not wild.                                    *)
BrcConcrete ==
    /\ AtBranch
    /\ Branch.cond.kind = "concrete"
    /\ GoTo(IF Branch.cond.holds = Inputs THEN Branch.to ELSE pc[Current] + 1,
            assertions[Current])

(* Mutant: the machine is copied after it has jumped.                      *)
BrcForkAfterJump ==
    /\ AtWild
    /\ MayBe(TRUE) /\ MayBe(FALSE)
    /\ LET child == Cardinality(created) + 1 IN
        /\ child \in VMs
        /\ E!StepFork(child)
        /\ pc' = [pc EXCEPT ![child] = Branch.to, ![Current] = Branch.to]
        /\ trace' = [trace EXCEPT
                        ![child] = Append(trace[Current], Branch.to),
                        ![Current] = Append(@, Branch.to)]
        /\ assertions' = [assertions EXCEPT
                              ![child] = {[cond |-> Branch.cond, value |-> FALSE]},
                              ![Current] = Asserted(TRUE)]
    /\ UNCHANGED program

(* Mutant: the assertions of the two machines are exchanged.               *)
BrcForkExchanged ==
    /\ AtWild
    /\ MayBe(TRUE) /\ MayBe(FALSE)
    /\ LET child == Cardinality(created) + 1 IN
        /\ child \in VMs
        /\ E!StepFork(child)
        /\ pc' = [pc EXCEPT ![child] = pc[Current] + 1, ![Current] = Branch.to]
        /\ trace' = [trace EXCEPT
                        ![child] = Append(trace[Current], pc[Current] + 1),
                        ![Current] = Append(@, Branch.to)]
        /\ assertions' = [assertions EXCEPT
                              ![child] = {[cond |-> Branch.cond, value |-> TRUE]},
                              ![Current] = Asserted(FALSE)]
    /\ UNCHANGED program

(* Brc, both outcomes possible: new_copy makes the machine of the false    *)
(* branch, which is given its one assertion and none of its parent's; this *)
(* machine asserts the condition and jumps.                                *)
BrcFork ==
    /\ AtWild
    /\ MayBe(TRUE) /\ MayBe(FALSE)
    /\ LET child == Cardinality(created) + 1 IN
        /\ child \in VMs
        /\ E!StepFork(child)
        /\ pc' = [pc EXCEPT ![child] = pc[Current] + 1, ![Current] = Branch.to]
        /\ trace' = [trace EXCEPT
                        ![child] = Append(trace[Current], pc[Current] + 1),
                        ![Current] = Append(@, Branch.to)]
        /\ assertions' = [assertions EXCEPT
                              ![child] = {[cond |-> Branch.cond, value |-> FALSE]},
                              ![Current] = Asserted(TRUE)]
    /\ UNCHANGED program

(* Brc, the true branch not possible.  The machine falls through, and      *)
(* asserts nothing if the false branch is not possible either.             *)
BrcFalse ==
    /\ AtWild
    /\ ~MayBe(TRUE)
    /\ GoTo(pc[Current] + 1, IF MayBe(FALSE) THEN Asserted(FALSE) ELSE assertions[Current])

(* Mutant: a machine whose branch can only be taken does not take it and   *)
(* comes back to it.                                                       *)
BrcTrueStays ==
    /\ AtWild
    /\ MayBe(TRUE) /\ ~MayBe(FALSE)
    /\ E!StepVM
    /\ UNCHANGED pathVars

(* Brc, only the true branch possible.                                     *)
BrcTrue ==
    /\ AtWild
    /\ MayBe(TRUE) /\ ~MayBe(FALSE)
    /\ GoTo(Branch.to, Asserted(TRUE))

(* Brc, no formula can be built: Z3 throws, and main has no handler.       *)
BrcThrows ==
    /\ AtBranch
    /\ Branch.cond.kind = "unsorted"
    /\ E!StepThrow
    /\ UNCHANGED pathVars

(* Mutant: a jump to itself that goes on to the next instruction.          *)
LoopFallsThrough ==
    /\ E!AtVM /\ pc[Current] \in End
    /\ E!StepVM
    /\ pc' = [pc EXCEPT ![Current] = @ + 1]
    /\ UNCHANGED <<program, assertions, trace>>

(* The end of the program: a jump to itself.                               *)
Loop ==
    /\ E!AtVM /\ pc[Current] \in End
    /\ E!StepVM
    /\ UNCHANGED pathVars

Next ==
    \/ E!StepBegin /\ UNCHANGED pathVars
    \/ E!StepEnd /\ UNCHANGED pathVars
    \/ BrcConcrete
    \/ BrcFork
    \/ BrcFalse
    \/ BrcTrue
    \/ BrcThrows
    \/ Loop

Spec == Init /\ [][Next]_vars /\ WF_vars(Next)
-----------------------------------------------------------------------------
(* The inputs on which the program, run natively, takes m's path.          *)

Successor(a, i) ==
    IF a \in End THEN a
    ELSE IF i \in program[a].cond.holds THEN program[a].to ELSE a + 1

(* Up to its k-th address, t is the run on input i.                        *)
RunsAlong(t, k, i) == \A j \in 1 .. k - 1 : t[j + 1] = Successor(t[j], i)

Followers(m) == {i \in Inputs : RunsAlong(trace[m], Len(trace[m]), i)}

(* Input i has the outcome that the constant put in the place of the       *)
(* comparison c rules out.                                                 *)
Excluded(c, i) == c.kind = "compared" /\ (i \in c.holds) # c.answer

(* m was on the run on input i up to a branch on such a comparison.        *)
LeftBehind(m, i) ==
    \E k \in 1 .. Len(trace[m]) - 1 :
        RunsAlong(trace[m], k, i) /\ Excluded(program[trace[m][k]].cond, i)

(* Nothing else is lost (vm.cc:302): whatever the input is, there is a     *)
(* machine on the path that input takes, or one that was on it up to a     *)
(* branch on a comparison whose constant rules the input's outcome out.    *)
(* No input is lost by a fork, by what a machine has asserted, nor by what *)
(* the machine of a false branch does not inherit.                         *)
LostOnlyAtComparisons ==
    \A i \in Inputs : \E m \in created : i \in Followers(m) \/ LeftBehind(m, i)

(* Nothing is done twice (vm.cc:302): no two machines of the engine follow *)
(* the same input.                                                         *)
PathsAreDisjoint ==
    \A m, n \in created : m # n => Followers(m) \cap Followers(n) = {}

(* What a machine assumes of the input is true of every input on its path, *)
(* so that an outcome the solver rules out is one no such input has.       *)
AssertionsHold ==
    \A m \in created : \A i \in Followers(m) : \A a \in assertions[m] :
        (i \in a.cond.holds) = a.value

TypeOK ==
    /\ created \subseteq VMs /\ vms \in Seq(created) /\ it \in Nat
    /\ program \in Programs
    /\ pc \in [VMs -> PCs] /\ trace \in [VMs -> Seq(PCs)]
    /\ assertions \in [VMs -> SUBSET [cond : Conditions, value : BOOLEAN]]

TracesEndAtPC ==
    \A m \in created : trace[m] # <<>> /\ trace[m][Len(trace[m])] = pc[m]

(* The solver finds the assertions possible, so that one of the outcomes   *)
(* of the next branch is.                                                  *)
Possible(given) ==
    /\ \A a \in given : a.cond.kind \in {"bits", "compared"}
    /\ \E f \in [Names -> Inputs] : Satisfies(f, given)

AssertionsArePossible == \A m \in created : Possible(assertions[m])

(* The inductive strengthening the proofs use.                             *)
IInv ==
    /\ TypeOK /\ TracesEndAtPC /\ AssertionsArePossible
    /\ LostOnlyAtComparisons /\ PathsAreDisjoint /\ AssertionsHold

(* The machines together are the native run of the program on every input, *)
(* up to the comparison that loses it.                                     *)
at ==
    [i \in Inputs |->
        IF \E m \in created : i \in Followers(m)
        THEN pc[CHOOSE m \in created : i \in Followers(m)] ELSE Lost]

Native == INSTANCE NativeExecution

(* Exploration implements the native runs (vm.cc:290, engine.cc:19): each  *)
(* input goes where the program would send it on a processor, however the  *)
(* inputs are divided among machines, and is lost exactly when it meets a  *)
(* comparison whose constant rules its outcome out.                        *)
ExploresNativeRuns == Native!Spec

(* Whatever the input is, the machine that follows it reaches the end of   *)
(* the program, a comparison loses it, or an ill-sorted condition ends the *)
(* process (engine.cc:19, vm.cc:194).                                      *)
EveryInputFinishes ==
    \A i \in Inputs : <>(process = "terminated" \/ Native!Finished(i))
=============================================================================
