---------------------------- MODULE SymbolicHeap ----------------------------
(***************************************************************************)
(* Who owns the expressions of the virtual machines (symbolicvalue.cc).    *)
(* A SymbolicValue that is not a leaf points to its two operands, which    *)
(* are allocated and deleted together; they are one Node here.  operator=  *)
(* deletes the operands of its left side and copies those of its right     *)
(* side in depth; the copy constructor, which the compiler generates,      *)
(* copies the pointers; the destructor does nothing.  The variables of a   *)
(* machine are written by operator=; temporaries, the assertions of a      *)
(* machine and the variables of a fork are made by the copy constructor.   *)
(*                                                                         *)
(* Operands below the first two are never deleted: delete runs the empty   *)
(* destructor, and they leak with every pair above them; they are no Nodes *)
(* here.  A Node is not used again after its deletion, so that a use of a  *)
(* deleted one can be seen.                                                *)
(* The bytes of Memory::symbolic_memory are written by operator= as the    *)
(* variables are; a fork drops them (CowMemory), and they are left out.    *)
(***************************************************************************)
EXTENDS FiniteSets

CONSTANTS
    VMs,     \* the machines
    Root,    \* the machine the engine starts with
    Vars,    \* identifiers: registers, flags and the translator's temporaries
    Nodes,   \* bound: pairs of operands that may be allocated
    NULL     \* the pointer of a leaf: a constant, or an input byte itself

ASSUME SymbolicHeapAssumption == Root \in VMs /\ NULL \notin Nodes

VARIABLES
    alive,       \* the machines that exist
    variables,   \* VM::variables: the operands every variable points to
    assertions,  \* VM::assertions: the operands their conditions point to
    status,      \* a Node: "unused", "allocated", "deleted"
    fault,       \* deleted operands have been read, or deleted once more
    results      \* history: what the constructor of a result has allocated

vars == <<alive, variables, assertions, status, fault, results>>

Fresh     == {n \in Nodes : status[n] = "unused"}
Intact(n) == n = NULL \/ status[n] = "allocated"

Init ==
    /\ alive = {Root}
    /\ variables = [m \in VMs |-> [v \in Vars |-> NULL]]
    /\ assertions = [m \in VMs |-> {}]
    /\ status = [n \in Nodes |-> "unused"]
    /\ fault = FALSE
    /\ results = {}
-----------------------------------------------------------------------------
(* What becomes of the program when it uses operands that are deleted is   *)
(* not modelled further.                                                   *)
Fault ==
    /\ fault' = TRUE
    /\ UNCHANGED <<alive, variables, assertions, status, results>>

(* Mutant: operator= without the deletes.                                  *)
ReplaceLeaks(m, d, n, made) ==
    /\ variables' = [variables EXCEPT ![m][d] = n]
    /\ status' = [x \in Nodes |-> IF x \in made \cup {n} THEN "allocated" ELSE status[x]]
    /\ results' = results \cup made
    /\ UNCHANGED <<alive, assertions, fault>>

(* operator= leaves variable d with operands n, new ones or none, and its  *)
(* former operands deleted.  Its right side is a temporary that has made   *)
(* operands of its own, or none; its destructor does not delete them.      *)
Replace(m, d, n, made) ==
    /\ variables' = [variables EXCEPT ![m][d] = n]
    /\ status' = [x \in Nodes |-> IF x \in made \cup {n} THEN "allocated"
                                  ELSE IF x = variables[m][d] THEN "deleted"
                                  ELSE status[x]]
    /\ results' = results \cup made
    /\ UNCHANGED <<alive, assertions, fault>>

(* d = a op b with a wild operand: the constructor of the result allocates *)
(* a pair and copies both operands into it in depth, operator= allocates   *)
(* another and copies the result's into it.                                *)
Compute(m, d, a, b) ==
    /\ m \in alive /\ ~fault
    /\ IF Intact(variables[m][a]) /\ Intact(variables[m][b]) /\ Intact(variables[m][d])
       THEN \E r, n \in Fresh : r # n /\ Replace(m, d, n, {r})
       ELSE Fault

(* d = a constant, or a load of a byte that is an input or is concrete.    *)
ComputeLeaf(m, d) ==
    /\ m \in alive /\ ~fault
    /\ IF Intact(variables[m][d]) THEN Replace(m, d, NULL, {}) ELSE Fault

(* Mutant: operator= copies the pointer, as the copy constructor does.     *)
AssignShallow(m, d, s) ==
    /\ m \in alive /\ ~fault
    /\ IF Intact(variables[m][s]) /\ Intact(variables[m][d])
       THEN Replace(m, d, variables[m][s], {})
       ELSE Fault

(* d = s, or its extension or sign extension, through a temporary that     *)
(* points to the operands of s.  operator= deletes the operands of d       *)
(* before it copies those of the temporary, which for d = s are the same.  *)
Assign(m, d, s) ==
    /\ m \in alive /\ ~fault
    /\ LET from == variables[m][s]
           to   == variables[m][d]
       IN CASE ~Intact(from) \/ ~Intact(to) -> Fault
            [] from = NULL                  -> Replace(m, d, NULL, {})
            [] from # NULL /\ d = s         -> Fault
            [] OTHER                        -> \E n \in Fresh : Replace(m, d, n, {})

(* Brc on variable c: sv_assert translates the condition and every         *)
(* assertion, and the condition joins the assertions of the machine.       *)
Solvable(m, c) == \A n \in assertions[m] \cup {variables[m][c]} : Intact(n)
Asserted(m, c) == {variables[m][c]} \ {NULL}

Branch(m, c) ==
    /\ m \in alive /\ ~fault
    /\ IF Solvable(m, c)
       THEN /\ assertions' = [assertions EXCEPT ![m] = @ \cup Asserted(m, c)]
            /\ UNCHANGED <<alive, variables, status, fault, results>>
       ELSE Fault

(* Brc with both outcomes possible: new_copy gives machine n the variables *)
(* of m, copied by the copy constructor.                                   *)
Fork(m, n, c) ==
    /\ m \in alive /\ ~fault
    /\ n \notin alive
    /\ IF Solvable(m, c)
       THEN /\ alive' = alive \cup {n}
            /\ variables' = [variables EXCEPT ![n] = variables[m]]
            /\ assertions' = [assertions EXCEPT ![n] = Asserted(m, c),
                                                ![m] = @ \cup Asserted(m, c)]
            /\ UNCHANGED <<status, fault, results>>
       ELSE Fault

Straight(m) ==
    \/ \E d, a, b \in Vars : Compute(m, d, a, b)
    \/ \E d \in Vars : ComputeLeaf(m, d)
    \/ \E d, s \in Vars : d # s /\ Assign(m, d, s)
Extension(m) == \E d \in Vars : Assign(m, d, d)
Branches(m)  == \E c \in Vars : Branch(m, c)
Forks(m)     == \E n \in VMs, c \in Vars : Fork(m, n, c)

Next == \E m \in VMs : Straight(m) \/ Extension(m) \/ Branches(m) \/ Forks(m)

Spec == Init /\ [][Next]_vars
-----------------------------------------------------------------------------
(* operator= (symbolicvalue.cc:91): no two variables of a machine ever     *)
(* point to the same operands, whatever branches and forks there are.      *)
OwnedOnce ==
    \A m \in alive : \A v, w \in Vars :
        variables[m][v] = variables[m][w] /\ variables[m][v] # NULL => v = w

(* What a variable of a machine points to has not been deleted             *)
(* (symbolicvalue.cc:99, vm.cc:186).                                       *)
VariablesAreIntact ==
    \A m \in alive, v \in Vars : Intact(variables[m][v])

(* The same until the first fork, whatever one machine computes, extends   *)
(* and asserts.                                                            *)
IntactUntilFork == alive = {Root} => VariablesAreIntact

Owned(n) == \E m \in alive, v \in Vars : variables[m][v] = n

(* What nobody will ever delete is exactly what the results of operations  *)
(* have been given by their constructor, one pair for every computation    *)
(* (symbolicvalue.cc:76, symbolicvalue.cc:82): none of those is ever       *)
(* deleted or owned, and operator= leaves nothing else behind              *)
(* (symbolicvalue.cc:98).                                                  *)
LostAreResults == {n \in Nodes : status[n] = "allocated" /\ ~Owned(n)} = results

(* The inductive strengthening the proofs use.                             *)
TypeOK ==
    /\ Root \in alive /\ alive \subseteq VMs
    /\ variables \in [VMs -> [Vars -> Nodes \cup {NULL}]]
    /\ assertions \in [VMs -> SUBSET Nodes]
    /\ status \in [Nodes -> {"unused", "allocated", "deleted"}]
    /\ fault \in BOOLEAN /\ results \subseteq Nodes

FreshIsUnknown ==
    \A n \in Fresh : /\ \A m \in VMs, v \in Vars : variables[m][v] # n
                     /\ \A m \in VMs : n \notin assertions[m]

IInv == TypeOK /\ FreshIsUnknown /\ OwnedOnce /\ IntactUntilFork /\ LostAreResults
=============================================================================
