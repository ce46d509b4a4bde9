-------------------------- MODULE NativeExecution ---------------------------
(***************************************************************************)
(* What exploring a program can at most be for a machine that puts a       *)
(* constant in the place of a comparison: for every input at once, the run *)
(* the program would make on a processor, until it meets a branch on a     *)
(* comparison whose constant rules out the outcome the input has.  There   *)
(* the input is lost.  A step moves the inputs that share a path; a set of *)
(* any size, since how inputs are grouped into machines is nothing the     *)
(* program can tell.                                                       *)
(***************************************************************************)
EXTENDS Naturals

CONSTANTS
    Inputs,    \* what the program may read
    End,       \* the addresses of its final jumps to themselves
    Lost       \* no address: the place of an input that is lost

VARIABLES
    program,   \* the branches: program[a].cond and program[a].to
    at         \* where the run on each input is

Finished(i) == at[i] \in End \cup {Lost}

(* The constant in the place of the condition rules out what holds of i.   *)
Excluded(c, i) == c.kind = "compared" /\ (i \in c.holds) # c.answer

(* The address after a on input i.                                         *)
Successor(a, i) ==
    IF a \in End \cup {Lost} THEN a
    ELSE IF Excluded(program[a].cond, i) THEN Lost
    ELSE IF i \in program[a].cond.holds THEN program[a].to ELSE a + 1

Init == at = [i \in Inputs |-> 1]

Next ==
    /\ \E S \in SUBSET Inputs :
           at' = [i \in Inputs |-> IF i \in S THEN Successor(at[i], i) ELSE at[i]]
    /\ UNCHANGED program

Spec == Init /\ [][Next]_<<program, at>>
=============================================================================
