---------------------------- MODULE Translation -----------------------------
(***************************************************************************)
(* A machine and a native process run the same program side by side, as    *)
(* test_vm.cc has them do.  The machine's step (VM::step, vm.cc) fetches   *)
(* and translates the instruction at RIP, advances RIP, and executes the   *)
(* intermediate instructions one after the other.  The process makes its   *)
(* step when the machine fetches, and the two are compared when the list   *)
(* has been executed (Boundary).                                           *)
(***************************************************************************)
EXTENDS Translator

INSTANCE Processor      \* the native process

CONSTANT Cases      \* sets of programs, of registers, of flags and of memories to
                    \* start from, in any combination

Registers == {"RAX", "RBX", "RCX", "RDX", "RSP", "RBP", "RSI", "RDI", "FS"}
Flags     == {"CF", "ZF", "SF", "OF", "DF"}

VARIABLES
    program,    \* the instructions, at the addresses 1, 2, ...
    variables,  \* VM::variables: registers, flags, RIP and temporaries
    memory,     \* VM::memory, a cell for each address in use
    code,       \* the intermediate instructions still to execute
    native,     \* the native process
    first       \* history: the state of the process at the start

vars == <<program, variables, memory, code, native, first>>

Init ==
    \E c \in Cases :
    \E p \in c.programs, r \in c.regs, f \in c.flags, m \in c.mems :
        /\ program = p
        /\ variables = r @@ f @@ ("RIP" :> 1)
        /\ memory = m
        /\ code = <<>>
        /\ native = [reg |-> r, flag |-> f, mem |-> m, rip |-> 1]
        /\ first = native

Boundary == code = <<>>
Ended    == Boundary /\ variables["RIP"] \notin DOMAIN program

(* What outlives an instruction: its temporaries are never read again.     *)
Lasting(env) == [x \in Registers \cup Flags \cup {"RIP"} |-> env[x]]

(* The beginning of VM::step.                                              *)
Fetch ==
    /\ Boundary /\ ~Ended
    /\ LET ins == program[variables["RIP"]] IN
        /\ code' = translate(ins)
        /\ native' = Native(native, ins)
    /\ variables' = [Lasting(variables) EXCEPT !["RIP"] = @ + 1]
    /\ UNCHANGED <<program, memory, first>>

(* VM::execute of the instruction at the front of the list.                *)
Instructions(ops) == code # <<>> /\ Head(code).op \in ops

ExecuteValue ==
    /\ Instructions(Arithmetic \cup Comparison \cup Unary)
    /\ variables' = Assigned(variables, Head(code).dst, Value(variables, Head(code)))
    /\ UNCHANGED memory

(* A load from an address that is not paged throws; nothing catches it.    *)
ExecuteLoad ==
    /\ Instructions({"load"})
    /\ LET a == g_value(variables, Head(code).src) IN
        /\ a \in DOMAIN memory
        /\ variables' = (Head(code).dst.id :> Low(Head(code).bits, memory[a])) @@ variables
    /\ UNCHANGED memory

ExecuteStore ==
    /\ Instructions({"store"})
    /\ LET a == g_value(variables, Head(code).dst) IN
        /\ a \in DOMAIN memory
        /\ memory' = [memory EXCEPT ![a] = Low(Head(code).bits, g_value(variables, Head(code).src))]
    /\ UNCHANGED variables

ExecuteBrc ==
    /\ Instructions({"brc"})
    /\ variables' = IF g_value(variables, Head(code).cond) # 0
                    THEN Assigned(variables, RIP, g_value(variables, Head(code).dst))
                    ELSE variables
    /\ UNCHANGED memory

Execute ==
    /\ ExecuteValue \/ ExecuteLoad \/ ExecuteStore \/ ExecuteBrc
    /\ code' = Tail(code)
    /\ UNCHANGED <<program, native, first>>

Next == Fetch \/ Execute

(* VM::step is one loop; its caller steps the machine again and again.     *)
Spec == Init /\ [][Next]_vars /\ WF_vars(Next)
-----------------------------------------------------------------------------
(* A machine and the native process never diverge (test_vm.cc:137): after  *)
(* every instruction the registers, the instruction pointer and the cells  *)
(* of memory are the same.                                                 *)
RegistersAgree ==
    Boundary =>
        /\ variables["RIP"] = native.rip
        /\ \A r \in Registers : variables[r] = native.reg[r]
        /\ memory = native.mem

(* The flags that a method computes as the processor does, where the       *)
(* processor defines them.  What is missing here is translated otherwise:  *)
(* the overflow flag of all but cmp and the logical operations, the sign   *)
(* and zero flag of a left shift, all flags of or, CF after adc, sbb, neg. *)
ExactFlags(ins, s) ==
    LET m == ins.mnemonic
        o == ins.operands
        none == {}
        all == {"CF", "ZF", "SF", "OF"}
        count == Read(s, W8, o[2]) % (IF o[1].bits = W64 THEN W64 ELSE W32)
    IN  CASE m \in {"or", "imul", "div"} -> none
          [] m \in {"add", "sub", "inc", "dec"} -> all \ {"OF"}
          [] m \in {"adc", "sbb", "neg"}        -> {"ZF", "SF"}
          [] m \in {"scasb", "cmpxchg"}         -> {"ZF"}
          [] m = "bsf"                          -> none
          [] m = "shl"                          -> {"CF"}
          [] m \in {"shr", "sar"}               -> IF count = 0 THEN none ELSE all
          [] m \in {"rol", "ror"}                -> IF count = 0 THEN none ELSE all
          [] OTHER                              -> all

(* Flags (translator.cc): those agree too, whatever the width and the      *)
(* operands; an instruction without an effect on the flags leaves them.    *)
FlagsAgree ==
    Ended /\ Len(program) = 1 =>
        \A f \in ExactFlags(program[1], first) \cup {"DF"} :
            native.flag[f] # Undefined => variables[f] = native.flag[f]

(* A comparison followed by a conditional jump, move or set (cmp,          *)
(* translator.cc:804): the outcome is the relation of the two operands as  *)
(* numbers, unsigned for a and b, signed for g and l.                      *)
Relation(cc, b, x, y) ==
    LET X == Signed(b, x)
        Y == Signed(b, y)
    IN  CASE cc = "a"  -> x > y  [] cc = "ae" -> x >= y [] cc = "b" -> x < y
          [] cc = "be" -> x <= y [] cc = "g"  -> X > Y  [] cc = "ge" -> X >= Y
          [] cc = "l"  -> X < Y  [] cc = "le" -> X <= Y
          [] cc = "z"  -> x = y  [] cc = "nz" -> x # y
          [] cc = "s"  -> (x - y) % 2 ^ b >= 2 ^ (b - 1)
          [] cc = "ns" -> (x - y) % 2 ^ b < 2 ^ (b - 1)

ComparisonsDecide ==
    (Ended /\ Len(program) = 2 /\ program[1].mnemonic = "cmp") =>
        LET o == program[1].operands
            b == o[1].bits
            m == program[2].mnemonic
            Holding(cc) == Relation(cc, b, Read(first, b, o[1]), Read(first, b, o[2]))
        IN  /\ m \in DOMAIN Jump => (variables["RIP"] # 3 <=> Holding(Jump[m]))
            /\ m \in DOMAIN Move =>
                   variables["RDX"] = (IF Holding(Move[m]) THEN first.reg["RSI"]
                                       ELSE first.reg["RDX"]) % 2 ^ program[2].operands[1].bits
            /\ m \in DOMAIN SetOn => variables["RDX"] % 2 ^ W8 = Flag(Holding(SetOn[m]))

(* A step ends, and so does a repeated instruction (rep, repne,            *)
(* translator.cc:1687, 1741).                                              *)
ProgramsEnd == <>Ended
=============================================================================
