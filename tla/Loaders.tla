------------------------------ MODULE Loaders -------------------------------
(***************************************************************************)
(* What main does before it makes an engine (see.cc): with --elf it loads  *)
(* the program with the ELF loader; with --lx86 it starts the program      *)
(* under ptrace, lets it run to its entry point and takes memory and       *)
(* registers from there (lx86.cc).  The constructor of Lx86 reads the ELF  *)
(* file, dependencies included, while the traced process starts.           *)
(*                                                                         *)
(* The traced process and the kernel are external: what they do is known   *)
(* from the calls of ptrace and waitpid in lx86.cc.  A process that a      *)
(* signal stops does not run until it is continued.                        *)
(***************************************************************************)
EXTENDS ElfLoader

CONSTANTS
    Cases   \* [loader, program, guest]: what main is asked to load

ASSUME LoadersAssumption ==
    \A c \in Cases :
        /\ c.loader \in {"elf", "lx86"} /\ Exe \in DOMAIN c.program
        /\ IsFiniteSet(DOMAIN c.program)
        /\ \A f \in DOMAIN c.program :
              /\ c.program[f].needed \in Seq(FileNames(c.program))
              /\ c.program[f].segments \in
                    Seq([vaddr : Nat, filesz : Nat, memsz : Nat, null : BOOLEAN])
              /\ c.program[f].relocations \in Seq(ToSet(c.program[f].relocations))
              /\ \A r \in ToSet(c.program[f].relocations) : r.at \in Nat

VARIABLES
    loader,     \* the option given to main
    guest,      \* the program as a process: moved, executes, signalled, arrives; regions
    tracer,     \* where the constructor of Lx86, or a later call, is
    child,      \* "none", "forked", "stopped", "running", "exited"
    event,      \* what waitpid has not reported yet: "none", "trap", "signal", "exit"
    rip,        \* the process's: "start", "entry", "past" the breakpoint, "beyond"
    text,       \* the byte at the entry address: "code", "breakpoint", "unmapped"
    saved,      \* saved_entry_bytes
    snapshot,   \* the text bytes g_memory has read, by region
    stepped     \* history: Lx86::step has been called

traceVars == <<tracer, child, event, rip, text, saved, snapshot, stepped>>
loaderVars == <<elfVars, loader, guest, traceVars>>

Init ==
    /\ \E c \in Cases : loader = c.loader /\ guest = c.guest /\ ElfInit(c.program)
    /\ tracer = "fork" /\ child = "none" /\ event = "none"
    /\ rip = "start" /\ text = "code" /\ saved = "code"
    /\ snapshot = <<>> /\ stepped = FALSE
-----------------------------------------------------------------------------
(* The traced process                                                      *)

(* PTRACE_TRACEME and execl: the new program stops with SIGTRAP.  A        *)
(* position-independent one is not at the address its e_entry says.  If    *)
(* execl fails the throw ends in SIGABRT, which stops a traced process.    *)
ChildExecutes ==
    /\ child = "forked"
    /\ child' = "stopped"
    /\ event' = IF guest.executes THEN "trap" ELSE "signal"
    /\ text' = IF guest.moved THEN "unmapped" ELSE "code"
    /\ UNCHANGED <<tracer, rip, saved, snapshot, stepped>>

ChildSignalled ==
    /\ child = "running" /\ rip = "start" /\ guest.signalled
    /\ child' = "stopped" /\ event' = "signal"
    /\ UNCHANGED <<tracer, rip, text, saved, snapshot, stepped>>

(* The dynamic linker hands over to the program.                           *)
ChildArrives ==
    /\ child = "running" /\ rip = "start" /\ guest.arrives
    /\ IF text = "breakpoint"
       THEN child' = "stopped" /\ event' = "trap" /\ rip' = "past"
       ELSE rip' = "beyond" /\ UNCHANGED <<child, event>>
    /\ UNCHANGED <<tracer, text, saved, snapshot, stepped>>

ChildExits ==
    /\ child = "running"
    /\ rip = "beyond" \/ (rip = "start" /\ ~guest.arrives)
    /\ child' = "exited" /\ event' = "exit"
    /\ UNCHANGED <<tracer, rip, text, saved, snapshot, stepped>>

(* One instruction after PTRACE_SINGLESTEP.                                *)
ChildSteps ==
    /\ child = "running" /\ tracer = "step"
    /\ \/ child' = "stopped" /\ event' = "trap"
       \/ child' = "exited" /\ event' = "exit"
    /\ rip' = "beyond"
    /\ UNCHANGED <<tracer, text, saved, snapshot, stepped>>

Child == ChildExecutes \/ ChildSignalled \/ ChildArrives \/ ChildExits \/ ChildSteps
-----------------------------------------------------------------------------
(* Lx86                                                                    *)

Fork ==
    /\ tracer = "fork"
    /\ tracer' = "elf" /\ child' = "forked"
    /\ UNCHANGED <<event, rip, text, saved, snapshot, stepped>>

(* Elf::Get has returned, with its dependencies loaded.                    *)
EntryKnown ==
    /\ tracer = "elf" /\ new_deps = <<>>
    /\ tracer' = "exec"
    /\ UNCHANGED <<child, event, rip, text, saved, snapshot, stepped>>

AfterTrap == [exec |-> "break", entry |-> "restore", step |-> "ready"]

(* waitpid in a loop that SIGTRAP ends.  A stop with any other signal and  *)
(* an exit are taken from the kernel and forgotten.                        *)
Wait ==
    /\ tracer \in DOMAIN AfterTrap /\ event # "none"
    /\ tracer' = IF event = "trap" THEN AfterTrap[tracer] ELSE tracer
    /\ event' = "none"
    /\ UNCHANGED <<child, rip, text, saved, snapshot, stepped>>

(* Mutant: the process is not continued after the breakpoint is set.       *)
BreakWithoutCont ==
    /\ tracer = "break"
    /\ saved' = text
    /\ text' = IF text = "unmapped" THEN text ELSE "breakpoint"
    /\ tracer' = "entry"
    /\ UNCHANGED <<child, event, rip, snapshot, stepped>>

(* PEEKTEXT, POKETEXT of 0xcc, CONT.  PEEK and POKE of an address that is  *)
(* not mapped fail, which nobody looks at.                                 *)
Break ==
    /\ tracer = "break"
    /\ saved' = text
    /\ text' = IF text = "unmapped" THEN text ELSE "breakpoint"
    /\ child' = "running"
    /\ tracer' = "entry"
    /\ UNCHANGED <<event, rip, snapshot, stepped>>

(* Mutant: the breakpoint stays in the text.                               *)
RestoreRipOnly ==
    /\ tracer = "restore"
    /\ rip' = "entry"
    /\ tracer' = "memory"
    /\ UNCHANGED <<child, event, text, saved, snapshot, stepped>>

(* The text restored, rip set back to the entry address.                   *)
Restore ==
    /\ tracer = "restore"
    /\ text' = IF text = "unmapped" THEN text ELSE saved
    /\ rip' = "entry"
    /\ tracer' = "memory"
    /\ UNCHANGED <<child, event, saved, snapshot, stepped>>

(* g_memory, a line of /proc/pid/maps at a time: regions without read      *)
(* permission are left out.                                                *)
Region == guest.regions[Len(snapshot) + 1]

ReadRegion ==
    /\ tracer = "memory" /\ Len(snapshot) < Len(guest.regions)
    /\ Region.readable => Region.served
    /\ snapshot' = Append(snapshot, IF Region.readable THEN text ELSE "skipped")
    /\ UNCHANGED <<tracer, child, event, rip, text, saved, stepped>>

(* A region the kernel does not serve through /proc/pid/mem: the exception *)
(* of the short read.                                                      *)
ReadRegionThrows ==
    /\ tracer = "memory" /\ Len(snapshot) < Len(guest.regions)
    /\ Region.readable /\ ~Region.served
    /\ process' = "terminated"
    /\ UNCHANGED traceVars

MemoryRead ==
    /\ tracer = "memory" /\ Len(snapshot) = Len(guest.regions)
    /\ tracer' = "ready"
    /\ UNCHANGED <<child, event, rip, text, saved, snapshot, stepped>>

(* Lx86::step, the other half of the comparison test_vm.cc makes.          *)
Step ==
    /\ tracer = "ready" /\ child = "stopped"
    /\ child' = "running" /\ tracer' = "step" /\ stepped' = TRUE
    /\ UNCHANGED <<event, rip, text, saved, snapshot>>

Tracer == Fork \/ EntryKnown \/ Wait \/ Break \/ Restore \/ ReadRegion \/ MemoryRead
-----------------------------------------------------------------------------
LoadElf ==
    /\ loader = "elf"
    /\ ElfNext
    /\ UNCHANGED <<loader, guest, traceVars>>

ReadElf ==
    /\ loader = "lx86" /\ tracer = "elf"
    /\ LoadDependencies
    /\ UNCHANGED <<loader, guest, traceVars>>

(* The process runs on whether or not the tracer still does.               *)
RunChild ==
    /\ loader = "lx86"
    /\ Child
    /\ UNCHANGED <<elfVars, loader, guest>>

Trace ==
    /\ loader = "lx86" /\ Running
    /\ Tracer \/ Step
    /\ UNCHANGED <<elfVars, loader, guest>>

TraceThrows ==
    /\ loader = "lx86" /\ Running
    /\ ReadRegionThrows
    /\ UNCHANGED <<stage, program, new_deps, loaded, file, pages, it, fixed, found>>
    /\ UNCHANGED <<loader, guest>>

Next == LoadElf \/ ReadElf \/ RunChild \/ Trace \/ TraceThrows

(* Both processes are scheduled.  Nothing is assumed of signals, nor that  *)
(* main steps the process it has attached to.                              *)
Fairness ==
    /\ WF_loaderVars(LoadElf)
    /\ WF_loaderVars(ReadElf)
    /\ WF_loaderVars(Trace \/ TraceThrows)
    /\ WF_loaderVars(RunChild)

Spec == Init /\ [][Next]_loaderVars /\ Fairness
-----------------------------------------------------------------------------
(* The ELF loader (elf.cc:642) does not loop, whatever cycles there are    *)
(* among the files and wherever the erased iterator leads: it ends with    *)
(* the memory, with an exception or in a crash.                            *)
LoadingEnds == loader = "elf" => <>(~Running \/ stage = "loaded")

(* Attached (lx86.cc:68): until the first step, the process is stopped     *)
(* where the machine starts, no stop of it is left unreported, and its     *)
(* text, and so the machine's copy of it, has no breakpoint in it.         *)
StoppedAtEntry ==
    tracer \in {"memory", "ready"} /\ ~stepped =>
        /\ child = "stopped" /\ event = "none"
        /\ rip = "entry" /\ text # "breakpoint"
        /\ "breakpoint" \notin ToSet(snapshot)

(* The strengthening the proofs use: what every state of the constructor   *)
(* knows of the process.                                                   *)
AttachIInv ==
    /\ tracer \in {"fork", "elf", "exec", "break", "entry", "restore", "memory", "ready", "step"}
    /\ {text, saved} \subseteq {"code", "breakpoint", "unmapped"}
    /\ snapshot \in Seq({"code", "unmapped", "skipped"})
    /\ stepped => tracer \in {"ready", "step"}
    /\ tracer = "step" => stepped
    /\ ~stepped =>
        /\ event \in {"none", "trap", "signal", "exit"}
        /\ event \in {"trap", "signal"} => child = "stopped"
        /\ event = "exit" => child = "exited"
        /\ tracer = "fork" => child = "none"
        /\ tracer \in {"elf", "exec"} => child \in {"forked", "stopped"}
        /\ tracer \in {"break", "restore", "memory", "ready"} => child = "stopped" /\ event = "none"
        /\ tracer \in {"fork", "elf", "exec", "break", "memory", "ready"} => text # "breakpoint"
        /\ tracer \in {"entry", "restore"} => saved # "breakpoint"
        /\ tracer \in {"memory", "ready"} => rip = "entry"

(* A program that executes at its entry address without other signals is   *)
(* attached to, whichever of the two processes is ahead, unless its files  *)
(* or its memory cannot be read.                                           *)
Cooperative == guest.executes /\ guest.arrives /\ ~guest.moved /\ ~guest.signalled

AttachEnds ==
    loader = "lx86" /\ Cooperative => <>(~Running \/ tracer = "ready")

(* What the layout is right for: every segment, at each offset a file may  *)
(* get, is as a whole below the page for TLS or above the stack, and ends  *)
(* below the offset of the next file.  Nothing in the loader asks for it.  *)
FilesAreApart ==
    /\ TlsAddr + TlsSize <= StackAddr
    /\ \A c \in Cases : \A f \in DOMAIN c.program : \A s \in ToSet(c.program[f].segments) :
          /\ s.vaddr + s.memsz < DepAdd
          /\ \A k \in 0 .. Cardinality(DOMAIN c.program) :
                \/ Offset(k) + s.vaddr + s.memsz <= TlsAddr
                \/ Offset(k) + s.vaddr >= StackAddr + StackSize

(* The same of the places that relocations name.                           *)
PlacesAreApart ==
    \A c \in Cases : \A f \in DOMAIN c.program : \A r \in ToSet(c.program[f].relocations) :
        /\ r.at < DepAdd
        /\ \A k \in 0 .. Cardinality(DOMAIN c.program) :
              \/ Offset(k) + r.at < TlsAddr
              \/ Offset(k) + r.at >= StackAddr + StackSize
=============================================================================
