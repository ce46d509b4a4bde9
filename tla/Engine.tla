------------------------------- MODULE Engine -------------------------------
(***************************************************************************)
(* The engine (engine.cc) and the loop of main that drives it (see.cc).    *)
(* One call of Engine::step walks the list of machines once and steps each *)
(* of them.  A machine's step may fork, which appends the child to the     *)
(* list that is being walked; may execute hlt, which erases the machine    *)
(* from it; or may throw, and nothing in the program catches.              *)
(*                                                                         *)
(* The iterator is the index of the node it designates, Len(vms) + 1 at    *)
(* vms.end(), and 0 while no Engine::step is under way.                    *)
(***************************************************************************)
EXTENDS Naturals, Sequences, SequencesExt

CONSTANTS
    VMs,    \* the machines that may exist: the bound on forks
    Root    \* the machine the constructor pushes

ASSUME EngineAssumption == Root \in VMs

VARIABLES
    process,  \* "running"; "ended" by 'q', "terminated" by an exception,
              \* "crashed" by a use of the erased list node
    vms,      \* Engine::vms
    it,       \* the iterator of Engine::step
    created,  \* history: the machines pushed so far
    stepped   \* history: the machines stepped by the current call, in order

vars == <<process, vms, it, created, stepped>>

Init ==
    /\ process = "running"
    /\ vms = <<Root>>
    /\ it = 0
    /\ created = {Root}
    /\ stepped = <<>>

Running == process = "running"
AtVM    == Running /\ it \in 1 .. Len(vms)
Current == vms[it]

(* main calls engine.step(), which starts at vms.begin().                  *)
StepBegin ==
    /\ Running /\ it = 0
    /\ it' = 1
    /\ stepped' = <<>>
    /\ UNCHANGED <<process, vms, created>>

(* Mutant: the call returns after the first machine it steps.              *)
StepVMReturns ==
    /\ AtVM
    /\ stepped' = Append(stepped, Current)
    /\ it' = 0
    /\ UNCHANGED <<process, vms, created>>

(* The step of the current machine leaves the list alone; it++.            *)
StepVM ==
    /\ AtVM
    /\ stepped' = Append(stepped, Current)
    /\ it' = it + 1
    /\ UNCHANGED <<process, vms, created>>

(* Mutant: push_vm inserts the child before the machine that forks, as a   *)
(* list does when it is given the iterator.                                *)
StepForkBefore(child) ==
    /\ AtVM
    /\ child \notin created
    /\ created' = created \cup {child}
    /\ vms' = SubSeq(vms, 1, it - 1) \o <<child>> \o SubSeq(vms, it, Len(vms))
    /\ stepped' = Append(stepped, Current)
    /\ it' = it + 2
    /\ UNCHANGED process

(* The step forks: push_vm(child) appends to the list being walked.        *)
StepFork(child) ==
    /\ AtVM
    /\ child \notin created
    /\ created' = created \cup {child}
    /\ vms' = Append(vms, child)
    /\ stepped' = Append(stepped, Current)
    /\ it' = it + 1
    /\ UNCHANGED process

(* Mutant: erase followed by it++ on the iterator erase returns, which     *)
(* skips the machine behind the one that halts.                            *)
StepHltSkips ==
    /\ AtVM
    /\ vms' = RemoveAt(vms, it)
    /\ it' = IF it <= Len(vms) - 1 THEN it + 1 ELSE it
    /\ stepped' = Append(stepped, Current)
    /\ process' \in {"running", "crashed"}
    /\ UNCHANGED created

(* The step executes hlt: remove_vm erases the node the iterator is on,    *)
(* and it++ then reads the freed node.  If the allocator has left it alone *)
(* the walk goes on at the machine that followed; otherwise it is lost.    *)
StepHlt ==
    /\ AtVM
    /\ vms' = RemoveAt(vms, it)
    /\ stepped' = Append(stepped, Current)
    /\ process' \in {"running", "crashed"}
    /\ UNCHANGED <<it, created>>

(* The step throws; main has no handler.                                   *)
StepThrow ==
    /\ AtVM
    /\ process' = "terminated"
    /\ UNCHANGED <<vms, it, created, stepped>>

StepEnd ==
    /\ Running /\ it = Len(vms) + 1
    /\ it' = 0
    /\ UNCHANGED <<process, vms, created, stepped>>

(* 'q' at the prompt.                                                      *)
Quit ==
    /\ Running /\ it = 0
    /\ process' = "ended"
    /\ UNCHANGED <<vms, it, created, stepped>>

EngineStep ==
    \/ StepBegin
    \/ StepVM
    \/ \E child \in VMs : StepFork(child)
    \/ StepHlt
    \/ StepEnd

Next == EngineStep \/ StepThrow \/ Quit

(* 'a' at the prompt calls engine.step() for ever.                         *)
Spec == Init /\ [][Next]_vars /\ WF_vars(EngineStep)
-----------------------------------------------------------------------------
TypeOK ==
    /\ process \in {"running", "ended", "terminated", "crashed"}
    /\ vms \in Seq(VMs) /\ IsInjective(vms)
    /\ it \in 0 .. Len(vms) + 1
    /\ created \subseteq VMs
    /\ stepped \in Seq(created)

(* s is what is left of t when only the elements of S are kept: at are the *)
(* places in t they are taken from.                                        *)
IsSelection(s, t, S) ==
    \E at \in [1 .. Len(s) -> 1 .. Len(t)] :
        /\ \A i, j \in 1 .. Len(s) : i < j => at[i] < at[j]
        /\ \A i \in 1 .. Len(s) : s[i] = t[at[i]]
        /\ \A k \in 1 .. Len(t) : t[k] \in S <=> \E i \in 1 .. Len(s) : at[i] = k

(* When the call returns, every machine then in the list, those forked     *)
(* during the call included, has been stepped by it (engine.cc:23).        *)
NoMachineSkipped ==
    [][StepEnd => ToSet(vms) \subseteq ToSet(stepped)]_vars

(* One call of Engine::step (engine.cc:19) steps machines in the order in  *)
(* which they were pushed and none of them twice, however they fork and    *)
(* halt: the part of the list already walked is what was stepped and has   *)
(* not halted.                                                             *)
WalkFollowsList ==
    /\ IsInjective(stepped)
    /\ it > 0 /\ Running => IsSelection(SubSeq(vms, 1, it - 1), stepped, ToSet(vms))

(* The inductive strengthening the proofs use.                             *)
IInv == TypeOK /\ WalkFollowsList /\ ToSet(vms) \subseteq created

(* No machine starves (see.cc:83): one in the list is stepped by a later   *)
(* call, or leaves the list, or the process ends.                          *)
NoMachineStarves ==
    \A m \in VMs :
        (it = 0 /\ m \in ToSet(vms)) ~> ((it > 0 /\ m \in ToSet(stepped)) \/ ~Running)
=============================================================================
