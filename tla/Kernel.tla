------------------------------- MODULE Kernel -------------------------------
(***************************************************************************)
(* The emulated kernel (kernel.cc) under the engine: a machine's step may  *)
(* be a system call.  Each machine has a kernel of its own, copied with    *)
(* it, but the files fh_N they write are shared by all of them.            *)
(*                                                                         *)
(* A byte written is known by the call that writes it: <<machine, number   *)
(* of the call>>.  Where buffers lie in memory, and sys_mmap, are the      *)
(* subject of AddressSpace; what a raw store does to a shared page, of     *)
(* CowMemory.  sys_write writes the text SymbolicValue::str gives of each  *)
(* byte, sys_writev the bytes: a text counts as one element here.          *)
(***************************************************************************)
EXTENDS Engine

CONSTANTS
    Fds,        \* the descriptors the guest writes to
    MaxCount,   \* bound: bytes in a buffer
    MaxBuffers, \* bound: buffers in a vector
    MaxCalls    \* bound: writing calls of all machines

ASSUME KernelAssumption == {MaxCount, MaxBuffers, MaxCalls} \subseteq Nat

VARIABLES
    files,    \* the contents of fh_N
    told,     \* history: how many bytes the writing calls of a machine's path
              \* have returned in UD_R_RAX, by file
    calls,    \* history: the writing calls made so far
    vectored, \* history: the files sys_writev has opened
    output    \* history: what the path of a machine has written, by file

kernelVars == <<files, told, calls, vectored, output>>

KernelInit ==
    /\ Init
    /\ files = [fd \in Fds |-> <<>>]
    /\ told = [m \in VMs |-> [fd \in Fds |-> 0]]
    /\ calls = 0 /\ vectored = {}
    /\ output = [m \in VMs |-> [fd \in Fds |-> <<>>]]

Bytes(n)   == [i \in 1 .. n |-> <<Current, calls + 1>>]
Returns(fd, r) == told' = [told EXCEPT ![Current][fd] = @ + r]
Counted    == calls < MaxCalls /\ calls' = calls + 1
Wrote(fd, bytes) == output' = [output EXCEPT ![Current][fd] = @ \o bytes]
-----------------------------------------------------------------------------
(* Mutant: the file is opened anew by every call.                          *)
WriteTruncates(fd, n) ==
    /\ StepVM /\ Counted
    /\ files' = [files EXCEPT ![fd] = Bytes(n)]
    /\ Returns(fd, n)
    /\ Wrote(fd, Bytes(n))
    /\ UNCHANGED vectored

(* sys_write of n bytes, all of them in memory: appended to the file.      *)
Write(fd, n) ==
    /\ StepVM /\ Counted
    /\ files' = [files EXCEPT ![fd] = @ \o Bytes(n)]
    /\ Returns(fd, n)
    /\ Wrote(fd, Bytes(n))
    /\ UNCHANGED vectored

(* More bytes than memory has there: the exception comes between fopen and *)
(* fclose; nothing has been written.                                       *)
WriteBeyondMemory ==
    /\ StepThrow
    /\ UNCHANGED kernelVars

(* sys_writev: the file is opened anew, and vec never advances, so that    *)
(* the first buffer is written once for every buffer of the vector.        *)
Writev(fd, lengths) ==
    /\ StepVM /\ Counted
    /\ LET first == IF lengths = <<>> THEN 0 ELSE lengths[1]
           n     == Len(lengths) * first
       IN  /\ files' = [files EXCEPT ![fd] = Bytes(n)]
           /\ Returns(fd, n)
           /\ Wrote(fd, Bytes(n))
    /\ vectored' = vectored \cup {fd}

(* The buffer is not in memory: the file has been opened, and emptied.     *)
WritevThrows(fd) ==
    /\ StepThrow
    /\ files' = [files EXCEPT ![fd] = <<>>]
    /\ vectored' = vectored \cup {fd}
    /\ UNCHANGED <<told, calls, output>>

(* read, fstat and getpid change registers and the memory of the machine   *)
(* only; exit and exit_group change nothing, and the machine runs on.      *)
LocalCall ==
    /\ StepVM
    /\ UNCHANGED kernelVars

(* A wild rax or argument, or a call that is not emulated.                 *)
CallThrows ==
    /\ StepThrow
    /\ UNCHANGED kernelVars

(* A fork continues the path of the machine it is a copy of.               *)
Fork(m) ==
    /\ StepFork(m)
    /\ output' = [output EXCEPT ![m] = output[Current]]
    /\ told' = [told EXCEPT ![m] = told[Current]]
    /\ UNCHANGED <<files, calls, vectored>>
-----------------------------------------------------------------------------
Lengths == UNION {[1 .. n -> 0 .. MaxCount] : n \in 0 .. MaxBuffers}

syscall ==
    \/ \E fd \in Fds, n \in 0 .. MaxCount : Write(fd, n)
    \/ \E fd \in Fds, lengths \in Lengths : Writev(fd, lengths)
    \/ LocalCall

KernelStep ==
    \/ syscall
    \/ \E m \in VMs : Fork(m)
    \/ (StepBegin \/ StepHlt \/ StepEnd) /\ UNCHANGED kernelVars

KernelNext ==
    \/ KernelStep
    \/ WriteBeyondMemory
    \/ \E fd \in Fds : WritevThrows(fd)
    \/ CallThrows
    \/ Quit /\ UNCHANGED kernelVars

KernelSpec ==
    KernelInit /\ [][KernelNext]_<<vars, kernelVars>> /\ WF_<<vars, kernelVars>>(KernelStep)
-----------------------------------------------------------------------------
(* Output (kernel.cc:217): as long as no machine writes to it by vector,   *)
(* a file has everything that the path of any machine has written to it,   *)
(* calls before its forks included, in the order of the path and as much   *)
(* as the guest was told, whatever the other machines write in between.    *)
PathOutputIsKept ==
    \A m \in created : \A fd \in Fds \ vectored :
        /\ IsSelection(output[m][fd], files[fd], ToSet(output[m][fd]))
        /\ Len(output[m][fd]) = told[m][fd]

(* The inductive strengthening the proofs use: what a call will write has  *)
(* not been written before.                                                *)
KernelTypeOK ==
    /\ files \in [Fds -> Seq(VMs \X Nat)]
    /\ told \in [VMs -> [Fds -> Nat]]
    /\ calls \in Nat /\ vectored \subseteq Fds
    /\ output \in [VMs -> [Fds -> Seq(VMs \X Nat)]]

CallsAreNumbered ==
    \A fd \in Fds :
        /\ \A b \in ToSet(files[fd]) : b[2] <= calls
        /\ \A m \in VMs : \A b \in ToSet(output[m][fd]) : b[2] <= calls

KernelIInv == IInv /\ KernelTypeOK /\ CallsAreNumbered /\ PathOutputIsKept
=============================================================================
