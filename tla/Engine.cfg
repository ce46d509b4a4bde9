SPECIFICATION KernelSpec
CONSTANTS
    VMs = {m1, m2, m3}
    Root = m1
    Fds = {1, 2}
    MaxCount = 1
    MaxBuffers = 2
    MaxCalls = 2
INVARIANTS WalkFollowsList PathOutputIsKept
PROPERTY NoMachineSkipped
PROPERTY NoMachineStarves
CHECK_DEADLOCK FALSE
