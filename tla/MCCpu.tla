------------------------------- MODULE MCCpu -------------------------------
EXTENDS CpuLaws, ProtectedPrograms

Code0 == RealCode @@ ProtectedCode @@ DirectPrograms
MCPrograms == <<>> @@ [p \in DOMAIN Code0 |-> At(ProgBase, Code0[p]) @@ Handlers @@ KernelCode]
\* The stack switch alone, with a device that may ask once.
PairCases == {Interrupted(family) : family \in SwitchCases}
\* The counters of the handlers, and the stack of the kernel.
Own == {256, 257} \union KernelStack .. KernelStack + StackTop - 1
MCCases == RealCases \union ProtectedCases
=============================================================================
