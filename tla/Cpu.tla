-------------------------------- MODULE Cpu --------------------------------
(***************************************************************************)
(* The processor at work: Cpu::step of core/src/cpu/mod.rs.  Before an     *)
(* instruction a pending exception is dispatched, then an interrupt        *)
(* request if the interrupt flag allows; after it comes the trap of a      *)
(* traced program.  A case is a program, the processor it starts on and    *)
(* the law its end is held against; requests may come between any two      *)
(* instructions, and what serves them is part of the program.              *)
(*                                                                         *)
(* The BIOS segment, where step serves the emulator's own handlers, is     *)
(* modelled in Machine.                                                    *)
(***************************************************************************)
EXTENDS Control

CONSTANTS Programs,   \* by name: physical addresses to instructions
          Cases,      \* families: sets of [law, prog, m, cc, free, requests]:
                      \* cc and free are the law's own, requests is how many
                      \* may come
          Requests    \* the interrupt vectors devices may ask for, a set

ASSUME RequestsAssumption == Requests \subseteq 0..255
ASSUME CasesAssumption ==
  \A family \in Cases : \A c \in family : c.prog \in DOMAIN Programs /\ c.requests \in Nat

VARIABLES case,       \* the one that runs
          m,          \* the processor
          left        \* how many requests are still to come

vars == <<case, m, left>>

(***************************************************************************)
(* One step.                                                               *)
(***************************************************************************)
Code     == Programs[case.prog]
Here     == Address(m, m.r.cs, m.r.ip, Bytes)
AtCode   == Here \in DOMAIN Code
Stopped  == m.panicked \/ (~Faulted(m) /\ ~m.halted /\ ~AtCode)

\* Mutant: a load of SS does not hold the trap back.
TracedAlways(s, tf) == IF tf THEN Interrupt([s EXCEPT !.suppress = FALSE], 1) ELSE s

\* The single-step trap: asked for before the instruction, held back by a
\* load of SS.
Traced(s, tf) ==
  IF ~tf THEN s ELSE IF s.suppress THEN [s EXCEPT !.suppress = FALSE] ELSE Interrupt(s, 1)

\* fetch_byte and exec_instruction.
After(i) == Traced(Exec00(AddTo(m, "ip", 1), i), m.f.tf)

Dispatch ==
  /\ ~m.panicked
  /\ Faulted(m)
  /\ m' = TakeFault(m)
  /\ UNCHANGED <<case, left>>

Request ==
  /\ ~Stopped
  /\ ~Faulted(m)
  /\ m.f.if
  /\ left > 0
  /\ \E int \in Requests : m' = Interrupt(m, int)
  /\ left' = left - 1
  /\ UNCHANGED case

Execute ==
  /\ ~m.panicked
  /\ ~Faulted(m)
  /\ ~m.halted
  /\ AtCode
  /\ m' = After(Code[Here])
  /\ UNCHANGED <<case, left>>

Init == (\E family \in Cases : case \in family) /\ m = case.m /\ left = case.requests

Next == Dispatch \/ Request \/ Execute

Spec == Init /\ [][Next]_vars

=============================================================================
