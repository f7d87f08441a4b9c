------------------------------ MODULE Machine ------------------------------
(***************************************************************************)
(* The interrupt core of the emulator: Computer::step and push_key_press   *)
(* (core/src/computer.rs), the CPU's dispatch loop and BIOS segment        *)
(* (core/src/cpu/mod.rs), the BIOS handlers of INT 08h, 09h, 15h/C2h, 16h  *)
(* and 74h (core/src/cpu/bios), the interrupt controllers (Pic), the       *)
(* keyboard and mouse controller (KeyboardController) and the PIT's        *)
(* pending timer interrupt (core/src/devices/pit.rs).                      *)
(*                                                                         *)
(* One thread runs everything, so the interleavings are those of the guest *)
(* program, of the moments at which the host delivers a key, a mouse       *)
(* packet or a serial byte between two steps, and of the moments at which  *)
(* the timer comes due.                                                    *)
(*                                                                         *)
(* The guest is the environment: an application, and handlers it may hook  *)
(* into the vectors of `Hookable'.  A guest handler sends one EOI or       *)
(* chains to the BIOS handler that sends it; whether the guest does more   *)
(* than that is the constant GuestOps.  Stacked FLAGS keep only IF.        *)
(***************************************************************************)
EXTENDS Pic, KeyboardController

CONSTANTS
  GuestOps,      \* what the guest may do: a subset of GuestOp
  Hookable,      \* the vectors the guest may hook: a subset of Vectors
  Devices,       \* the lines with a device attached besides PIT and keyboard
  BdaCapacity,   \* keys the BIOS keyboard buffer holds, 15 in the source
  TimerPeriod,   \* fewest CPU steps between two timer interrupts
  MaxAux,        \* bound: auxiliary bytes waiting when the mouse moves
  MaxDepth       \* bound: frames on the stack when a guest handler does STI

GuestOp == {"block",  \* INT 16h AH=00h without having polled for a key
            "sti",    \* STI inside an interrupt handler
            "cli",    \* CLI and STI in the application
            "mask",   \* masking IRQ1 in the application
            "hlt"}    \* HLT in the application

\* Interrupt vectors, and the locations of the BIOS handlers that start there.
Vectors == {"int08", "int09", "int0C", "int15", "int16", "int1C", "int74"}

\* The no-op entries of the BIOS segment to which a handler called by the
\* BIOS returns: INT1C_RETURN_IP, TIMER_INLINE_RETURN_IP, PS2_MOUSE_RETURN_IP.
Trampolines == {"ret1C", "retTimer", "retMouse"}

BiosLocs == Vectors \cup Trampolines

\* Guest code: the application, the handlers hooked into int08, int09, int0C
\* and int1C at the stages that matter, and the mouse callback.
GuestLocs == {"app", "g08", "g08done", "g09", "g09read", "g09done",
              "g0C", "g0Cdone", "g1C", "gMouse"}

GuestEntry == [int08 |-> "g08", int09 |-> "g09", int0C |-> "g0C", int1C |-> "g1C"]

ASSUME MachineAssumption ==
  /\ GuestOps \subseteq GuestOp
  /\ Hookable \subseteq (DOMAIN GuestEntry) \cup {"callback"}
  /\ Devices \subseteq {Com1Line, MouseLine}
  /\ BdaCapacity \in Nat \ {0}
  /\ TimerPeriod \in Nat
  /\ MaxAux \in Nat
  /\ MaxDepth \in Nat

Locs == BiosLocs \cup GuestLocs

\* What AX may hold: a function number the guest put in AH, a key INT 16h
\* returned, or the mouse packet INT 74h loads for the callback.
Functions == {"read", "check"}
MouseFunctions == {"mouseOn", "mouseOff", "mouseReset", "mouseInit", "setHandler"}
AxValues  == Functions \cup MouseFunctions \cup {"none", "packet", "key"}

\* A return frame: the location and the IF it restores, the vector whose
\* handler owns it, and (history, read only by properties) AX and the scan
\* code latched when it was pushed.
Frame == [ret : Locs, iflag : BOOLEAN, vec : Vectors \cup {"far"},
          ax : AxValues, key : Keys \cup {NoKey}]

VARIABLES
  phase,       \* which half of Computer::step runs next
  keyPresses,  \* Computer.key_presses
  pressed,     \* number of key events the host has produced
  kbc,         \* the keyboard and mouse controller
  serialIrq,   \* COM1 has an interrupt pending
  pic,         \* the interrupt controllers
  timer,       \* the PIT: steps since its last interrupt, and whether one is due
  cpu,         \* the processor, with its stack of return frames
  hooked,      \* the vectors the guest has hooked; "callback" for INT 15h/C207h
  bda,         \* keys in the BIOS keyboard buffer
  typed,       \* history: the last key INT 09h of the BIOS has read
  tickDebt     \* history: timer periods elapsed whose tick nobody has counted

vars == <<phase, keyPresses, pressed, kbc, serialIrq, pic, timer, cpu, hooked,
          bda, typed, tickDebt>>

CpuState == [loc : Locs, iflag : BOOLEAN, halted : BOOLEAN,
             waitKey : BOOLEAN,     \* wait_for_key_press
             patchFlags : BOOLEAN,  \* wait_for_key_press_patch_flags
             ax : AxValues,
             saved : AxValues \cup {"empty"},  \* saved_for_int74
             stack : Seq(Frame)]

\* The type of every variable.
TypeOK ==
  /\ phase \in {"keys", "cpu"}
  /\ keyPresses \in Seq(Keys)
  /\ pressed \in 0..MaxKeys
  /\ kbc \in KbcState
  /\ serialIrq \in BOOLEAN
  /\ pic \in PicState
  /\ timer \in [age : 0..TimerPeriod, due : BOOLEAN]
  /\ cpu \in CpuState
  /\ hooked \subseteq (DOMAIN GuestEntry) \cup {"callback"}
  /\ bda \in Seq(Keys \cup {NoKey} \cup AuxBytes)
  /\ typed \in Keys \cup {NoKey} \cup AuxBytes
  /\ tickDebt \in Nat \cup {-1}

Init ==
  /\ phase = "keys"
  /\ keyPresses = <<>>
  /\ pressed = 0
  /\ kbc = KbcReset
  /\ serialIrq = FALSE
  /\ pic = PicReset
  /\ timer = [age |-> 0, due |-> FALSE]
  /\ cpu = [loc |-> "app", iflag |-> TRUE, halted |-> FALSE, waitKey |-> FALSE,
            patchFlags |-> FALSE, ax |-> "none", saved |-> "empty", stack |-> <<>>]
  /\ hooked = {}
  /\ bda = <<>>
  /\ typed = NoKey
  /\ tickDebt = 0

-----------------------------------------------------------------------------
(* Stack and dispatch. *)

Last(s)  == s[Len(s)]
Front(s) == SubSeq(s, 1, Len(s) - 1)

\* Push FLAGS, CS and IP so that the handler of `vec' returns to `ret', clear
\* IF and go to `to'.
Enter(c, vec, ret, to, key) ==
  [c EXCEPT !.stack = Append(@, [ret |-> ret, iflag |-> c.iflag, vec |-> vec,
                                 ax |-> c.ax, key |-> key]),
            !.iflag = FALSE, !.halted = FALSE, !.loc = to]

\* Where the vector of the interrupt table points.
Handler(vec) ==
  IF vec \in hooked \cap DOMAIN GuestEntry THEN GuestEntry[vec] ELSE vec

\* dispatch_interrupt_real
Dispatch(c, vec, key) == Enter(c, vec, c.loc, Handler(vec), key)

\* patch_flags_and_iret, and the IRET of guest handlers.
Iret(c) ==
  [c EXCEPT !.loc = Last(c.stack).ret, !.iflag = Last(c.stack).iflag,
            !.stack = Front(@)]

\* Mutant: INT 1Ch is entered by a jump, with nothing to return to.
ChainByJump(c) == IF "int1C" \in hooked THEN [c EXCEPT !.loc = "g1C"] ELSE c

\* INT 08h's chain to a hooked INT 1Ch.
ChainUserTick(c) ==
  IF "int1C" \in hooked THEN Enter(c, "int1C", "ret1C", "g1C", NoKey) ELSE c

\* A timer period that elapses is owed a tick until INT 08h counts it; the
\* history variable stops at -1.
Owed(debt)   == IF debt >= 0 THEN debt + 1 ELSE debt
Ticked(debt) == IF debt >= 0 THEN debt - 1 ELSE debt

IrqVector(l) ==
  CASE l = PitLine -> "int08" [] l = KeyboardLine -> "int09"
    [] l = Com1Line -> "int0C" [] l = MouseLine -> "int74"

\* The lines whose device has an interrupt pending.
Pending ==
  {l \in {PitLine} : timer.due}
    \cup {l \in {KeyboardLine} : kbc.pendingKey}
    \cup {l \in {Com1Line} : serialIrq}
    \cup {l \in {MouseLine} : kbc.pendingMouse}

-----------------------------------------------------------------------------
(* Computer::process_key_presses and Cpu::key_press. *)

\* Cpu::key_press after a scan code has been loaded.  While INT 16h waits,
\* int16_read_char runs here and now; when the buffer is still empty it also
\* forgets that the stacked FLAGS are to be patched.
CpuKeyPress ==
  \/ /\ ~cpu.waitKey
     /\ UNCHANGED <<cpu, bda>>
  \/ /\ cpu.waitKey /\ bda = <<>>
     /\ cpu' = [cpu EXCEPT !.waitKey = FALSE, !.patchFlags = FALSE]
     /\ UNCHANGED bda
  \/ /\ cpu.waitKey /\ bda # <<>>
     /\ LET done == [cpu EXCEPT !.ax = "key", !.waitKey = FALSE,
                                !.patchFlags = FALSE]
        IN  cpu' = IF cpu.patchFlags THEN Iret(done) ELSE done
     /\ bda' = Tail(bda)

\* Mutant: the next scan code is loaded as soon as port 0x60 has been read.
CanLoadWhenRead == ~kbc.obf

\* The next scan code is loaded only when port 0x60 has been read and IRQ1 is
\* not in service.
CanLoadKey == ~kbc.obf /\ KeyboardLine \notin pic.isr

ProcessKeyPresses(queue) ==
  \/ /\ queue # <<>> /\ CanLoadKey
     /\ keyPresses' = Tail(queue)
     /\ kbc' = KeyPress(kbc, Head(queue))
     /\ pic' = NotifyPending(pic)
     /\ CpuKeyPress
  \/ /\ queue = <<>> \/ ~CanLoadKey
     /\ keyPresses' = queue
     /\ UNCHANGED <<kbc, pic, cpu, bda>>

\* push_key_press: between two steps the host queues a key event.
HostKey ==
  /\ phase = "keys"
  /\ pressed < MaxKeys
  /\ pressed' = pressed + 1
  /\ ProcessKeyPresses(Append(keyPresses, pressed + 1))
  /\ UNCHANGED <<phase, serialIrq, timer, hooked, typed, tickDebt>>

\* The first half of Computer::step.
StepKeys ==
  /\ phase = "keys"
  /\ phase' = "cpu"
  /\ ProcessKeyPresses(keyPresses)
  /\ UNCHANGED <<pressed, serialIrq, timer, hooked, typed, tickDebt>>

\* push_ps2_mouse_event: between two steps the host moves the mouse.
HostMouse ==
  /\ phase = "keys"
  /\ MouseLine \in Devices
  /\ Len(kbc.aux) <= MaxAux
  /\ kbc' = PushMouseBytes(kbc)
  /\ pic' = NotifyPending(pic)
  /\ UNCHANGED <<phase, keyPresses, pressed, serialIrq, timer, cpu, hooked,
                 bda, typed, tickDebt>>

\* A byte arrives on COM1; nothing notifies the controller.
SerialByte ==
  /\ phase = "keys"
  /\ Com1Line \in Devices
  /\ ~serialIrq
  /\ serialIrq' = TRUE
  /\ UNCHANGED <<phase, keyPresses, pressed, kbc, pic, timer, cpu, hooked,
                 bda, typed, tickDebt>>

\* take_pending_timer_irq would now answer TRUE.
TimerElapses ==
  /\ timer.age = TimerPeriod /\ ~timer.due
  /\ timer' = [timer EXCEPT !.due = TRUE]
  /\ tickDebt' = Owed(tickDebt)
  /\ UNCHANGED <<phase, keyPresses, pressed, kbc, serialIrq, pic, cpu, hooked,
                 bda, typed>>

-----------------------------------------------------------------------------
(* Cpu::step. *)

\* The fields no CPU step touches.
StepDone ==
  /\ phase' = "keys"
  /\ UNCHANGED <<keyPresses, pressed>>

Aged(t) == [t EXCEPT !.age = IF @ < TimerPeriod THEN @ + 1 ELSE @]

\* An interrupt is taken from the controller and dispatched.
TakeInterrupt(l) ==
  /\ phase = "cpu" /\ cpu.iflag
  /\ Takes(pic, Pending, l)
  /\ pic' = Taken(pic, l)
  /\ kbc' = CASE l = KeyboardLine -> TakePendingKey(kbc)
              [] l = MouseLine -> TakePendingMouse(kbc)
              [] OTHER -> kbc
  /\ serialIrq' = (serialIrq /\ l # Com1Line)
  /\ timer' = IF l = PitLine THEN [age |-> 0, due |-> FALSE] ELSE Aged(timer)
  /\ cpu' = Dispatch(cpu, IrqVector(l),
                     IF l = KeyboardLine THEN kbc.scanCode ELSE NoKey)
  /\ StepDone
  /\ UNCHANGED <<hooked, bda, typed, tickDebt>>

\* No interrupt is taken, and the poll has left the controller as Polled.
CpuRuns == phase = "cpu" /\ (cpu.iflag => TakesNone(pic, Pending))

Polled == IF cpu.iflag THEN TookNone(pic) ELSE pic

Executes(loc) == CpuRuns /\ ~cpu.halted /\ cpu.loc = loc

\* HLT with nothing to wake it: only time passes.
Halted ==
  /\ CpuRuns /\ cpu.halted
  /\ pic' = Polled
  /\ timer' = Aged(timer)
  /\ StepDone
  /\ UNCHANGED <<kbc, serialIrq, cpu, hooked, bda, typed, tickDebt>>

\* What step_bios_segment does once the handler entered at cpu.loc has left
\* the processor as c, the controllers as p and the history as debt: a waiting
\* INT 16h keeps the CPU where it is; a handler that called into the guest is
\* left alone; otherwise, with IF set, a timer interrupt that is due (time has
\* passed in the handler) is delivered inline, and the handler's own frame is
\* popped.
BiosReturn(c, p, debt) ==
  LET waits == c.waitKey /\ cpu.loc \notin Trampolines
      left  == ~waits /\ c.loc \notin BiosLocs
  IN
  \/ /\ waits
     /\ cpu' = [c EXCEPT !.patchFlags = TRUE]
     /\ pic' = p /\ timer' = Aged(timer) /\ tickDebt' = debt
  \/ /\ left
     /\ cpu' = c /\ pic' = p /\ timer' = Aged(timer) /\ tickDebt' = debt
  \/ /\ ~waits /\ ~left
     /\ \E due \in {timer.due, timer.due \/ timer.age = TimerPeriod} :
        LET inline == c.iflag /\ TakesTimer(p, due)
            owed   == IF due /\ ~timer.due THEN Owed(debt) ELSE debt
        IN
        \/ /\ ~inline
           /\ cpu' = Iret(c) /\ pic' = p /\ tickDebt' = owed
           /\ timer' = [Aged(timer) EXCEPT !.due = due]
        \/ /\ inline /\ Handler("int08") = "int08"
           /\ cpu' = Iret(ChainUserTick(c))
           /\ pic' = Eoi(TookTimer(p), Pic1)
           /\ tickDebt' = Ticked(owed)
           /\ timer' = [age |-> 0, due |-> FALSE]
        \/ /\ inline /\ Handler("int08") # "int08"
           /\ cpu' = Enter(c, "int08", "retTimer", Handler("int08"), NoKey)
           /\ pic' = TookTimer(p)
           /\ tickDebt' = owed
           /\ timer' = [age |-> 0, due |-> FALSE]

\* INT 08h: count a tick, send EOI, chain to INT 1Ch.
BiosTimer ==
  /\ Executes("int08")
  /\ BiosReturn(ChainUserTick(cpu), Eoi(Polled, Pic1), Ticked(tickDebt))
  /\ StepDone
  /\ UNCHANGED <<kbc, serialIrq, hooked, bda, typed>>

\* INT 09h: send EOI, read port 0x60, buffer the key unless the buffer is
\* full.  Every scan code of this model is the make code of an ordinary key.
BiosKeyboard ==
  /\ Executes("int09")
  /\ BiosReturn(cpu, Eoi(Polled, Pic1), tickDebt)
  /\ kbc' = AfterPortData(kbc)
  /\ typed' = PortData(kbc)
  /\ bda' = IF Len(bda) < BdaCapacity THEN Append(bda, PortData(kbc)) ELSE bda
  /\ StepDone
  /\ UNCHANGED <<serialIrq, hooked>>

\* The default handler of INT 0Ah to 0Fh: send EOI.
BiosSerial ==
  /\ Executes("int0C")
  /\ BiosReturn(cpu, Eoi(Polled, Pic1), tickDebt)
  /\ StepDone
  /\ UNCHANGED <<kbc, serialIrq, hooked, bda, typed>>

\* INT 16h.  IF is set first.  AH is what the guest asked for, unless AX holds
\* a key already: its scan code is then taken for a function number.
BiosKeyboardService ==
  /\ Executes("int16")
  /\ LET c == [cpu EXCEPT !.iflag = TRUE]
         asked == IF cpu.ax \in Functions THEN {cpu.ax}
                  ELSE Functions \cup {"other"}
     IN
     \/ /\ "read" \in asked /\ bda # <<>>
        /\ bda' = Tail(bda)
        /\ BiosReturn([c EXCEPT !.ax = "key"], Polled, tickDebt)
     \/ /\ "read" \in asked /\ bda = <<>>
        /\ UNCHANGED bda
        /\ BiosReturn([c EXCEPT !.waitKey = TRUE, !.patchFlags = FALSE],
                      Polled, tickDebt)
     \/ /\ "check" \in asked
        /\ UNCHANGED bda
        /\ BiosReturn([c EXCEPT !.ax = IF bda = <<>> THEN @ ELSE "key"],
                      Polled, tickDebt)
     \/ /\ "other" \in asked
        /\ UNCHANGED bda
        /\ BiosReturn(c, Polled, tickDebt)
  /\ StepDone
  /\ UNCHANGED <<kbc, serialIrq, hooked, typed>>

\* INT 15h AH=C2h: enable, disable, reset or initialize the mouse, or set its
\* callback.
BiosMouseService ==
  /\ Executes("int15")
  /\ BiosReturn([cpu EXCEPT !.ax = "none"], Polled, tickDebt)
  /\ \/ /\ cpu.ax = "mouseOn"
        /\ kbc' = SetAuxEnabled(kbc, TRUE)
        /\ UNCHANGED hooked
     \/ /\ cpu.ax = "mouseOff"
        /\ kbc' = SetAuxEnabled(kbc, FALSE)
        /\ UNCHANGED hooked
     \/ /\ cpu.ax = "mouseReset"
        /\ kbc' = SetAuxEnabled(kbc, FALSE)
        /\ hooked' = hooked \ {"callback"}
     \/ /\ cpu.ax = "mouseInit"
        /\ hooked' = hooked \ {"callback"}
        /\ UNCHANGED kbc
     \/ /\ cpu.ax = "setHandler"
        /\ hooked' = hooked \cup {"callback"}
        /\ UNCHANGED kbc
  /\ StepDone
  /\ UNCHANGED <<serialIrq, bda, typed>>

\* Mutant: the callback is entered by a jump, without a return address.
BiosMouseJumps ==
  /\ Executes("int74")
  /\ BiosReturn(IF Len(kbc.aux) >= 3 /\ "callback" \in hooked
                THEN [cpu EXCEPT !.loc = "gMouse", !.saved = cpu.ax, !.ax = "packet"]
                ELSE cpu,
                Eoi(Eoi(Polled, Pic2), Pic1), tickDebt)
  /\ kbc' = AfterAuxRead3(kbc)
  /\ StepDone
  /\ UNCHANGED <<serialIrq, hooked, bda, typed>>

\* INT 74h: send both EOIs, read a packet and, when it is whole and a callback
\* is registered, save the registers in the one slot and FAR CALL the callback.
BiosMouse ==
  /\ Executes("int74")
  /\ LET call == Enter(cpu, "far", "retMouse", "gMouse", NoKey)
     IN BiosReturn(IF Len(kbc.aux) >= 3 /\ "callback" \in hooked
                   THEN [call EXCEPT !.iflag = cpu.iflag, !.saved = cpu.ax,
                                     !.ax = "packet"]
                   ELSE cpu,
                   Eoi(Eoi(Polled, Pic2), Pic1), tickDebt)
  /\ kbc' = AfterAuxRead3(kbc)
  /\ StepDone
  /\ UNCHANGED <<serialIrq, hooked, bda, typed>>

\* Mutant: the registers saved for the mouse callback are not taken back.
TrampolineForgets ==
  /\ \E loc \in Trampolines : Executes(loc)
  /\ BiosReturn(cpu, Polled, tickDebt)
  /\ StepDone
  /\ UNCHANGED <<kbc, serialIrq, hooked, bda, typed>>

\* The return points of INT 1Ch, of a guest INT 08h entered inline, and of the
\* mouse callback, which takes the saved registers back.
Trampoline ==
  /\ \/ Executes("ret1C") /\ BiosReturn(cpu, Polled, tickDebt)
     \/ Executes("retTimer") /\ BiosReturn(cpu, Polled, tickDebt)
     \/ /\ Executes("retMouse")
        /\ BiosReturn(IF cpu.saved = "empty" THEN cpu
                      ELSE [cpu EXCEPT !.ax = cpu.saved, !.saved = "empty"],
                      Polled, tickDebt)
  /\ StepDone
  /\ UNCHANGED <<kbc, serialIrq, hooked, bda, typed>>

-----------------------------------------------------------------------------
(* Guest code.  One action is one instruction, or a few that no interrupt of *)
(* the model can tell apart.                                                 *)

\* An instruction that leaves the devices alone.
GuestCpu(c) ==
  /\ cpu' = c
  /\ pic' = Polled
  /\ timer' = Aged(timer)
  /\ StepDone
  /\ UNCHANGED <<serialIrq, bda, typed>>

AppComputes ==
  /\ Executes("app")
  /\ GuestCpu(cpu)
  /\ UNCHANGED <<kbc, hooked, tickDebt>>

AppCli ==
  /\ Executes("app") /\ "cli" \in GuestOps /\ cpu.iflag
  /\ GuestCpu([cpu EXCEPT !.iflag = FALSE])
  /\ UNCHANGED <<kbc, hooked, tickDebt>>

AppSti ==
  /\ Executes("app") /\ ~cpu.iflag
  /\ GuestCpu([cpu EXCEPT !.iflag = TRUE])
  /\ UNCHANGED <<kbc, hooked, tickDebt>>

AppHlt ==
  /\ Executes("app") /\ "hlt" \in GuestOps /\ cpu.iflag
  /\ GuestCpu([cpu EXCEPT !.halted = TRUE])
  /\ UNCHANGED <<kbc, hooked, tickDebt>>

\* The application masks IRQ1 at the controller, or unmasks it.
AppMasks ==
  /\ Executes("app") /\ "mask" \in GuestOps
  /\ cpu' = cpu
  /\ pic' = SetMask(Polled, Pic1, {KeyboardLine} \ pic.mask)
  /\ timer' = Aged(timer)
  /\ StepDone
  /\ UNCHANGED <<kbc, serialIrq, hooked, bda, typed, tickDebt>>

\* The application points a vector of the interrupt table at its own handler.
AppHooks(vec) ==
  /\ Executes("app")
  /\ vec \in Hookable \cap DOMAIN GuestEntry /\ vec \notin hooked
  /\ hooked' = hooked \cup {vec}
  /\ GuestCpu(cpu)
  /\ UNCHANGED <<kbc, tickDebt>>

\* The application calls a BIOS service with AX = fn.  A polling application
\* reads a key only when it has seen one.
AppCalls(vec, fn) ==
  /\ Executes("app")
  /\ \/ vec = "int16" /\ fn = "check"
     \/ vec = "int16" /\ fn = "read" /\ ("block" \in GuestOps \/ bda # <<>>)
     \/ /\ vec = "int15" /\ fn \in MouseFunctions /\ MouseLine \in Devices
        /\ fn = "setHandler" => "callback" \in Hookable
  /\ GuestCpu(Dispatch([cpu EXCEPT !.ax = fn], vec, NoKey))
  /\ UNCHANGED <<kbc, hooked, tickDebt>>

App ==
  \/ AppComputes \/ AppCli \/ AppSti \/ AppHlt \/ AppMasks
  \/ \E vec \in Hookable : AppHooks(vec)
  \/ \E fn \in Functions : AppCalls("int16", fn)
  \/ \E fn \in MouseFunctions : AppCalls("int15", fn)

\* A handler enables interrupts before it is done.
HandlerSti ==
  /\ "sti" \in GuestOps
  /\ \E loc \in GuestLocs \ {"app"} : Executes(loc)
  /\ ~cpu.iflag /\ Len(cpu.stack) <= MaxDepth
  /\ GuestCpu([cpu EXCEPT !.iflag = TRUE])
  /\ UNCHANGED <<kbc, hooked, tickDebt>>

\* A guest INT 09h handler reads the scan code from port 0x60.
HandlerReadsPort ==
  /\ Executes("g09")
  /\ kbc' = AfterPortData(kbc)
  /\ GuestCpu([cpu EXCEPT !.loc = "g09read"])
  /\ UNCHANGED <<hooked, tickDebt>>

\* A guest handler jumps to the BIOS handler it has replaced.
HandlerChains ==
  /\ \/ Executes("g08") /\ GuestCpu([cpu EXCEPT !.loc = "int08"])
     \/ Executes("g09") /\ GuestCpu([cpu EXCEPT !.loc = "int09"])
     \/ Executes("g09read") /\ GuestCpu([cpu EXCEPT !.loc = "int09"])
     \/ Executes("g0C") /\ GuestCpu([cpu EXCEPT !.loc = "int0C"])
  /\ UNCHANGED <<kbc, hooked, tickDebt>>

\* A guest handler sends the EOI itself; a guest INT 08h handler that does so
\* counts the tick itself.
HandlerEoi ==
  /\ \E step \in {<<"g08", "g08done">>, <<"g09read", "g09done">>, <<"g0C", "g0Cdone">>} :
       /\ Executes(step[1])
       /\ cpu' = [cpu EXCEPT !.loc = step[2]]
       /\ tickDebt' = IF step[1] = "g08" THEN Ticked(tickDebt) ELSE tickDebt
  /\ pic' = Eoi(Polled, Pic1)
  /\ timer' = Aged(timer)
  /\ StepDone
  /\ UNCHANGED <<kbc, serialIrq, hooked, bda, typed>>

\* IRET; the mouse callback returns with RETF, which leaves IF alone.
HandlerReturns ==
  /\ \/ \E loc \in {"g08done", "g09done", "g0Cdone", "g1C"} :
          Executes(loc) /\ GuestCpu(Iret(cpu))
     \/ Executes("gMouse") /\ GuestCpu([Iret(cpu) EXCEPT !.iflag = cpu.iflag])
  /\ UNCHANGED <<kbc, hooked, tickDebt>>

HandlerProgress == HandlerReadsPort \/ HandlerChains \/ HandlerEoi \/ HandlerReturns

Bios ==
  \/ BiosTimer \/ BiosKeyboard \/ BiosSerial \/ BiosMouse
  \/ BiosKeyboardService \/ BiosMouseService \/ Trampoline

StepCpu ==
  \/ \E l \in {PitLine, KeyboardLine, Com1Line, MouseLine} : TakeInterrupt(l)
  \/ Halted \/ Bios \/ App \/ HandlerSti \/ HandlerProgress

Next ==
  HostKey \/ HostMouse \/ SerialByte \/ TimerElapses \/ StepKeys \/ StepCpu

Spec == Init /\ [][Next]_vars

\* Every front end calls Computer::step again and again; guest handlers finish,
\* and the application does not keep interrupts disabled for ever.
Fairness ==
  /\ WF_vars(StepKeys)
  /\ WF_vars(StepCpu)
  /\ SF_vars(HandlerProgress)
  /\ SF_vars(AppSti)

FairSpec == Spec /\ Fairness

-----------------------------------------------------------------------------
(* Properties. *)

\* The location at which the owner of frame i runs or will resume.
LocOf(i) == IF i = Len(cpu.stack) THEN cpu.loc ELSE cpu.stack[i + 1].ret

\* The vectors whose handler may be at a location.  A timer interrupt is
\* delivered inline at the end of any BIOS handler that ends with IF set.
Owners(loc) ==
  CASE loc \in {"int08", "g08", "g08done"} -> {"int08"}
    [] loc \in {"int09", "g09", "g09read", "g09done"} -> {"int09"}
    [] loc \in {"int0C", "g0C", "g0Cdone"} -> {"int0C"}
    [] loc = "int15" -> {"int15"}
    [] loc = "int16" -> {"int16"}
    [] loc \in {"int1C", "g1C"} -> {"int1C"}
    [] loc \in {"int74", "retMouse"} -> {"int74"}
    [] loc = "gMouse" -> {"far"}
    [] loc \in {"ret1C", "retTimer"} -> {"int08", "int09", "int0C", "int16", "int74"}
    [] OTHER -> {}

\* Every return frame belongs to the code that will pop it, and only the
\* application runs on an empty stack: no trampoline, inline timer interrupt
\* or postponed IRET of a waiting INT 16h pops the frame of somebody else.
FrameDiscipline ==
  /\ \A i \in DOMAIN cpu.stack : cpu.stack[i].vec \in Owners(LocOf(i))
  /\ (cpu.stack = <<>>) = (cpu.loc = "app")
  /\ cpu.stack # <<>> => cpu.stack[1].ret = "app"

\* The places in a handler that come before its EOI.
BeforeEoi == {"int08", "g08", "int09", "g09", "g09read", "int0C", "g0C", "int74"}

\* The in-service bits are exactly the lines whose handler has still to send
\* its EOI: none is left set for good, which would silence its line, and none
\* is cleared under a handler that is still at work, which would let it be
\* entered a second time.
InServiceExact ==
  pic.isr = {l \in {PitLine, KeyboardLine, Com1Line, MouseLine} :
               \E i \in DOMAIN cpu.stack :
                 cpu.stack[i].vec = IrqVector(l) /\ LocOf(i) \in BeforeEoi}

\* The scan code a keyboard handler may still read is the one whose interrupt
\* it serves, also when a guest handler has read port 0x60 and then chains to
\* the BIOS handler.
HandlerSeesItsKey ==
  \A i \in DOMAIN cpu.stack :
    cpu.stack[i].vec = "int09" /\ LocOf(i) \in BeforeEoi
      => kbc.scanCode = cpu.stack[i].key

\* No tick is counted that no elapsed timer period has caused.
TicksNotInvented == tickDebt >= 0

\* INT 09h buffers only keys, each at most once, and in the order in which the
\* host pressed them.
BufferedOnceInOrder ==
  [][Len(bda') > Len(bda) => Last(bda') \in Keys /\ Last(bda') > typed]_vars

\* A hardware interrupt leaves AX as it found it, whatever nests inside it.
InterruptTransparent ==
  [][Len(cpu.stack') < Len(cpu.stack)
       /\ Last(cpu.stack).vec \in {"int08", "int09", "int0C", "int74"}
     => cpu.ax' = Last(cpu.stack).ax]_vars

\* Every key the host presses is loaded into the controller, in turn, and its
\* scan code is read from port 0x60.
KeyDelivered ==
  \A k \in Keys :
    pressed >= k ~> kbc.scanCode > k \/ (kbc.scanCode = k /\ ~kbc.obf)

\* A serial interrupt nobody announces to the controller is taken all the same.
SerialDelivered == serialIrq ~> ~serialIrq
=============================================================================
