# Oxide86 in TLA+

Oxide86 is an emulator of an IBM-compatible PC (8086 to 80286) written in Rust: a
core crate with the CPU, the devices and a BIOS written in Rust, and front ends
(terminal, window, browser) that step it. This directory holds TLA+ models of
its control, the TLC runs that check them, and theorems that TLAPS proves about
them. Paths below are relative to the repository; `core/` stands for
`src/core/src/`.

Contents: [1 The system](#1-the-system), [2 Plan](#2-plan),
[3 Modules](#3-modules), [4 Runs](#4-runs), [5 Proofs](#5-proofs),
[6 What the code does and its documentation does not say](#6-findings),
[7 Not modelled](#7-not-modelled), [8 Running the checks](#8-running-the-checks).

## 1 The system

One thread owns the emulated machine. A front end calls `Computer::step`
(`core/computer.rs:211`) in a loop; each call loads at most one queued key,
executes one instruction or one BIOS handler, advances the cycle counter and lets
the devices that are due do their work. Real concurrency exists in four places
only: the debugger (HTTP server threads share mutexes, atomics and a condition variable with the
emulator), the TCP threads of the modem, the audio thread that drains the PCM
ring, and the events of the host (keys, mouse, disk changes, joystick) that
arrive between two steps. Everything else that is hard is *emulated* concurrency:
interrupts arrive between any two instructions, BIOS handlers are Rust
functions executed in the place of one instruction, and devices hold protocol
state across many steps.

| component | state | operations | talks to | hard because | correct when |
|---|---|---|---|---|---|
| dispatch loop, BIOS segment (`computer.rs`, `cpu/mod.rs`) | registers, flags, stack, `wait_for_key_press`, the key queue, saved mouse registers | step, interrupt dispatch, BIOS handler, trampolines, key load | all controllers | handlers nest, postpone their IRET, and call guest code | each frame is popped by its owner; the interrupted code cannot tell |
| interrupt controllers (`devices/pic.rs`) | in-service bits, masks, poll counter | `take_irq`, EOI, masks | PIT, keyboard, UART, RTC, disks | lines are polled rarely, EOI is non-specific | the in-service bits are those of running handlers; no device starves |
| keyboard and aux controller | pending key, mouse queue, output latch | key press, mouse packet, port 60h/64h | PIC, host | two sources share a data port | each key is read once, in order, by its handler |
| BIOS keyboard services, BDA ring | the ring of 15 keys, modifier flags | INT 09h, INT 16h | dispatch loop | INT 16h waits by being executed again | FIFO, nothing invented, nothing lost unless full |
| debugger (`debugger.rs`, `debugger/server.rs`) | pause flags, command and response slot, snapshot, breakpoints | the MCP tools; `debug_check`, `do_pause` | HTTP threads, emulator thread | a wait under one mutex, a change under none | answers arrive, are current and go to who asked |
| DMA + floppy controller | channel registers, phases, FIFO position | commands, parameters, cycles | bus, PIC, host (disk change) | request lines and phases change in different calls | a sector arrives whole; every command ends |
| serial ports, modem, TCP (`uart.rs`, `modem/`, `native-common/modem_transport.rs`) | UART registers, modem state, escape guard, queues | port access, AT commands, dial, poll | PIC, network threads | the remote side acts at any time; `+++` depends on silence | bytes are delivered once and in order; result codes match the state |
| hard disk controller, disk images, INT 13h | phase, sector buffer, registers; last status; change line | ATA commands by PIO; BIOS services | image files, floppy controller, guest programs | partial failure; phases that outlive a command; narrow addresses | every request is answered truly: what was named is what was read or written |
| sound (DSP, OPL, CD-ROM, MPU-401) | DSP command state, DMA block counters, IRQ flags | DSP commands, DMA bytes | DMA, PIC, audio thread | auto-init, halt and resume while bytes arrive | one IRQ per block; the stream is neither short nor long |
| PIT, RTC, time of day | counters, latches, alarm | port access; poll | PIC, speaker | wrap-around, latching, missed seconds | ticks follow the cycle counter |
| boot, reset, bus (`bus.rs`, `computer.rs`) | cycle counter and deadlines, A20, reset request | reset, warm reset, boot order | all devices | not everything is reset | after a reset the machine is as after power-on |
| video (`video/`, INT 10h) | CRTC, sequencer, graphics and attribute controllers, DAC, planes; modes, pages and cursors in the BDA | INT 10h, port access, memory access, refresh of the window | CPU, front end | a window is drawn only when something announced a change; five layouts of memory; BDA and card each keep a mode | the window shows what memory and registers say; a scroll moves the picture; text lands at the cursor |
| instruction set, 80286 protected mode | registers, flags, descriptor caches | one instruction | bus | REP with interrupts, faults half way | the result is that of the processor's manual |
| front ends | stepping loop, windows | call `step`, forward events | core | throttle, pause | `step` is called again |
| disk and log tools, F80 arithmetic, OPL3 synthesis | – | pure computation | – | numeric | out of scope, see 7 |

`PROJECT.json` lists every component with its status, and under `hazards` the
places where this code is hard to test, each at its line with the properties that
watch it.

## 2 Plan

The order is by importance of the behaviour and by what later modules need.

| # | modules | subject | abstract specification / main properties | proofs |
|---|---|---|---|---|
| 1 (done) | `Pic`, `KeyboardController`, `Machine` | interrupts, BIOS segment, keyboard path | frame discipline, exact in-service bits, FIFO of keys, transparency of interrupts | all six safety properties of the runs, see 5 |
| 2 (done) | `DebugProtocol` | debugger threads against the emulator | stops at watchpoints, current snapshots, commands answered once | all four safety properties |
| 3 (done) | `Dma`, `Fdc`, `FloppyTransfer` | sector transfer | request line equals phase, IRQ means done, whole sectors, every command ends | all five safety properties, `SectorDelivered` among them |
| 4 (done) | `Modem`, `TcpTransport`, composed in `SerialLine` | port, AT commands, escape guard, TCP threads | bytes intact both ways, lost carrier noticed, dropped connections end | `TypeOK`, `StreamIntact`, `EscapeHeld` |
| 5 (done) | `Dsp`, `CdInterface`, composed with `Dma` in `SoundBlaster` | DSP blocks, loops, halt and continue; CD commands on the same interrupt line | DMA and DSP agree on the place in a block, sectors whole and in order, nobody waits in vain | `TypeOK`, `InStep`, `SectorIntact` |
| 6 | `Boot` | reset, warm reset, deadlines, CMOS shutdown byte, boot order | deadlines are reached at most one period late; a reset leaves no request behind | deadline bound |
| 7 (done) | `HardDisk`, `DiskServices` | ATA PIO phases, INT 13h on top | `BlockStore`: sectors in a row, true answers; refinement | `TypeOK`, the refinement `Truthful` |
| 8 (partly done) | `Clock` | RTC alarm, tick counter, INT 1Ah; still open: PIT counters and latches | an alarm rings once in every second it names | latch lemma |
| 9 (done) | `Alu`, `Processor`, `Instructions`, `Transfers`, `Control`, `Cpu`, `CpuLaws`, `RealPrograms` | every integer instruction, REP, flags, stack, traps | what programs compute, said without the processor | the arithmetic unit, for every operand |
| 10 (done; proofs open) | the same, with `ProtectedPrograms` | 80286 descriptor loads, gates, privilege levels, faults | a fault changes nothing; the privilege level is that of code and stack | `RingsAgree` |
| 11 (done) | `VideoBuffer`, `VideoCard`, `VideoServices` | ports, planes, latches, modes, INT 10h, refresh | `TextScreen`: cells, cursors, mark; refinement | `ScreenShown`, the refinement `TextScreenKept` |

Every module keeps its parameters as CONSTANTS with a named assumption, one action per
operation of the code, and recursion as a fold or a recursive function, so that it can be proved
about. `NumberLemmas` has the facts about numbers that several proofs need: division by any number, and induction; with them it proves what the arithmetic unit computes. A component on the borders of two modules is a module without variables of
its own (`Pic`, `KeyboardController`, `Dma`, `Fdc`, `Dsp`, `CdInterface`, `HardDisk`, `Alu`, `Processor`, `Instructions`, `Transfers`, `Control`, `VideoBuffer`, `VideoCard`): operators on the component's record, so that
the composing module owns the state and an action can use several
components the way the Rust handler does.

## 3 Modules

### Pic, KeyboardController: operators on a controller's record

`Pic` is `core/devices/pic.rs`. The two 8259s are a record: in-service lines per controller, masks, the poll
counter. `Takes(p, line, pending)` is the scan of `take_irq` in its fixed order (the order
is *not* the 8259's priority order, and a line blocks only itself);
`TakesTimer` is the extra path of `take_timer_irq`, which is asked at every poll. The other
devices are scanned only when the poll counter reaches `PollInterval` (100 in the code) or when
`NotifyPending` set it — which keyboard and mouse do and COM1 does not. A
non-specific EOI clears the lowest in-service bit.

`KeyboardController` is the output side of `keyboard_controller.rs`: one latched scan code, a queue of mouse
bytes, and `PortData`, which decides which of the two a read of port 60h returns.

### Machine: the dispatch loop

State: the controllers; the CPU as the place the program counter is (`"app"`, a guest handler, a
BIOS handler, a trampoline, between instructions), the stack of return
frames, `wait_for_key_press`, the saved mouse registers; the host's key queue;
the BDA ring; ghosts that remember what the host typed, what the BIOS buffered and which ticks passed.

| action | code |
|---|---|
| `HostKey`, `HostMouse`, `SerialByte`, `TimerElapses` | the host or a device acts between two steps |
| `StepKeys` | `process_key_presses`: a key is loaded only if nothing is pending, IRQ1 is not in service and (for the BIOS buffer) nobody waits |
| `TakeInterrupt` | `Cpu::step`: IF set, a line is taken, a frame pushed |
| `BiosTimer`, `BiosKeyboard`, `BiosSerial`, `BiosKeyboardService`, `BiosMouseService`, `BiosMouse`, `Trampoline` | one BIOS handler as one step, with its epilogue `BiosReturn`: postponed while `wait_for_key_press`, an inline timer interrupt, `patch_flags_and_iret` |
| `App*` | the guest program: computes, hooks vectors, CLI, STI, HLT, masks, calls INT 16h or 15h |
| `Handler*` | guest interrupt handlers: read the port, chain, EOI, STI, IRET |

Guest programs are not in the repository: they are an environment that does what the
instructions allow, restricted per run by `GuestOps` and `Hookable`. An
instruction that changes nothing the model sees is `AppComputes`.

### DebugProtocol: HTTP threads and the emulator

Every access to an atomic, and every critical section under one mutex, is one action, in program order, with a
control point per client (`pc`) and one for the emulator. The condition variable is a set of sleepers; a notification
moves them back to the test of their condition. The clients run the tools `pause`, `continue`, `step`,
`send_command` and the breakpoint and watchpoint tools; the emulator runs instructions that may
write a watched address or reach a breakpoint, and stops in `do_pause`, where it publishes a snapshot
and serves commands.

### Dma, Fdc, FloppyTransfer: a sector on its way

`Dma` holds base and current address and count of a channel, the flip-flop, mask, request lines,
mode (read, write, verify; auto-init; decrement), status bits. `Fdc` holds the phase
of the controller (`idle`, parameters, DMA read and write, results), its FIFO and its interrupt.
`FloppyTransfer` composes them as `bus.rs` does: `execute_dma_transfer` performs up to
`MaxBurst` cycles *on the request lines it found*, drains the request of the floppy
controller, and hands bytes over (`Place` is where each belongs). A driver issues the commands, programs the
channel, waits for IRQ 6 and reads the results; the host changes the disk at any time.

### Modem, TcpTransport, SerialLine: a modem over TCP

`Modem` is the record of `SerialModem` with the parser of its commands: a character is what the parser
tells apart, the receive queue holds items (an echo, a result code, byte *n* of connection
*c*), and the commands of a line are found from its end (`CommandsFrom`, a recursive function). `TcpTransport` is one connection: the three atomic flags, the queue under the mutex, the channel to the
bridge thread, the bridge (connecting, writing, ended), the reader (reading, about to extend the queue, ended), and
the peer. Each operator is one access to what is shared. `SerialLine` composes them behind one port of `uart.rs`.

`poll_transport`, which almost every register access runs first, looks at the shared state twice: it
drains the incoming bytes (or finds the lock held), and it takes an event. Threads may act in
between, so such an access is two actions, `Asks` (inside `ReadStatus`, `TakeIrq`, `ReadModemStatus`) and
`TakesEvent`, with the access under way in `access`. `Send` is a write to the transmitter and contains all of
`SerialModem::write`: a plus held back, data forwarded, an escape confirmed by the clock, a command character. `Threads`
is a step of a connection's threads, `World` one of its peer or the wall clock, `Reset` a reset of the bus with connections up.

### Dsp, CdInterface, SoundBlaster: a sound card and its drivers

`Dsp` is `sound_blaster/dsp.rs`: the command port collecting a command and its parameters, the commands that
start, halt, resume and end transfers (`Execute`), and the byte that completes a block (`ReceiveByte`). `CdInterface` is `cdrom.rs`:
commands written to base+0, parameters to base+1, results, and the two ways sector data are read — through base+1 with an interrupt
(command 0Bh) and through base+0 without one (command 02h).

`SoundBlaster` composes them with the two DMA controllers. `Tick` and `BusCycle` are the bus, which passes a change of the card's
request line on after a port write only (`Written`). `TakeIrq` is `take_pending_irq` of the card, which asks the DSP first. The two
drivers and their common interrupt handler are an environment that keeps the rules the code makes necessary:
the handler reads the mixer's interrupt register and acknowledges what it finds, then looks at the CD-ROM's status in
any case; the sound driver masks its channel before it halts the DSP or tells a loop to end, unmasks it after "continue", and does
not reset the DSP during a 16-bit transfer; the CD driver resets the drive (`GiveUp`) when the status
says its command is gone, because the host has changed the disc. A program does not mix commands 02h and 0Bh: the flag of the
former outlives an abandoned read, and the latter then never interrupts.

### HardDisk, DiskServices, BlockStore: disks and INT 13h

`HardDisk` has the arithmetic of a disk image (`OnDisk`, `Lba`, `Following`, `ReadSectors`, `WriteSectors`) and the ATA
controller as operators on its record: `Command` is `execute_command`, `AfterReads` and `AfterWrites` are bytes through the data port, the
last of which ends the command. A command takes a cylinder modulo `CylinderRadix`, because the code casts it to `u8`.

`DiskServices` is a program on top: it calls INT 13h, one action per service (a service polls its controller until it is done), or drives the ATA ports itself,
one byte per action (`PortCommand`, `PortRead`, `PortWrite`, `PortReset`). The host changes the floppy (`ChangeFloppy`) and resets
the machine (`MachineReset`). The floppy controller appears as what a service gets from it, since `FloppyTransfer` covers its phases.

`BlockStore` is what a program relies on: drives with sectors in a row; a request for sectors that exist is carried out, any other
is refused, a refused write may have stored a beginning; the status service tells the outcome of the last service. `Store` in `DiskServices` is the refinement
mapping (an address becomes a position, bytes become sectors, parameters become the number of sectors they describe), and `Truthful == Store!Spec`.

### Alu, Processor, Instructions, Transfers, Control, Cpu: the processor

`Alu` is the arithmetic: an operation takes numbers below `n` (256 or 65536, the widths of the code) and returns a result with
flags. `Processor` is the record `m` (registers, flags, hidden segment caches, system registers, the pending exception, memory) with
address translation, stack, segment loads, and the dispatch of interrupts in real and in protected mode. `Instructions`, `Transfers` and `Control` have one operator
per handler of `core/cpu/instructions`, named as there; `Exec00` of `Control` is `exec_instruction`. An instruction is a record of its handler and
operands and not its bytes, since decoding has no state; it takes one unit of `ip`.

| action of `Cpu` | code (`Cpu::step`) |
|---|---|
| `Dispatch` | a pending exception is delivered before the next instruction |
| `Request` | a device's interrupt is taken, if IF allows and the case has one left |
| `Execute` | one instruction, then the single-step trap unless a load of SS holds it back |

A *case* (`RealPrograms`, `ProtectedPrograms`) is a program, the processor it starts on, how often devices may interrupt, and the name of a law.
`CpuLaws` says each law without using the processor: the number that two operands give, the outcome of a signed comparison, the block an element-wise copy
would leave, the descriptor a selector names. `ProtectedPrograms` contains an operating system of one task: descriptor tables, gates, fault
handlers that report number and error code, and a kernel with a stack of its own.

### VideoBuffer, VideoCard, VideoServices, TextScreen: what is on the screen

`VideoBuffer` is memory, display registers and `Picture`, which stands for `render_and_clear_dirty`: the cells of a text mode with their two
colours, or a colour for each dot, for every mode and layout (interleaved banks, planes, a byte per dot). `VideoCard` is ports and windows of the five
adapters with the latches, write modes and the bit, plane and set/reset masks of an EGA, and the helpers through which the BIOS scrolls and draws around them.

`VideoServices` is a program that makes requests of INT 10h, ports and video memory (`Ask`; a service is a list of port and memory accesses, `Accesses`, around changes of the data area), the front end that redraws when the
buffer says it is dirty (`Refresh`), and the two restarts (`Restart`; `WarmRestart`, which spares the card). `TextScreen` is what a program relies on in a text mode: cells, a
cursor per page, scrolling and filling said of the whole screen at once, without addresses, ports or an order of rows. `TextScreenKept == Terminal!Spec`.

### Clock: alarm and ticks

`Clock` has the RTC's alarm as the interrupt controller asks for it (`PollAlarm`), INT 70h (`AlarmInterrupt`), the tick counter with its midnight flag, and the
services of INT 1Ah that change either. The time is a number of seconds whose parts the alarm registers are compared with.

## 4 Runs

| run | question | result |
|---|---|---|
| `keys` | a polling application that hooks INT 08h, 09h, 1Ch and nests handlers: are frames popped by their owner (`FrameDiscipline`), does a handler read the key it was called for (`HandlerSeesItsKey`), are ticks only counted when they happen (`TicksNotInvented`), is each key buffered once and in order (`BufferedOnceInOrder`)? | holds |
| `mouse` | with mouse, callback and COM1: are in-service bits exactly those of running handlers (`InServiceExact`), is the interrupted code's AX intact (`InterruptTransparent`)? | holds while the callback keeps interrupts off |
| `live` | is every key eventually read (`KeyDelivered`), every COM1 interrupt taken (`SerialDelivered`)? | holds |
| `debug` | are snapshots current, commands served once and answered, watchpoints never run past? | holds for one client |
| `floppy` | do request line, interrupt, sector contents and end of commands agree, and does memory refresh on channel 0 go on beside them (`RefreshGoesOn`)? | holds |
| `serial` | two connections dialled, escaped from, hung up on, redialled and reset under four threads: are the peer's bytes an unbroken beginning of what it sent, all of them while the connection is held (`StreamIntact`)? Does the peer get what was typed, less the pluses of a confirmed escape, which takes three (`EscapeHeld`)? Is a lost carrier noticed (`LostCarrierNoticed`), do the threads of a dropped connection end (`ConnectionEnds`), by polling or by interrupts? | holds |
| `sound` | blocks and loops of 8 and 16 bits, paused, continued, ended and reset in bursts of bus cycles, and CD commands meanwhile, with the disc changed at any moment: do DSP and DMA agree on the place in the block (`InStep`), does a read that succeeds deliver the sectors asked for (`SectorIntact`), are all drivers woken (`NobodyWaits`)? | holds |
| `disk` | services, a program at the ports, transfers abandoned by a software reset, machine resets and floppy changes: is every request answered truly (`Truthful`, the refinement of `BlockStore`)? | holds up to `CylinderRadix` cylinders |
| `cpu` | programs of the processor, most with one device's request at any boundary of their instructions: do sums over several bytes, decimal adjustments, products, quotients and shifts give the number (`ArithmeticExact`), do jumps after comparisons, scans and loops go the right way (`ComparisonsAgree`), do blocks arrive in either direction, overlapping, empty and across the end of a segment, and nothing else (`BlocksMoved`), do calls, services, frames and traps give everything back (`FramesRestored`), do limits, selectors and privilege levels hold, and what do refused accesses leave behind (`ProtectionKept`)? | holds |
| `video` | on all adapters and in all modes: is every change announced to the front end (`ScreenShown`), is a scroll a motion of the picture (`ScrollsWhatIsShown`), are the text services a `TextScreen` (`TextScreenKept`)? | holds |
| `cpu_stack_pair`, `alarm` | statements of the code's comments (`PairAtomic`, `AlarmRings`) | violated, see 6 |

**Bounds.** `PollInterval` is 2 or 3 instead of 100: 1 would hide the difference between a scan and
a skipped poll, more repeats it. Two keys (`MaxKeys`) are the fewest that can be confused, three
fill a ring of two and overflow it. Handlers nest `MaxDepth` = 2 deep, the fewest with an inner and an
outer frame of the same kind; the theorem below covers every depth. Timer ticks are unlimited (`TimerPeriod` 0 lets one fall
due at any time). `MaxAux` = 5 mouse bytes are two packets less one byte, so a packet can be half read.
The debugger runs have two addresses (watched and not), `MaxSteps` = 2 so that a multi-step
is interrupted half way, one client where answers must be its own and two where they can
be confused. `FloppyTransfer` counts in radix 2 with two-byte sectors, parameters and results: an address or
count carries, borrows and wraps, and each loop runs at least twice; `MaxBurst` = 3 is one more than a
sector, so a burst overruns it. The serial runs dial at most twice (`MaxCalls`), the fewest for a connection that lingers beside its
successor; the peers send two bytes (`MaxData`), so that an order can be broken; the program sends
two sequences (`MaxSends`), each up to seven characters long, at any moment; `GuardPolls` is 2 instead of 50, one
poll that counts and one that ends the guard. The echo is off, which only takes items out of the queue.
In `sound` words count to 4 (`Radix` 2): a block of 2 bytes is half a loop's buffer, and one of 4 is the block of 64K whose length
wraps to 0. A tick has one or two bus cycles (`MaxBurst`), so that a port write can fall between any two bytes or behind the
end of a block. Two sectors of two bytes have a first and a last of each. One disc is enough to be inserted, ejected and changed.

The hard disk has two cylinders of two heads with one sector each, the floppy two sectors a track, so runs of three sectors cross a head and a
cylinder, and end inside or outside the disk; addresses are those of the disks and, for each part of an address, one beyond. `CylinderRadix` and `HeadRadix` are 2: as many
cylinders as a transfer tells apart. A sector has two bytes, so a transfer can be abandoned inside one; two writes
(`MaxWrites`) can overlap. There is no second hard disk, so drive D is the one that is not there.

The processor has its real widths. What is bounded is programs and operands: the operands are those around carries, signs, zero and the limits of
a width, the counts and offsets those around the ends of a block, of a segment and of 64K. One request (`requests`) of one device (`Requests`) may be taken at any boundary of instructions in every family of
arithmetic, branches, scans, loops, blocks, frames and protected mode; a second one is not tried. Without a request run the comparisons of two strings, which are one instruction each, and the shifts, of which one
operand and count also runs with one (`InterruptedShifts`). A run of a program ends, hence `CHECK_DEADLOCK FALSE`.

A text screen of `video` has two rows of two characters (one in a narrow mode), so that a line wraps, a screen scrolls and a window may leave out a
row or a column; modes 11h and 12h have a third row. Cells are 2, 3 or 4 lines high (`Cell8`, `Cell14`, `Cell16`), which keeps the three heights apart. The DAC has 20 entries (`Colors`), more than the sixteen a buffer starts with. Two lopsided glyphs make a mirrored, shifted or
half-drawn character differ. Each case starts from a picture in which no two places are alike and makes two to four further requests from a set chosen for the adapter and mode: enough to set an
index, write the data and look, or to write, scroll and write again. The requests end, hence `CHECK_DEADLOCK FALSE`.

A day of `Clock` has two hours of two minutes of three seconds, and the run goes on one second past midnight (`Last`), so that an alarm for any minute names two different seconds and one for a time
comes again the next day.

**Fairness.** The front ends call `Computer::step` for as long as they run
(`native-cli/src/main.rs`, `native-gui/src/main.rs:1087-1096`, `wasm/src/lib.rs:273-288`), so `StepKeys` and `StepCpu` are weakly fair. Which instruction the guest
executes is its choice, hence strong fairness of what a well-behaved guest does: its
handlers make progress (`HandlerProgress`), it enables interrupts again (`AppSti`). In `live` the application does not
block in INT 16h and the timer period is 3: a guest with an interrupt at every
instruction makes no progress on a real machine either. `DebugProtocol`
assumes that the emulator runs, that a thread which can go on does, and strong fairness of the lock (`PauseLock`): the mutex is
taken again and again by the emulator, and a waiting thread gets it eventually. `FloppyTransfer` assumes that the bus goes on (`Bus`)
and a driver that waits for its interrupt and reads the results (`Driver`,
`TakeIrq`): strongly, because a tick of the bus, atomic in the code, is several steps here and disables them in between. `SerialLine` assumes that the
emulator goes on polling its interrupts or executing the polling loop (`Reads`) and that the threads of each connection are scheduled
(`Threads`); a connect eventually succeeds or fails, as the operating system promises. Nobody need send or close anything.
`SoundBlaster` assumes that time passes (`Bus`, weakly) and that interrupts are taken, handlers run and a driver
that has begun something goes on (`TakeIrq`, `Handler`, `Sound`, `Reader`, strongly: a tick of the bus interrupts them). Nothing
need be started, paused or ended. `Cpu`, `VideoServices` and `Clock` state safety only and assume nothing.

**What the properties watch out for.** `InServiceExact` holds because the modelled handlers do not enable
interrupts before their EOI; with `"sti"` among the guest operations it fails by the design of the controller (the
lowest bit is not the latest handler). `KeyDelivered` fails with a guest that blocks in INT 16h: while it waits, INT 09h
is executed again at each step and buffers the key repeatedly. In practice each
key release is another interrupt that gets the machine going again.
`HandlerSeesItsKey` fails when such a guest also has handlers that enable interrupts early. `RequestMatchesPhase` and
`IrqMeansDone` fail if the driver resets the controller in the middle of a transfer (`"wait"` in `ResetWhen`): a reset through the digital output register leaves
request line and interrupt as they were.

## 5 Proofs

`tlapm` proves, for every value of the constants that satisfies the named assumptions:

| theorem | statement | inductive invariant |
|---|---|---|
| `Machine_proofs!TypeCorrect`, `FramesDisciplined` | `TypeOK`, `FrameDiscipline`, any nesting, any hooks | `IInv` |
| `Machine_proofs!NoTickInvented` | `TicksNotInvented`, if no guest waits in INT 16h (`Polling`) | `Core` |
| `Machine_proofs!InServiceBitsExact`, `InterruptsTransparent` | `InServiceExact`, `InterruptTransparent`, if besides no handler enables interrupts (`NoSti`) | `MaskedInv`; `CallPlaced`, `AxKept` |
| `Machine_proofs!KeyOfItsInterrupt` | `HandlerSeesItsKey`, under `Polling` and (`NoSti` or no device but the keyboard) | `KeyInv` |
| `Machine_proofs!KeysInOrder` | `BufferedOnceInOrder`, if besides there is no mouse | `KeyInv`, `KeyOrder` |
| `DebugProtocol_proofs!TypeCorrect`, `SnapshotAlwaysCurrent`, `WatchpointAlwaysStops` | any number of clients, addresses and steps | `IInv` |
| `DebugProtocol_proofs!LoneCommandServedOnce` | `CommandServedOnce`, for one client (`Lone`) | `LoneInv` |
| `FloppyTransfer_proofs!TypeCorrect` | any radix, sector, burst | `TypeInv` |
| `FloppyTransfer_proofs!RequestAlwaysMatches`, `IrqAlwaysMeansDone` | under `ResetWhen \subseteq {"ready"}` | `TypeInv`, `RequestInv` |
| `FloppyTransfer_proofs!SectorAlwaysDelivered` | `SectorDelivered`, under the same condition | the two and `DataInv` |
| `SerialLine_proofs!TypeCorrect`, `BytesInOrder` | `TypeOK`, `StreamIntact`, for any connections, bytes and programs | `LineInv`; `InOrder` of each connection |
| `SerialLine_proofs!EscapesHeld` | `EscapeHeld`, while the count of pluses is below 255 (`CountsOn`) | `LineInv`, `TextInv` |
| `DiskServices_proofs!TypeCorrect` | any disks, requests, sizes | `IInv` |
| `DiskServices_proofs!ServedTruthfully` | `Spec => Store!Spec`, if the controller's registers tell the disk's cylinders and heads apart (`Fitting`) | `IInv` |
| `SoundBlaster_proofs!TypeCorrect` | any programs, radix, discs, bursts | `TInv` |
| `SoundBlaster_proofs!StaysInStep` | `InStep`, if no program plays both by 14h and in 16 bits (`Own`) | `TInv`, `AInv` |
| `SoundBlaster_proofs!SectorsArriveIntact` | `SectorIntact`, if no program reads both by 0Bh and by 02h (`OnePort`) | `TInv`, `SInv` |
| `VideoServices_proofs!WindowShowsTheScreen` | `ScreenShown`, for any adapters, requests, sizes | `Inv` |
| `VideoServices_proofs!ServicesImplementTextScreen` | `TextScreenKept`: `Spec => Terminal!Spec`, for the same | `Inv` |
| `NumberLemmas!AdditionExact`, `DifferenceExact`, `StepsExact` | ADD, ADC, SUB, SBB, CMP, INC, DEC, NEG of `Alu`: value, carry, overflow, zero, sign | none: of operators |
| `NumberLemmas!BranchesExact` | every conditional jump after CMP | none |
| `NumberLemmas!CarryChains`, `BorrowChains` | words by bytes | none |
| `NumberLemmas!ProductExact`, `SignedProductExact`, `QuotientExact`, `SignedQuotientExact` | MUL, IMUL, DIV, IDIV | none |
| `NumberLemmas!DecimalSumExact`, `DecimalDifferenceExact`, `DigitsRestored` | DAA after ADD or ADC, DAS after SUB or SBB, AAD after AAM | none |

**Why there are hypotheses.** Each is the border TLC found. A guest that waits in INT 16h makes INT 08h and 09h run again at every step, so ticks and
keys count more than once. A handler that enables interrupts before its EOI lets a nested handler's EOI clear its own bit, and the callback of the mouse be
entered twice over its one slot. A mouse's bytes come through port 60h, where a chained INT 09h may take one for a key. Two debugger clients share one slot. A reset of the floppy controller in
mid-transfer leaves the request line up. A disk with more cylinders than `CylinderRadix` is addressed modulo. Command 14h keeps the width of the
transfer before it, so after a 16-bit one it counts what the other channel moves. The modem counts the pluses it holds back in 8 bits,
and after the 256th of a row has none to send (no run types so many: the proof found this border). A read by 02h that fails or is cut off leaves
`stream_via_base0` set, and a read by 0Bh after it neither interrupts nor answers on its port. None is needed for the types.

*Machine.* `FrameDiscipline` speaks of the place where a frame is popped. It is not inductive, because a frame is
pushed long before. `IInv == TypeOK /\ CpuOK(cpu)` says where each kind of frame may lie: every frame above a
trampoline's belongs to guest code it called (`Placed`), and each frame carries the
owner that pushed it (`Owned`). Lemmas about `Enter`, `Iret` and `Dispatch` say they
preserve `CpuOK` from any state; each action then is a composition of these.
`Core` adds that nobody waits and the account of ticks: the debt of the timer is what is due plus the frames on the stack that have still to count (`Counted`).
`MaskedInv` adds that of all handlers on the stack at most the top one is interruptible before its EOI, and which line each serves. `KeyInv` says that no two places of the stack
have the same key still to read; `KeyOrder` that host queue, latch and BIOS buffer together hold the keys in the order typed. A location changes many of these at once, so the actions are
first reduced to a few kinds of *moves* of the stack (`Kept`, `BiosEffects`), and each invariant is proved of the moves.

*DebugProtocol.* `WatchpointStops` needs that a hit which is recorded but not yet acted upon always
coincides with a stored pause request or with the emulator already on its way to
`do_pause` (`StopInv`, `FlagInv`); `SnapshotCurrent` needs that a snapshot can be out of date only
between the control points at which the emulator refreshes it (`SnapshotInv`). `CommandInv` relates the slots to the
clients' control points. `InOnePlace` says that a command of a lone client is in the slot, in the emulator's hands or answered, and never in two of these.

*FloppyTransfer.* `TypeInv` adds to the types what a phase implies about the position in the FIFO
(`PhaseFacts`) and that the pending request of the floppy controller is empty between bus
steps; `RequestInv` conjoins `RequestMatchesPhase` with what IRQ 6 implies. `DataInv` is why a sector is whole: from the command byte on the channel is programmed
and untouched, while DMA runs its address is the place of the controller's next byte, its count the bytes that follow that one, and memory holds exactly the bytes
before it (`Stored`); at the end the terminal count is set. Two lemmas say that programming a channel byte by byte sets the word meant (`ProgramSets`) and that a cycle
goes to the next place, up or down and around the end of the page (`NextPlace`); no two bytes have the same place (`PlacesDiffer`) because a sector fits into a page.

*SerialLine.* The bytes of a connection are in four queues: what the program has, the receiver and the modem's queue, the shared queue, the reader thread's hands.
`InOrder` says that in this order they are the numbers sent so far, as long as the modem holds the connection, and the beginning of them afterwards. Each action is shown to move
bytes from one queue to the end of the one before (`MovesOrder`), or to touch none. What a queue holds of a connection is a recursive function of it (`BytesOf`).
`TextInv` is the other direction: the text typed to the modem's connection ends with as many pluses as the modem counts (`Trails`), pluses are counted and the guard runs
only on a connection that is made (`Settled`), and what a peer has and the writer still holds is what is due of the text typed to it (`Served`). `Due` picks the members of a text at a set of places; that another plus
or a confirmation adds nothing to it (`NothingDue`), and any other character the pluses before it and itself (`AllDue`), is proved place by place.

*DiskServices.* `ReadingInv` and `WritingInv` relate the controller in a data phase to the program's request: the bytes already taken are a prefix of the sectors asked for, those
given a prefix of what is written, at the address the registers hold. Each action that ends in a reply is shown to be a step of `BlockStore` under the mapping `Store`, every other
to leave what the mapping shows unchanged, the split of a request in the middle of a track included (`Following`, `Lba`).

*SoundBlaster.* `TInv` says what the DSP is collecting when the driver has sent part of a command, and which results the CD driver may count on. `AInv` follows a transfer from
the channel's programming (`Programmed`) through the bytes of the command (`Beginning`), the blocks, and the pauses (`Steering`), to the end (`Waiting`). What TLC found of it at `Radix` 2 (77 698 states) and 3
(694 200 states, lengths 1 to 4 and 9) guided the proof, which is of any radix: the modular facts (`ModuloIs`) hold of 256 too.
`SInv` follows a read of the CD-ROM: `Placed` says that after `k` sectors have been loaded the bytes had are those of `k - 1` whole sectors and of the one in the buffer up to
`read_sector_pos`; a read that is not in its place is `Ended`, by an error, a change of the disc, or with all that can be had. TLC found it to hold at the run's bounds and with one and two sectors
(454 617 states) before the proof.

*VideoServices.* That the window shows the screen unless the buffer is marked is almost inductive: a request keeps it if it marks whatever it changes of the picture. But `Picture`
depends on everything in the buffer, and a request is a composition of up to hundreds of accesses, each of which reads the result of the one before. `Screen` is what they all need and keep: a crtc port that is the
adapter's, a known mode with its number of columns, a page in `0..7`, cursors that are numbers, memory that holds at least the text. From the registers upwards, one lemma for each operator says that from any screen it leads to
a screen whose buffer is the old one or marked (`Reached`, `Became`); lists of accesses, rows of a scroll and glyphs of a text are inductions over their number (`RunSteps`, `RolledSteps`, `GlyphsReach`). Nothing is assumed of the
requests but that they are in `Requests`, and of the sizes `SizesAssumption`. The lemmas are exact where text and cursor are concerned.

The refinement needs no other invariant. `TextOf` is the text screen in a state, `Tells` says that a request makes of it what `TextScreen` says. A pair of writes to the CRTC's cursor
registers is one location (`HalvesMakeUp`), a byte at an address is one half of one cell (`PlacesApart`), a fill is a set of addresses and a run of cells (`FillingIs`). A scroll is the long part: the BIOS copies row
by row, downwards or upwards, each row out of the memory the rows before it have left. `RowByte` is what one row does to any byte, `RowsByte` what `n` rows have done; by induction over the rows (`RowsStep`)
a row is read before it is written, whichever way the window moves, and at the end the bytes are those of `TextScreen`'s one motion (`WindowShifted`), the cut to the screen included (`OnScreenIs`). The mode
set is what empties the memory byte by byte (`PokedBytes`). The hypotheses are those of `Loose`: what is written past the BIOS, windows in mode 07h, and text modes that take over the memory of graphics.

**Induction.** The library's induction theorems take an operator, which the provers cannot instantiate. `NumberLemmas!Induction` takes a *set* of numbers and follows from well-foundedness;
`SequenceInduction` in `SerialLine_proofs` takes a set of sequences. With these, what recursive functions compute of all sequences is proved (`BytesFound`, `BytesOfBoth`).

*Arithmetic.* `CpuLaws` holds programs to the laws of arithmetic on the operands of its cases; for the operators of `Alu` the laws are theorems about every operand of both widths, and of a
carry that is set or not. A sum or a difference leaves a register by at most one width (`Wraps`), which makes the flags linear in the operands: the overflow flag, which the code makes of three signs, is
the signed overflow, and the carry of an addition, which it joins of two additions, the unsigned one. From there `BranchesExact` says what a branch after CMP means, and `CarryChains` that two bytes and a
carry make a word. Products and quotients rest on the uniqueness of division (`DivisionUnique`): DIV is refused exactly when its quotient does not fit; IDIV is refused only when no quotient that fits would do,
and the panic that section 6 tells of has one cause, the lowest dividend over -1. DAA and DAS are right because nibble, auxiliary carry and carry agree on each of the digits a packed
sum can have (`AdjustedSum`, `AdjustedDifference`). How the instructions come by their operands is not part of this.

Only model-checked: every liveness property (TLAPS has no rule for `ENABLED`), `ScrollsWhatIsShown` of `VideoServices`, the invariants of `CpuLaws`, and `Clock`. What a program of `Cpu` computes is the work of a program chosen for the run, a fold over
its instructions, and a law about it is a statement about that program; of its arithmetic only the steps are proved. Shifts and rotates, which are powers of two that the provers do not compute with, and the bits of AND, OR and XOR are left to the run.
`ScrollsWhatIsShown` speaks of pictures, so in the graphics modes it needs every dot of four layouts; for the cells of the text modes, `TextScreenKept` says it and is proved. Types of `Cpu` and `RingsAgree` are open.

## 6 Findings

| run | the code | what it says |
|---|---|---|
| `cpu_stack_pair` | a load of SS holds back the single-step trap only (`core/cpu/mod.rs:1007`); a device's request that is due is taken before the load of SP, and pushes its frame at the old SP of the new segment | "the paired SP load runs atomically" (`data_transfer.rs:79`, `core/cpu/mod.rs:168`) |
| `alarm` | `take_pending_alarm` refuses a second whose *number* is that of the last alarm, and nothing ever makes `last_alarm_second` invalid again (`devices/rtc.rs:80`): an alarm that rang at 12:00:00 does not ring at 13:00:00 or on the next day | "to prevent re-firing within the same second" (`devices/rtc.rs:45`), "fires at most once per second" (`:67`) |

Observations without a run.

*Timer.* INT 08h taken while INT 16h waits is executed again at every step and counts a tick each time, because
`wait_for_key_press` is one flag for all frames (`core/cpu/mod.rs:1323`); the comment promises 18.2 ticks a second (`int08_timer_interrupt.rs:24`). A timer
interrupt delivered inline pushes the frame of a hooked INT 1Ch and pops it at once (`core/cpu/mod.rs:1364`), so the hook programs rely on
(`int08_timer_interrupt.rs:29`) does not run.

*DMA.* The header of `devices/dma.rs` says that there is "no simulated hardware refresh line" (`:10-12`) and that all channels but 0 are "still stub-only" (`:17`). The code has both: on a machine before the AT the request of channel 0 is held by `hw_dreq_ch0` through
construction, reset, master clear and request writes (`devices/dma.rs:292-366`), and channels 1 to 3 move data. The model follows the code (`HwRefresh`).

*Clock.* `EmulatedClock` multiplies in 64 bits and overflows after 18.4 thousand million cycles, about an hour at 4.77 MHz (`devices/clock.rs:71`). It leaps when a reset sets the cycle counter to 0, and loses multiples of 2^32
cycles if nobody asks for that long, against `devices/clock.rs:41-44`. INT 1Ah AH=03h and 05h report success and change nothing; AH=02h reads seconds, minutes and hours from the host's clock one after the other, and there is no update in progress to wait for.

*Processor.* The emulator itself ends (a Rust panic) on `IDIV` of the smallest number by -1 and on `AAM 0` (`logical.rs:276-348`, `arithmetic.rs:920`).
Interrupts are not held back after `STI` either. A `MOV SS` without TF leaves `suppress_trap` set, and the first trap of a later trace is swallowed (`core/cpu/mod.rs:1007`).
`SHL` and `SHR` by the width clear CF; `ROL` and `ROR` by a multiple of the width leave it. `AAM` takes PF from all of AX. `MOV` to FS or GS
writes ES or CS. `SAHF` and `POPF` write reserved bits. The hidden cache is looked up by the selector's value (`core/cpu/mod.rs:499-514`), so two registers with one selector share
what was loaded last. A faulting instruction completes, reading 0, and the address saved is the next one's; a refused PUSH has moved SP. String instructions, `MOV` to or from a direct address, `XLAT`, `LDS` and `LES` do not look at the exception they raise, against the comment at `core/cpu/mod.rs:411-416`: refused,
they read or write at physical address 0, and only the first byte of what they access is checked against the limit (`ProtectionKept` says so of STOS, LODS and `MOV`). While an exception is pending, pushes write nothing (`instructions/mod.rs:822-829`): when a traced
instruction faults, the trap's frame is lost, and its handler returns to what lay on the stack; the programs of the run trace no instruction that faults.
A call gate whose code segment cannot be loaded has switched stack and privilege level already (`core/cpu/mod.rs:736-756`); `IRET` and `RETF` pop the outer stack after they loaded CS.
An interrupt without a gate falls back to the real-mode vector, and `INT3` always takes that. A reset leaves A20 and the CMOS shutdown byte as they were.

*Video.* AH=05h stores the old page's cursor over the new page's, and does not move the hardware cursor, against its comment. Text output and AH=08h, 09h,
0Ah and 0Eh ignore the page's offset, AH=03h the page. Setting a mode leaves the active page; one the adapter does not have leaves card and
BDA apart. The reset of a VGA loads its DAC and leaves the buffer's colours, of which only the first sixteen are set, until a mode is set (`video/video_card.rs:812`); an EGA loads 64 entries of both (`CardDac`). A warm restart resets the BDA to mode 3 and spares the card (`core/bus.rs:563`). A line feed at the bottom of a graphics mode scrolls as if it were text. Attribute indices 10h-14h land in the palette (`index & 0Fh`).
A cursor on page 8 and up is stored in other fields of the BDA. `top + lines` of a scroll is computed in a byte. CRTC registers 6 and 9 may ask for more lines than the frame has, which panics;
the window of `native-gui/src/main.rs:1117` is sized by the mode and not by them. A reset changes the buffer and announces nothing (`wiped` in `ScreenShown`). INT 10h leaves the attribute controller's flip-flop expecting data.
Scrolling in mode 7 is not implemented; AH=0Ch draws in CGA modes only; port 3D8h changes the mode of an EGA.

*Debugger, keyboard, serial.* `do_pause` notifies without the mutex, so `tool_pause` can sleep for ever (`debugger/src/server.rs:239`), and one condition variable is used with two
mutexes (`core/debugger.rs:116`), which the standard library does not allow. A pause request stored while a breakpoint stops the
emulator outlives that pause; `watchpoint_hit` still names an old write after Step; of two
Continue commands in flight the second is not answered; a chained INT 09h may read
a mouse byte as a scan code. With two debugger clients one may get the answer to the other's command
(`core/debugger.rs:106`: one slot for all). INT 74h sends its EOI to PIC1 as well and ends
a keyboard interrupt in service (`int74_ps2_mouse_interrupt.rs:28`); a second INT 74h inside the mouse callback
overwrites the only slot of saved registers (`:51`). Bytes the peer sends just before it closes are lost if the reader thread appends them
between the two looks of `poll_transport`; a greeting can be queued before CONNECT. The byte FFh is not doubled for telnet (`native-common/src/modem_transport.rs:154`); pluses are counted in a byte that wraps after 255 (`modem/mod.rs:386`; `EscapeCount` in `Modem`). The guard of `+++` counts reads and holds
incoming bytes back: a program that reads on interrupts only is neither answered nor interrupted until it writes again. Dialling from online command
mode, or failing to connect after it, leaves DCD high without a connection (`modem/mod.rs:293`), against the comment at `modem/mod.rs:482`.

*Disks.* Commands of the hard disk check the whole cylinder number and then transfer at `cylinder as u8` (`hard_disk_controller.rs:169`, 205, 243): on a disk of more than 256 cylinders (some 126 MB) a read, write or
verify of cylinder 256 succeeds on cylinder 0, where `int13_disk_services.rs:160` and `disk_geometry.rs:54` promise 1024; `max_cylinder` is cut the same way (`int13_disk_services.rs:668`), so programs that ask use only the beginning.
A floppy read with EOT 255 from sector 0 overflows a byte (`floppy_disk_controller.rs:221`). A command that fails leaves the phase of an earlier, abandoned one, and its DRQ hides the error bit (`hard_disk_controller.rs:176`): INT 13h then
reports success with stale data, until a software reset. A request for no sectors (AL = 0) leaves the controller in a data phase with nothing to
transfer; on the floppy the next service reads what is left of it. The drive/head register holds four bits of the head and one of the drive, so head 16
is head 0 and drive 82h is 80h; of a floppy's cylinder only the low eight bits are sent. AH=16h looks at the change line of the drive that
was selected last, not the one asked for. A software reset the guest holds makes a service wait for ever.

*CD-ROM.* With command 0Bh `stream_read_byte` leaves the streaming state once the last sector is *loaded* (`cdrom.rs:385`), so only
the first byte of that sector can be read, against `ai-analysis/cd-rom-sb.md:109`; `SectorIntact` claims the bytes up to there. An inserted
disc raises the attention flag, which on base+1 looks like the end of data.

*DSP.* Halting (D0, D5) leaves the request line up, so bytes moved before the channel is masked are swallowed;
a reset forgets that a transfer was wide (`dsp.rs:74`) and the request on channel 5 stands; 14h, 16h and E2h
keep the width of the transfer before; a length of FFFFh is kept as 0, cannot be continued, and underflows in a debug build; F2h and F3h
interrupt without the status bit a handler looks for.

*Boot.* INT 19h for an absent floppy boots from C: while the boot order names another drive: `boot` of a floppy falls back by itself
(`computer.rs:231`).

## 7 Not modelled

The F80 kernels with the coprocessor's instructions and the OPL3 synthesizer (`f80.rs`, `nuked_opl3.rs`) are numeric code without control. The shapes of glyphs, composite colours,
menus, logging, the decoder, disassembly and the command-line tools are formatting and I/O. Components that
the plan lists and no module covers yet (`Boot` of row 6, PIT counters, parallel and game port, the PCM ring) have status `not_modelled` or `partly` in `PROJECT.json`, with the reason.

Abstractions inside the modules: memory is only what a property needs (the BDA ring, vectors,
the bytes of a sector); a key is its number in the order typed; modifier and prefix decoding of INT
09h, the LEDs and INT 16h's translation of keys are left out; one floppy drive stands for two; the second DMA controller is the same record.
Of the modem, verbose and numeric result codes are one, S registers and identity are left out, and so are telnet options (the reader thread
filters them out and answers); of the port, the divisor, line control and internal loopback. Of INT 13h, the parameters of floppies (from the CMOS), AH=18h and 41h are left out, and so are write protection, which only tests set, and errors of the image file; requests
name at least one sector, a head below `HeadRadix` and, on a floppy, a cylinder below `CylinderRadix`, and a program uses the floppy through INT 13h only. A TCP reset that discards bytes already received by the host is not modelled. Of the processor, cycle counts and what is behind an I/O port; the 286's task switches do not exist in
the code. Of the video cards, the retrace bits, fonts a program installs with INT 43h, and the probes for VBE and Hercules. Of the clock, CMOS bytes that are only stored, BCD and the conversion of cycles to time.

## 8 Running the checks

In this directory: `tlc -workers 2 -config <cfg> <module>` for the runs that `PROJECT.json` lists, `tlapm <module>_proofs.tla` for the proofs. The largest run takes about a minute and a half.
