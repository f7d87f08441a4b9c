-------------------------------- MODULE Dma --------------------------------
(***************************************************************************)
(* One 8237A DMA controller (core/src/devices/dma.rs), as operators on its *)
(* state: the registers software writes through the byte-pointer           *)
(* flip-flop, the request lines, and one bus cycle of a channel.           *)
(*                                                                         *)
(* Words have two bytes of radix Radix, so that they wrap.  The page       *)
(* registers, which no cycle changes, are left out; how many cycles a tick *)
(* performs is for the module that composes this one with a device.  The   *)
(* header of dma.rs still says that there is no refresh line and that only *)
(* channel 0 moves; this is the code below it, which has both.             *)
(***************************************************************************)
EXTENDS Naturals

CONSTANTS
  Radix,      \* values of a byte, 256 in the source
  Channels,   \* the channels of the controller, 0..3 in the source
  HwRefresh   \* the request line of channel 0 is driven by memory refresh

ASSUME DmaAssumption ==
  /\ Radix \in Nat \ {0}
  /\ Channels \subseteq 0..3
  /\ HwRefresh \in BOOLEAN /\ (HwRefresh => 0 \in Channels)

Words == 0..((Radix * Radix) - 1)

\* DmaChannel, its mode register taken apart.
ChannelState ==
  [base : Words, baseCount : Words, addr : Words, count : Words,
   type : {"verify", "write", "read"}, down : BOOLEAN, autoInit : BOOLEAN]

\* Dma8237
DmaState ==
  [ch : [Channels -> ChannelState],
   flipFlop : BOOLEAN,          \* the next byte is a high byte
   tc : SUBSET Channels,        \* terminal count bits of the status register
   mask : SUBSET Channels, dreq : SUBSET Channels]

Refresh == IF HwRefresh THEN {0} ELSE {}

\* Dma8237::new, and DmaController::reset
DmaReset ==
  [ch |-> [c \in Channels |-> [base |-> 0, baseCount |-> 0, addr |-> 0, count |-> 0,
                               type |-> "verify", down |-> FALSE, autoInit |-> FALSE]],
   flipFlop |-> FALSE, tc |-> {}, mask |-> Channels, dreq |-> Refresh]

\* One byte of a word is replaced.
SetByte(word, high, byte) ==
  IF high THEN (byte * Radix) + (word % Radix) ELSE ((word \div Radix) * Radix) + byte

\* A write to an address or a count register sets base and current alike.
WriteAddress(d, c, byte) ==
  LET word == SetByte(d.ch[c].base, d.flipFlop, byte)
  IN  [d EXCEPT !.ch[c] = [@ EXCEPT !.base = word, !.addr = word], !.flipFlop = ~@]

WriteCount(d, c, byte) ==
  LET word == SetByte(d.ch[c].baseCount, d.flipFlop, byte)
  IN  [d EXCEPT !.ch[c] = [@ EXCEPT !.baseCount = word, !.count = word], !.flipFlop = ~@]

WriteMask(d, c, set) ==
  [d EXCEPT !.mask = IF set THEN @ \cup {c} ELSE @ \ {c}]

WriteMode(d, c, type, down, autoInit) ==
  [d EXCEPT !.ch[c] = [@ EXCEPT !.type = type, !.down = down, !.autoInit = autoInit]]

ClearFlipFlop(d) == [d EXCEPT !.flipFlop = FALSE]

\* The status register is cleared by reading it.
AfterStatus(d) == [d EXCEPT !.tc = {}]

\* Mutant: the refresh line does not survive a master clear.
MasterClearAll(d) ==
  [d EXCEPT !.flipFlop = FALSE, !.tc = {}, !.mask = Channels, !.dreq = {}]

\* Master clear; the refresh line is driven all the same.
MasterClear(d) ==
  [d EXCEPT !.flipFlop = FALSE, !.tc = {}, !.mask = Channels, !.dreq = Refresh]

\* Program a masked channel the way drivers do: address and count, each low
\* byte first after the flip-flop has been cleared, mode, and unmask.
Program(d, c, addr, count, type, down, autoInit) ==
  LET masked  == ClearFlipFlop(WriteMask(d, c, TRUE))
      address == WriteAddress(WriteAddress(masked, c, addr % Radix), c, addr \div Radix)
      cleared == ClearFlipFlop(address)
      counted == WriteCount(WriteCount(cleared, c, count % Radix), c, count \div Radix)
  IN  WriteMask(WriteMode(counted, c, type, down, autoInit), c, FALSE)

\* set_dreq
SetDreq(d, c, asserted) ==
  [d EXCEPT !.dreq = (IF asserted THEN @ \cup {c} ELSE @ \ {c}) \cup Refresh]

\* The channels a tick serves.
Active(d) == d.dreq \ d.mask

Advanced(ch) ==
  IF ch.down THEN (ch.addr + (Radix * Radix) - 1) % (Radix * Radix)
             ELSE (ch.addr + 1) % (Radix * Radix)

\* Mutant: the count goes on below zero at terminal count.
CycleUnderflows(d, c) ==
  LET ch == d.ch[c] IN
  [d EXCEPT !.tc = IF ch.count = 0 THEN @ \cup {c} ELSE @,
            !.mask = IF ch.count = 0 THEN @ \cup {c} ELSE @,
            !.ch[c].addr = Advanced(ch), !.ch[c].count = @ - 1]

\* One bus cycle: advance the address and count down.  Passing zero sets the
\* terminal count bit and reloads the channel or masks it.
Cycle(d, c) ==
  LET ch == d.ch[c] IN
  IF ch.count > 0
  THEN [d EXCEPT !.ch[c] = [@ EXCEPT !.addr = Advanced(ch), !.count = ch.count - 1]]
  ELSE IF ch.autoInit
  THEN [d EXCEPT !.tc = @ \cup {c},
                 !.ch[c] = [@ EXCEPT !.addr = ch.base, !.count = ch.baseCount]]
  ELSE [d EXCEPT !.tc = @ \cup {c}, !.mask = @ \cup {c},
                 !.ch[c].addr = Advanced(ch)]
=============================================================================
