-------------------------------- MODULE Pic --------------------------------
(***************************************************************************)
(* The two cascaded 8259 interrupt controllers of                          *)
(* core/src/devices/pic.rs, as operators on one record.                    *)
(*                                                                         *)
(* A line is an IRQ number: bit b of PIC1 is IRQ b, bit b of PIC2 is       *)
(* IRQ 8 + b.  The two mask and the two in-service bytes of the source     *)
(* become two sets of lines.  The source keeps no request register: a      *)
(* device holds its own pending flag until the controller takes it, so     *)
(* the operators receive the set `pending' of lines whose device would     *)
(* answer TRUE to take_pending_*.                                          *)
(***************************************************************************)
EXTENDS Naturals, Sequences

CONSTANT PollInterval   \* NON_PIT_POLL_INTERVAL, 100 in the source

ASSUME PollIntervalAssumption == PollInterval \in Nat \ {0}

Pic1 == 0..7
Pic2 == 8..15
Lines == Pic1 \cup Pic2

PitLine      == 0
KeyboardLine == 1
Com1Line     == 4
MouseLine    == 12

\* The order in which take_irq asks the devices other than the PIT: keyboard,
\* COM2/4, COM1/3, FDC, CD-ROM (the line its card is jumpered to, 5 here),
\* RTC alarm, PS/2 mouse.
ScanOrder == <<KeyboardLine, 3, Com1Line, 6, 5, 8, MouseLine>>

ScansBefore(l, m) ==
  \E i, j \in 1..7 : i < j /\ ScanOrder[i] = l /\ ScanOrder[j] = m

PicState == [mask : SUBSET Lines, isr : SUBSET Lines, skip : 0..PollInterval]

PicReset == [mask |-> {}, isr |-> {}, skip |-> 0]

\* notify_pending: the next poll scans every device.
NotifyPending(p) == [p EXCEPT !.skip = PollInterval - 1]

\* A line blocks only itself: neither a masked nor an in-service line of
\* higher priority holds back another line.
Ready(p, pending) == {l \in pending : l \notin p.mask /\ l \notin p.isr}

\* The throttle lets this poll scan the devices other than the PIT.
Scans(p) == p.skip + 1 >= PollInterval

\* take_irq returns line l ...
Takes(p, pending, l) ==
  \/ /\ l = PitLine
     /\ PitLine \in Ready(p, pending)
  \/ /\ PitLine \notin Ready(p, pending)
     /\ Scans(p)
     /\ l \in Ready(p, pending)
     /\ \A m \in Ready(p, pending) \ {l} : ScansBefore(l, m)

\* Mutant: a line of PIC2 is put in service on PIC1.
TakenOnPic1(p, l) ==
  [p EXCEPT !.isr = @ \cup {l % 8},
            !.skip = IF l = PitLine THEN @ ELSE PollInterval - 1]

Taken(p, l) ==
  [p EXCEPT !.isr = @ \cup {l},
            !.skip = IF l = PitLine THEN @ ELSE PollInterval - 1]

\* ... or returns None.
TakesNone(p, pending) ==
  /\ PitLine \notin Ready(p, pending)
  /\ Scans(p) => Ready(p, pending) = {}

\* Mutants: the poll counter is never reset; is never advanced.
NeverReset(p) == [p EXCEPT !.skip = @ + 1]
NeverAdvanced(p) == [p EXCEPT !.skip = IF Scans(p) THEN 0 ELSE @]

TookNone(p) == [p EXCEPT !.skip = IF Scans(p) THEN 0 ELSE @ + 1]

\* take_timer_irq: the PIT alone, without touching the throttle.
\* Mutant: the PIT is not asked.
TakesTimerUnasked(p, due) == PitLine \notin p.mask /\ PitLine \notin p.isr

TakesTimer(p, due) == due /\ PitLine \notin p.mask /\ PitLine \notin p.isr

TookTimer(p) == [p EXCEPT !.isr = @ \cup {PitLine}]

\* Non-specific EOI on one controller clears its lowest in-service bit.
Eoi(p, chip) ==
  [p EXCEPT !.isr =
     @ \ {l \in p.isr \cap chip : \A m \in p.isr \cap chip : l <= m}]

\* Mask-register write on one controller.
SetMask(p, chip, mask) == [p EXCEPT !.mask = (@ \ chip) \cup mask]
=============================================================================
