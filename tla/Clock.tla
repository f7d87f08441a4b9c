------------------------------- MODULE Clock -------------------------------
(***************************************************************************)
(* The clocks of the machine: the real-time clock of                       *)
(* core/src/devices/rtc.rs with its alarm, the handler of its interrupt    *)
(* (INT 70h), the BIOS's tick counter (INT 08h) and the time services of   *)
(* INT 1Ah.                                                                *)
(*                                                                         *)
(* The time of day is a number of seconds since the machine was switched   *)
(* on at midnight; the registers show its parts.  The conversion to BCD is *)
(* one to one on them and left out.  What is written to the time and date  *)
(* registers is ignored: INT 1Ah with AH=03h or 05h reports success and    *)
(* changes nothing, and AH=02h and 04h only read, so they have no action.  *)
(***************************************************************************)
EXTENDS Integers, Sequences

CONSTANTS Minute, Hour, Day,  \* seconds of each; a multiple of the one before
          TicksPerDay,        \* TICKS_PER_DAY
          Last,               \* bound: the second in which a run ends
          Alarms,             \* the times a program asks for: <<seconds, minutes, hours>>
          Counts              \* the tick counts a program sets

VARIABLES now,
          rtc,       \* [alarm, aie, flag, last, asserted]: asserted is IRQ 8 in service
          ticks,     \* the counter of the BIOS data area
          overflow,  \* its midnight flag
          hooked,    \* a program has taken INT 4Ah
          calls,     \* how often that was called, at most once a second
          rung       \* the second in which the alarm last rang

vars == <<now, rtc, ticks, overflow, hooked, calls, rung>>
times == <<ticks, overflow>>

Any   == -1   \* an alarm byte with bit 7 set matches every value
Never == -1   \* last_alarm_second as it is made

Parts(t) == <<t % Minute, (t % Hour) \div Minute, (t % Day) \div Hour>>

Matches(alarm, t) == \A i \in 1..3 : alarm[i] \in {Any, Parts(t)[i]}

Init ==
  /\ now = 0
  /\ rtc = [alarm |-> <<0, 0, 0>>, aie |-> FALSE, flag |-> FALSE, last |-> Never, asserted |-> FALSE]
  /\ ticks = 0 /\ overflow = FALSE
  /\ hooked \in BOOLEAN
  /\ calls = 0
  /\ rung = Never

\* The host's clock goes on, or the emulated one with the cycles.
Pass ==
  /\ now < Last
  /\ now' = now + 1
  /\ UNCHANGED <<rtc, times, hooked, calls, rung>>

\* take_pending_alarm, which the interrupt controller asks between any two
\* instructions while IRQ 8 is neither masked nor in service.
Rings == /\ rtc.aie
         /\ Parts(now)[1] # rtc.last
         /\ Matches(rtc.alarm, now)

PollAlarm ==
  /\ ~rtc.asserted
  /\ rtc' = IF Rings THEN [rtc EXCEPT !.last = Parts(now)[1], !.flag = TRUE, !.asserted = TRUE]
                     ELSE rtc
  /\ rung' = IF Rings THEN now ELSE rung
  /\ UNCHANGED <<now, times, hooked, calls>>

\* INT 70h reads status register C, which clears it, ends the interrupt at
\* both controllers and calls INT 4Ah if the alarm flag was set.
AlarmInterrupt ==
  /\ rtc.asserted
  /\ rtc' = [rtc EXCEPT !.flag = FALSE, !.asserted = FALSE]
  /\ calls' = IF rtc.flag /\ hooked THEN calls + 1 ELSE calls
  /\ UNCHANGED <<now, times, hooked, rung>>

\* A program that reads status register C itself takes the flag away.
ReadStatusC ==
  /\ rtc' = [rtc EXCEPT !.flag = FALSE]
  /\ UNCHANGED <<now, times, hooked, calls, rung>>

\* INT 1Ah, AH=06h and AH=07h.  Neither touches last_alarm_second.
SetAlarm(alarm) ==
  /\ rtc' = [rtc EXCEPT !.alarm = alarm, !.aie = TRUE]
  /\ UNCHANGED <<now, times, hooked, calls, rung>>

CancelAlarm ==
  /\ rtc' = [rtc EXCEPT !.aie = FALSE]
  /\ UNCHANGED <<now, times, hooked, calls, rung>>

\* INT 08h: bda_increment_timer_counter.
TimerTick ==
  /\ ticks' = IF ticks >= TicksPerDay - 1 THEN 0 ELSE ticks + 1
  /\ overflow' = (overflow \/ ticks >= TicksPerDay - 1)
  /\ UNCHANGED <<now, rtc, hooked, calls, rung>>

\* INT 1Ah, AH=00h returns the count and clears the midnight flag.
GetSystemTime ==
  /\ overflow' = FALSE
  /\ UNCHANGED <<now, rtc, ticks, hooked, calls, rung>>

\* INT 1Ah, AH=01h
SetSystemTime(count) ==
  /\ ticks' = count
  /\ overflow' = FALSE
  /\ UNCHANGED <<now, rtc, hooked, calls, rung>>

Next ==
  \/ Pass \/ PollAlarm \/ AlarmInterrupt \/ ReadStatusC \/ CancelAlarm \/ TimerTick \/ GetSystemTime
  \/ \E alarm \in Alarms : SetAlarm(alarm)
  \/ \E count \in Counts : SetSystemTime(count)

Spec == Init /\ [][Next]_vars

\* take_pending_alarm "fires at most once per second when the current time
\* matches the alarm registers and AIE is set", and last_alarm_second is there
\* "to prevent re-firing within the same second": while an enabled alarm names
\* the present second, it has rung in it, or the next question of the interrupt
\* controller makes it ring.
AlarmRings == rtc.aie /\ Matches(rtc.alarm, now) => rung = now \/ Rings
=============================================================================
