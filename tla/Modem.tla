------------------------------- MODULE Modem -------------------------------
(***************************************************************************)
(* The Hayes modem of core/src/devices/modem/mod.rs and the parser of its  *)
(* commands (at_parser.rs), as operators on the modem's record.  The       *)
(* connection it dials is a number, whose state TcpTransport keeps.        *)
(*                                                                         *)
(* A character is what the parser tells apart: the prefix "AT", a command  *)
(* letter, a digit, "+", or any other character, "x"; the letters S, I, V  *)
(* and &, which set registers or answer with text, are left out.  What the *)
(* modem queues for the guest are items: an echo, a result code, or byte n *)
(* that the peer of connection c has sent.                                 *)
(***************************************************************************)
EXTENDS Integers, Sequences, SequencesExt

CONSTANTS
  MaxCalls,   \* bound: connections ever dialled
  GuardPolls, \* register S12: polls until +++ is taken for an escape (50)
  Known       \* the numbers the phone book resolves: sequences of digits

ASSUME ModemAssumption ==
  MaxCalls \in Nat \ {0} /\ GuardPolls \in Nat

Digits == {"0", "1"}
CR     == "CR"
BS     == "BS"
Chars  == {"AT", "D", "H", "Z", "E", "Q", "A", "+", "x"} \cup Digits

NoConn  == 0
Conns   == 1..MaxCalls
NoGuard == -1

Results == {"OK", "ERROR", "CONNECT", "NO CARRIER", "NO DIALTONE"}
Item(kind, c, n) == [kind |-> kind, conn |-> c, n |-> n]
Byte(c, n)       == Item("byte", c, n)

Items == [kind : Results \cup {"byte", "echo"}, conn : Conns \cup {NoConn}, n : Nat]

EscapeCount == 0..255   \* an 8-bit counter

ModemState ==
  [state : {"CommandMode", "Dialing", "Connected"},
   cmdBuf : Seq(Chars), rx : Seq(Items),
   irq : BOOLEAN, echo : BOOLEAN, quiet : BOOLEAN, dcd : BOOLEAN,
   escape : EscapeCount, guard : Nat \cup {NoGuard}, transport : Conns \cup {NoConn}]

ModemNew ==
  [state |-> "CommandMode", cmdBuf |-> <<>>, rx |-> <<>>, irq |-> FALSE,
   echo |-> TRUE, quiet |-> FALSE, dcd |-> FALSE, escape |-> 0,
   guard |-> NoGuard, transport |-> NoConn]

\* Everything but the queue and the command line; the transport is dropped.
ResetDefaults(m) ==
  [ModemNew EXCEPT !.rx = m.rx, !.irq = m.irq, !.cmdBuf = m.cmdBuf]

QueueItems(m, items) ==
  [m EXCEPT !.rx = @ \o items, !.irq = @ \/ m.rx \o items # <<>>]

SendResult(m, code) ==
  IF m.quiet THEN m ELSE QueueItems(m, <<Item(code, NoConn, 0)>>)

Echoed(m) == IF m.echo THEN QueueItems(m, <<Item("echo", NoConn, 0)>>) ELSE m

-----------------------------------------------------------------------------
(* Commands. *)

\* A letter with its optional digit.
Command(letter, digit) ==
  CASE letter = "Z" -> "reset"
    [] letter = "E" -> IF digit = "0" THEN "echoOff" ELSE "echoOn"
    [] letter = "Q" -> IF digit = "1" THEN "quiet" ELSE "loud"
    [] letter = "H" -> IF digit = "1" THEN "offHook" ELSE "hangUp"
    [] OTHER        -> "unknown"   \* and "A", answering: both fail

\* The character at place i of a line, "" after its end, and the command there.
At(l, i)        == IF i \in 1..Len(l) THEN l[i] ELSE ""
CommandAt(l, i) == Command(At(l, i), At(l, i + 1))

\* The commands from place i, up to the first that is not understood; a
\* number to dial takes the rest of the line.  rest[j] are those from place j.
CommandsFrom(rest, l, i) ==
  CASE At(l, i) = ""  -> <<>>
    [] At(l, i) = "D" ->
         <<IF SubSeq(l, i + 1, Len(l)) \in Known THEN "dial" ELSE "noDial">>
    [] At(l, i) = "+" ->
         IF At(l, i + 1) = "+" /\ At(l, i + 2) = "+"
         THEN <<"escape">> \o rest[i + 3] ELSE <<"unknown">>
    [] At(l, i) \notin {"", "D", "+"} ->
         IF CommandAt(l, i) = "unknown" THEN <<"unknown">>
         ELSE <<CommandAt(l, i)>>
              \o rest[IF At(l, i + 1) \in Digits THEN i + 2 ELSE i + 1]

\* The commands of a line after its prefix.
ParseChain(l) ==
  LET Chain[i \in 1..Len(l) + 1] == CommandsFrom(Chain, l, i) IN Chain[1]

\* A leading +++ is dropped; without AT the line is no command.
Parse(l) ==
  LET Plus == <<"+", "+", "+">>
      line == IF IsPrefix(Plus, l) THEN SubSeq(l, 4, Len(l)) ELSE l
  IN IF line = <<>> THEN <<"escape">>
     ELSE IF Head(line) # "AT" THEN <<"unknown">>
     ELSE IF Tail(line) = <<>> THEN <<"at">>
     ELSE ParseChain(Tail(line))

\* Mutant: the dropped connection is not replaced by none.
OnHookStale(m) ==
  [m EXCEPT !.dcd = FALSE, !.escape = 0, !.state = "CommandMode", !.transport = @ - 2]

\* A dropped connection leaves the modem on hook.
OnHook(m) ==
  [m EXCEPT !.dcd = FALSE, !.escape = 0, !.state = "CommandMode", !.transport = NoConn]

\* execute: the modem after a command; a dial takes connection `next'.
Executed(m, command, next) ==
  CASE command = "reset"    -> ResetDefaults(m)
    [] command = "echoOn"   -> [m EXCEPT !.echo = TRUE]
    [] command = "echoOff"  -> [m EXCEPT !.echo = FALSE]
    [] command = "quiet"    -> [m EXCEPT !.quiet = TRUE]
    [] command = "loud"     -> [m EXCEPT !.quiet = FALSE]
    [] command = "dial"     -> [m EXCEPT !.transport = next, !.state = "Dialing"]
    [] command = "noDial"   -> SendResult(m, "NO DIALTONE")
    [] command = "hangUp"   ->
         SendResult(OnHook(m), IF m.dcd \/ m.state \in {"Connected", "Dialing"}
                               THEN "NO CARRIER" ELSE "OK")
    [] command = "offHook"  -> SendResult(m, "OK")
    [] command = "escape"   -> [m EXCEPT !.state = "CommandMode"]
    [] command = "unknown"  -> SendResult(m, "ERROR")
    [] OTHER                -> m

\* These end the line and have said what there is to say.
Terminal == {"dial", "noDial", "hangUp", "offHook", "unknown"}

\* process_command.
ProcessCommand(m, next) ==
  LET commands == Parse(m.cmdBuf)
      ends == SelectInSeq(commands, LAMBDA c : c \in Terminal)
      Run[i \in 0..Len(commands)] ==
        IF i = 0 THEN [m EXCEPT !.cmdBuf = <<>>]
                 ELSE Executed(Run[i - 1], commands[i], next)
  IN IF ends # 0 THEN Run[ends] ELSE SendResult(Run[Len(commands)], "OK")

\* A character in command mode.
CommandChar(m, ch, next) ==
  CASE ch = CR -> ProcessCommand(Echoed(m), next)
    [] ch = BS -> [Echoed(m) EXCEPT !.cmdBuf = IF @ = <<>> THEN @ ELSE Front(@)]
    [] OTHER   -> [Echoed(m) EXCEPT !.cmdBuf = Append(@, ch)]

-----------------------------------------------------------------------------
(* The escape sequence. *)

EscapeConfirmed(m) ==
  SendResult([m EXCEPT !.guard = NoGuard, !.escape = 0, !.state = "CommandMode"], "OK")

EscapeDue(m) == m.guard # NoGuard /\ m.guard + 1 >= GuardPolls

\* poll_escape_guard: one poll of the data port less to wait for.
PollEscapeGuard(m) ==
  CASE m.guard = NoGuard -> m
    [] EscapeDue(m)      -> EscapeConfirmed(m)
    [] OTHER             -> [m EXCEPT !.guard = @ + 1]

\* The writes the connection takes: a plus is held back, and the third of
\* them in a row starts the guard.  They are counted in 8 bits.
HoldsPlus(m) ==
  LET pluses == (m.escape + 1) % 256
  IN [m EXCEPT !.escape = pluses,
               !.guard = IF pluses >= 3 /\ @ = NoGuard THEN 0 ELSE @]
ForwardsAgain(m) == [m EXCEPT !.guard = NoGuard]   \* Mutant: the pluses stay
Forwards(m)  == [m EXCEPT !.escape = 0, !.guard = NoGuard]

\* What a data character sends: the pluses held back and the character.
Forwarded(m, ch) == [i \in 1..m.escape |-> "+"] \o <<ch>>

\* Whether a data character ends the guard time instead.
EscapeExpired(m, elapsed) ==
  m.escape >= 3 /\ (m.guard >= GuardPolls \/ elapsed)

-----------------------------------------------------------------------------
(* Reading and events. *)

\* poll_transport, its first half: the bytes that have come in, unless the
\* guest expects the answer to its escape sequence.
Drains(m)      == m.guard = NoGuard
Drained(m, in) == [m EXCEPT !.rx = @ \o in, !.irq = @ \/ m.rx \o in # <<>>]

\* Its second half: the event the transport reports.
OnEvent(m, event) ==
  CASE event = "connected" ->
         SendResult([m EXCEPT !.state = "Connected", !.dcd = TRUE], "CONNECT")
    [] event = "connectFailed" ->
         SendResult([m EXCEPT !.state = "CommandMode", !.transport = NoConn], "NO CARRIER")
    [] event = "remoteDisconnected" ->
         [OnHook(SendResult(m, "NO CARRIER")) EXCEPT !.guard = NoGuard]
    [] OTHER -> m

\* read, after poll_transport.
ReadOffers(m) == PollEscapeGuard(m).rx
AfterRead(m) ==
  LET p == PollEscapeGuard(m)
      rest == IF p.rx = <<>> THEN <<>> ELSE Tail(p.rx)
  IN [p EXCEPT !.rx = rest, !.irq = rest # <<>>]

\* take_irq, after poll_transport.
TakeIrqOf(m) == [m EXCEPT !.irq = FALSE]
=============================================================================
