----------------------------- MODULE SerialLine -----------------------------
(***************************************************************************)
(* A serial port with a modem: a program at the registers of one port of   *)
(* core/src/devices/uart.rs, the modem behind it (Modem), and the threads  *)
(* and peers of the connections it dials (TcpTransport).                   *)
(*                                                                         *)
(* The port and the modem run on the emulator's thread, but nearly every   *)
(* access first runs the modem's poll_transport, which looks at what the   *)
(* threads share twice: for bytes that have come in and for an event.  The *)
(* threads may act in between, so such an access is two steps; `access'    *)
(* holds the register access under way.                                    *)
(*                                                                         *)
(* The program either polls the line status or leaves the reading to its   *)
(* interrupt handler, never both.                                          *)
(***************************************************************************)
EXTENDS Modem, TcpTransport, FiniteSets

CONSTANTS
  Sends,    \* what the program may send, each a sequence of characters and MSR
  MaxSends, \* bound: sends
  Styles,   \* how the program reads: a subset of {"poll", "irq"}
  EchoOn    \* the program leaves the echo of commands on

Written == Chars \cup {CR, BS}
MSR     == "MSR"   \* in the place of a character: a look at the modem status

ASSUME SerialAssumption ==
  /\ Sends \subseteq Seq(Written \cup {MSR}) /\ MaxSends \in Nat
  /\ Styles \subseteq {"poll", "irq"} /\ EchoOn \in BOOLEAN

VARIABLES
  port,    \* the port: data ready and receive buffer, receive interrupt enabled
  modem,
  conns,   \* the connections dialled so far and to come
  access,  \* the access whose poll_transport is half done, or "none"
  program, \* what it has still to type, sends so far, in its handler or not
  heard,   \* the bytes the program has read, by connection
  typed    \* the data characters it has written, by connection, and an "OK" for
           \* every escape the modem has confirmed

vars == <<port, modem, conns, access, program, heard, typed>>

NoItem == Item("echo", NoConn, 0)

\* The type of every variable.
TypeOK ==
  /\ port \in [dr : BOOLEAN, rbr : Items, ier : BOOLEAN]
  /\ modem \in ModemState
  /\ conns \in [Conns -> ConnState(Written)]
  /\ access \in {"none", "lsr", "irq", "msr"}
  /\ program \in [todo : Seq(Written \cup {MSR}), sends : 0..MaxSends, handler : BOOLEAN]
  /\ heard \in [Conns -> Seq(1..MaxData)]
  /\ typed \in [Conns -> Seq(Written \cup {"OK"})]

Init ==
  /\ \E style \in Styles : port = [dr |-> FALSE, rbr |-> NoItem, ier |-> style = "irq"]
  /\ modem = [ModemNew EXCEPT !.echo = EchoOn]
  /\ conns = [c \in Conns |-> Unused]
  /\ access = "none"
  /\ program = [todo |-> <<>>, sends |-> 0, handler |-> FALSE]
  /\ heard = [c \in Conns |-> <<>>]
  /\ typed = [c \in Conns |-> <<>>]

Idle == access = "none"

\* The connection the next dial takes, and whether there is one.
Fresh     == {c \in Conns : conns[c].bridge = "unused"}
NextConn  == IF Fresh = {} THEN NoConn ELSE CHOOSE c \in Fresh : \A d \in Fresh : c <= d

\* The modem becomes m, its connection k (if it has one): a dialled connection
\* starts its thread.
Becomes(m, k) ==
  /\ modem' = m
  /\ conns' = [c \in Conns |-> IF c = modem.transport THEN k
                              ELSE IF c = m.transport THEN Dialled ELSE conns[c]]

Transport == IF modem.transport = NoConn THEN Unused ELSE conns[modem.transport]

\* Ghost: a confirmed escape ends what has been typed to the connection.
Confirms(confirmed) ==
  typed' = IF confirmed THEN [typed EXCEPT ![modem.transport] = Append(@, "OK")] ELSE typed

-----------------------------------------------------------------------------
(* Reading. *)

\* The program has read item i of the receive buffer.
Hears(i) ==
  heard' = IF i.kind = "byte" THEN [heard EXCEPT ![i.conn] = Append(@, i.n)] ELSE heard

\* What the device's read() offers, after poll_transport left the modem as m.
DeviceRead(m, k) ==
  LET confirmed == EscapeDue(m)
  IN /\ Becomes(AfterRead(m), IF confirmed THEN CancelGuard(k) ELSE k)
     /\ Confirms(confirmed)

\* The end of a register access whose poll_transport is done: the line status
\* latches a byte or ends the handler, take_irq reports and the handler begins,
\* the modem status shows the carrier.
Completes(kind, m, k) ==
  LET offered == ReadOffers(m)
  IN CASE kind = "lsr" ->
            /\ DeviceRead(m, k)
            /\ port' = IF offered = <<>> THEN port
                       ELSE [port EXCEPT !.dr = TRUE, !.rbr = Head(offered)]
            /\ program' = [program EXCEPT !.handler = @ /\ offered # <<>>]
            /\ UNCHANGED heard
       [] kind = "irq" ->
            /\ Becomes(TakeIrqOf(m), k)
            /\ program' = [program EXCEPT !.handler = m.irq]
            /\ UNCHANGED <<port, heard, typed>>
       [] kind = "msr" ->
            /\ Becomes(m, k)
            /\ program' = [program EXCEPT !.todo = Tail(@)]
            /\ UNCHANGED <<port, heard, typed>>

\* Mutant: take_irq reports without looking at the connection.
AsksBlindly(kind) ==
  IF modem.transport = NoConn \/ kind = "irq"
  THEN Completes(kind, modem, Transport) /\ UNCHANGED access
  ELSE /\ UNCHANGED <<modem, conns, port, program, heard, typed>>
       /\ access' = kind

\* An access that asks the device: poll_transport drains what has come in, or
\* finds the lock held; without a connection the access ends at once.
Asks(kind) ==
  IF modem.transport = NoConn
  THEN Completes(kind, modem, Unused) /\ UNCHANGED access
  ELSE /\ \E drains \in PollsIncoming(Transport) :
            IF Drains(modem) /\ drains
            THEN LET in == [i \in 1..Len(Transport.incoming) |->
                              Byte(modem.transport, Transport.incoming[i])]
                 IN Becomes(Drained(modem, in), AfterPoll(Transport))
            ELSE UNCHANGED <<modem, conns>>
       /\ access' = kind
       /\ UNCHANGED <<port, program, heard, typed>>

\* poll_transport takes an event, and the access ends.
TakesEvent ==
  /\ ~Idle
  /\ \E event \in Events(Transport) :
       LET m == OnEvent(modem, event)
           k == AfterEvent(Transport, event)
       IN Completes(access, m, k)
  /\ access' = "none"

\* The line status is read by a polling program, over and over, or by the
\* interrupt handler, which goes on until no byte is there.
ReadStatus ==
  /\ Idle /\ (port.ier => program.handler) /\ ~port.dr
  /\ Asks("lsr")

\* The byte is read; nothing is asked of the device, for one is latched.
ReadByte ==
  /\ Idle /\ port.dr
  /\ port' = [port EXCEPT !.dr = FALSE]
  /\ Hears(port.rbr)
  /\ UNCHANGED <<modem, conns, access, program, typed>>

\* Pic::take_irq asks the port; the interrupt is taken at once.
TakeIrq ==
  /\ Idle /\ port.ier /\ ~port.dr /\ ~program.handler
  /\ Asks("irq")

\* The program looks at the modem status.
ReadModemStatus ==
  /\ Idle /\ ~program.handler /\ program.todo # <<>> /\ Head(program.todo) = MSR
  /\ Asks("msr")

-----------------------------------------------------------------------------
(* Writing. *)

\* The program decides what to send next.
BeginSend ==
  /\ program.todo = <<>> /\ program.sends < MaxSends
  /\ \E s \in Sends :
       /\ Fresh = {} => ~(\E i \in 1..Len(s) : s[i] = "D")
       /\ program' = [program EXCEPT !.todo = s, !.sends = @ + 1]
  /\ UNCHANGED <<port, modem, conns, access, heard, typed>>

\* A write to the transmitter goes to the modem's write(); bound: nobody dials
\* when there is no connection left.
Send ==
  /\ Idle /\ ~program.handler /\ program.todo # <<>> /\ Head(program.todo) # MSR
  /\ LET ch      == Head(program.todo)
         online  == modem.state = "Connected"
         expired == online /\ ch # "+" /\ EscapeExpired(modem, Elapsed(Transport))
     IN CASE online /\ ch = "+" ->
               LET m == HoldsPlus(modem)
               IN /\ Becomes(m, IF m.guard # modem.guard THEN StartGuard(Transport) ELSE Transport)
                  /\ typed' = [typed EXCEPT ![modem.transport] = Append(@, ch)]
          [] online /\ ch # "+" /\ ~expired ->
               /\ Becomes(Forwards(modem),
                          SendBytes(CancelGuard(Transport), Forwarded(modem, ch)))
               /\ typed' = [typed EXCEPT ![modem.transport] = Append(@, ch)]
          [] modem.state = "Dialing" -> UNCHANGED <<modem, conns, typed>>
          [] OTHER ->
               LET m == IF expired THEN EscapeConfirmed(modem) ELSE modem
                   next == CommandChar(m, ch, NextConn)
               IN /\ next.state = "Dialing" => next.transport # NoConn
                  /\ Becomes(next, IF expired THEN CancelGuard(Transport) ELSE Transport)
                  /\ Confirms(expired)
  /\ program' = [program EXCEPT !.todo = Tail(@)]
  /\ UNCHANGED <<port, access, heard>>

\* Bus::reset while connections may be up; the program starts over.
Reset ==
  /\ Idle
  /\ port' = [port EXCEPT !.dr = FALSE, !.rbr = NoItem]
  /\ modem' = [ModemNew EXCEPT !.echo = EchoOn]
  /\ program' = [program EXCEPT !.todo = <<>>, !.handler = FALSE]
  /\ UNCHANGED <<conns, access, heard, typed>>

-----------------------------------------------------------------------------
(* Threads and peers. *)

\* The modem has let go of connection c.
Dropped(c) == conns[c].bridge # "unused" /\ modem.transport # c

Threads(c) ==
  /\ \E k \in Connect(conns[c]) \cup Read(conns[c]) \cup Extend(conns[c]) \cup
              ReadEnds(conns[c]) \cup Write(conns[c]) \cup WriteEnds(conns[c], Dropped(c)) :
       conns' = [conns EXCEPT ![c] = k]
  /\ UNCHANGED <<port, modem, access, program, heard, typed>>

SentInAll == Cardinality({b \in Conns \X (1..MaxData) : b[2] <= conns[b[1]].sent})

World(c) ==
  /\ \E k \in (IF SentInAll < MaxData THEN PeerSends(conns[c]) ELSE {})
               \cup PeerCloses(conns[c]) \cup ClockElapses(conns[c]) :
       conns' = [conns EXCEPT ![c] = k]
  /\ UNCHANGED <<port, modem, access, program, heard, typed>>

Reads == ReadStatus \/ ReadByte \/ TakeIrq \/ TakesEvent

Next ==
  \/ ReadStatus \/ ReadByte \/ TakeIrq \/ ReadModemStatus \/ TakesEvent
  \/ BeginSend \/ Send \/ Reset
  \/ \E c \in Conns : Threads(c) \/ World(c)

Spec == Init /\ [][Next]_vars

\* The emulator polls its interrupts or executes the program's polling loop,
\* and the threads are scheduled; nobody need send anything or close.
Fairness == WF_vars(Reads) /\ \A c \in Conns : WF_vars(Threads(c))

FairSpec == Spec /\ Fairness

-----------------------------------------------------------------------------
(* Properties. *)

\* The bytes of connection c among items.
BytesOf(c, items) ==
  LET Bytes[i \in 0..Len(items)] ==
        IF i = 0 THEN <<>>
        ELSE IF items[i].kind = "byte" /\ items[i].conn = c
             THEN Append(Bytes[i - 1], items[i].n) ELSE Bytes[i - 1]
  IN Bytes[Len(items)]

\* Where the bytes of a connection are that have reached the modem.
Arrived(c) == heard[c] \o BytesOf(c, IF port.dr THEN <<port.rbr>> ELSE <<>>) \o BytesOf(c, modem.rx)

\* Bytes from the peer are neither lost nor doubled nor reordered on their way
\* through two threads and three queues, while the modem holds the connection;
\* once it has let go, the program has at least an unbroken beginning of them.
StreamIntact ==
  \A c \in Conns :
    /\ IsPrefix(Arrived(c), [i \in 1..conns[c].sent |-> i])
    /\ modem.transport = c =>
         Arrived(c) \o conns[c].incoming \o conns[c].chunk \o conns[c].network
           = [i \in 1..conns[c].sent |-> i]

\* Character i of t is a plus of a run that ends t or that an escape confirmed.
Withheld(t, i) ==
  \E j \in i..Len(t) :
    /\ \A k \in i..j : t[k] = "+"
    /\ j < Len(t) => t[j + 1] = "OK"

\* What the peer should have of the characters typed.
Due(t) ==
  LET kept == {i \in 1..Len(t) : t[i] # "OK" /\ ~Withheld(t, i)}
  IN [n \in 1..Cardinality(kept) |->
        t[CHOOSE i \in kept : Cardinality({j \in kept : j <= i}) = n]]

\* The peer gets every character typed, in order, except the pluses of a
\* confirmed escape and those that may become one; an escape takes three.
EscapeHeld ==
  \A c \in Conns :
    /\ conns[c].bridge \in {"connecting", "writing"} /\ conns[c].peerOpen =>
         conns[c].received \o conns[c].outgoing = Due(typed[c])
    /\ \A i \in 1..Len(typed[c]) :
         typed[c][i] = "OK" => (i > 3 /\ \A j \in 1..3 : typed[c][i - j] = "+")

\* The modem holds a connection whose reader thread has seen the end.
LostCarrier == modem.transport # NoConn /\ conns[modem.transport].disconnected

\* A lost carrier is noticed, whether the program polls or waits for its
\* interrupt, which only the modem's own look at the connection can raise.
LostCarrierNoticed == LostCarrier ~> ~LostCarrier

\* A connection the modem has let go of still has a thread.
Lingers == \E c \in Conns :
  Dropped(c) /\ ~(conns[c].bridge = "ended" /\ conns[c].reader \in {"none", "ended"})

\* A dropped connection comes to its end, wherever it was when it was dropped:
\* both threads stop.
ConnectionEnds == Lingers ~> ~Lingers
=============================================================================
