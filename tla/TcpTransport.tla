---------------------------- MODULE TcpTransport ----------------------------
(***************************************************************************)
(* The TCP transport of src/native-common/src/modem_transport.rs: the      *)
(* object the modem holds, the bridge thread that connects and then        *)
(* writes, the reader thread, and the peer, as operators on the record of  *)
(* one connection.  Object and threads share three atomic flags, a queue   *)
(* under a mutex and a channel; every step below is one access to them.    *)
(*                                                                         *)
(* The peer's bytes are numbered in the order sent.  Telnet options, which *)
(* the reader filters out and answers, carry no data and are left out.     *)
(***************************************************************************)
EXTENDS Integers, Sequences, SequencesExt

CONSTANT MaxData   \* bound: bytes the peers send, all together

ASSUME TransportAssumption == MaxData \in Nat

\* data: what the object is given to send.
ConnState(data) ==
  [bridge : {"unused", "connecting", "writing", "ended"},
   reader : {"none", "reading", "extending", "ended"},
   done : BOOLEAN, connected : BOOLEAN, disconnected : BOOLEAN,
   connectDelivered : BOOLEAN, clock : {"off", "running", "elapsed"},
   incoming : Seq(1..MaxData), chunk : Seq(1..MaxData), network : Seq(1..MaxData),
   outgoing : Seq(data), received : Seq(data),
   sent : 0..MaxData, peerOpen : BOOLEAN, shut : BOOLEAN]

Unused ==
  [bridge |-> "unused", reader |-> "none", done |-> FALSE, connected |-> FALSE,
   disconnected |-> FALSE, connectDelivered |-> FALSE, clock |-> "off",
   incoming |-> <<>>, chunk |-> <<>>, network |-> <<>>,
   outgoing |-> <<>>, received |-> <<>>, sent |-> 0, peerOpen |-> FALSE, shut |-> FALSE]

-----------------------------------------------------------------------------
(* The object, called by the modem on the emulator's thread. *)

\* NativeDialer::dial.
Dialled == [Unused EXCEPT !.bridge = "connecting"]

\* poll_incoming only tries the lock; the reader holds it while it extends.
PollsIncoming(k) == IF k.reader = "extending" THEN BOOLEAN ELSE {TRUE}
AfterPoll(k)     == [k EXCEPT !.incoming = <<>>]

\* send_byte: with the receiver gone the bytes are discarded.
SendBytes(k, bytes) ==
  IF k.bridge = "ended" THEN k ELSE [k EXCEPT !.outgoing = @ \o bytes]

\* take_event looks at `connection_done' before `disconnected': when both are
\* set between the two, it reports the second first.
Events(k) ==
  LET first == ~k.connectDelivered /\ k.done
  IN (IF first THEN {IF k.connected THEN "connected" ELSE "connectFailed"} ELSE {})
     \cup (IF k.disconnected THEN {"remoteDisconnected"} ELSE {})
     \cup (IF ~first /\ ~k.disconnected THEN {"none"} ELSE {})
AfterEvent(k, event) ==
  IF event \in {"connected", "connectFailed"} THEN [k EXCEPT !.connectDelivered = TRUE] ELSE k

StartGuard(k)  == [k EXCEPT !.clock = "running"]
CancelGuard(k) == [k EXCEPT !.clock = "off"]
Elapsed(k)     == k.clock = "elapsed"

-----------------------------------------------------------------------------
(* The threads and the peer.  `dropped': the modem has let go of the object, *)
(* which closes the channel.                                                 *)

\* TcpStream::connect returns; the flags are set and the reader is spawned.
Connect(k) ==
  IF k.bridge # "connecting" THEN {}
  ELSE {[k EXCEPT !.bridge = "writing", !.reader = "reading", !.done = TRUE,
                  !.connected = TRUE, !.peerOpen = TRUE],
        [k EXCEPT !.bridge = "ended", !.done = TRUE]}

\* The reader takes what has arrived, and then appends it under the lock.
Read(k) ==
  IF k.reader # "reading" \/ k.network = <<>> THEN {}
  ELSE {[k EXCEPT !.reader = "extending", !.chunk = k.network, !.network = <<>>]}

\* Mutant: what has not been polled yet is overwritten.
ExtendOver(k) ==
  IF k.reader # "extending" THEN {}
  ELSE {[k EXCEPT !.reader = "reading", !.incoming = k.chunk, !.chunk = <<>>]}

Extend(k) ==
  IF k.reader # "extending" THEN {}
  ELSE {[k EXCEPT !.reader = "reading", !.incoming = @ \o k.chunk, !.chunk = <<>>]}

\* End of file, or the local end has been shut down.
ReadEnds(k) ==
  IF k.reader # "reading" \/ k.network # <<>> \/ (k.peerOpen /\ ~k.shut) THEN {}
  ELSE {[k EXCEPT !.reader = "ended", !.disconnected = TRUE]}

\* The bridge sends one byte; to a peer that has closed it may still seem to
\* succeed, or fail and end the thread.
Write(k) ==
  IF k.bridge # "writing" \/ k.outgoing = <<>> THEN {}
  ELSE LET next == [k EXCEPT !.outgoing = Tail(@)]
       IN IF k.peerOpen THEN {[next EXCEPT !.received = Append(@, Head(k.outgoing))]}
          ELSE {next, [next EXCEPT !.bridge = "ended", !.shut = TRUE, !.outgoing = <<>>]}

\* Mutant: the thread ends without shutting the socket down.
WriteEndsOpen(k, dropped) ==
  IF k.bridge # "writing" \/ k.outgoing # <<>> \/ ~dropped THEN {}
  ELSE {[k EXCEPT !.bridge = "ended"]}

WriteEnds(k, dropped) ==
  IF k.bridge # "writing" \/ k.outgoing # <<>> \/ ~dropped THEN {}
  ELSE {[k EXCEPT !.bridge = "ended", !.shut = TRUE]}

PeerSends(k) ==
  IF ~k.peerOpen \/ k.shut THEN {}
  ELSE {[k EXCEPT !.sent = @ + 1, !.network = Append(@, k.sent + 1)]}

PeerCloses(k) == IF k.peerOpen THEN {[k EXCEPT !.peerOpen = FALSE]} ELSE {}

\* The time of the escape guard has passed.
ClockElapses(k) == IF k.clock = "running" THEN {[k EXCEPT !.clock = "elapsed"]} ELSE {}
=============================================================================
