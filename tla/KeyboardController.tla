------------------------- MODULE KeyboardController -------------------------
(***************************************************************************)
(* The 8042 keyboard and auxiliary (PS/2 mouse) controller of              *)
(* core/src/devices/keyboard_controller.rs, as operators on one record.    *)
(*                                                                         *)
(* A scan code is the number of the key event that produced it, so the     *)
(* n-th key the host presses is key n.  The auxiliary buffer is the unread *)
(* suffix of aux_buf: the cursor aux_read_pos and the consumed prefix are  *)
(* dropped, because every reader of the source starts at the cursor.  A    *)
(* byte of a mouse packet is its place in the packet; folding the motion   *)
(* of a second packet into an unread one leaves the three places as they   *)
(* were.                                                                   *)
(***************************************************************************)
EXTENDS Integers, Sequences

CONSTANT MaxKeys        \* bound: key events the host produces

ASSUME MaxKeysAssumption == MaxKeys \in Nat

Keys  == 1..MaxKeys
NoKey == 0

\* The status, dx and dy bytes of a mouse packet; negative, so that no byte of
\* the mouse is ever mistaken for a key in the model itself.
Packet   == <<-1, -2, -3>>
AuxBytes == {-1, -2, -3}

KbcState == [scanCode : Keys \cup {NoKey}, pendingKey : BOOLEAN, obf : BOOLEAN,
             aux : Seq(AuxBytes), pendingMouse : BOOLEAN, auxEnabled : BOOLEAN]

KbcReset == [scanCode |-> NoKey, pendingKey |-> FALSE, obf |-> FALSE,
             aux |-> <<>>, pendingMouse |-> FALSE, auxEnabled |-> FALSE]

KeyPress(k, key) ==
  [k EXCEPT !.scanCode = key, !.pendingKey = TRUE, !.obf = TRUE]

\* Mutant: the interrupt stays pending when it is taken.
TakePendingKeyKeeps(k) == k

TakePendingKey(k) == [k EXCEPT !.pendingKey = FALSE]

TakePendingMouse(k) == [k EXCEPT !.pendingMouse = FALSE]

\* set_aux_enabled; switching the port off also runs reset_aux.
SetAuxEnabled(k, on) ==
  IF on THEN [k EXCEPT !.auxEnabled = TRUE]
  ELSE [k EXCEPT !.auxEnabled = FALSE, !.aux = <<>>, !.pendingMouse = FALSE]

\* push_mouse_bytes: dropped while the port is off; folded into a packet
\* that is unread and whole, without raising the interrupt again; appended
\* otherwise.
PushMouseBytes(k) ==
  IF ~k.auxEnabled \/ Len(k.aux) = 3 THEN k
  ELSE [k EXCEPT !.aux = @ \o Packet, !.pendingMouse = TRUE]

\* Mutant: mouse bytes come before a waiting key.
PortDataAuxFirst(k) == IF k.aux = <<>> THEN k.scanCode ELSE Head(k.aux)

\* A read of port 0x60: the keyboard byte if one is waiting, else the next
\* auxiliary byte, else the old scan code once more.
PortData(k) ==
  IF k.obf \/ k.aux = <<>> THEN k.scanCode ELSE Head(k.aux)

\* Mutant: reading the keyboard byte leaves the buffer full.
AfterPortDataFull(k) ==
  IF k.obf \/ k.aux = <<>> THEN k ELSE [k EXCEPT !.aux = Tail(@)]

AfterPortData(k) ==
  IF k.obf THEN [k EXCEPT !.obf = FALSE]
  ELSE IF k.aux = <<>> THEN k
  ELSE [k EXCEPT !.aux = Tail(@)]

\* Three calls of aux_read, as INT 74h makes them.
AfterAuxRead3(k) ==
  [k EXCEPT !.aux = IF Len(@) <= 3 THEN <<>> ELSE SubSeq(@, 4, Len(@))]
=============================================================================
