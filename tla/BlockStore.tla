----------------------------- MODULE BlockStore -----------------------------
(***************************************************************************)
(* What the disk services promise a program: drives that hold sectors in a *)
(* row, requests that name a drive, a first sector and a number of         *)
(* sectors, and answers that are true.  A request whose sectors all exist  *)
(* is carried out, any other is refused; a refused write may have stored   *)
(* a beginning of its data.  DiskServices implements this.                 *)
(***************************************************************************)
EXTENDS Integers, Sequences

CONSTANTS
  Drives, HardDrives,
  Stores,      \* what the drives may hold at first, each a sequence of sectors
  Media,       \* what the host may put into a removable drive
  Counts,      \* numbers of sectors a request may name
  Payload      \* what programs write: a sequence of sectors, long enough

VARIABLES
  store,       \* the sectors of each drive, none if it holds no medium
  changed,     \* the removable drives whose medium is new
  failed,      \* the last service failed
  reply        \* the answer to the last request, until the program takes it

vars == <<store, changed, failed, reply>>

Nowhere == -1

\* by says whether a service was called or the program drove the controller.
Answer(by, op, d, first, n, ok, data) ==
  [by |-> by, op |-> op, drive |-> d, first |-> first, n |-> n, ok |-> ok, data |-> data]

NoReply == Answer("nobody", "none", "none", Nowhere, 0, TRUE, <<>>)

\* A request, which is part of its answer, is answered so.
Answers(op, ok, data) ==
  LET q == reply' IN
  /\ reply = NoReply
  /\ q = Answer(q.by, op, q.drive, q.first, q.n, ok, data)
  /\ q.by \in {"service", "ports"} /\ q.drive \in Drives
  /\ failed' = IF q.by = "service" THEN ~ok ELSE failed

Init ==
  /\ store \in Stores
  /\ changed = {}
  /\ failed = FALSE
  /\ reply = NoReply

\* The request names sectors, and the drive has them.
Named(q) == q.first \in {Nowhere} \cup Nat /\ q.n \in Counts
Has(q)   == q.first # Nowhere /\ q.first + q.n <= Len(store[q.drive])

Read ==
  /\ Named(reply')
  /\ LET q == reply' IN
     Answers("read", Has(q),
             IF Has(q) THEN SubSeq(store[q.drive], q.first + 1, q.first + q.n) ELSE <<>>)
  /\ UNCHANGED <<store, changed>>

Verify ==
  /\ Named(reply') /\ Answers("verify", Has(reply'), <<>>)
  /\ UNCHANGED <<store, changed>>

\* The first k sectors of the payload are stored from first on.
Stored(d, first, k) ==
  [store EXCEPT ![d] =
     [i \in DOMAIN @ |-> IF i - first \in 1..k THEN Payload[i - first] ELSE @[i]]]

Write ==
  /\ Named(reply') /\ Answers("write", Has(reply'), <<>>)
  /\ LET q == reply' IN
     \/ Has(q) /\ store' = Stored(q.drive, q.first, q.n)
     \/ ~Has(q) /\ \E k \in 0..(q.n - 1) : store' = Stored(q.drive, q.first, k)
  /\ UNCHANGED changed

\* The size of a hard disk.
Parameters ==
  /\ LET q == reply' IN
     /\ Answers("params", q.n > 0, <<>>)
     /\ q.drive \in HardDrives /\ q.n = Len(store[q.drive])
  /\ UNCHANGED <<store, changed>>

Reset ==
  /\ Answers("reset", TRUE, <<>>)
  /\ UNCHANGED <<store, changed>>

\* Has the last service failed?  To ask is not a failure.
Status ==
  /\ reply = NoReply
  /\ \E d \in Drives : reply' = Answer("service", "status", d, Nowhere, 0, ~failed, <<>>)
  /\ UNCHANGED <<store, changed, failed>>

\* Has the medium been changed since the program last asked?
Changed ==
  /\ Answers("changed", reply'.drive \notin changed \cup HardDrives, <<>>)
  /\ changed' = changed \ {reply'.drive}
  /\ UNCHANGED store

Take ==
  /\ reply # NoReply /\ reply' = NoReply
  /\ UNCHANGED <<store, changed, failed>>

\* The host inserts another medium, or removes the one that is there.
Exchange(d) ==
  /\ \E medium \in Media : store' = [store EXCEPT ![d] = medium]
  /\ changed' = changed \cup {d}
  /\ UNCHANGED <<failed, reply>>

Next ==
  \/ Read \/ Verify \/ Write \/ Parameters \/ Reset \/ Status \/ Changed
  \/ \E d \in Drives \ HardDrives : Exchange(d)
  \/ Take

Spec == Init /\ [][Next]_vars
=============================================================================
