------------------------- MODULE SerialLine_proofs -------------------------
(***************************************************************************)
(* For any programs, number of connections and bytes: the types of the     *)
(* serial line's state, the order of the bytes on their way from a peer to *)
(* the program, and the characters a peer gets of those typed to it, past  *)
(* the pluses that the modem holds back.                                   *)
(***************************************************************************)
EXTENDS SerialLine, NumberLemmas, SequenceTheorems, FiniteSetTheorems

-----------------------------------------------------------------------------
(* Sequences, and the bytes of a connection among items. *)

\* A set of sequences that has the empty one, and with a sequence each that is
\* longer by one, has them all.
LEMMA SequenceInduction ==
  ASSUME NEW T, NEW P \in SUBSET Seq(T), <<>> \in P,
         \A s \in P, x \in T : Append(s, x) \in P
  PROVE  P = Seq(T)
<1> DEFINE S == {n \in Nat : \A s \in Seq(T) : Len(s) = n => s \in P}
<1>1. 0 \in S
  <2>1. \A s \in Seq(T) : Len(s) = 0 => s = <<>>
    BY EmptySeq
  <2> QED BY <2>1
<1>2. ASSUME NEW n \in S PROVE n + 1 \in S
  <2> SUFFICES ASSUME NEW s \in Seq(T), Len(s) = n + 1 PROVE s \in P
    OBVIOUS
  <2>1. s # <<>> /\ n \in Nat
    OBVIOUS
  <2>2. PICK u \in Seq(T), x \in T : s = Append(u, x)
    BY <2>1, SequenceEmptyOrAppend
  <2>3. Len(u) = n
    <3>1. Len(s) = Len(u) + 1 /\ Len(u) \in Nat
      BY <2>2
    <3> QED BY <2>1, <3>1
  <2>4. u \in P
    BY <2>3
  <2> QED BY <2>2, <2>4
<1>3. S = Nat
  <2> HIDE DEF S
  <2> QED BY <1>1, <1>2, Induction DEF S
<1>4. \A s \in Seq(T) : Len(s) \in Nat /\ Len(s) \in S
  BY <1>3
<1> QED BY <1>4

\* An element more at the end of two sequences is one more of the second.
LEMMA AppendToBoth ==
  ASSUME NEW T, NEW a \in Seq(T), NEW b \in Seq(T), NEW x \in T
  PROVE  a \o Append(b, x) = Append(a \o b, x)
OBVIOUS

\* A byte is one of a peer's.
FromPeer(i) == i.kind = "byte" => i.conn \in Conns /\ i.n \in 1..MaxData

\* The bytes of a connection are found one after the other.
Finds(f, c, q) ==
  f = [i \in 0..Len(q) |->
         IF i = 0 THEN <<>>
         ELSE IF q[i].kind = "byte" /\ q[i].conn = c
              THEN Append(f[i - 1], q[i].n) ELSE f[i - 1]]

\* An item at the end adds what it is.
LEMMA FindsNext ==
  ASSUME NEW c, NEW q \in Seq(Items), NEW x \in Items, NEW f, Finds(f, c, q)
  PROVE  \E g : Finds(g, c, Append(q, x))
                /\ g[Len(q) + 1] = IF x.kind = "byte" /\ x.conn = c
                                   THEN Append(f[Len(q)], x.n) ELSE f[Len(q)]
<1> DEFINE n == Len(q)
           r == Append(q, x)
           more == IF x.kind = "byte" /\ x.conn = c THEN Append(f[n], x.n) ELSE f[n]
           g == [i \in 0..(n + 1) |-> IF i = n + 1 THEN more ELSE f[i]]
<1>1. n \in Nat /\ Len(r) = n + 1 /\ r[n + 1] = x /\ \A i \in 1..n : r[i] = q[i]
  OBVIOUS
<1>2. \A i \in 0..n : f[i] = IF i = 0 THEN <<>>
                             ELSE IF q[i].kind = "byte" /\ q[i].conn = c
                                  THEN Append(f[i - 1], q[i].n) ELSE f[i - 1]
  BY DEF Finds
<1> HIDE DEF n, r
<1>3. ASSUME NEW i \in 0..(n + 1)
      PROVE  g[i] = IF i = 0 THEN <<>>
                    ELSE IF r[i].kind = "byte" /\ r[i].conn = c
                         THEN Append(g[i - 1], r[i].n) ELSE g[i - 1]
  <2>1. CASE i = n + 1
    <3>1. g[i] = more /\ g[i - 1] = f[n] /\ r[i] = x /\ i # 0
      BY <1>1, <2>1
    <3> QED BY <3>1
  <2>2. CASE i \in 1..n
    <3>1. g[i] = f[i] /\ g[i - 1] = f[i - 1] /\ r[i] = q[i] /\ i \in 0..n /\ i # 0
      BY <1>1, <2>2
    <3> HIDE DEF g
    <3> QED BY <1>2, <3>1
  <2>3. CASE i = 0
    <3>1. g[i] = f[i] /\ i \in 0..n
      BY <1>1, <2>3
    <3> QED BY <1>2, <2>3, <3>1
  <2>4. i = n + 1 \/ i \in 1..n \/ i = 0
    BY <1>1
  <2> QED BY <2>1, <2>2, <2>3, <2>4
<1>4. Finds(g, c, r)
  BY <1>1, <1>3 DEF Finds
<1>5. g[n + 1] = more
  BY <1>1
<1> HIDE DEF g
<1> QED BY <1>4, <1>5 DEF n, r

\* There is one way to find them.
LEMMA FindsOnce ==
  ASSUME NEW c, NEW q \in Seq(Items), NEW f, NEW g, Finds(f, c, q), Finds(g, c, q)
  PROVE  f[Len(q)] = g[Len(q)]
<1> DEFINE n == Len(q)
           S == {i \in Nat : i <= n => f[i] = g[i]}
<1>0. n \in Nat
  OBVIOUS
<1>1. \A i \in 0..n :
        /\ f[i] = IF i = 0 THEN <<>> ELSE IF q[i].kind = "byte" /\ q[i].conn = c
                                          THEN Append(f[i - 1], q[i].n) ELSE f[i - 1]
        /\ g[i] = IF i = 0 THEN <<>> ELSE IF q[i].kind = "byte" /\ q[i].conn = c
                                          THEN Append(g[i - 1], q[i].n) ELSE g[i - 1]
  BY DEF Finds
<1> HIDE DEF n
<1>2. 0 \in S
  BY <1>0, <1>1
<1>3. ASSUME NEW i \in S PROVE i + 1 \in S
  <2> SUFFICES ASSUME i + 1 <= n PROVE f[i + 1] = g[i + 1]
    OBVIOUS
  <2>1. f[i] = g[i] /\ i + 1 \in 0..n /\ (i + 1) - 1 = i /\ i + 1 # 0
    BY <1>0
  <2> QED BY <1>1, <2>1
<1>4. S = Nat
  <2> HIDE DEF S
  <2> QED BY <1>2, <1>3, Induction DEF S
<1>5. f[n] = g[n]
  BY <1>0, <1>4
<1> QED BY <1>5 DEF n

\* The bytes among no items, and among one more.
LEMMA BytesFound ==
  ASSUME NEW c
  PROVE  /\ BytesOf(c, <<>>) = <<>>
         /\ \A q \in Seq(Items) : BytesOf(c, q) \in Seq(Nat)
         /\ \A q \in Seq(Items), x \in Items :
              BytesOf(c, Append(q, x)) =
                IF x.kind = "byte" /\ x.conn = c
                THEN Append(BytesOf(c, q), x.n) ELSE BytesOf(c, q)
<1> DEFINE Some(q) == CHOOSE f : Finds(f, c, q)
           Found == {q \in Seq(Items) : \E f : Finds(f, c, q)}
<1>1. \A q : BytesOf(c, q) = Some(q)[Len(q)]
  BY DEF BytesOf, Finds
<1>2. <<>> \in Found
  <2>1. Finds([i \in 0..0 |-> <<>>], c, <<>>)
    BY DEF Finds
  <2> QED BY <2>1
<1>3. \A q \in Found, x \in Items : Append(q, x) \in Found
  BY FindsNext
<1>4. Found = Seq(Items)
  <2> HIDE DEF Found
  <2> QED BY <1>2, <1>3, SequenceInduction DEF Found
<1>5. \A q \in Seq(Items) : Finds(Some(q), c, q)
  BY <1>4
<1> HIDE DEF Some
<1>6. BytesOf(c, <<>>) = <<>>
  <2> DEFINE empty == <<>>
  <2>0. empty \in Seq(Items)
    OBVIOUS
  <2> HIDE DEF empty
  <2>1. Finds(Some(empty), c, empty)
    BY <1>5, <2>0
  <2> USE DEF empty
  <2> QED BY <1>1, <2>1 DEF Finds
<1>7. ASSUME NEW q \in Seq(Items), NEW x \in Items
      PROVE  BytesOf(c, Append(q, x)) =
               IF x.kind = "byte" /\ x.conn = c
               THEN Append(BytesOf(c, q), x.n) ELSE BytesOf(c, q)
  <2>1. PICK g : /\ Finds(g, c, Append(q, x))
                 /\ g[Len(q) + 1] = IF x.kind = "byte" /\ x.conn = c
                                    THEN Append(Some(q)[Len(q)], x.n) ELSE Some(q)[Len(q)]
    BY <1>5, FindsNext
  <2>2. Append(q, x) \in Seq(Items) /\ Len(Append(q, x)) = Len(q) + 1
    OBVIOUS
  <2>3. Some(Append(q, x))[Len(q) + 1] = g[Len(q) + 1]
    BY <1>5, <2>1, <2>2, FindsOnce, ZenonT(60)
  <2> QED BY <1>1, <2>1, <2>2, <2>3
<1>8. \A q \in Seq(Items) : BytesOf(c, q) \in Seq(Nat)
  <2> DEFINE P == {q \in Seq(Items) : BytesOf(c, q) \in Seq(Nat)}
  <2>1. <<>> \in P
    <3> DEFINE empty == <<>>
    <3>1. empty \in Seq(Items) /\ empty \in Seq(Nat)
      OBVIOUS
    <3>2. BytesOf(c, empty) \in Seq(Nat)
      BY <1>6, <3>1
    <3> HIDE DEF empty
    <3>3. empty \in P
      BY <3>1, <3>2
    <3> QED BY <3>3 DEF empty
  <2>2. \A q \in P, x \in Items : Append(q, x) \in P
    <3> SUFFICES ASSUME NEW q \in P, NEW x \in Items PROVE Append(q, x) \in P
      OBVIOUS
    <3>1. x.n \in Nat /\ BytesOf(c, q) \in Seq(Nat)
      BY DEF Items
    <3> QED BY <1>7, <3>1, SMTT(30)
  <2>3. P = Seq(Items)
    <3> HIDE DEF P
    <3> QED BY <2>1, <2>2, SequenceInduction DEF P
  <2> QED BY <2>3
<1> QED BY <1>6, <1>7, <1>8

\* The bytes of two sequences of items, one after the other.
LEMMA BytesOfBoth ==
  ASSUME NEW c, NEW q \in Seq(Items), NEW r \in Seq(Items)
  PROVE  BytesOf(c, q \o r) = BytesOf(c, q) \o BytesOf(c, r)
<1> DEFINE P == {s \in Seq(Items) : BytesOf(c, q \o s) = BytesOf(c, q) \o BytesOf(c, s)}
<1>1. <<>> \in P
  <2> DEFINE empty == <<>>
  <2>1. /\ empty \in Seq(Items) /\ q \o empty = q /\ BytesOf(c, empty) = empty
        /\ BytesOf(c, q) \o empty = BytesOf(c, q)
    BY BytesFound
  <2> HIDE DEF empty
  <2>2. empty \in P
    BY <2>1
  <2> QED BY <2>2 DEF empty
<1>2. ASSUME NEW s \in P, NEW x \in Items PROVE Append(s, x) \in P
  <2> DEFINE a == BytesOf(c, q)  b == BytesOf(c, s)  both == q \o s
  <2>1. /\ q \o Append(s, x) = Append(both, x) /\ Append(s, x) \in Seq(Items)
        /\ both \in Seq(Items)
    OBVIOUS
  <2>2. BytesOf(c, both) = a \o b /\ a \in Seq(Nat) /\ b \in Seq(Nat) /\ x.n \in Nat
    BY BytesFound DEF Items
  <2>3. a \o Append(b, x.n) = Append(a \o b, x.n)
    <3> DEFINE k == x.n
    <3>1. a \in Seq(Nat) /\ b \in Seq(Nat) /\ k \in Nat
      BY <2>2
    <3> HIDE DEF a, b, k
    <3>2. a \o Append(b, k) = Append(a \o b, k)
      BY <3>1, AppendToBoth, SMTT(30)
    <3> QED BY <3>2 DEF k
  <2>4. BytesOf(c, Append(both, x)) = a \o BytesOf(c, Append(s, x))
    <3> DEFINE more == Append(s, x)  all == Append(both, x)
    <3> SUFFICES BytesOf(c, all) = a \o BytesOf(c, more)
      OBVIOUS
    <3>0. /\ BytesOf(c, all) = IF x.kind = "byte" /\ x.conn = c
                               THEN Append(BytesOf(c, both), x.n) ELSE BytesOf(c, both)
          /\ BytesOf(c, more) = IF x.kind = "byte" /\ x.conn = c THEN Append(b, x.n) ELSE b
      <4> HIDE DEF both
      <4> QED BY <2>1, BytesFound
    <3> HIDE DEF a, b, both, more, all
    <3>1. CASE x.kind = "byte" /\ x.conn = c
      BY <2>2, <2>3, <3>0, <3>1
    <3>2. CASE ~(x.kind = "byte" /\ x.conn = c)
      BY <2>2, <3>0, <3>2
    <3> QED BY <3>1, <3>2
  <2> QED BY <2>1, <2>4
<1>3. P = Seq(Items)
  <2> HIDE DEF P
  <2> QED BY <1>1, <1>2, SequenceInduction DEF P
<1> QED BY <1>3

\* The byte of a single item.
LEMMA ByteOfOne ==
  ASSUME NEW c, NEW x \in Items
  PROVE  BytesOf(c, <<x>>) = IF x.kind = "byte" /\ x.conn = c THEN <<x.n>> ELSE <<>>
<1> DEFINE none == <<>>
<1>1. none \in Seq(Items) /\ Append(none, x) = <<x>>
  OBVIOUS
<1>2. BytesOf(c, none) = none
  BY BytesFound
<1>3. \A q \in Seq(Items) :
        BytesOf(c, Append(q, x)) =
          IF x.kind = "byte" /\ x.conn = c THEN Append(BytesOf(c, q), x.n) ELSE BytesOf(c, q)
  BY BytesFound
<1>4. BytesOf(c, Append(none, x)) =
        IF x.kind = "byte" /\ x.conn = c THEN Append(none, x.n) ELSE none
  <2> HIDE DEF none
  <2> QED BY <1>1, <1>2, <1>3
<1> QED BY <1>1, <1>4

\* The bytes a connection has delivered, as items, are its own.
LEMMA BytesOfIncoming ==
  ASSUME NEW c \in Conns, NEW in \in Seq(1..MaxData), NEW d \in Conns
  PROVE  LET q == [i \in 1..Len(in) |-> Byte(d, in[i])] IN
         /\ q \in Seq(Items) /\ Len(q) = Len(in)
         /\ \A i \in 1..Len(q) : FromPeer(q[i])
         /\ BytesOf(c, q) = IF c = d THEN in ELSE <<>>
<1> DEFINE Items1(s) == [i \in 1..Len(s) |-> Byte(d, s[i])]
           P == {s \in Seq(1..MaxData) :
                   BytesOf(c, Items1(s)) = IF c = d THEN s ELSE <<>>}
<1>1. ASSUME NEW s \in Seq(1..MaxData)
      PROVE  /\ Items1(s) \in Seq(Items) /\ Len(Items1(s)) = Len(s)
             /\ \A i \in 1..Len(Items1(s)) : FromPeer(Items1(s)[i])
  <2>1. \A i \in 1..Len(s) : s[i] \in 1..MaxData /\ s[i] \in Nat
    <3> DEFINE D == 1..MaxData
    <3>1. \A x \in D : x \in Nat
      BY TransportAssumption
    <3> HIDE DEF D
    <3>2. \A i \in 1..Len(s) : s[i] \in D
      BY ElementOfSeq DEF D
    <3> QED BY <3>1, <3>2 DEF D
  <2>2. \A i \in 1..Len(s) : Byte(d, s[i]) \in Items /\ FromPeer(Byte(d, s[i]))
    BY <2>1 DEF Byte, Item, Items, FromPeer
  <2>3. Items1(s) \in [1..Len(s) -> Items] /\ Len(s) \in Nat
    BY <2>2
  <2>4. Items1(s) \in Seq(Items) /\ Len(Items1(s)) = Len(s)
    BY <2>3
  <2> QED BY <2>2, <2>4
<1>2. <<>> \in P
  <2> DEFINE empty == <<>>
  <2>1. Items1(empty) = empty /\ BytesOf(c, empty) = empty /\ empty \in Seq(1..MaxData)
    BY BytesFound
  <2> HIDE DEF empty, Items1
  <2>2. BytesOf(c, Items1(empty)) = empty
    BY <2>1
  <2> QED BY <2>1, <2>2 DEF empty
<1>3. ASSUME NEW s \in P, NEW x \in 1..MaxData PROVE Append(s, x) \in P
  <2> DEFINE y == Byte(d, x)  t == Append(s, x)
  <2>1. y \in Items /\ y.kind = "byte" /\ y.conn = d /\ y.n = x
    BY DEF Byte, Item, Items
  <2>2. t \in Seq(1..MaxData) /\ Len(t) = Len(s) + 1 /\ Len(s) \in Nat
        /\ (\A i \in 1..Len(s) : t[i] = s[i]) /\ t[Len(s) + 1] = x
    OBVIOUS
  <2>3. Items1(t) = Append(Items1(s), y)
    <3> DEFINE u == Append(Items1(s), y)
    <3>1. /\ Items1(t) \in Seq(Items) /\ Items1(s) \in Seq(Items) /\ u \in Seq(Items)
          /\ Len(Items1(s)) = Len(s)
      BY <1>1, <2>1, <2>2
    <3>2. Len(Items1(t)) = Len(s) + 1 /\ Len(u) = Len(s) + 1
      BY <1>1, <2>2, <3>1
    <3>3. ASSUME NEW i \in 1..(Len(s) + 1) PROVE Items1(t)[i] = u[i]
      <4>1. CASE i = Len(s) + 1
        <5>1. Items1(t)[i] = y
          BY <2>2, <4>1
        <5>2. u[i] = y
          <6> HIDE DEF Items1, y
          <6> QED BY <3>1, <4>1
        <5> QED BY <5>1, <5>2
      <4>2. CASE i \in 1..Len(s)
        <5>1. Items1(t)[i] = Byte(d, s[i]) /\ Items1(s)[i] = Byte(d, s[i])
          BY <2>2, <4>2
        <5>2. u[i] = Items1(s)[i]
          <6> HIDE DEF Items1, y
          <6> QED BY <3>1, <4>2
        <5> QED BY <5>1, <5>2
      <4> QED BY <2>2, <4>1, <4>2
    <3> HIDE DEF u, Items1, t
    <3> QED BY <3>1, <3>2, <3>3, SeqEqual DEF u
  <2>4. Items1(s) \in Seq(Items)
    BY <1>1
  <2>5. BytesOf(c, Items1(t)) = IF c = d THEN Append(BytesOf(c, Items1(s)), x)
                                ELSE BytesOf(c, Items1(s))
    <3> DEFINE q == Items1(s)
    <3> HIDE DEF q, y
    <3>1. q \in Seq(Items)
      BY <2>4 DEF q
    <3>2. BytesOf(c, Append(q, y)) = IF y.kind = "byte" /\ y.conn = c
                                     THEN Append(BytesOf(c, q), y.n) ELSE BytesOf(c, q)
      BY <2>1, <3>1, BytesFound
    <3>3. Items1(t) = Append(q, y)
      BY <2>3 DEF q
    <3> HIDE DEF Items1
    <3> QED BY <2>1, <3>2, <3>3 DEF q
  <2> HIDE DEF Items1
  <2> QED BY <2>2, <2>5
<1>4. P = Seq(1..MaxData)
  <2> HIDE DEF P
  <2> QED BY <1>2, <1>3, SequenceInduction DEF P
<1> QED BY <1>1, <1>4

-----------------------------------------------------------------------------
(* The numbers of a peer's bytes. *)

Numbers(n) == [i \in 1..n |-> i]

LEMMA NumbersAre ==
  ASSUME NEW n \in Nat
  PROVE  /\ Numbers(n) \in Seq(Nat) /\ Len(Numbers(n)) = n /\ \A i \in 1..n : Numbers(n)[i] = i
         /\ Append(Numbers(n), n + 1) = Numbers(n + 1)
<1>1. ASSUME NEW m \in Nat
      PROVE  /\ Numbers(m) \in Seq(Nat) /\ Len(Numbers(m)) = m
             /\ \A i \in 1..m : Numbers(m)[i] = i
  BY DEF Numbers
<1> DEFINE s == Numbers(n)  a == Append(s, n + 1)  t == Numbers(n + 1)
<1>2. /\ s \in Seq(Nat) /\ Len(s) = n /\ \A i \in 1..n : s[i] = i
      /\ t \in Seq(Nat) /\ Len(t) = n + 1 /\ \A i \in 1..(n + 1) : t[i] = i
  BY <1>1
<1> HIDE DEF s, t
<1>3. a \in Seq(Nat) /\ Len(a) = n + 1 /\ \A i \in 1..(n + 1) : a[i] = i
  BY <1>2
<1> HIDE DEF a
<1>4. a = t
  BY <1>2, <1>3, SeqEqual
<1> QED BY <1>1, <1>4 DEF a, s, t

\* Of bytes in order, the first ones are in order.
LEMMA FirstNumbers ==
  ASSUME NEW s \in Seq(Nat), NEW t \in Seq(Nat), NEW n \in Nat, s \o t = Numbers(n)
  PROVE  s = Numbers(Len(s)) /\ Len(s) <= n
<1>1. /\ Len(s) \in Nat /\ Len(t) \in Nat /\ Len(s \o t) = Len(s) + Len(t)
      /\ \A i \in 1..Len(s) : (s \o t)[i] = s[i]
  OBVIOUS
<1>2. Len(s) + Len(t) = n
  BY <1>1, NumbersAre
<1> DEFINE m == Len(s)  u == Numbers(m)
<1>3. u \in Seq(Nat) /\ Len(u) = m /\ \A i \in 1..m : u[i] = i
  BY <1>1, NumbersAre
<1>4. \A i \in 1..m : i \in 1..n
  BY <1>1, <1>2
<1>5. \A i \in 1..m : s[i] = i
  BY <1>1, <1>4, NumbersAre
<1> HIDE DEF u
<1>6. s = u
  BY <1>1, <1>3, <1>5, SeqEqual
<1> QED BY <1>1, <1>2, <1>6 DEF u

\* They are a prefix of all.
LEMMA NumbersPrefix ==
  ASSUME NEW m \in Nat, NEW n \in Nat, m <= n
  PROVE  IsPrefix(Numbers(m), Numbers(n))
<1> DEFINE s == Numbers(m)  t == Numbers(n)
<1>1. /\ s \in Seq(Nat) /\ Len(s) = m /\ \A i \in 1..m : s[i] = i
      /\ t \in Seq(Nat) /\ Len(t) = n /\ \A i \in 1..n : t[i] = i
  BY NumbersAre
<1> HIDE DEF s, t
<1>2. /\ SubSeq(s, 1, m) \in Seq(Nat) /\ Len(SubSeq(s, 1, m)) = m
      /\ \A i \in 1..m : SubSeq(s, 1, m)[i] = i
  BY <1>1
<1>3. /\ SubSeq(t, 1, m) \in Seq(Nat) /\ Len(SubSeq(t, 1, m)) = m
      /\ \A i \in 1..m : SubSeq(t, 1, m)[i] = i
  BY <1>1
<1>4. SubSeq(s, 1, m) = SubSeq(t, 1, m)
  BY <1>2, <1>3, SeqEqual
<1> QED BY <1>1, <1>4 DEF IsPrefix, s, t

-----------------------------------------------------------------------------
(* Command lines. *)

LineEnd(l) == Len(l) + 1

Names == {"reset", "echoOn", "echoOff", "quiet", "loud", "dial", "noDial",
          "hangUp", "offHook", "escape", "unknown", "at"}

\* One command, none, and one before others.
LEMMA NamesJoin ==
  /\ <<>> \in Seq(Names)
  /\ \A x \in Names : <<x>> \in Seq(Names)
  /\ \A x \in Names, s \in Seq(Names) : <<x>> \o s \in Seq(Names)
<1>1. \A S : <<>> \in Seq(S)
  OBVIOUS
<1>2. \A S : \A x \in S : <<x>> \in Seq(S)
  OBVIOUS
<1>3. \A S : \A r, s \in Seq(S) : r \o s \in Seq(S)
  OBVIOUS
<1> QED BY <1>1, <1>2, <1>3

LEMMA CommandIs ==
  /\ \A a, b : Command(a, b) \in Names
  /\ {"dial", "noDial", "escape", "unknown", "at"} \subseteq Names
BY DEF Command, Names

\* A character is within its line.
LEMMA CharsWithin ==
  ASSUME NEW l \in Seq(Chars), NEW i \in 1..LineEnd(l)
  PROVE  /\ At(l, i) # "" => i <= Len(l)
         /\ At(l, i + 1) \in Digits => i + 1 <= Len(l)
         /\ At(l, i + 2) = "+" => i + 2 <= Len(l)
<1>1. Len(l) \in Nat /\ i \in Nat /\ i >= 1
  BY DEF LineEnd
<1>2. ASSUME NEW j \in Nat, j >= 1, At(l, j) # ""
      PROVE  j <= Len(l)
  <2>1. j \in 1..Len(l)
    BY <1>2 DEF At
  <2> QED BY <1>1, <2>1
<1>3. "" \notin Digits /\ "" # "+"
  BY DEF Digits
<1>4. i + 1 \in Nat /\ i + 1 >= 1 /\ i + 2 \in Nat /\ i + 2 >= 1
  BY <1>1
<1> QED BY <1>1, <1>2, <1>3, <1>4

\* Stepping over one place or two.
LEMMA StepsOver ==
  ASSUME NEW end \in Nat, NEW i \in Int, i >= 1
  PROVE  /\ i <= end => i + 1 \in (i + 1)..(end + 1)
         /\ i + 1 <= end => i + 2 \in (i + 1)..(end + 1)
         /\ i + 2 <= end => i + 3 \in (i + 1)..(end + 1)
OBVIOUS

\* The commands from a place depend on those after it only, and are
\* names if these are.
LEMMA FromIs ==
  ASSUME NEW l \in Seq(Chars), NEW i \in 1..LineEnd(l), NEW f, NEW g,
         \A j \in (i + 1)..LineEnd(l) : f[j] = g[j] /\ g[j] \in Seq(Names)
  PROVE  CommandsFrom(f, l, i) = CommandsFrom(g, l, i) /\ CommandsFrom(g, l, i) \in Seq(Names)
<1> DEFINE command == CommandAt(l, i)
           next == IF At(l, i + 1) \in Digits THEN i + 2 ELSE i + 1
           end == Len(l)
           a == At(l, i)  b == At(l, i + 1)  c == At(l, i + 2)
           dial == IF SubSeq(l, i + 1, Len(l)) \in Known THEN "dial" ELSE "noDial"
           none == <<>>  unknown == <<"unknown">>  dials == <<dial>>
           escape(k) == <<"escape">> \o k
           then(k) == <<command>> \o k
<1>0. end \in Nat /\ i \in Int /\ i >= 1
  BY DEF LineEnd
<1>1. command \in Names /\ dial \in Names
  BY CommandIs DEF CommandAt
<1>2. /\ none \in Seq(Names) /\ unknown \in Seq(Names) /\ dials \in Seq(Names)
  BY <1>1, CommandIs, NamesJoin
<1>3. \A s \in Seq(Names) : escape(s) \in Seq(Names) /\ then(s) \in Seq(Names)
  BY <1>1, CommandIs, NamesJoin
<1>6. /\ a # "" => i <= end
      /\ b \in Digits => i + 1 <= end
      /\ c = "+" => i + 2 <= end
  BY CharsWithin
<1>9. next = IF b \in Digits THEN i + 2 ELSE i + 1
  OBVIOUS
<1>10. /\ CommandsFrom(f, l, i) =
            CASE a = ""  -> none
              [] a = "D" -> dials
              [] a = "+" -> IF b = "+" /\ c = "+" THEN escape(f[i + 3]) ELSE unknown
              [] a \notin {"", "D", "+"} -> IF command = "unknown" THEN unknown ELSE then(f[next])
       /\ CommandsFrom(g, l, i) =
            CASE a = ""  -> none
              [] a = "D" -> dials
              [] a = "+" -> IF b = "+" /\ c = "+" THEN escape(g[i + 3]) ELSE unknown
              [] a \notin {"", "D", "+"} -> IF command = "unknown" THEN unknown ELSE then(g[next])
  BY DEF CommandsFrom
<1>11. \A j \in (i + 1)..(end + 1) : f[j] = g[j] /\ g[j] \in Seq(Names)
  BY DEF LineEnd
<1> HIDE DEF end, a, b, c, next, dial, command, none, unknown, dials, escape, then
<1>12. a # "" => next \in (i + 1)..(end + 1)
  <2> SUFFICES ASSUME a # "" PROVE next \in (i + 1)..(end + 1)
    OBVIOUS
  <2>1. CASE b \in Digits
    <3>1. next = i + 2
      BY <1>9, <2>1
    <3> QED BY <1>0, <1>6, <2>1, <3>1, StepsOver
  <2>2. CASE b \notin Digits
    <3>1. next = i + 1
      BY <1>9, <2>2
    <3> QED BY <1>0, <1>6, <3>1, StepsOver
  <2> QED BY <2>1, <2>2
<1>13. c = "+" => i + 3 \in (i + 1)..(end + 1)
  BY <1>0, <1>6, StepsOver
<1>14. /\ a # "" => f[next] = g[next] /\ then(g[next]) \in Seq(Names)
       /\ c = "+" => f[i + 3] = g[i + 3] /\ escape(g[i + 3]) \in Seq(Names)
  BY <1>3, <1>11, <1>12, <1>13
<1>15. CASE a = ""
  BY <1>2, <1>10, <1>15
<1>16. CASE a = "D"
  <2>1. CommandsFrom(f, l, i) = dials /\ CommandsFrom(g, l, i) = dials
    BY <1>10, <1>16
  <2> QED BY <1>2, <2>1
<1>17. CASE a = "+"
  <2>1. /\ CommandsFrom(f, l, i) = IF b = "+" /\ c = "+" THEN escape(f[i + 3]) ELSE unknown
        /\ CommandsFrom(g, l, i) = IF b = "+" /\ c = "+" THEN escape(g[i + 3]) ELSE unknown
    BY <1>10, <1>17
  <2>2. CASE b = "+" /\ c = "+"
    <3>1. CommandsFrom(f, l, i) = escape(f[i + 3]) /\ CommandsFrom(g, l, i) = escape(g[i + 3])
      BY <2>1, <2>2
    <3>2. f[i + 3] = g[i + 3] /\ escape(g[i + 3]) \in Seq(Names)
      BY <1>14, <2>2
    <3> QED BY <3>1, <3>2
  <2>3. CASE ~(b = "+" /\ c = "+")
    <3>1. CommandsFrom(f, l, i) = unknown /\ CommandsFrom(g, l, i) = unknown
      BY <2>1, <2>3
    <3> QED BY <1>2, <3>1
  <2> QED BY <2>2, <2>3
<1>18. CASE a \notin {"", "D", "+"}
  <2>1. /\ CommandsFrom(f, l, i) = IF command = "unknown" THEN unknown ELSE then(f[next])
        /\ CommandsFrom(g, l, i) = IF command = "unknown" THEN unknown ELSE then(g[next])
    BY <1>10, <1>18
  <2>2. a # ""
    BY <1>18
  <2>3. f[next] = g[next] /\ then(g[next]) \in Seq(Names)
    BY <1>14, <2>2
  <2>4. CASE command = "unknown"
    <3>1. CommandsFrom(f, l, i) = unknown /\ CommandsFrom(g, l, i) = unknown
      BY <2>1, <2>4
    <3> QED BY <1>2, <3>1
  <2>5. CASE command # "unknown"
    <3>1. CommandsFrom(f, l, i) = then(f[next]) /\ CommandsFrom(g, l, i) = then(g[next])
      BY <2>1, <2>5
    <3> QED BY <2>3, <3>1
  <2> QED BY <2>4, <2>5
<1> QED BY <1>15, <1>16, <1>17, <1>18

\* The commands of a line are names.
LEMMA ChainIs ==
  ASSUME NEW l \in Seq(Chars)
  PROVE  ParseChain(l) \in Seq(Names)
<1> DEFINE N == LineEnd(l)
           Chain(f, k) == f = [i \in k..N |-> CommandsFrom(f, l, i)]
           S == {m \in Nat : m < N => \E f : Chain(f, N - m)}
<1>0. N \in Nat /\ N >= 1
  BY DEF LineEnd
<1>1. 0 \in S
  <2> DEFINE none == <<>>  e == [i \in N..N |-> CommandsFrom(none, l, i)]
  <2>1. ASSUME NEW i \in N..N PROVE e[i] = CommandsFrom(e, l, i)
    <3>1. i \in 1..LineEnd(l) /\ e[i] = CommandsFrom(none, l, i)
      BY <1>0, <2>1
    <3>2. \A j \in (i + 1)..LineEnd(l) : FALSE
      BY <1>0, <2>1
    <3> HIDE DEF e, none
    <3> QED BY <3>1, <3>2, FromIs
  <2>2. Chain(e, N)
    BY <2>1
  <2>3. N - 0 = N
    BY <1>0
  <2> HIDE DEF e
  <2> QED BY <2>2, <2>3
<1>2. ASSUME NEW k \in Nat, NEW f, k \in 1..N, Chain(f, k)
      PROVE  \A i \in k..N : f[i] = CommandsFrom(f, l, i) /\ f[i] \in Seq(Names)
  <2> DEFINE Q == {m \in Nat : \A i \in k..N : N - i <= m => f[i] \in Seq(Names)}
  <2>1. \A i \in k..N : f[i] = CommandsFrom(f, l, i) /\ i \in 1..N
    BY <1>0, <1>2
  <2> HIDE DEF N
  <2>2. 0 \in Q
    <3> SUFFICES ASSUME NEW i \in k..N, N - i <= 0 PROVE f[i] \in Seq(Names)
      OBVIOUS
    <3>1. i = N
      BY <1>0
    <3>2. \A j \in (i + 1)..LineEnd(l) : FALSE
      BY <1>0, <3>1 DEF N
    <3> QED BY <2>1, <3>2, FromIs DEF N
  <2>3. ASSUME NEW m \in Q PROVE m + 1 \in Q
    <3> SUFFICES ASSUME NEW i \in k..N, N - i <= m + 1 PROVE f[i] \in Seq(Names)
      OBVIOUS
    <3>1. \A j \in (i + 1)..N : j \in k..N /\ N - j <= m
      BY <1>0
    <3>2. \A j \in (i + 1)..N : f[j] \in Seq(Names)
      BY <2>3, <3>1
    <3> QED BY <2>1, <3>2, FromIs DEF N
  <2>4. Q = Nat
    <3> HIDE DEF Q
    <3> QED BY <2>2, <2>3, Induction DEF Q
  <2>5. \A i \in k..N : N - i \in Nat
    BY <1>0
  <2>6. \A i \in k..N : f[i] \in Seq(Names)
    BY <2>4, <2>5
  <2> QED BY <2>1, <2>6
<1>3. ASSUME NEW m \in S PROVE m + 1 \in S
  <2> SUFFICES ASSUME m + 1 < N PROVE \E f : Chain(f, N - (m + 1))
    OBVIOUS
  <2> DEFINE k == N - (m + 1)
  <2>1. k \in 1..N /\ k + 1 \in 1..N /\ N - m = k + 1 /\ m < N
    BY <1>0
  <2>2. PICK f : Chain(f, k + 1)
    BY <2>1
  <2> HIDE DEF k
  <2>3. \A i \in (k + 1)..N : f[i] = CommandsFrom(f, l, i) /\ f[i] \in Seq(Names)
    <3> HIDE DEF Chain, N
    <3>1. k + 1 \in Nat
      BY <1>0, <2>1
    <3> DEFINE n == k + 1
    <3>2. n \in Nat /\ n \in 1..N /\ Chain(f, n)
      BY <2>1, <2>2, <3>1
    <3> HIDE DEF n
    <3>3. \A i \in n..N : f[i] = CommandsFrom(f, l, i) /\ f[i] \in Seq(Names)
      BY <1>2, <3>2
    <3> QED BY <3>3 DEF n
  <2> DEFINE g == [i \in k..N |-> IF i = k THEN CommandsFrom(f, l, k) ELSE f[i]]
  <2>4. ASSUME NEW i \in k..N PROVE g[i] = CommandsFrom(g, l, i)
    <3>1. \A j \in (i + 1)..N : j \in k..N /\ j \in (k + 1)..N /\ j # k
      BY <1>0, <2>1
    <3>2. \A j \in (i + 1)..LineEnd(l) : g[j] = f[j] /\ f[j] \in Seq(Names)
      BY <2>3, <3>1
    <3>3. g[i] = CommandsFrom(f, l, i)
      <4>1. CASE i = k
        BY <2>1, <4>1
      <4>2. CASE i # k
        <5>1. i \in (k + 1)..N /\ g[i] = f[i]
          BY <1>0, <2>1, <4>2
        <5> HIDE DEF g
        <5> QED BY <2>3, <5>1
      <4> QED BY <4>1, <4>2
    <3>4. i \in 1..LineEnd(l)
      BY <1>0, <2>1
    <3> HIDE DEF g
    <3>5. CommandsFrom(g, l, i) = CommandsFrom(f, l, i)
      BY <3>2, <3>4, FromIs
    <3> QED BY <3>3, <3>5
  <2>5. Chain(g, k)
    BY <2>4
  <2> HIDE DEF g
  <2> QED BY <2>5 DEF k
<1>4. S = Nat
  <2> HIDE DEF S
  <2> QED BY <1>1, <1>3, Induction DEF S
<1>5. \E f : Chain(f, 1)
  <2>1. N - 1 \in Nat /\ N - 1 < N /\ N - (N - 1) = 1
    BY <1>0
  <2> HIDE DEF N
  <2>2. N - 1 \in S
    BY <1>4, <2>1
  <2> QED BY <2>1, <2>2
<1>6. ParseChain(l) = (CHOOSE f : Chain(f, 1))[1]
  BY DEF ParseChain, LineEnd
<1>7. Chain(CHOOSE f : Chain(f, 1), 1)
  BY <1>5
<1>8. 1 \in Nat /\ 1 \in 1..N
  BY <1>0
<1> DEFINE h == CHOOSE f : Chain(f, 1)
<1>9. Chain(h, 1)
  BY <1>7
<1> HIDE DEF h
<1>10. h[1] \in Seq(Names)
  <2> HIDE DEF Chain
  <2> QED BY <1>2, <1>8, <1>9
<1> QED BY <1>6, <1>10 DEF h

LEMMA ParseIs ==
  ASSUME NEW l \in Seq(Chars)
  PROVE  Parse(l) \in Seq(Names)
<1> DEFINE Plus == <<"+", "+", "+">>
           line == IF IsPrefix(Plus, l) THEN SubSeq(l, 4, Len(l)) ELSE l
<1>1. line \in Seq(Chars)
  <2>1. Len(Plus) = 3 /\ Len(l) \in Nat
    OBVIOUS
  <2>2. IsPrefix(Plus, l) => 3 <= Len(l)
    BY <2>1 DEF IsPrefix
  <2>3. 3 <= Len(l) => SubSeq(l, 4, Len(l)) \in Seq(Chars)
    <3> SUFFICES ASSUME 3 <= Len(l) PROVE SubSeq(l, 4, Len(l)) \in Seq(Chars)
      OBVIOUS
    <3>1. \A i \in 4..Len(l) : l[i] \in Chars
      BY <2>1
    <3> QED BY <2>1, <3>1, SubSeqProperties
  <2> HIDE DEF Plus
  <2> QED BY <2>2, <2>3
<1> HIDE DEF line
<1>2. line # <<>> => Tail(line) \in Seq(Chars)
  BY <1>1
<1>3. line # <<>> => ParseChain(Tail(line)) \in Seq(Names)
  BY <1>2, ChainIs
<1>4. Parse(l) = IF line = <<>> THEN <<"escape">>
                 ELSE IF Head(line) # "AT" THEN <<"unknown">>
                 ELSE IF Tail(line) = <<>> THEN <<"at">>
                 ELSE ParseChain(Tail(line))
  BY DEF Parse, line
<1>5. {<<"escape">>, <<"unknown">>, <<"at">>} \subseteq Seq(Names)
  BY CommandIs, NamesJoin
<1> DEFINE e == <<"escape">>  u == <<"unknown">>  t == <<"at">>
<1>6. Parse(l) \in {e, u, t} \/ (line # <<>> /\ Parse(l) = ParseChain(Tail(line)))
  BY <1>4
<1> HIDE DEF e, u, t
<1>7. {e, u, t} \subseteq Seq(Names)
  BY <1>5 DEF e, u, t
<1> QED BY <1>3, <1>6, <1>7

-----------------------------------------------------------------------------
(* The modem. *)

Fits(m) == m \in ModemState /\ \A i \in 1..Len(m.rx) : FromPeer(m.rx[i])

\* Modem p has the bytes that m has.
Alike(m, p) == Fits(p) /\ \A c \in Conns : BytesOf(c, p.rx) = BytesOf(c, m.rx)

\* More than that, it is about the same call.
Kept(m, p) ==
  /\ Alike(m, p)
  /\ p.state = m.state /\ p.guard = m.guard /\ p.escape = m.escape
  /\ p.transport = m.transport

LEMMA CountIs == 0 \in EscapeCount /\ EscapeCount \subseteq Nat
BY DEF EscapeCount

\* Items queued at the end are after those before.
LEMMA JoinFits ==
  ASSUME NEW q \in Seq(Items), NEW r \in Seq(Items),
         \A i \in 1..Len(q) : FromPeer(q[i]), \A i \in 1..Len(r) : FromPeer(r[i])
  PROVE  q \o r \in Seq(Items) /\ \A i \in 1..Len(q \o r) : FromPeer((q \o r)[i])
<1>1. /\ q \o r \in Seq(Items) /\ Len(q \o r) = Len(q) + Len(r)
      /\ Len(q) \in Nat /\ Len(r) \in Nat
      /\ \A i \in 1..(Len(q) + Len(r)) :
           (q \o r)[i] = IF i <= Len(q) THEN q[i] ELSE r[i - Len(q)]
  BY ConcatProperties
<1>2. ASSUME NEW i \in 1..(Len(q) + Len(r)) PROVE FromPeer((q \o r)[i])
  <2>1. CASE i <= Len(q)
    <3>1. i \in 1..Len(q) /\ (q \o r)[i] = q[i]
      BY <1>1, <2>1
    <3> QED BY <3>1
  <2>2. CASE ~(i <= Len(q))
    <3>1. i - Len(q) \in 1..Len(r) /\ (q \o r)[i] = r[i - Len(q)]
      BY <1>1, <2>2
    <3> QED BY <3>1
  <2> QED BY <2>1, <2>2
<1> QED BY <1>1, <1>2

\* What the modem says itself is no byte of a peer.
LEMMA QueueIs ==
  ASSUME NEW m, Fits(m), NEW kind \in Results \cup {"echo"}
  PROVE  Kept(m, QueueItems(m, <<Item(kind, NoConn, 0)>>))
<1> DEFINE x == Item(kind, NoConn, 0)  one == <<x>>  rx == m.rx \o one
           irq == m.irq \/ m.rx \o one # <<>>
           p == [m EXCEPT !.rx = rx, !.irq = irq]
<1>1. kind # "byte"
  BY DEF Results
<1>2. x \in Items /\ x.kind = kind
  BY DEF Item, Items
<1>3. one \in Seq(Items) /\ Len(one) = 1 /\ one[1] = x
  BY <1>2
<1>4. \A c \in Conns : BytesOf(c, one) = <<>>
  BY <1>1, <1>2, ByteOfOne
<1>5. FromPeer(x)
  BY <1>1, <1>2 DEF FromPeer
<1>6. m \in ModemState /\ m.rx \in Seq(Items)
  BY DEF Fits, ModemState
<1>7. QueueItems(m, one) = p /\ irq \in BOOLEAN
  BY DEF QueueItems
<1> HIDE DEF x, one
<1>8. \A i \in 1..Len(one) : FromPeer(one[i])
  BY <1>3, <1>5
<1>9. rx \in Seq(Items) /\ \A i \in 1..Len(rx) : FromPeer(rx[i])
  BY <1>3, <1>6, <1>8, JoinFits DEF Fits
<1>10. \A c \in Conns : BytesOf(c, rx) = BytesOf(c, m.rx)
  <2> SUFFICES ASSUME NEW c \in Conns PROVE BytesOf(c, rx) = BytesOf(c, m.rx)
    OBVIOUS
  <2>1. BytesOf(c, rx) = BytesOf(c, m.rx) \o BytesOf(c, one)
    BY <1>3, <1>6, BytesOfBoth
  <2>2. BytesOf(c, m.rx) \in Seq(Nat)
    BY <1>6, BytesFound
  <2> QED BY <1>4, <2>1, <2>2
<1> HIDE DEF rx, irq
<1>11. /\ p \in ModemState /\ p.rx = rx
       /\ p.state = m.state /\ p.guard = m.guard /\ p.escape = m.escape
       /\ p.transport = m.transport
  BY <1>6, <1>7, <1>9 DEF ModemState
<1> HIDE DEF p
<1>12. Kept(m, p)
  BY <1>9, <1>10, <1>11 DEF Kept, Alike, Fits
<1> QED BY <1>7, <1>12 DEF x, one

LEMMA SelfKept ==
  ASSUME NEW m, Fits(m)
  PROVE  Kept(m, m)
BY DEF Kept, Alike

LEMMA SendResultIs ==
  ASSUME NEW m, Fits(m), NEW code \in Results
  PROVE  Kept(m, SendResult(m, code))
BY QueueIs, SelfKept DEF SendResult

LEMMA EchoedIs ==
  ASSUME NEW m, Fits(m)
  PROVE  Kept(m, Echoed(m))
BY QueueIs, SelfKept DEF Echoed

\* Commands and where they leave the modem m: the bytes are still there, the
\* connection is the same, none or the next.
Obeys(m, p, next) ==
  /\ Alike(m, p)
  /\ p.transport \in {m.transport, NoConn, next}
  /\ p.state \in {"CommandMode", "Dialing"}
  /\ p.state = "Dialing" => p.transport = next
  /\ p.guard \in {m.guard, NoGuard} /\ p.escape \in {m.escape, 0}

\* What is said on the way changes nothing of that.
LEMMA ObeysKept ==
  ASSUME NEW m, NEW p, NEW q, NEW next, Obeys(m, p, next), Kept(p, q)
  PROVE  Obeys(m, q, next)
BY DEF Obeys, Kept, Alike

\* A modem with the same queue has the same bytes.
LEMMA QueueAlike ==
  ASSUME NEW m, NEW p, NEW q, Alike(m, p), q \in ModemState, q.rx = p.rx
  PROVE  Alike(m, q)
BY DEF Alike, Fits

LEMMA OnHookIs ==
  ASSUME NEW m, NEW p, Alike(m, p)
  PROVE  /\ Alike(m, OnHook(p)) /\ OnHook(p).transport = NoConn
         /\ OnHook(p).state = "CommandMode" /\ OnHook(p).escape = 0
         /\ OnHook(p).guard = p.guard
<1> DEFINE q == OnHook(p)
<1>1. p \in ModemState
  BY DEF Alike, Fits
<1>2. /\ q \in ModemState /\ q.rx = p.rx /\ q.transport = NoConn
      /\ q.state = "CommandMode" /\ q.escape = 0 /\ q.guard = p.guard
  BY <1>1, CountIs DEF OnHook, ModemState
<1> HIDE DEF q
<1>3. Alike(m, q)
  BY <1>2, QueueAlike
<1> QED BY <1>2, <1>3 DEF q

LEMMA ResetDefaultsIs ==
  ASSUME NEW m, NEW p, Alike(m, p)
  PROVE  /\ Alike(m, ResetDefaults(p)) /\ ResetDefaults(p).transport = NoConn
         /\ ResetDefaults(p).state = "CommandMode" /\ ResetDefaults(p).escape = 0
         /\ ResetDefaults(p).guard = NoGuard
<1> DEFINE q == ResetDefaults(p)
<1>1. p \in ModemState
  BY DEF Alike, Fits
<1>2. /\ q \in ModemState /\ q.rx = p.rx /\ q.transport = NoConn
      /\ q.state = "CommandMode" /\ q.escape = 0 /\ q.guard = NoGuard
  BY <1>1, CountIs DEF ResetDefaults, ModemNew, ModemState
<1> HIDE DEF q
<1>3. Alike(m, q)
  BY <1>2, QueueAlike
<1> QED BY <1>2, <1>3 DEF q

\* A command leaves the connection, drops it or dials.
LEMMA ExecutedIs ==
  ASSUME NEW m, NEW p, NEW next \in Conns \cup {NoConn}, Obeys(m, p, next),
         NEW command \in Names
  PROVE  Obeys(m, Executed(p, command, next), next)
<1> DEFINE q == Executed(p, command, next)
<1>0. Alike(m, p) /\ Fits(p) /\ p \in ModemState
  BY DEF Obeys, Alike, Fits
<1> SUFFICES Obeys(m, q, next)
  OBVIOUS
<1> HIDE DEF q
<1>1. CASE command = "reset"
  <2>1. q = ResetDefaults(p)
    BY <1>1 DEF Executed, q
  <2> QED BY <1>0, <2>1, ResetDefaultsIs DEF Obeys
<1>2. CASE command \in {"echoOn", "echoOff"}
  <2> DEFINE on == command = "echoOn"
             r == [p EXCEPT !.echo = on]
  <2>1. q = r /\ on \in BOOLEAN
    <3>1. CASE command = "echoOn"
      BY <3>1 DEF Executed, q
    <3>2. CASE command = "echoOff"
      BY <3>2 DEF Executed, q
    <3> QED BY <1>2, <3>1, <3>2
  <2> HIDE DEF on
  <2>2. /\ r \in ModemState /\ r.rx = p.rx /\ r.state = p.state /\ r.guard = p.guard
        /\ r.escape = p.escape /\ r.transport = p.transport
    BY <1>0, <2>1 DEF ModemState
  <2> HIDE DEF r
  <2>3. Alike(m, r)
    BY <1>0, <2>2, QueueAlike
  <2> QED BY <2>1, <2>2, <2>3 DEF Obeys
<1>3. CASE command \in {"quiet", "loud"}
  <2> DEFINE on == command = "quiet"
             r == [p EXCEPT !.quiet = on]
  <2>1. q = r /\ on \in BOOLEAN
    <3>1. CASE command = "quiet"
      BY <3>1 DEF Executed, q
    <3>2. CASE command = "loud"
      BY <3>2 DEF Executed, q
    <3> QED BY <1>3, <3>1, <3>2
  <2> HIDE DEF on
  <2>2. /\ r \in ModemState /\ r.rx = p.rx /\ r.state = p.state /\ r.guard = p.guard
        /\ r.escape = p.escape /\ r.transport = p.transport
    BY <1>0, <2>1 DEF ModemState
  <2> HIDE DEF r
  <2>3. Alike(m, r)
    BY <1>0, <2>2, QueueAlike
  <2> QED BY <2>1, <2>2, <2>3 DEF Obeys
<1>4. CASE command = "dial"
  <2> DEFINE r == [p EXCEPT !.transport = next, !.state = "Dialing"]
  <2>1. q = r
    BY <1>4 DEF Executed, q
  <2>2. /\ r \in ModemState /\ r.rx = p.rx /\ r.state = "Dialing" /\ r.guard = p.guard
        /\ r.escape = p.escape /\ r.transport = next
    BY <1>0 DEF ModemState
  <2> HIDE DEF r
  <2>3. Alike(m, r)
    BY <1>0, <2>2, QueueAlike
  <2> QED BY <2>1, <2>2, <2>3 DEF Obeys
<1>5. CASE command = "hangUp"
  <2>1. PICK code \in Results : q = SendResult(OnHook(p), code)
    BY <1>5 DEF Executed, Results, q
  <2> DEFINE h == OnHook(p)
  <2>2. /\ Alike(m, h) /\ h.transport = NoConn /\ h.state = "CommandMode"
        /\ h.escape = 0 /\ h.guard = p.guard
    BY <1>0, OnHookIs
  <2> HIDE DEF h
  <2>3. Obeys(m, h, next)
    BY <2>2 DEF Obeys
  <2>4. Kept(h, SendResult(h, code))
    BY <2>2, SendResultIs DEF Alike
  <2> QED BY <2>1, <2>3, <2>4, ObeysKept DEF h
<1>6. CASE command \in {"noDial", "offHook", "unknown"}
  <2>1. PICK code \in Results : q = SendResult(p, code)
    <3>1. CASE command = "noDial"
      BY <3>1 DEF Executed, Results, q
    <3>2. CASE command = "offHook"
      BY <3>2 DEF Executed, Results, q
    <3>3. CASE command = "unknown"
      BY <3>3 DEF Executed, Results, q
    <3> QED BY <1>6, <3>1, <3>2, <3>3
  <2>2. Kept(p, SendResult(p, code))
    BY <1>0, SendResultIs
  <2> QED BY <2>1, <2>2, ObeysKept
<1>7. CASE command = "escape"
  <2> DEFINE r == [p EXCEPT !.state = "CommandMode"]
  <2>1. q = r
    BY <1>7 DEF Executed, q
  <2>2. /\ r \in ModemState /\ r.rx = p.rx /\ r.state = "CommandMode" /\ r.guard = p.guard
        /\ r.escape = p.escape /\ r.transport = p.transport
    BY <1>0 DEF ModemState
  <2> HIDE DEF r
  <2>3. Alike(m, r)
    BY <1>0, <2>2, QueueAlike
  <2> QED BY <2>1, <2>2, <2>3 DEF Obeys
<1>8. CASE command = "at"
  <2>1. q = p
    BY <1>8 DEF Executed, q
  <2> QED BY <2>1
<1> QED BY <1>1, <1>2, <1>3, <1>4, <1>5, <1>6, <1>7, <1>8 DEF Names

-----------------------------------------------------------------------------
(* A line of commands. *)

\* The modem after each of the commands s.
Ran(f, m, s, next) ==
  f = [i \in 0..Len(s) |->
         IF i = 0 THEN [m EXCEPT !.cmdBuf = <<>>]
                  ELSE Executed(f[i - 1], s[i], next)]

\* There is such a function: one command more makes it longer by one.
LEMMA RanNext ==
  ASSUME NEW m, NEW next, NEW s \in Seq(Names), NEW x \in Names, NEW f,
         Ran(f, m, s, next)
  PROVE  \E g : Ran(g, m, Append(s, x), next)
<1> DEFINE n == Len(s)
           r == Append(s, x)
           start == [m EXCEPT !.cmdBuf = <<>>]
           more == Executed(f[n], x, next)
           g == [i \in 0..(n + 1) |-> IF i = n + 1 THEN more ELSE f[i]]
<1>1. n \in Nat /\ Len(r) = n + 1 /\ r[n + 1] = x /\ \A i \in 1..n : r[i] = s[i]
  OBVIOUS
<1>2. \A i \in 0..n : f[i] = IF i = 0 THEN start ELSE Executed(f[i - 1], s[i], next)
  BY DEF Ran
<1> HIDE DEF n, r, start
<1>3. ASSUME NEW i \in 0..(n + 1)
      PROVE  g[i] = IF i = 0 THEN start ELSE Executed(g[i - 1], r[i], next)
  <2>1. CASE i = n + 1
    <3>1. g[i] = more /\ g[i - 1] = f[n] /\ r[i] = x /\ i # 0
      BY <1>1, <2>1
    <3> QED BY <3>1
  <2>2. CASE i \in 1..n
    <3>1. g[i] = f[i] /\ g[i - 1] = f[i - 1] /\ r[i] = s[i] /\ i \in 0..n /\ i # 0
      BY <1>1, <2>2
    <3> HIDE DEF g
    <3> QED BY <1>2, <3>1
  <2>3. CASE i = 0
    <3>1. g[i] = f[i] /\ i \in 0..n
      BY <1>1, <2>3
    <3> QED BY <1>2, <2>3, <3>1
  <2>4. i = n + 1 \/ i \in 1..n \/ i = 0
    BY <1>1
  <2> QED BY <2>1, <2>2, <2>3, <2>4
<1>4. Ran(g, m, r, next)
  BY <1>1, <1>3 DEF Ran, start
<1> HIDE DEF g
<1> QED BY <1>4 DEF r

LEMMA RanExists ==
  ASSUME NEW m, NEW next, NEW s \in Seq(Names)
  PROVE  \E f : Ran(f, m, s, next)
<1> DEFINE P == {t \in Seq(Names) : \E f : Ran(f, m, t, next)}
<1>1. <<>> \in P
  <2> DEFINE none == <<>>
             f == [i \in 0..0 |-> [m EXCEPT !.cmdBuf = <<>>]]
  <2>1. none \in Seq(Names)
    BY NamesJoin
  <2>2. Ran(f, m, none, next)
    BY DEF Ran
  <2> HIDE DEF none, f
  <2>3. none \in P
    BY <2>1, <2>2
  <2> QED BY <2>3 DEF none
<1>2. \A t \in P, x \in Names : Append(t, x) \in P
  <2> SUFFICES ASSUME NEW t \in P, NEW x \in Names PROVE Append(t, x) \in P
    OBVIOUS
  <2>1. PICK f : Ran(f, m, t, next)
    OBVIOUS
  <2>2. Append(t, x) \in Seq(Names)
    OBVIOUS
  <2> QED BY <2>1, <2>2, RanNext
<1>3. P = Seq(Names)
  <2> HIDE DEF P
  <2> QED BY <1>1, <1>2, SequenceInduction DEF P
<1> QED BY <1>3

\* After any of them the modem obeys.
LEMMA RanIs ==
  ASSUME NEW m, Fits(m), m.state = "CommandMode", NEW next \in Conns \cup {NoConn},
         NEW s \in Seq(Names), NEW f, Ran(f, m, s, next)
  PROVE  \A i \in 0..Len(s) : Obeys(m, f[i], next)
<1> DEFINE n == Len(s)
           start == [m EXCEPT !.cmdBuf = <<>>]
           S == {i \in Nat : i <= n => Obeys(m, f[i], next)}
<1>0. n \in Nat /\ \A i \in 1..n : s[i] \in Names
  OBVIOUS
<1>1. \A i \in 0..n : f[i] = IF i = 0 THEN start ELSE Executed(f[i - 1], s[i], next)
  BY DEF Ran
<1>2. Obeys(m, start, next)
  <2>1. m \in ModemState
    BY DEF Fits
  <2>2. /\ start \in ModemState /\ start.rx = m.rx /\ start.state = m.state
        /\ start.guard = m.guard /\ start.escape = m.escape /\ start.transport = m.transport
    <3> DEFINE none == <<>>
    <3>1. none \in Seq(Chars)
      OBVIOUS
    <3>2. start = [m EXCEPT !.cmdBuf = none]
      OBVIOUS
    <3> HIDE DEF none, start
    <3> QED BY <2>1, <3>1, <3>2 DEF ModemState
  <2> HIDE DEF start
  <2>3. Alike(m, start)
    BY <2>2, QueueAlike DEF Alike
  <2> QED BY <2>2, <2>3 DEF Obeys
<1> HIDE DEF n, start
<1>3. 0 \in S
  BY <1>0, <1>1, <1>2
<1>4. ASSUME NEW i \in S PROVE i + 1 \in S
  <2> SUFFICES ASSUME i + 1 <= n PROVE Obeys(m, f[i + 1], next)
    OBVIOUS
  <2>1. /\ Obeys(m, f[i], next) /\ i + 1 \in 0..n /\ i + 1 \in 1..n
        /\ (i + 1) - 1 = i /\ i + 1 # 0
    BY <1>0
  <2>2. f[i + 1] = Executed(f[i], s[i + 1], next) /\ s[i + 1] \in Names
    BY <1>0, <1>1, <2>1
  <2> QED BY <2>1, <2>2, ExecutedIs
<1>5. S = Nat
  <2> HIDE DEF S
  <2> QED BY <1>3, <1>4, Induction DEF S
<1>6. \A i \in 0..n : i \in S
  BY <1>0, <1>5
<1>7. \A i \in 0..n : Obeys(m, f[i], next)
  BY <1>0, <1>6
<1> QED BY <1>7 DEF n

\* The command at which the line ends is among them.
LEMMA SelectedIs ==
  ASSUME NEW s \in Seq(Names)
  PROVE  SelectInSeq(s, LAMBDA c : c \in Terminal) \in 0..Len(s)
<1> DEFINE I == {i \in 1..Len(s) : s[i] \in Terminal}
<1>1. Len(s) \in Nat
  OBVIOUS
<1>2. SelectInSeq(s, LAMBDA c : c \in Terminal) = IF I # {} THEN CHOOSE x \in I : \A y \in I : x <= y ELSE 0
  BY DEF SelectInSeq, Min
<1>3. I # {} => (CHOOSE x \in I : \A y \in I : x <= y) \in I
  <2>1. I \subseteq Nat
    BY <1>1
  <2> HIDE DEF I
  <2>2. I # {} => \E x \in I : \A y \in I : x <= y
    BY <2>1, Least
  <2> QED BY <2>2
<1> QED BY <1>1, <1>2, <1>3

LEMMA ProcessCommandIs ==
  ASSUME NEW m, Fits(m), m.state = "CommandMode", NEW next \in Conns \cup {NoConn}
  PROVE  Obeys(m, ProcessCommand(m, next), next)
<1> DEFINE s == Parse(m.cmdBuf)
           ends == SelectInSeq(s, LAMBDA c : c \in Terminal)
           run == CHOOSE f : Ran(f, m, s, next)
<1>1. m.cmdBuf \in Seq(Chars)
  BY DEF Fits, ModemState
<1>2. s \in Seq(Names)
  BY <1>1, ParseIs
<1>3. ends \in 0..Len(s) /\ Len(s) \in 0..Len(s)
  <2>1. Len(s) \in 0..Len(s)
    BY <1>2
  <2> QED BY <1>2, <2>1, SelectedIs
<1>4. Ran(run, m, s, next)
  BY <1>2, RanExists
<1>5. ProcessCommand(m, next) = IF ends # 0 THEN run[ends] ELSE SendResult(run[Len(s)], "OK")
  BY DEF ProcessCommand, Ran
<1> HIDE DEF s, ends, run
<1>6. Obeys(m, run[ends], next) /\ Obeys(m, run[Len(s)], next)
  BY <1>2, <1>3, <1>4, RanIs
<1>7. Kept(run[Len(s)], SendResult(run[Len(s)], "OK"))
  BY <1>6, SendResultIs DEF Obeys, Alike, Results
<1>8. Obeys(m, SendResult(run[Len(s)], "OK"), next)
  BY <1>6, <1>7, ObeysKept
<1> QED BY <1>5, <1>6, <1>8

LEMMA ObeysAfter ==
  ASSUME NEW m, NEW e, NEW p, NEW next, Kept(m, e), Obeys(e, p, next)
  PROVE  Obeys(m, p, next)
BY DEF Kept, Obeys, Alike

LEMMA CommandCharIs ==
  ASSUME NEW m, Fits(m), m.state = "CommandMode", NEW next \in Conns \cup {NoConn},
         NEW ch \in Chars \cup {CR, BS}
  PROVE  Obeys(m, CommandChar(m, ch, next), next)
<1> DEFINE e == Echoed(m)
<1>1. Kept(m, e)
  BY EchoedIs
<1>2. Fits(e) /\ e \in ModemState /\ e.state = "CommandMode" /\ e.cmdBuf \in Seq(Chars)
  BY <1>1 DEF Kept, Alike, Fits, ModemState
<1>3. /\ ch = CR => CommandChar(m, ch, next) = ProcessCommand(e, next)
      /\ ch = BS => CommandChar(m, ch, next) =
                      [e EXCEPT !.cmdBuf = IF @ = <<>> THEN @ ELSE Front(@)]
      /\ ch \in Chars /\ ch \notin {CR, BS} =>
           CommandChar(m, ch, next) = [e EXCEPT !.cmdBuf = Append(@, ch)]
  BY DEF CommandChar, CR, BS
<1> HIDE DEF e
<1>4. ASSUME NEW b \in Seq(Chars) PROVE Obeys(m, [e EXCEPT !.cmdBuf = b], next)
  <2> DEFINE p == [e EXCEPT !.cmdBuf = b]
  <2>1. /\ p \in ModemState /\ p.rx = e.rx /\ p.state = e.state /\ p.guard = e.guard
        /\ p.escape = e.escape /\ p.transport = e.transport
    BY <1>2 DEF ModemState
  <2> HIDE DEF p
  <2>2. Alike(m, p)
    BY <1>1, <2>1, QueueAlike DEF Kept
  <2>3. Obeys(m, p, next)
    BY <1>1, <1>2, <2>1, <2>2 DEF Kept, Obeys
  <2> QED BY <2>3 DEF p
<1>5. CASE ch = CR
  BY <1>1, <1>2, <1>3, <1>5, ProcessCommandIs, ObeysAfter
<1>6. CASE ch = BS
  <2> DEFINE b == IF e.cmdBuf = <<>> THEN e.cmdBuf ELSE Front(e.cmdBuf)
  <2>1. b \in Seq(Chars)
    <3>1. CASE e.cmdBuf = <<>>
      BY <1>2, <3>1
    <3>2. CASE e.cmdBuf # <<>>
      <4> DEFINE s == e.cmdBuf
      <4>1. s \in Seq(Chars) /\ Len(s) \in Nat /\ Len(s) >= 1
        BY <1>2, <3>2
      <4> HIDE DEF s
      <4>2. SubSeq(s, 1, Len(s) - 1) \in Seq(Chars)
        BY <4>1
      <4> QED BY <3>2, <4>2 DEF Front, s
    <3> QED BY <3>1, <3>2
  <2>2. CommandChar(m, ch, next) = [e EXCEPT !.cmdBuf = b]
    BY <1>3, <1>6
  <2> HIDE DEF b
  <2> QED BY <1>4, <2>1, <2>2
<1>7. CASE ch \notin {CR, BS}
  <2> DEFINE b == Append(e.cmdBuf, ch)
  <2>1. b \in Seq(Chars)
    BY <1>2, <1>7
  <2>2. CommandChar(m, ch, next) = [e EXCEPT !.cmdBuf = b]
    BY <1>3, <1>7
  <2> HIDE DEF b
  <2> QED BY <1>4, <2>1, <2>2
<1> QED BY <1>5, <1>6, <1>7

-----------------------------------------------------------------------------
(* Escapes, reading and events. *)

LEMMA EscapeConfirmedIs ==
  ASSUME NEW m, Fits(m)
  PROVE  /\ Alike(m, EscapeConfirmed(m))
         /\ EscapeConfirmed(m).transport = m.transport
         /\ EscapeConfirmed(m).state = "CommandMode"
         /\ EscapeConfirmed(m).guard = NoGuard /\ EscapeConfirmed(m).escape = 0
<1> DEFINE p == [m EXCEPT !.guard = NoGuard, !.escape = 0, !.state = "CommandMode"]
<1>1. m \in ModemState
  BY DEF Fits
<1>2. /\ p \in ModemState /\ p.rx = m.rx /\ p.transport = m.transport
      /\ p.state = "CommandMode" /\ p.guard = NoGuard /\ p.escape = 0
  BY <1>1, CountIs DEF ModemState
<1>3. EscapeConfirmed(m) = SendResult(p, "OK")
  BY DEF EscapeConfirmed
<1> HIDE DEF p
<1>4. Alike(m, m)
  BY DEF Alike
<1>5. Alike(m, p)
  BY <1>2, <1>4, QueueAlike
<1>6. Kept(p, SendResult(p, "OK"))
  BY <1>5, SendResultIs DEF Alike, Results
<1> QED BY <1>2, <1>3, <1>5, <1>6 DEF Kept, Alike

LEMMA PollEscapeGuardIs ==
  ASSUME NEW m, Fits(m)
  PROVE  /\ Alike(m, PollEscapeGuard(m))
         /\ PollEscapeGuard(m).transport = m.transport
         /\ EscapeDue(m) => /\ PollEscapeGuard(m).state = "CommandMode"
                            /\ PollEscapeGuard(m).guard = NoGuard
                            /\ PollEscapeGuard(m).escape = 0
         /\ ~EscapeDue(m) => /\ PollEscapeGuard(m).state = m.state
                             /\ PollEscapeGuard(m).escape = m.escape
                             /\ PollEscapeGuard(m).guard = NoGuard <=> m.guard = NoGuard
<1>0. Alike(m, m) /\ m \in ModemState /\ m.guard \in Nat \cup {NoGuard}
  BY DEF Alike, Fits, ModemState
<1>1. CASE m.guard = NoGuard
  <2>1. PollEscapeGuard(m) = m /\ ~EscapeDue(m)
    BY <1>1 DEF PollEscapeGuard, EscapeDue
  <2> QED BY <1>0, <2>1
<1>2. CASE EscapeDue(m)
  <2>1. PollEscapeGuard(m) = EscapeConfirmed(m)
    BY <1>2 DEF PollEscapeGuard, EscapeDue
  <2> QED BY <1>2, <2>1, EscapeConfirmedIs
<1>3. CASE m.guard # NoGuard /\ ~EscapeDue(m)
  <2> DEFINE n == m.guard + 1
             p == [m EXCEPT !.guard = n]
  <2>1. PollEscapeGuard(m) = p
    BY <1>3 DEF PollEscapeGuard
  <2>2. n \in Nat
    BY <1>0, <1>3
  <2> HIDE DEF n
  <2>3. n # NoGuard
    BY <2>2 DEF NoGuard
  <2>4. /\ p \in ModemState /\ p.rx = m.rx /\ p.transport = m.transport
        /\ p.state = m.state /\ p.guard = n /\ p.escape = m.escape
    BY <1>0, <2>2 DEF ModemState
  <2> HIDE DEF p
  <2>5. Alike(m, p)
    BY <1>0, <2>4, QueueAlike
  <2> QED BY <1>3, <2>1, <2>3, <2>4, <2>5
<1> QED BY <1>1, <1>2, <1>3

LEMMA HeadAndTail ==
  ASSUME NEW T, NEW q \in Seq(T), q # <<>>
  PROVE  <<Head(q)>> \o Tail(q) = q
<1> DEFINE h == Head(q)  t == Tail(q)  one == <<h>>  s == one \o t
<1>1. /\ Len(q) \in Nat /\ Len(q) >= 1 /\ h = q[1] /\ h \in T /\ t \in Seq(T)
      /\ Len(t) = Len(q) - 1 /\ \A i \in 1..Len(t) : t[i] = q[i + 1]
  OBVIOUS
<1>2. one \in Seq(T) /\ Len(one) = 1 /\ one[1] = h
  BY <1>1
<1> HIDE DEF h, t, one
<1>3. /\ s \in Seq(T) /\ Len(s) = Len(one) + Len(t)
      /\ \A i \in 1..(Len(one) + Len(t)) : s[i] = IF i <= Len(one) THEN one[i] ELSE t[i - Len(one)]
  <2>1. one \in Seq(T)
    BY <1>2
  <2>2. t \in Seq(T)
    BY <1>1
  <2> QED BY <2>1, <2>2, ConcatProperties
<1> HIDE DEF s
<1>4. Len(s) = Len(q)
  BY <1>1, <1>2, <1>3
<1>5. ASSUME NEW i \in 1..Len(q) PROVE s[i] = q[i]
  <2>1. CASE i = 1
    BY <1>1, <1>2, <1>3, <2>1
  <2>2. CASE i # 1
    <3>1. /\ i - 1 \in 1..Len(t) /\ (i - 1) + 1 = i /\ ~(i <= Len(one))
          /\ i \in 1..(Len(one) + Len(t))
      BY <1>1, <1>2, <2>2
    <3>2. s[i] = t[i - 1] /\ t[i - 1] = q[i]
      BY <1>1, <1>2, <1>3, <3>1
    <3> QED BY <3>2
  <2> QED BY <2>1, <2>2
<1>6. s = q
  BY <1>3, <1>4, <1>5, SeqEqual
<1> QED BY <1>6 DEF s, one, h, t

\* A read takes the first of the queue.
LEMMA HeadFits ==
  ASSUME NEW q \in Seq(Items), q # <<>>, \A i \in 1..Len(q) : FromPeer(q[i])
  PROVE  /\ Head(q) \in Items /\ FromPeer(Head(q)) /\ Tail(q) \in Seq(Items)
         /\ \A i \in 1..Len(Tail(q)) : FromPeer(Tail(q)[i])
         /\ \A c : BytesOf(c, q) = BytesOf(c, <<Head(q)>>) \o BytesOf(c, Tail(q))
<1> DEFINE h == Head(q)  t == Tail(q)
<1>1. /\ Len(q) \in Nat /\ Len(q) >= 1 /\ h = q[1] /\ h \in Items /\ t \in Seq(Items)
      /\ Len(t) = Len(q) - 1 /\ \A i \in 1..Len(t) : t[i] = q[i + 1]
  OBVIOUS
<1>2. FromPeer(h)
  BY <1>1
<1>3. \A i \in 1..Len(t) : i + 1 \in 1..Len(q)
  BY <1>1
<1> DEFINE one == <<h>>
<1>4. one \in Seq(Items) /\ one \o t = q
  BY <1>1, HeadAndTail
<1> HIDE DEF h, t, one
<1>5. \A c : BytesOf(c, q) = BytesOf(c, one) \o BytesOf(c, t)
  BY <1>1, <1>4, BytesOfBoth
<1>6. \A i \in 1..Len(t) : FromPeer(t[i])
  BY <1>1, <1>3
<1> QED BY <1>1, <1>2, <1>5, <1>6 DEF h, t, one

LEMMA AfterReadIs ==
  ASSUME NEW m, Fits(m)
  PROVE  LET o == ReadOffers(m)
             p == AfterRead(m)
         IN /\ Fits(p) /\ p.transport = m.transport
            /\ o = <<>> => \A c \in Conns : BytesOf(c, p.rx) = BytesOf(c, m.rx)
            /\ o # <<>> =>
                 /\ Head(o) \in Items /\ FromPeer(Head(o))
                 /\ \A c \in Conns :
                      BytesOf(c, m.rx) = BytesOf(c, <<Head(o)>>) \o BytesOf(c, p.rx)
            /\ EscapeDue(m) => p.state = "CommandMode" /\ p.guard = NoGuard /\ p.escape = 0
            /\ ~EscapeDue(m) => /\ p.state = m.state /\ p.escape = m.escape
                                /\ p.guard = NoGuard <=> m.guard = NoGuard
<1> DEFINE q == PollEscapeGuard(m)
           o == ReadOffers(m)
           rest == IF q.rx = <<>> THEN q.rx ELSE Tail(q.rx)
           more == rest # <<>>
           p == [q EXCEPT !.rx = rest, !.irq = more]
           r == AfterRead(m)
<1>1. /\ Alike(m, q) /\ q.transport = m.transport
      /\ EscapeDue(m) => q.state = "CommandMode" /\ q.guard = NoGuard /\ q.escape = 0
      /\ ~EscapeDue(m) => /\ q.state = m.state /\ q.escape = m.escape
                          /\ q.guard = NoGuard <=> m.guard = NoGuard
  BY PollEscapeGuardIs
<1>2. o = q.rx
  BY DEF ReadOffers
<1>3. r = p
  BY DEF AfterRead
<1> SUFFICES /\ Fits(r) /\ r.transport = m.transport
             /\ o = <<>> => \A c \in Conns : BytesOf(c, r.rx) = BytesOf(c, m.rx)
             /\ o # <<>> =>
                  /\ Head(o) \in Items /\ FromPeer(Head(o))
                  /\ \A c \in Conns :
                       BytesOf(c, m.rx) = BytesOf(c, <<Head(o)>>) \o BytesOf(c, r.rx)
             /\ EscapeDue(m) => r.state = "CommandMode" /\ r.guard = NoGuard /\ r.escape = 0
             /\ ~EscapeDue(m) => /\ r.state = m.state /\ r.escape = m.escape
                                 /\ r.guard = NoGuard <=> m.guard = NoGuard
  OBVIOUS
<1>4. /\ q \in ModemState /\ q.rx \in Seq(Items) /\ \A i \in 1..Len(q.rx) : FromPeer(q.rx[i])
      /\ \A c \in Conns : BytesOf(c, q.rx) = BytesOf(c, m.rx)
  BY <1>1 DEF Alike, Fits, ModemState
<1> HIDE DEF q, o, r
<1>5. rest \in Seq(Items) /\ \A i \in 1..Len(rest) : FromPeer(rest[i])
  <2>1. CASE q.rx = <<>>
    BY <1>4, <2>1
  <2>2. CASE q.rx # <<>>
    BY <1>4, <2>2, HeadFits
  <2> QED BY <2>1, <2>2
<1>6. /\ q.rx = <<>> => rest = q.rx
      /\ q.rx # <<>> => rest = Tail(q.rx)
      /\ more \in BOOLEAN
  OBVIOUS
<1> HIDE DEF rest, more
<1>7. /\ p \in ModemState /\ p.rx = rest /\ p.transport = q.transport /\ p.state = q.state
      /\ p.guard = q.guard /\ p.escape = q.escape
  BY <1>4, <1>5, <1>6 DEF ModemState
<1> HIDE DEF p
<1>8. Fits(r) /\ r.transport = m.transport
  BY <1>1, <1>3, <1>5, <1>7 DEF Fits
<1>9. o = <<>> => \A c \in Conns : BytesOf(c, r.rx) = BytesOf(c, m.rx)
  BY <1>2, <1>3, <1>4, <1>6, <1>7
<1>10. o # <<>> =>
         /\ Head(o) \in Items /\ FromPeer(Head(o))
         /\ \A c \in Conns : BytesOf(c, m.rx) = BytesOf(c, <<Head(o)>>) \o BytesOf(c, r.rx)
  <2> SUFFICES ASSUME o # <<>>
               PROVE  /\ Head(o) \in Items /\ FromPeer(Head(o))
                      /\ \A c \in Conns :
                           BytesOf(c, m.rx) = BytesOf(c, <<Head(o)>>) \o BytesOf(c, r.rx)
    OBVIOUS
  <2>1. /\ Head(o) \in Items /\ FromPeer(Head(o))
        /\ \A c : BytesOf(c, o) = BytesOf(c, <<Head(o)>>) \o BytesOf(c, Tail(o))
    BY <1>2, <1>4, HeadFits
  <2>2. r.rx = Tail(o)
    BY <1>2, <1>3, <1>6, <1>7
  <2> QED BY <1>2, <1>4, <2>1, <2>2
<1>11. /\ EscapeDue(m) => r.state = "CommandMode" /\ r.guard = NoGuard /\ r.escape = 0
       /\ ~EscapeDue(m) => /\ r.state = m.state /\ r.escape = m.escape
                           /\ r.guard = NoGuard <=> m.guard = NoGuard
  BY <1>1, <1>3, <1>7
<1> QED BY <1>8, <1>9, <1>10, <1>11

\* Polling adds what has come in.
LEMMA DrainedIs ==
  ASSUME NEW m, Fits(m), NEW d \in Conns, NEW bytes \in Seq(1..MaxData)
  PROVE  LET in == [i \in 1..Len(bytes) |-> Byte(d, bytes[i])]
             p == Drained(m, in)
         IN /\ Fits(p)
            /\ \A c \in Conns :
                 BytesOf(c, p.rx) = BytesOf(c, m.rx) \o (IF c = d THEN bytes ELSE <<>>)
            /\ p.state = m.state /\ p.guard = m.guard /\ p.escape = m.escape
            /\ p.transport = m.transport
<1> DEFINE in == [i \in 1..Len(bytes) |-> Byte(d, bytes[i])]
           rx == m.rx \o in
           irq == m.irq \/ rx # <<>>
           p == [m EXCEPT !.rx = rx, !.irq = irq]
           r == Drained(m, in)
<1>1. r = p /\ irq \in BOOLEAN
  BY DEF Drained
<1>2. m \in ModemState /\ m.rx \in Seq(Items) /\ \A i \in 1..Len(m.rx) : FromPeer(m.rx[i])
  BY DEF Fits, ModemState
<1>3. /\ in \in Seq(Items) /\ \A i \in 1..Len(in) : FromPeer(in[i])
      /\ \A c \in Conns : BytesOf(c, in) = IF c = d THEN bytes ELSE <<>>
  BY BytesOfIncoming, ZenonT(60)
<1> SUFFICES /\ Fits(r)
             /\ \A c \in Conns :
                  BytesOf(c, r.rx) = BytesOf(c, m.rx) \o (IF c = d THEN bytes ELSE <<>>)
             /\ r.state = m.state /\ r.guard = m.guard /\ r.escape = m.escape
             /\ r.transport = m.transport
  OBVIOUS
<1> HIDE DEF in, r
<1>4. rx \in Seq(Items) /\ \A i \in 1..Len(rx) : FromPeer(rx[i])
  BY <1>2, <1>3, JoinFits
<1>5. \A c \in Conns : BytesOf(c, rx) = BytesOf(c, m.rx) \o BytesOf(c, in)
  BY <1>2, <1>3, BytesOfBoth
<1> HIDE DEF rx, irq
<1>6. /\ p \in ModemState /\ p.rx = rx /\ p.state = m.state /\ p.guard = m.guard
      /\ p.escape = m.escape /\ p.transport = m.transport
  BY <1>1, <1>2, <1>4 DEF ModemState
<1> HIDE DEF p
<1> QED BY <1>1, <1>3, <1>4, <1>5, <1>6 DEF Fits

\* An event tells of a connection made, refused or lost.
LEMMA OnEventIs ==
  ASSUME NEW m, Fits(m), NEW event
  PROVE  LET p == OnEvent(m, event)
         IN /\ Alike(m, p) /\ p.transport \in {m.transport, NoConn}
            /\ event = "connected" => p.state = "Connected" /\ p.transport = m.transport
            /\ event = "connectFailed" => p.state = "CommandMode" /\ p.transport = NoConn
            /\ event = "remoteDisconnected" =>
                 /\ p.state = "CommandMode" /\ p.transport = NoConn
                 /\ p.guard = NoGuard /\ p.escape = 0
            /\ event \in {"connected", "connectFailed"} =>
                 p.guard = m.guard /\ p.escape = m.escape
            /\ event \notin {"connected", "connectFailed", "remoteDisconnected"} => p = m
<1> DEFINE p == OnEvent(m, event)
<1> SUFFICES /\ Alike(m, p) /\ p.transport \in {m.transport, NoConn}
             /\ event = "connected" => p.state = "Connected" /\ p.transport = m.transport
             /\ event = "connectFailed" => p.state = "CommandMode" /\ p.transport = NoConn
             /\ event = "remoteDisconnected" =>
                  /\ p.state = "CommandMode" /\ p.transport = NoConn
                  /\ p.guard = NoGuard /\ p.escape = 0
             /\ event \in {"connected", "connectFailed"} =>
                  p.guard = m.guard /\ p.escape = m.escape
             /\ event \notin {"connected", "connectFailed", "remoteDisconnected"} => p = m
  OBVIOUS
<1>0. Alike(m, m) /\ m \in ModemState
  BY DEF Alike, Fits
<1> HIDE DEF p
<1>1. CASE event = "connected"
  <2> DEFINE yes == TRUE
             r == [m EXCEPT !.state = "Connected", !.dcd = yes]
  <2>1. p = SendResult(r, "CONNECT") /\ yes \in BOOLEAN
    BY <1>1 DEF p, OnEvent
  <2> HIDE DEF yes
  <2>2. /\ r \in ModemState /\ r.rx = m.rx /\ r.transport = m.transport
        /\ r.state = "Connected" /\ r.guard = m.guard /\ r.escape = m.escape
    BY <1>0, <2>1 DEF ModemState
  <2> HIDE DEF r
  <2>3. Alike(m, r)
    BY <1>0, <2>2, QueueAlike
  <2>4. Kept(r, SendResult(r, "CONNECT"))
    BY <2>3, SendResultIs DEF Alike, Results
  <2> QED BY <1>1, <2>1, <2>2, <2>3, <2>4 DEF Kept, Alike
<1>2. CASE event = "connectFailed"
  <2> DEFINE r == [m EXCEPT !.state = "CommandMode", !.transport = NoConn]
  <2>1. p = SendResult(r, "NO CARRIER")
    BY <1>2 DEF p, OnEvent
  <2>2. /\ r \in ModemState /\ r.rx = m.rx /\ r.transport = NoConn
        /\ r.state = "CommandMode" /\ r.guard = m.guard /\ r.escape = m.escape
    BY <1>0 DEF ModemState
  <2> HIDE DEF r
  <2>3. Alike(m, r)
    BY <1>0, <2>2, QueueAlike
  <2>4. Kept(r, SendResult(r, "NO CARRIER"))
    BY <2>3, SendResultIs DEF Alike, Results
  <2> QED BY <1>2, <2>1, <2>2, <2>3, <2>4 DEF Kept, Alike
<1>3. CASE event = "remoteDisconnected"
  <2> DEFINE s == SendResult(m, "NO CARRIER")
             h == OnHook(s)
             r == [h EXCEPT !.guard = NoGuard]
  <2>1. p = r
    BY <1>3 DEF p, OnEvent
  <2>2. Kept(m, s)
    BY SendResultIs DEF Results
  <2> HIDE DEF s
  <2>3. /\ Alike(m, h) /\ h.transport = NoConn /\ h.state = "CommandMode" /\ h.escape = 0
    BY <2>2, OnHookIs DEF Kept
  <2>4. h \in ModemState
    BY <2>3 DEF Alike, Fits
  <2> HIDE DEF h
  <2>5. /\ r \in ModemState /\ r.rx = h.rx /\ r.transport = h.transport
        /\ r.state = h.state /\ r.escape = h.escape /\ r.guard = NoGuard
    BY <2>4 DEF ModemState
  <2> HIDE DEF r
  <2>6. Alike(m, r)
    BY <2>3, <2>5, QueueAlike
  <2> QED BY <1>3, <2>1, <2>3, <2>5, <2>6
<1>4. CASE event \notin {"connected", "connectFailed", "remoteDisconnected"}
  <2>1. p = m
    BY <1>4 DEF p, OnEvent
  <2> QED BY <1>0, <1>4, <2>1
<1> QED BY <1>1, <1>2, <1>3, <1>4

\* A plus that is held back, and one that is not.
LEMMA PlusesIs ==
  ASSUME NEW m, Fits(m)
  PROVE  /\ Fits(HoldsPlus(m)) /\ HoldsPlus(m).rx = m.rx /\ HoldsPlus(m).state = m.state
         /\ HoldsPlus(m).transport = m.transport /\ HoldsPlus(m).escape = (m.escape + 1) % 256
         /\ HoldsPlus(m).guard = IF (m.escape + 1) % 256 >= 3 /\ m.guard = NoGuard
                                THEN 0 ELSE m.guard
         /\ Fits(Forwards(m)) /\ Forwards(m).rx = m.rx /\ Forwards(m).state = m.state
         /\ Forwards(m).transport = m.transport /\ Forwards(m).escape = 0
         /\ Forwards(m).guard = NoGuard
<1> DEFINE e == (m.escape + 1) % 256
           g == IF e >= 3 /\ m.guard = NoGuard THEN 0 ELSE m.guard
           p == [m EXCEPT !.escape = e, !.guard = g]
           q == [m EXCEPT !.escape = 0, !.guard = NoGuard]
<1>1. m \in ModemState /\ m.escape \in EscapeCount /\ m.guard \in Nat \cup {NoGuard}
  BY DEF Fits, ModemState
<1>2. e \in EscapeCount
  BY <1>1 DEF EscapeCount
<1>3. g \in Nat \cup {NoGuard}
  BY <1>1
<1>4. HoldsPlus(m) = p /\ Forwards(m) = q
  BY DEF HoldsPlus, Forwards
<1> SUFFICES /\ Fits(p) /\ p.rx = m.rx /\ p.state = m.state
             /\ p.transport = m.transport /\ p.escape = e /\ p.guard = g
             /\ Fits(q) /\ q.rx = m.rx /\ q.state = m.state
             /\ q.transport = m.transport /\ q.escape = 0 /\ q.guard = NoGuard
  BY <1>4
<1> HIDE DEF e, g
<1>5. /\ p \in ModemState /\ p.rx = m.rx /\ p.state = m.state
      /\ p.transport = m.transport /\ p.escape = e /\ p.guard = g
  BY <1>1, <1>2, <1>3 DEF ModemState
<1>6. /\ q \in ModemState /\ q.rx = m.rx /\ q.state = m.state
      /\ q.transport = m.transport /\ q.escape = 0 /\ q.guard = NoGuard
  BY <1>1, CountIs DEF ModemState
<1> HIDE DEF p, q
<1> QED BY <1>5, <1>6 DEF Fits

LEMMA TakeIrqOfIs ==
  ASSUME NEW m, Fits(m)
  PROVE  Kept(m, TakeIrqOf(m))
<1> DEFINE no == FALSE
           p == [m EXCEPT !.irq = no]
<1>1. m \in ModemState /\ Alike(m, m) /\ no \in BOOLEAN
  BY DEF Fits, Alike
<1>2. TakeIrqOf(m) = p
  BY DEF TakeIrqOf
<1> HIDE DEF no
<1>3. /\ p \in ModemState /\ p.rx = m.rx /\ p.state = m.state /\ p.guard = m.guard
      /\ p.escape = m.escape /\ p.transport = m.transport
  BY <1>1 DEF ModemState
<1> HIDE DEF p
<1> QED BY <1>1, <1>2, <1>3, QueueAlike DEF Kept

-----------------------------------------------------------------------------
(* The transport. *)

\* A connection not dialled has no past, its reader comes with the connection
\* and holds bytes only while it waits for the lock.
ConnFits(k) ==
  /\ k \in ConnState(Written)
  /\ k.bridge = "unused" => k = Unused
  /\ k.reader # "extending" => k.chunk = <<>>
  /\ k.bridge = "connecting" => k.reader = "none"

\* The peer's bytes are where they were.
Quiet(k, n) ==
  /\ n.incoming = k.incoming /\ n.chunk = k.chunk /\ n.network = k.network
  /\ n.sent = k.sent

LEMMA FlagsAre == TRUE \in BOOLEAN /\ FALSE \in BOOLEAN
OBVIOUS

LEMMA UnusedFits == ConnFits(Unused)
<1> DEFINE no == FALSE  none == <<>>
<1>1. no \in BOOLEAN /\ none \in Seq(1..MaxData) /\ none \in Seq(Written) /\ 0 \in 0..MaxData
  BY TransportAssumption
<1>2. Unused =
  [bridge |-> "unused", reader |-> "none", done |-> no, connected |-> no,
   disconnected |-> no, connectDelivered |-> no, clock |-> "off",
   incoming |-> none, chunk |-> none, network |-> none,
   outgoing |-> none, received |-> none, sent |-> 0, peerOpen |-> no, shut |-> no]
  BY DEF Unused
<1> HIDE DEF no, none
<1>3. Unused \in ConnState(Written)
  BY <1>1, <1>2 DEF ConnState
<1>4. Unused.chunk = none /\ Unused.bridge = "unused"
  BY <1>2
<1> QED BY <1>3, <1>4 DEF ConnFits, none

LEMMA DialledFits ==
  /\ ConnFits(Dialled) /\ Dialled.bridge = "connecting" /\ Dialled.sent = 0
  /\ Dialled.incoming = <<>> /\ Dialled.chunk = <<>> /\ Dialled.network = <<>>
<1> DEFINE b == "connecting"
           k == [Unused EXCEPT !.bridge = b]
<1>1. /\ Unused \in ConnState(Written) /\ Unused.chunk = <<>> /\ Unused.reader = "none"
      /\ Unused.sent = 0 /\ Unused.incoming = <<>> /\ Unused.network = <<>>
  <2>1. Unused \in ConnState(Written)
    BY UnusedFits DEF ConnFits
  <2>2. /\ Unused.chunk = <<>> /\ Unused.reader = "none"
        /\ Unused.sent = 0 /\ Unused.incoming = <<>> /\ Unused.network = <<>>
    BY DEF Unused
  <2> QED BY <2>1, <2>2
<1>2. Dialled = k /\ b \in {"unused", "connecting", "writing", "ended"} /\ b = "connecting"
  BY DEF Dialled
<1> HIDE DEF b
<1>3. /\ k \in ConnState(Written) /\ k.bridge = b /\ k.chunk = Unused.chunk /\ k.reader = Unused.reader
      /\ k.sent = Unused.sent /\ k.incoming = Unused.incoming
      /\ k.network = Unused.network
  BY <1>1, <1>2, ZenonT(60) DEF ConnState
<1> HIDE DEF k
<1> QED BY <1>1, <1>2, <1>3 DEF ConnFits

\* A step that leaves bytes, reader and the thread's progress alone.
LEMMA QuietFits ==
  ASSUME NEW k, NEW n, ConnFits(k), k.bridge # "unused", n \in ConnState(Written), Quiet(k, n),
         n.reader = k.reader, n.bridge = k.bridge \/ n.bridge = "ended"
  PROVE  ConnFits(n) /\ n.bridge # "unused"
BY DEF ConnFits, Quiet

LEMMA ConnectIs ==
  ASSUME NEW k, ConnFits(k), NEW n \in Connect(k)
  PROVE  ConnFits(n) /\ n.bridge # "unused" /\ Quiet(k, n)
<1> DEFINE yes == TRUE
           w == [k EXCEPT !.bridge = "writing", !.reader = "reading", !.done = yes,
                          !.connected = yes, !.peerOpen = yes]
           e == [k EXCEPT !.bridge = "ended", !.done = yes]
<1>1. k.bridge = "connecting" /\ (n = w \/ n = e) /\ yes \in BOOLEAN
  BY DEF Connect
<1>2. k \in ConnState(Written) /\ k.reader = "none" /\ k.chunk = <<>>
  BY <1>1 DEF ConnFits
<1> HIDE DEF yes
<1>3. w \in ConnState(Written) /\ Quiet(k, w) /\ w.bridge = "writing" /\ w.reader = "reading"
  BY <1>1, <1>2 DEF ConnState, Quiet
<1>4. e \in ConnState(Written) /\ Quiet(k, e) /\ e.bridge = "ended" /\ e.reader = k.reader
  BY <1>1, <1>2 DEF ConnState, Quiet
<1> HIDE DEF w, e
<1>5. ConnFits(w) /\ ConnFits(e)
  BY <1>2, <1>3, <1>4 DEF ConnFits, Quiet
<1> QED BY <1>1, <1>3, <1>4, <1>5

LEMMA ReadIs ==
  ASSUME NEW k, ConnFits(k), NEW n \in Read(k)
  PROVE  /\ ConnFits(n) /\ k.bridge # "unused" /\ n.bridge = k.bridge /\ n.sent = k.sent
         /\ n.incoming = k.incoming /\ k.chunk = <<>>
         /\ n.chunk = k.network /\ n.network = <<>>
<1> DEFINE none == <<>>  net == k.network
           w == [k EXCEPT !.reader = "extending", !.chunk = net, !.network = none]
<1>1. k.reader = "reading" /\ n = w
  BY DEF Read
<1>2. k \in ConnState(Written) /\ k.chunk = <<>> /\ k.bridge # "connecting"
  BY <1>1 DEF ConnFits
<1>3. none \in Seq(1..MaxData)
  OBVIOUS
<1>4. net \in Seq(1..MaxData) /\ net = k.network
  BY <1>2 DEF ConnState
<1>5. k.bridge # "unused"
  BY <1>1 DEF ConnFits, Unused
<1> HIDE DEF none, net
<1>6. /\ w \in ConnState(Written) /\ w.reader = "extending" /\ w.bridge = k.bridge
      /\ w.sent = k.sent /\ w.incoming = k.incoming /\ w.chunk = net /\ w.network = none
  BY <1>2, <1>3, <1>4 DEF ConnState
<1> HIDE DEF w
<1>7. ConnFits(w)
  BY <1>2, <1>5, <1>6 DEF ConnFits
<1> QED BY <1>1, <1>2, <1>4, <1>5, <1>6, <1>7 DEF none

LEMMA ExtendIs ==
  ASSUME NEW k, ConnFits(k), NEW n \in Extend(k)
  PROVE  /\ ConnFits(n) /\ k.bridge # "unused" /\ n.bridge = k.bridge /\ n.sent = k.sent
         /\ n.incoming = k.incoming \o k.chunk
         /\ n.chunk = <<>> /\ n.network = k.network
<1> DEFINE none == <<>>  in == k.incoming \o k.chunk
           w == [k EXCEPT !.reader = "reading", !.incoming = in, !.chunk = none]
<1>1. k.reader = "extending" /\ n = w
  BY DEF Extend
<1>2. k \in ConnState(Written) /\ k.bridge # "connecting"
  BY <1>1 DEF ConnFits
<1>3. none \in Seq(1..MaxData) /\ none = <<>>
  OBVIOUS
<1>4. k.incoming \in Seq(1..MaxData) /\ k.chunk \in Seq(1..MaxData)
  BY <1>2 DEF ConnState
<1>5. in \in Seq(1..MaxData) /\ in = k.incoming \o k.chunk
  BY <1>4
<1>6. k.bridge # "unused"
  BY <1>1 DEF ConnFits, Unused
<1> HIDE DEF none, in
<1>7. /\ w \in ConnState(Written) /\ w.reader = "reading" /\ w.bridge = k.bridge
      /\ w.sent = k.sent /\ w.incoming = in /\ w.chunk = none /\ w.network = k.network
  BY <1>2, <1>3, <1>5 DEF ConnState
<1> HIDE DEF w
<1>8. ConnFits(w)
  BY <1>2, <1>3, <1>6, <1>7 DEF ConnFits
<1> QED BY <1>1, <1>3, <1>5, <1>6, <1>7, <1>8

LEMMA ReadEndsIs ==
  ASSUME NEW k, ConnFits(k), NEW n \in ReadEnds(k)
  PROVE  ConnFits(n) /\ n.bridge # "unused" /\ Quiet(k, n)
<1> DEFINE yes == TRUE
           w == [k EXCEPT !.reader = "ended", !.disconnected = yes]
<1>1. k.reader = "reading" /\ n = w /\ yes \in BOOLEAN
  BY DEF ReadEnds
<1>2. k \in ConnState(Written) /\ k.bridge # "connecting" /\ k.bridge # "unused" /\ k.chunk = <<>>
  BY <1>1 DEF ConnFits, Unused
<1> HIDE DEF yes
<1>3. w \in ConnState(Written) /\ Quiet(k, w) /\ w.bridge = k.bridge /\ w.reader = "ended"
  BY <1>1, <1>2 DEF ConnState, Quiet
<1> HIDE DEF w
<1> QED BY <1>1, <1>2, <1>3 DEF ConnFits, Quiet

\* Characters are handed to the bridge thread, and from it to the peer.
LEMMA SendBytesIs ==
  ASSUME NEW k, ConnFits(k), k.bridge # "unused", NEW bytes \in Seq(Written)
  PROVE  LET n == SendBytes(k, bytes)
         IN ConnFits(n) /\ n.bridge # "unused" /\ Quiet(k, n)
<1> DEFINE n == SendBytes(k, bytes)
           out == k.outgoing \o bytes
           w == [k EXCEPT !.outgoing = out]
<1> SUFFICES ConnFits(n) /\ n.bridge # "unused" /\ Quiet(k, n)
  OBVIOUS
<1>1. k \in ConnState(Written)
  BY DEF ConnFits
<1>2. k.outgoing \in Seq(Written)
  BY <1>1 DEF ConnState
<1>3. out \in Seq(Written)
  BY <1>2
<1>4. n = IF k.bridge = "ended" THEN k ELSE w
  BY DEF SendBytes
<1> HIDE DEF out, n
<1>5. w \in ConnState(Written) /\ Quiet(k, w) /\ w.bridge = k.bridge /\ w.reader = k.reader
  BY <1>1, <1>3 DEF ConnState, Quiet
<1> HIDE DEF w
<1>6. ConnFits(w) /\ w.bridge # "unused"
  BY <1>5, QuietFits
<1> QED BY <1>4, <1>5, <1>6 DEF Quiet

LEMMA WriteIs ==
  ASSUME NEW k, ConnFits(k), NEW n \in Write(k)
  PROVE  ConnFits(n) /\ n.bridge # "unused" /\ Quiet(k, n)
<1> DEFINE tail == Tail(k.outgoing)  none == <<>>  yes == TRUE
           more == Append(k.received, Head(k.outgoing))
           a == [k EXCEPT !.outgoing = tail]
           b == [k EXCEPT !.outgoing = tail, !.received = more]
           c == [k EXCEPT !.outgoing = none, !.bridge = "ended", !.shut = yes]
<1>1. k.bridge = "writing" /\ k.outgoing # <<>> /\ k \in ConnState(Written)
  BY DEF Write, ConnFits
<1>2. k.outgoing \in Seq(Written) /\ k.received \in Seq(Written)
  BY <1>1 DEF ConnState
<1>3. /\ tail \in Seq(Written) /\ more \in Seq(Written) /\ none \in Seq(Written)
      /\ yes \in BOOLEAN
  BY <1>1, <1>2
<1>4. n \in {a, b, c}
  <2> DEFINE next == [k EXCEPT !.outgoing = tail]
  <2>1. /\ [next EXCEPT !.received = Append(@, Head(k.outgoing))] = b
        /\ [next EXCEPT !.bridge = "ended", !.shut = TRUE, !.outgoing = <<>>] = c
        /\ next = a
    BY <1>1 DEF ConnState
  <2> HIDE DEF a, b, c
  <2>2. n \in (IF k.peerOpen THEN {[next EXCEPT !.received = Append(@, Head(k.outgoing))]}
               ELSE {next, [next EXCEPT !.bridge = "ended", !.shut = TRUE, !.outgoing = <<>>]})
    BY <1>1 DEF Write
  <2> QED BY <2>1, <2>2
<1> HIDE DEF tail, none, more, yes
<1>5. a \in ConnState(Written) /\ Quiet(k, a) /\ a.bridge = k.bridge /\ a.reader = k.reader
  BY <1>1, <1>3 DEF ConnState, Quiet
<1>6. b \in ConnState(Written) /\ Quiet(k, b) /\ b.bridge = k.bridge /\ b.reader = k.reader
  BY <1>1, <1>3 DEF ConnState, Quiet
<1>7. c \in ConnState(Written) /\ Quiet(k, c) /\ c.bridge = "ended" /\ c.reader = k.reader
  BY <1>1, <1>3 DEF ConnState, Quiet
<1> HIDE DEF a, b, c
<1>8. k.bridge # "unused"
  BY <1>1
<1>9. ConnFits(a) /\ ConnFits(b) /\ ConnFits(c) /\ {a.bridge, b.bridge, c.bridge} \cap {"unused"} = {}
  BY <1>5, <1>6, <1>7, <1>8, QuietFits
<1> QED BY <1>4, <1>5, <1>6, <1>7, <1>9

LEMMA WriteEndsIs ==
  ASSUME NEW k, ConnFits(k), NEW dropped, NEW n \in WriteEnds(k, dropped)
  PROVE  ConnFits(n) /\ n.bridge # "unused" /\ Quiet(k, n)
<1> DEFINE yes == TRUE
           w == [k EXCEPT !.bridge = "ended", !.shut = yes]
<1>1. k.bridge = "writing" /\ n = w /\ yes \in BOOLEAN
  BY DEF WriteEnds
<1>2. k \in ConnState(Written)
  BY DEF ConnFits
<1> HIDE DEF yes
<1>3. w \in ConnState(Written) /\ Quiet(k, w) /\ w.bridge = "ended" /\ w.reader = k.reader
  BY <1>1, <1>2 DEF ConnState, Quiet
<1> HIDE DEF w
<1> QED BY <1>1, <1>3, QuietFits

\* One more byte from the peer, if there is one.
LEMMA PeerSendsIs ==
  ASSUME NEW k, ConnFits(k), k.sent < MaxData, NEW n \in PeerSends(k)
  PROVE  /\ ConnFits(n) /\ k.bridge # "unused" /\ n.bridge = k.bridge
         /\ n.sent = k.sent + 1 /\ n.incoming = k.incoming /\ n.chunk = k.chunk
         /\ n.network = Append(k.network, k.sent + 1)
<1> DEFINE sent == k.sent + 1  net == Append(k.network, sent)
           w == [k EXCEPT !.sent = sent, !.network = net]
<1>1. k.peerOpen /\ n = w
  BY DEF PeerSends
<1>2. k \in ConnState(Written) /\ k.bridge # "unused"
  BY <1>1 DEF ConnFits, Unused
<1>3. k.sent \in 0..MaxData /\ k.network \in Seq(1..MaxData)
  BY <1>2 DEF ConnState
<1>4. sent \in 0..MaxData /\ sent \in 1..MaxData
  BY <1>3, TransportAssumption
<1>5. net \in Seq(1..MaxData) /\ sent = k.sent + 1 /\ net = Append(k.network, k.sent + 1)
  BY <1>3, <1>4
<1> HIDE DEF sent, net
<1>6. /\ w \in ConnState(Written) /\ w.bridge = k.bridge /\ w.reader = k.reader
      /\ w.sent = sent /\ w.incoming = k.incoming /\ w.chunk = k.chunk /\ w.network = net
  BY <1>2, <1>4, <1>5 DEF ConnState
<1> HIDE DEF w
<1>7. ConnFits(w)
  BY <1>2, <1>6 DEF ConnFits
<1> QED BY <1>1, <1>2, <1>5, <1>6, <1>7

LEMMA PeerClosesIs ==
  ASSUME NEW k, ConnFits(k), NEW n \in PeerCloses(k)
  PROVE  ConnFits(n) /\ n.bridge # "unused" /\ Quiet(k, n)
<1> DEFINE no == FALSE
           w == [k EXCEPT !.peerOpen = no]
<1>1. k.peerOpen /\ n = w /\ no \in BOOLEAN
  BY DEF PeerCloses
<1>2. k \in ConnState(Written) /\ k.bridge # "unused"
  BY <1>1 DEF ConnFits, Unused
<1> HIDE DEF no
<1>3. w \in ConnState(Written) /\ Quiet(k, w) /\ w.bridge = k.bridge /\ w.reader = k.reader
  BY <1>1, <1>2 DEF ConnState, Quiet
<1> HIDE DEF w
<1> QED BY <1>1, <1>2, <1>3, QuietFits

LEMMA ClockIs ==
  ASSUME NEW k, ConnFits(k), k.bridge # "unused", NEW v \in {"off", "running", "elapsed"}
  PROVE  LET n == [k EXCEPT !.clock = v] IN ConnFits(n) /\ n.bridge # "unused" /\ Quiet(k, n)
<1> DEFINE n == [k EXCEPT !.clock = v]
<1>1. k \in ConnState(Written)
  BY DEF ConnFits
<1>2. n \in ConnState(Written) /\ Quiet(k, n) /\ n.bridge = k.bridge /\ n.reader = k.reader
  BY <1>1 DEF ConnState, Quiet
<1> HIDE DEF n
<1>3. ConnFits(n) /\ n.bridge # "unused" /\ Quiet(k, n)
  BY <1>2, QuietFits
<1> QED BY <1>3 DEF n

LEMMA ClockElapsesIs ==
  ASSUME NEW k, ConnFits(k), NEW n \in ClockElapses(k)
  PROVE  ConnFits(n) /\ n.bridge # "unused" /\ Quiet(k, n)
<1>1. k.clock = "running" /\ n = [k EXCEPT !.clock = "elapsed"]
  BY DEF ClockElapses
<1>2. k.bridge # "unused"
  BY <1>1 DEF ConnFits, Unused
<1> QED BY <1>1, <1>2, ClockIs

LEMMA GuardsAre ==
  ASSUME NEW k, ConnFits(k), k.bridge # "unused"
  PROVE  /\ ConnFits(StartGuard(k)) /\ StartGuard(k).bridge # "unused" /\ Quiet(k, StartGuard(k))
         /\ ConnFits(CancelGuard(k)) /\ CancelGuard(k).bridge # "unused"
         /\ Quiet(k, CancelGuard(k))
BY ClockIs DEF StartGuard, CancelGuard

LEMMA AfterEventIs ==
  ASSUME NEW k, ConnFits(k), k.bridge # "unused", NEW event
  PROVE  /\ ConnFits(AfterEvent(k, event)) /\ AfterEvent(k, event).bridge # "unused"
         /\ Quiet(k, AfterEvent(k, event))
<1> DEFINE yes == TRUE
           n == [k EXCEPT !.connectDelivered = yes]
<1>1. k \in ConnState(Written) /\ yes \in BOOLEAN
  BY DEF ConnFits
<1>2. AfterEvent(k, event) = n \/ AfterEvent(k, event) = k
  BY DEF AfterEvent
<1> HIDE DEF yes
<1>3. n \in ConnState(Written) /\ Quiet(k, n) /\ n.bridge = k.bridge /\ n.reader = k.reader
  BY <1>1 DEF ConnState, Quiet
<1> HIDE DEF n
<1>4. ConnFits(n) /\ n.bridge # "unused"
  BY <1>3, QuietFits
<1> QED BY <1>2, <1>3, <1>4 DEF Quiet

LEMMA AfterPollIs ==
  ASSUME NEW k, ConnFits(k), k.bridge # "unused"
  PROVE  LET n == AfterPoll(k)
         IN /\ ConnFits(n) /\ n.bridge # "unused" /\ n.sent = k.sent
            /\ n.incoming = <<>> /\ n.chunk = k.chunk /\ n.network = k.network
<1> DEFINE none == <<>>
           n == [k EXCEPT !.incoming = none]
           p == AfterPoll(k)
<1> SUFFICES /\ ConnFits(p) /\ p.bridge # "unused" /\ p.sent = k.sent
             /\ p.incoming = <<>> /\ p.chunk = k.chunk /\ p.network = k.network
  OBVIOUS
<1>1. k \in ConnState(Written) /\ none \in Seq(1..MaxData) /\ none = <<>> /\ p = n
  BY DEF ConnFits, AfterPoll
<1> HIDE DEF none, p
<1>2. /\ n \in ConnState(Written) /\ n.bridge = k.bridge /\ n.reader = k.reader
      /\ n.sent = k.sent /\ n.incoming = none /\ n.chunk = k.chunk /\ n.network = k.network
  BY <1>1 DEF ConnState
<1> HIDE DEF n
<1>3. ConnFits(n)
  BY <1>2 DEF ConnFits
<1> QED BY <1>1, <1>2, <1>3

-----------------------------------------------------------------------------
(* The state of the line. *)

LineInv ==
  /\ TypeOK
  /\ Fits(modem) /\ FromPeer(port.rbr)
  /\ \A c \in Conns : ConnFits(conns[c])
  /\ modem.transport # NoConn => conns[modem.transport].bridge # "unused"
  /\ access = "lsr" => ~port.dr
  /\ access = "msr" => program.todo # <<>>

\* A step that leaves the bytes of c where they were.
Unmoved(c) ==
  /\ Arrived(c)' = Arrived(c) /\ Quiet(conns[c], conns[c]')
  /\ modem'.transport = c => modem.transport = c

LEMMA ConnsAre == NoConn \notin Conns /\ IsFiniteSet(Conns) /\ Conns \subseteq Nat
BY ModemAssumption, FS_Interval DEF Conns, NoConn

LEMMA Appended ==
  ASSUME NEW T, NEW f \in [Conns -> Seq(T)], NEW x \in T, NEW d
  PROVE  [f EXCEPT ![d] = Append(@, x)] \in [Conns -> Seq(T)]
<1> DEFINE g == [f EXCEPT ![d] = Append(@, x)]
<1>1. \A c \in Conns : f[c] \in Seq(T) /\ Append(f[c], x) \in Seq(T)
  OBVIOUS
<1>2. ASSUME NEW c \in Conns PROVE g[c] \in Seq(T)
  <2>1. CASE c = d
    BY <1>1, <2>1
  <2>2. CASE c # d
    BY <1>1, <2>2
  <2> QED BY <2>1, <2>2
<1>3. g = [c \in Conns |-> g[c]]
  OBVIOUS
<1> HIDE DEF g
<1>4. g \in [Conns -> Seq(T)]
  BY <1>2, <1>3
<1> QED BY <1>4 DEF g

\* The connection a dial takes has not been used.
LEMMA NextConnIs ==
  /\ NextConn \in Conns \cup {NoConn}
  /\ NextConn \in Conns => conns[NextConn].bridge = "unused"
<1>1. CASE Fresh = {}
  <2>1. NextConn = NoConn
    BY <1>1 DEF NextConn
  <2> QED BY <2>1, ConnsAre
<1>2. CASE Fresh # {}
  <2>1. Fresh \subseteq Nat /\ Fresh \subseteq Conns
    BY ConnsAre DEF Fresh
  <2>2. \E c \in Fresh : \A d \in Fresh : c <= d
    BY <1>2, <2>1, Least
  <2>3. NextConn \in Fresh
    BY <1>2, <2>2 DEF NextConn
  <2> QED BY <2>3 DEF Fresh
<1> QED BY <1>1, <1>2

\* What becomes of the connections when the modem becomes p.
LEMMA BecomesIs ==
  ASSUME LineInv, NEW p, Fits(p), NEW k, Becomes(p, k),
         modem.transport # NoConn => ConnFits(k) /\ k.bridge # "unused"
  PROVE  /\ modem' = p
         /\ conns' \in [Conns -> ConnState(Written)]
         /\ \A c \in Conns : ConnFits(conns'[c])
         /\ p.transport # NoConn => conns'[p.transport].bridge # "unused"
         /\ \A c \in Conns :
              /\ c = modem.transport => conns'[c] = k
              /\ c # modem.transport /\ c = p.transport => conns'[c] = Dialled
              /\ c # modem.transport /\ c # p.transport => conns'[c] = conns[c]
<1>1. /\ modem' = p
      /\ conns' = [c \in Conns |-> IF c = modem.transport THEN k
                                  ELSE IF c = p.transport THEN Dialled ELSE conns[c]]
  BY DEF Becomes
<1>2. p.transport \in Conns \cup {NoConn}
  BY DEF Fits, ModemState
<1>3. ASSUME NEW c \in Conns
      PROVE  /\ c = modem.transport => conns'[c] = k
             /\ c # modem.transport /\ c = p.transport => conns'[c] = Dialled
             /\ c # modem.transport /\ c # p.transport => conns'[c] = conns[c]
  BY <1>1
<1>4. conns' = [c \in Conns |-> conns'[c]]
  BY <1>1
<1> HIDE <1>1
<1>5. ASSUME NEW c \in Conns
      PROVE  ConnFits(conns'[c]) /\ (c = p.transport => conns'[c].bridge # "unused")
  <2>1. CASE c = modem.transport
    <3>1. conns'[c] = k /\ modem.transport # NoConn
      BY <1>3, <2>1, ConnsAre
    <3> QED BY <3>1
  <2>2. CASE c # modem.transport /\ c = p.transport
    <3>1. conns'[c] = Dialled
      BY <1>3, <2>2
    <3>2. ConnFits(Dialled) /\ Dialled.bridge # "unused"
      BY DialledFits
    <3> QED BY <3>1, <3>2
  <2>3. CASE c # modem.transport /\ c # p.transport
    <3>1. conns'[c] = conns[c]
      BY <1>3, <2>3
    <3> QED BY <2>3, <3>1 DEF LineInv
  <2> QED BY <2>1, <2>2, <2>3
<1>6. \A c \in Conns : conns'[c] \in ConnState(Written)
  BY <1>5 DEF ConnFits
<1>7. conns' \in [Conns -> ConnState(Written)]
  BY <1>4, <1>6
<1>8. p.transport # NoConn => conns'[p.transport].bridge # "unused"
  BY <1>2, <1>5
<1> QED BY <1>1, <1>3, <1>5, <1>7, <1>8

\* A connection the modem holds fits.
LEMMA TransportIs ==
  ASSUME LineInv
  PROVE  modem.transport # NoConn =>
           /\ modem.transport \in Conns /\ Transport = conns[modem.transport]
           /\ ConnFits(Transport) /\ Transport.bridge # "unused"
<1>1. modem.transport \in Conns \cup {NoConn}
  BY DEF LineInv, TypeOK, ModemState
<1> QED BY <1>1 DEF LineInv, Transport

\* On the same connection or off it the modem moves no byte in the transport.
LEMMA ConnsStay ==
  ASSUME LineInv, NEW p, Fits(p), NEW k, Becomes(p, k),
         modem.transport # NoConn => ConnFits(k) /\ k.bridge # "unused" /\ Quiet(Transport, k),
         p.transport \in {modem.transport, NoConn}
  PROVE  \A c \in Conns :
           Quiet(conns[c], conns[c]') /\ (modem'.transport = c => modem.transport = c)
<1> SUFFICES ASSUME NEW c \in Conns
             PROVE  Quiet(conns[c], conns[c]') /\ (modem'.transport = c => modem.transport = c)
  OBVIOUS
<1>1. modem' = p
  BY BecomesIs
<1>2. modem'.transport = c => modem.transport = c
  BY <1>1, ConnsAre
<1>3. CASE c = modem.transport
  <2>1. conns[c]' = k /\ Transport = conns[c] /\ modem.transport # NoConn
    BY <1>3, BecomesIs, TransportIs, ConnsAre
  <2> QED BY <1>2, <2>1
<1>4. CASE c # modem.transport
  <2>1. c # p.transport
    BY <1>4, ConnsAre
  <2>2. conns[c]' = conns[c]
    BY <1>4, <2>1, BecomesIs
  <2> QED BY <1>2, <2>2 DEF Quiet
<1> QED BY <1>3, <1>4

\* The bytes that have come to the modem and the program stay if the modem
\* has them still.
LEMMA ArrivedStays ==
  ASSUME NEW c \in Conns, BytesOf(c, modem'.rx) = BytesOf(c, modem.rx), UNCHANGED <<port, heard>>
  PROVE  Arrived(c)' = Arrived(c)
BY DEF Arrived

\* Sequences of bytes are joined in any order.
LEMMA Joins ==
  \A a, b, c \in Seq(Nat) : (a \o b) \o c = a \o (b \o c) /\ a \o b \in Seq(Nat)
<1>1. ASSUME NEW a \in Seq(Nat), NEW b \in Seq(Nat), NEW c \in Seq(Nat)
      PROVE  (a \o b) \o c = a \o (b \o c) /\ a \o b \in Seq(Nat)
  BY <1>1, ConcatAssociative
<1> QED BY <1>1

\* The byte a program reads has been the first of those that arrived.
LEMMA ArrivedTyped ==
  ASSUME LineInv, NEW c \in Conns
  PROVE  /\ heard[c] \in Seq(Nat) /\ BytesOf(c, modem.rx) \in Seq(Nat)
         /\ BytesOf(c, IF port.dr THEN <<port.rbr>> ELSE <<>>) \in Seq(Nat)
         /\ Arrived(c) \in Seq(Nat)
<1> DEFINE latch == IF port.dr THEN <<port.rbr>> ELSE <<>>
<1>1. port.rbr \in Items /\ modem.rx \in Seq(Items) /\ heard[c] \in Seq(1..MaxData)
  BY DEF LineInv, TypeOK, Fits, ModemState
<1>2. latch \in Seq(Items)
  <2>1. \A T : <<>> \in Seq(T)
    OBVIOUS
  <2>2. \A T : \A x \in T : <<x>> \in Seq(T)
    OBVIOUS
  <2> QED BY <1>1, <2>1, <2>2
<1> HIDE DEF latch
<1>3. BytesOf(c, modem.rx) \in Seq(Nat) /\ BytesOf(c, latch) \in Seq(Nat)
  BY <1>1, <1>2, BytesFound
<1>4. heard[c] \in Seq(Nat)
  <2>1. \A i \in 1..Len(heard[c]) : heard[c][i] \in Nat
    BY <1>1, TransportAssumption
  <2> QED BY <1>1, <2>1
<1>5. Arrived(c) = heard[c] \o BytesOf(c, latch) \o BytesOf(c, modem.rx)
  BY DEF Arrived, latch
<1>6. Arrived(c) \in Seq(Nat)
  BY <1>3, <1>4, <1>5
<1> QED BY <1>3, <1>4, <1>6 DEF latch

LEMMA Appends ==
  \A a \in Seq(Nat), n \in Nat : Append(a, n) = a \o <<n>> /\ Append(a, n) \in Seq(Nat)
<1>1. ASSUME NEW a \in Seq(Nat), NEW n \in Nat
      PROVE  Append(a, n) = a \o <<n>> /\ Append(a, n) \in Seq(Nat)
  BY AppendIsConcat
<1> QED BY <1>1

\* A byte that is latched, or read, is where it was in the order.
LEMMA Latches ==
  ASSUME LineInv, ~port.dr, port'.dr = TRUE, port'.rbr \in Items, UNCHANGED heard,
         NEW c \in Conns, modem'.rx \in Seq(Items),
         BytesOf(c, modem.rx) = BytesOf(c, <<port'.rbr>>) \o BytesOf(c, modem'.rx)
  PROVE  Arrived(c)' = Arrived(c)
<1> DEFINE none == <<>>  h == heard[c]  x == BytesOf(c, <<port'.rbr>>)  q == BytesOf(c, modem'.rx)
<1>1. h \in Seq(Nat) /\ h \o none = h /\ BytesOf(c, none) = none
  BY ArrivedTyped, BytesFound
<1>2. x \in Seq(Nat) /\ q \in Seq(Nat)
  <2>1. <<port'.rbr>> \in Seq(Items)
    OBVIOUS
  <2> QED BY <2>1, BytesFound
<1>3. BytesOf(c, modem.rx) = x \o q
  OBVIOUS
<1>4. Arrived(c) = h \o BytesOf(c, none) \o BytesOf(c, modem.rx)
  BY DEF Arrived
<1>5. Arrived(c)' = h \o x \o q
  BY DEF Arrived
<1> HIDE DEF none, h, x, q
<1>6. h \o (x \o q) = (h \o x) \o q
  <2>1. h \in Seq(Nat)
    BY <1>1
  <2>2. x \in Seq(Nat)
    BY <1>2
  <2>3. q \in Seq(Nat)
    BY <1>2
  <2> QED BY <2>1, <2>2, <2>3, Joins, ZenonT(60)
<1> QED BY <1>1, <1>3, <1>4, <1>5, <1>6

\* Looking at the line status latches a byte, or none.
LEMMA DeviceReadIs ==
  ASSUME LineInv, ~port.dr, NEW m, Alike(modem, m), m.transport \in {modem.transport, NoConn},
         NEW k, modem.transport # NoConn =>
                  ConnFits(k) /\ k.bridge # "unused" /\ Quiet(Transport, k),
         Completes("lsr", m, k), access' = "none"
  PROVE  LineInv' /\ \A c \in Conns : Unmoved(c)
<1> DEFINE o == ReadOffers(m)
           r == AfterRead(m)
           j == IF EscapeDue(m) THEN CancelGuard(k) ELSE k
<1>1. /\ Becomes(r, j) /\ Confirms(EscapeDue(m))
      /\ port' = IF o = <<>> THEN port ELSE [port EXCEPT !.dr = TRUE, !.rbr = Head(o)]
      /\ program' = [program EXCEPT !.handler = @ /\ o # <<>>]
      /\ UNCHANGED heard
  BY DEF Completes, DeviceRead
<1>2. /\ Fits(r) /\ r.transport = m.transport
      /\ o = <<>> => \A c \in Conns : BytesOf(c, r.rx) = BytesOf(c, m.rx)
      /\ o # <<>> =>
           /\ Head(o) \in Items /\ FromPeer(Head(o))
           /\ \A c \in Conns : BytesOf(c, m.rx) = BytesOf(c, <<Head(o)>>) \o BytesOf(c, r.rx)
  BY AfterReadIs DEF Alike
<1>3. modem.transport # NoConn => ConnFits(j) /\ j.bridge # "unused" /\ Quiet(Transport, j)
  BY GuardsAre DEF Quiet
<1> HIDE DEF o, r, j
<1>4. r.transport \in {modem.transport, NoConn}
  BY <1>2
<1>5. /\ modem' = r /\ conns' \in [Conns -> ConnState(Written)]
      /\ \A c \in Conns : ConnFits(conns'[c])
      /\ r.transport # NoConn => conns'[r.transport].bridge # "unused"
  BY <1>1, <1>2, <1>3, BecomesIs
<1>6. /\ port \in [dr : BOOLEAN, rbr : Items, ier : BOOLEAN]
      /\ program \in [todo : Seq(Written \cup {MSR}), sends : 0..MaxSends, handler : BOOLEAN]
      /\ heard \in [Conns -> Seq(1..MaxData)]
      /\ typed \in [Conns -> Seq(Written \cup {"OK"})]
      /\ FromPeer(port.rbr)
  BY DEF LineInv, TypeOK
<1>7. typed' \in [Conns -> Seq(Written \cup {"OK"})]
  <2>1. CASE EscapeDue(m)
    <3>1. typed' = [typed EXCEPT ![modem.transport] = Append(@, "OK")]
      BY <1>1, <2>1 DEF Confirms
    <3>2. "OK" \in Written \cup {"OK"}
      OBVIOUS
    <3> QED BY <1>6, <3>1, <3>2, Appended
  <2>2. CASE ~EscapeDue(m)
    BY <1>1, <1>6, <2>2 DEF Confirms
  <2> QED BY <2>1, <2>2
<1>8. program' \in [todo : Seq(Written \cup {MSR}), sends : 0..MaxSends, handler : BOOLEAN]
  <2> DEFINE b == program.handler /\ o # <<>>
  <2>1. program' = [program EXCEPT !.handler = b] /\ b \in BOOLEAN
    BY <1>1
  <2> HIDE DEF b
  <2> QED BY <1>6, <2>1
<1>9. /\ port' \in [dr : BOOLEAN, rbr : Items, ier : BOOLEAN] /\ FromPeer(port'.rbr)
      /\ o # <<>> => port'.dr = TRUE /\ port'.rbr = Head(o)
      /\ o = <<>> => port' = port
  <2>1. CASE o = <<>>
    BY <1>1, <1>6, <2>1
  <2>2. CASE o # <<>>
    <3> DEFINE yes == TRUE  x == Head(o)
    <3>1. port' = [port EXCEPT !.dr = yes, !.rbr = x] /\ yes \in BOOLEAN /\ x \in Items /\ FromPeer(x)
      BY <1>1, <1>2, <2>2
    <3> HIDE DEF yes, x
    <3>2. port' \in [dr : BOOLEAN, rbr : Items, ier : BOOLEAN] /\ port'.rbr = x /\ port'.dr = yes
      BY <1>6, <3>1
    <3> QED BY <2>2, <3>1, <3>2 DEF yes, x
  <2> QED BY <2>1, <2>2
<1>10. modem' \in ModemState
  BY <1>2, <1>5 DEF Fits
<1>11. TypeOK'
  BY <1>1, <1>5, <1>6, <1>7, <1>8, <1>9, <1>10 DEF TypeOK
<1>12. LineInv'
  BY <1>2, <1>5, <1>9, <1>11 DEF LineInv
<1>13. ASSUME NEW c \in Conns PROVE Arrived(c)' = Arrived(c)
  <2>0. BytesOf(c, m.rx) = BytesOf(c, modem.rx)
    BY DEF Alike
  <2>1. CASE o = <<>>
    BY <1>1, <1>2, <1>5, <1>9, <2>0, <2>1, ArrivedStays
  <2>2. CASE o # <<>>
    <3>1. /\ port'.dr = TRUE /\ port'.rbr \in Items
          /\ BytesOf(c, modem.rx) = BytesOf(c, <<port'.rbr>>) \o BytesOf(c, modem'.rx)
      BY <1>2, <1>5, <1>9, <2>0, <2>2
    <3>2. modem'.rx \in Seq(Items)
      BY <1>10 DEF ModemState
    <3> QED BY <1>1, <3>1, <3>2, Latches
  <2> QED BY <2>1, <2>2
<1>14. \A c \in Conns : Quiet(conns[c], conns[c]') /\ (modem'.transport = c => modem.transport = c)
  BY <1>1, <1>2, <1>3, <1>4, ConnsStay
<1> QED BY <1>12, <1>13, <1>14 DEF Unmoved

\* Whatever access ends, it moves no byte.
LEMMA CompletesIs ==
  ASSUME LineInv, NEW kind \in {"lsr", "irq", "msr"}, kind = "lsr" => ~port.dr,
         kind = "msr" => program.todo # <<>>,
         NEW m, Alike(modem, m), m.transport \in {modem.transport, NoConn},
         NEW k, modem.transport # NoConn =>
                  ConnFits(k) /\ k.bridge # "unused" /\ Quiet(Transport, k),
         Completes(kind, m, k), access' = "none"
  PROVE  LineInv' /\ \A c \in Conns : Unmoved(c)
<1>1. CASE kind = "lsr"
  BY <1>1, DeviceReadIs
<1>2. CASE kind \in {"irq", "msr"}
  <2>1. PICK p : /\ Becomes(p, k) /\ Alike(modem, p) /\ p.transport = m.transport
                 /\ UNCHANGED <<port, heard, typed>>
    <3>1. CASE kind = "irq"
      <4>1. Becomes(TakeIrqOf(m), k) /\ UNCHANGED <<port, heard, typed>>
        BY <3>1 DEF Completes
      <4>2. Kept(m, TakeIrqOf(m))
        BY TakeIrqOfIs DEF Alike
      <4>3. Alike(modem, TakeIrqOf(m)) /\ TakeIrqOf(m).transport = m.transport
        BY <4>2 DEF Kept, Alike
      <4> QED BY <4>1, <4>3
    <3>2. CASE kind = "msr"
      BY <3>2 DEF Completes
    <3> QED BY <1>2, <3>1, <3>2
  <2>2. /\ port \in [dr : BOOLEAN, rbr : Items, ier : BOOLEAN]
        /\ program \in [todo : Seq(Written \cup {MSR}), sends : 0..MaxSends, handler : BOOLEAN]
        /\ heard \in [Conns -> Seq(1..MaxData)]
        /\ typed \in [Conns -> Seq(Written \cup {"OK"})]
        /\ FromPeer(port.rbr)
    BY DEF LineInv, TypeOK
  <2>3. program' \in [todo : Seq(Written \cup {MSR}), sends : 0..MaxSends, handler : BOOLEAN]
    <3>1. CASE kind = "irq"
      <4> DEFINE b == m.irq
      <4>1. program' = [program EXCEPT !.handler = b] /\ b \in BOOLEAN
        BY <3>1 DEF Completes, Alike, Fits, ModemState
      <4> HIDE DEF b
      <4> QED BY <2>2, <4>1
    <3>2. CASE kind = "msr"
      <4> DEFINE rest == Tail(program.todo)
      <4>1. program' = [program EXCEPT !.todo = rest]
        BY <3>2 DEF Completes
      <4>2. program.todo \in Seq(Written \cup {MSR}) /\ program.todo # <<>>
        BY <2>2, <3>2
      <4>3. rest \in Seq(Written \cup {MSR})
        BY <4>2
      <4> HIDE DEF rest
      <4> QED BY <2>2, <4>1, <4>3
    <3> QED BY <1>2, <3>1, <3>2
  <2>4. Fits(p) /\ p.transport \in {modem.transport, NoConn}
    BY <2>1 DEF Alike
  <2>5. /\ modem' = p /\ conns' \in [Conns -> ConnState(Written)]
        /\ \A c \in Conns : ConnFits(conns'[c])
        /\ p.transport # NoConn => conns'[p.transport].bridge # "unused"
    BY <2>1, <2>4, BecomesIs
  <2>6. TypeOK'
    BY <2>1, <2>2, <2>3, <2>4, <2>5 DEF TypeOK, Fits
  <2>7. LineInv'
    BY <2>1, <2>2, <2>4, <2>5, <2>6 DEF LineInv
  <2>8. \A c \in Conns : Quiet(conns[c], conns[c]') /\ (modem'.transport = c => modem.transport = c)
    BY <2>1, <2>4, ConnsStay
  <2>9. \A c \in Conns : Arrived(c)' = Arrived(c)
    BY <2>1, <2>5, ArrivedStays DEF Alike
  <2> QED BY <2>7, <2>8, <2>9 DEF Unmoved
<1> QED BY <1>1, <1>2

\* An access that asks the device moves what has come in to the modem: all of
\* it, to the end of what it had.
Drain(c) ==
  /\ modem'.transport = c /\ modem.transport = c
  /\ Arrived(c)' = Arrived(c) \o conns[c].incoming
  /\ conns[c]'.incoming = <<>> /\ conns[c]'.chunk = conns[c].chunk
  /\ conns[c]'.network = conns[c].network /\ conns[c]'.sent = conns[c].sent

LEMMA AsksIs ==
  ASSUME LineInv, Idle, NEW kind \in {"lsr", "irq", "msr"}, kind = "lsr" => ~port.dr,
         kind = "msr" => program.todo # <<>>, Asks(kind)
  PROVE  LineInv' /\ \A c \in Conns : Unmoved(c) \/ Drain(c)
<1>0. Fits(modem) /\ Alike(modem, modem) /\ modem.transport \in Conns \cup {NoConn}
  BY DEF LineInv, Alike, Fits, ModemState
<1>1. CASE modem.transport = NoConn
  <2>1. Completes(kind, modem, Unused) /\ access' = "none"
    BY <1>1 DEF Asks, Idle
  <2> QED BY <1>0, <1>1, <2>1, CompletesIs
<1>2. CASE modem.transport # NoConn
  <2> DEFINE d == modem.transport
             in == [i \in 1..Len(Transport.incoming) |-> Byte(d, Transport.incoming[i])]
             p == Drained(modem, in)
             k == AfterPoll(Transport)
  <2>1. /\ d \in Conns /\ Transport = conns[d] /\ ConnFits(Transport)
        /\ Transport.bridge # "unused"
    BY <1>2, TransportIs
  <2>2. Transport.incoming \in Seq(1..MaxData)
    BY <2>1 DEF ConnFits, ConnState
  <2>3. /\ access' = kind /\ UNCHANGED <<port, program, heard, typed>>
        /\ Becomes(p, k) \/ UNCHANGED <<modem, conns>>
    BY <1>2 DEF Asks
  <2>4. /\ Fits(p)
        /\ \A c \in Conns :
             BytesOf(c, p.rx) =
               BytesOf(c, modem.rx) \o (IF c = d THEN Transport.incoming ELSE <<>>)
        /\ p.transport = d
    BY <1>0, <2>1, <2>2, DrainedIs, ZenonT(60)
  <2>5. /\ ConnFits(k) /\ k.bridge # "unused" /\ k.sent = Transport.sent
        /\ k.incoming = <<>> /\ k.chunk = Transport.chunk /\ k.network = Transport.network
    BY <2>1, AfterPollIs
  <2> HIDE DEF d, in, p, k
  <2>6. CASE UNCHANGED <<modem, conns>>
    <3>1. TypeOK'
      BY <2>3, <2>6 DEF LineInv, TypeOK
    <3>2. LineInv'
      BY <2>3, <2>6, <3>1 DEF LineInv
    <3>3. \A c \in Conns : Unmoved(c)
      BY <2>3, <2>6 DEF Unmoved, Arrived, Quiet
    <3> QED BY <3>2, <3>3
  <2>7. CASE Becomes(p, k)
    <3>1. /\ modem' = p /\ conns' \in [Conns -> ConnState(Written)]
          /\ \A c \in Conns : ConnFits(conns'[c])
          /\ p.transport # NoConn => conns'[p.transport].bridge # "unused"
          /\ \A c \in Conns :
               /\ c = d => conns'[c] = k
               /\ c # d /\ c # p.transport => conns'[c] = conns[c]
      BY <2>4, <2>5, <2>7, BecomesIs DEF d
    <3>2. TypeOK'
      BY <2>3, <2>4, <3>1 DEF LineInv, TypeOK, Fits
    <3>3. LineInv'
      BY <2>3, <2>4, <3>1, <3>2 DEF LineInv
    <3>4. ASSUME NEW c \in Conns, c # d PROVE Unmoved(c)
      <4>1. BytesOf(c, modem'.rx) = BytesOf(c, modem.rx)
        <5>1. BytesOf(c, modem.rx) \in Seq(Nat)
          BY ArrivedTyped
        <5>2. BytesOf(c, p.rx) = BytesOf(c, modem.rx) \o <<>>
          BY <2>4, <3>4
        <5>3. \A s \in Seq(Nat) : s \o <<>> = s
          OBVIOUS
        <5> QED BY <3>1, <5>1, <5>2, <5>3
      <4>2. conns[c]' = conns[c]
        BY <2>4, <3>1, <3>4
      <4>3. Arrived(c)' = Arrived(c)
        BY <2>3, <4>1, ArrivedStays
      <4> QED BY <2>4, <3>1, <3>4, <4>2, <4>3 DEF Unmoved, Quiet, d
    <3>5. ASSUME NEW c \in Conns, c = d PROVE Drain(c)
      <4> DEFINE h == heard[c]  l == BytesOf(c, IF port.dr THEN <<port.rbr>> ELSE <<>>)
                 q == BytesOf(c, modem.rx)  i == conns[c].incoming
      <4>1. h \in Seq(Nat) /\ l \in Seq(Nat) /\ q \in Seq(Nat) /\ Arrived(c) = h \o l \o q
        BY ArrivedTyped DEF Arrived
      <4>2. i \in Seq(Nat)
        <5>1. \A n \in 1..Len(i) : i[n] \in Nat
          BY <2>1, <2>2, <3>5, TransportAssumption
        <5> QED BY <2>1, <2>2, <3>5, <5>1
      <4>3. Arrived(c)' = h \o l \o (q \o i)
        <5>1. BytesOf(c, modem'.rx) = q \o i
          BY <2>1, <2>4, <3>1, <3>5
        <5>2. Arrived(c)' = h \o l \o BytesOf(c, modem'.rx)
          BY <2>3 DEF Arrived
        <5> HIDE DEF h, l, q, i
        <5> QED BY <5>1, <5>2
      <4> HIDE DEF h, l, q, i
      <4>4. h \o l \in Seq(Nat)
        BY <4>1
      <4>5. q \in Seq(Nat)
        BY <4>1
      <4>6. (h \o l) \o (q \o i) = ((h \o l) \o q) \o i
        BY <4>2, <4>4, <4>5, Joins
      <4>7. Arrived(c)' = Arrived(c) \o i
        BY <4>1, <4>3, <4>6
      <4> QED BY <2>1, <2>4, <2>5, <3>1, <3>5, <4>7 DEF Drain, d, i
    <3>6. \A c \in Conns : Unmoved(c) \/ Drain(c)
      BY <3>4, <3>5
    <3> QED BY <3>3, <3>6
  <2> QED BY <2>3, <2>6, <2>7
<1> QED BY <1>1, <1>2

-----------------------------------------------------------------------------
(* The order of the bytes. *)

\* What is still to come to the modem.
Coming(k) == k.incoming \o (k.chunk \o k.network)

InOrder(c) ==
  /\ Arrived(c) = Numbers(Len(Arrived(c))) /\ Len(Arrived(c)) <= conns[c].sent
  /\ modem.transport = c => Arrived(c) \o Coming(conns[c]) = Numbers(conns[c].sent)

LEMMA NoneJoins ==
  \A a \in Seq(Nat) : a \o <<>> = a /\ <<>> \o a = a
OBVIOUS

LEMMA BytesAreNumbers ==
  ASSUME NEW s \in Seq(1..MaxData)
  PROVE  s \in Seq(Nat)
<1>1. \A i \in 1..Len(s) : s[i] \in Nat
  BY TransportAssumption
<1> QED BY <1>1

LEMMA ComingTyped ==
  ASSUME NEW k, ConnFits(k)
  PROVE  /\ k.incoming \in Seq(Nat) /\ k.chunk \in Seq(Nat) /\ k.network \in Seq(Nat)
         /\ k.sent \in Nat /\ k.sent \in 0..MaxData /\ Coming(k) \in Seq(Nat)
<1>1. /\ k.incoming \in Seq(1..MaxData) /\ k.chunk \in Seq(1..MaxData)
      /\ k.network \in Seq(1..MaxData) /\ k.sent \in 0..MaxData
  BY DEF ConnFits, ConnState
<1>2. k.incoming \in Seq(Nat) /\ k.chunk \in Seq(Nat) /\ k.network \in Seq(Nat)
  BY <1>1, BytesAreNumbers
<1>3. Coming(k) \in Seq(Nat)
  BY <1>2, Joins DEF Coming
<1> QED BY <1>1, <1>2, <1>3, TransportAssumption

\* The reader thread passes on what it has.
LEMMA ReaderPasses ==
  ASSUME NEW k, ConnFits(k), NEW n \in Read(k) \cup Extend(k)
  PROVE  Coming(n) = Coming(k) /\ n.sent = k.sent
<1> DEFINE i == k.incoming  h == k.chunk  w == k.network  none == <<>>
<1>1. i \in Seq(Nat) /\ h \in Seq(Nat) /\ w \in Seq(Nat)
  BY ComingTyped
<1>2. /\ none \o w = w /\ w \o none = w
      /\ (i \o h) \o w = i \o (h \o w)
  <2>1. none \o w = w /\ w \o none = w
    BY <1>1, NoneJoins
  <2> HIDE DEF i, h, w
  <2>2. (i \o h) \o w = i \o (h \o w)
    BY <1>1, Joins, ZenonT(60)
  <2> QED BY <2>1, <2>2
<1>3. CASE n \in Read(k)
  <2>1. n.sent = k.sent /\ n.incoming = i /\ h = none /\ n.chunk = w /\ n.network = none
    BY <1>3, ReadIs
  <2>2. Coming(n) = i \o (w \o none) /\ Coming(k) = i \o (none \o w)
    BY <2>1 DEF Coming
  <2> HIDE DEF i, h, w, none
  <2> QED BY <1>2, <2>1, <2>2
<1>4. CASE n \in Extend(k)
  <2>1. n.sent = k.sent /\ n.incoming = i \o h /\ n.chunk = none /\ n.network = w
    BY <1>4, ExtendIs
  <2>2. Coming(n) = (i \o h) \o (none \o w) /\ Coming(k) = i \o (h \o w)
    BY <2>1 DEF Coming
  <2> HIDE DEF i, h, w, none
  <2> QED BY <1>2, <2>1, <2>2
<1> QED BY <1>3, <1>4

\* The peer adds one.
LEMMA PeerAdds ==
  ASSUME NEW k, ConnFits(k), k.sent < MaxData, NEW n \in PeerSends(k)
  PROVE  Coming(n) = Coming(k) \o <<k.sent + 1>> /\ n.sent = k.sent + 1
<1> DEFINE i == k.incoming  h == k.chunk  w == k.network  x == k.sent + 1  one == <<x>>
<1>1. i \in Seq(Nat) /\ h \in Seq(Nat) /\ w \in Seq(Nat) /\ x \in Nat
  BY ComingTyped
<1>2. n.sent = x /\ n.incoming = i /\ n.chunk = h /\ n.network = Append(w, x)
  BY PeerSendsIs
<1>3. one \in Seq(Nat) /\ Append(w, x) = w \o one
  BY <1>1, AppendIsConcat
<1>4. Coming(n) = i \o (h \o Append(w, x)) /\ Coming(k) = i \o (h \o w)
  BY <1>2 DEF Coming
<1> HIDE DEF i, h, w, x, one
<1>5. h \o (w \o one) = (h \o w) \o one /\ h \o w \in Seq(Nat)
  BY <1>1, <1>3, Joins, ZenonT(60)
<1>6. i \o ((h \o w) \o one) = (i \o (h \o w)) \o one
  <2> DEFINE t == h \o w
  <2>1. i \in Seq(Nat) /\ t \in Seq(Nat) /\ one \in Seq(Nat)
    BY <1>1, <1>3, <1>5
  <2> HIDE DEF t
  <2>2. (i \o t) \o one = i \o (t \o one)
    BY <2>1, Joins, ZenonT(60)
  <2> QED BY <2>2 DEF t
<1> QED BY <1>2, <1>3, <1>4, <1>5, <1>6 DEF one, x

\* A connection whose bytes are where they were, or in the hands of the next
\* on their way, is in order.
LEMMA OrderKept ==
  ASSUME NEW c \in Conns, InOrder(c), Arrived(c)' = Arrived(c),
         Coming(conns[c])' = Coming(conns[c]), conns[c]'.sent = conns[c].sent,
         modem'.transport = c => modem.transport = c
  PROVE  InOrder(c)'
BY DEF InOrder

LEMMA QuietComing ==
  ASSUME NEW k, NEW n, Quiet(k, n)
  PROVE  Coming(n) = Coming(k) /\ n.sent = k.sent
BY DEF Quiet, Coming

LEMMA UnmovedOrder ==
  ASSUME NEW c \in Conns, InOrder(c), Unmoved(c)
  PROVE  InOrder(c)'
<1>1. Coming(conns[c]') = Coming(conns[c]) /\ conns[c]'.sent = conns[c].sent
  BY QuietComing DEF Unmoved
<1>2. Coming(conns[c])' = Coming(conns[c]')
  BY DEF Coming
<1> QED BY <1>1, <1>2, OrderKept DEF Unmoved

\* If a connection is in order with what is to come, so is what has come.
LEMMA OrderOfAll ==
  ASSUME NEW c \in Conns, NEW a \in Seq(Nat), NEW k, ConnFits(k),
         a \o Coming(k) = Numbers(k.sent)
  PROVE  a = Numbers(Len(a)) /\ Len(a) <= k.sent
BY ComingTyped, FirstNumbers

LEMMA DrainOrder ==
  ASSUME LineInv, LineInv', NEW c \in Conns, InOrder(c), Drain(c)
  PROVE  InOrder(c)'
<1> DEFINE a == Arrived(c)  i == conns[c].incoming  h == conns[c].chunk
           w == conns[c].network  none == <<>>  n == conns[c].sent
<1>1. a \in Seq(Nat)
  BY ArrivedTyped
<1>2. i \in Seq(Nat) /\ h \in Seq(Nat) /\ w \in Seq(Nat) /\ n \in Nat
  BY ComingTyped DEF LineInv
<1>3. a \o (i \o (h \o w)) = Numbers(n)
  BY DEF InOrder, Drain, Coming
<1>4. /\ Arrived(c)' = a \o i /\ conns[c]'.incoming = none /\ conns[c]'.chunk = h
      /\ conns[c]'.network = w /\ conns[c]'.sent = n /\ modem'.transport = c
  BY DEF Drain
<1>5. Coming(conns[c]') = none \o (h \o w)
  BY <1>4 DEF Coming
<1>6. h \o w \in Seq(Nat)
  BY <1>2, Joins
<1>7. none \o (h \o w) = h \o w
  BY <1>6, NoneJoins
<1>8. a \o i \in Seq(Nat) /\ (a \o i) \o (h \o w) = a \o (i \o (h \o w))
  BY <1>1, <1>2, <1>6, Joins, ZenonT(60)
<1> HIDE DEF a, i, h, w, none, n
<1>9. (a \o i) \o Coming(conns[c]') = Numbers(conns[c]'.sent)
  BY <1>3, <1>4, <1>5, <1>7, <1>8
<1>10. ConnFits(conns[c]')
  BY DEF LineInv
<1>11. a \o i = Numbers(Len(a \o i)) /\ Len(a \o i) <= conns[c]'.sent
  BY <1>8, <1>9, <1>10, OrderOfAll
<1> QED BY <1>4, <1>9, <1>11 DEF InOrder, Coming

\* A byte from the peer is the next in order.
LEMMA PeerOrder ==
  ASSUME LineInv, NEW c \in Conns, InOrder(c), Arrived(c)' = Arrived(c),
         Coming(conns[c]') = Coming(conns[c]) \o <<conns[c].sent + 1>>,
         conns[c]'.sent = conns[c].sent + 1, modem' = modem
  PROVE  InOrder(c)'
<1> DEFINE a == Arrived(c)  g == Coming(conns[c])  n == conns[c].sent  one == <<n + 1>>
<1>1. a \in Seq(Nat) /\ Len(a) \in Nat
  BY ArrivedTyped
<1>2. g \in Seq(Nat) /\ n \in Nat
  BY ComingTyped DEF LineInv
<1>3. one \in Seq(Nat)
  BY <1>2
<1>4. a = Numbers(Len(a)) /\ Len(a) <= n /\ (modem.transport = c => a \o g = Numbers(n))
  BY DEF InOrder
<1>5. /\ Arrived(c)' = a /\ Coming(conns[c]') = g \o one /\ conns[c]'.sent = n + 1
      /\ modem'.transport = modem.transport
  OBVIOUS
<1>6. Numbers(n) \in Seq(Nat) /\ Numbers(n) \o one = Numbers(n + 1)
  <2>1. Numbers(n) \in Seq(Nat) /\ Append(Numbers(n), n + 1) = Numbers(n + 1)
    BY <1>2, NumbersAre
  <2>2. n + 1 \in Nat
    BY <1>2
  <2>3. Append(Numbers(n), n + 1) = Numbers(n) \o <<n + 1>>
    BY <2>1, <2>2, AppendIsConcat
  <2> QED BY <2>1, <2>3
<1> HIDE DEF a, g, n, one
<1>7. (a \o g) \o one = a \o (g \o one)
  BY <1>1, <1>2, <1>3, Joins
<1>8. modem'.transport = c => a \o Coming(conns[c]') = Numbers(conns[c]'.sent)
  BY <1>4, <1>5, <1>6, <1>7
<1>9. Len(a) <= conns[c]'.sent
  BY <1>1, <1>2, <1>4, <1>5
<1> QED BY <1>4, <1>5, <1>8, <1>9 DEF InOrder, Coming

\* A reset throws away what the program has not read.
Forgets(c) ==
  /\ modem'.transport # c /\ conns[c]' = conns[c] /\ Arrived(c)' = heard[c]

LEMMA ForgetsOrder ==
  ASSUME LineInv, NEW c \in Conns, InOrder(c), Forgets(c)
  PROVE  InOrder(c)'
<1> DEFINE h == heard[c]  l == BytesOf(c, IF port.dr THEN <<port.rbr>> ELSE <<>>)
           q == BytesOf(c, modem.rx)  a == Arrived(c)  n == Len(a)
<1>1. h \in Seq(Nat) /\ l \in Seq(Nat) /\ q \in Seq(Nat) /\ a \in Seq(Nat) /\ a = (h \o l) \o q
  BY ArrivedTyped DEF Arrived
<1>2. a = Numbers(n) /\ n <= conns[c].sent
  BY DEF InOrder
<1>3. n \in Nat /\ conns[c].sent \in Nat
  <2>1. ConnFits(conns[c])
    BY DEF LineInv
  <2>2. conns[c].sent \in Nat
    BY <2>1, ComingTyped
  <2>3. a \in Seq(Nat)
    BY <1>1
  <2> HIDE DEF a
  <2>4. Len(a) \in Nat
    BY <2>3
  <2> QED BY <2>2, <2>4
<1> HIDE DEF h, l, q, a, n
<1>4. l \o q \in Seq(Nat) /\ h \o (l \o q) = Numbers(n)
  <2>1. l \o q \in Seq(Nat)
    BY <1>1, Joins
  <2>2. (h \o l) \o q = h \o (l \o q)
    BY <1>1, Joins, SMTT(30)
  <2> QED BY <1>1, <1>2, <2>1, <2>2
<1>5. h = Numbers(Len(h)) /\ Len(h) <= n /\ Len(h) \in Nat
  <2>1. h \in Seq(Nat) /\ Len(h) \in Nat
    BY <1>1
  <2> DEFINE t == l \o q
  <2>2. t \in Seq(Nat) /\ h \o t = Numbers(n)
    BY <1>4
  <2> HIDE DEF t
  <2>3. h = Numbers(Len(h)) /\ Len(h) <= n
    BY <1>3, <2>1, <2>2, FirstNumbers
  <2> QED BY <2>1, <2>3
<1>6. Len(h) <= conns[c].sent
  BY <1>2, <1>3, <1>5
<1>7. Arrived(c)' = h /\ conns[c]' = conns[c] /\ modem'.transport # c
  BY DEF Forgets, h
<1> QED BY <1>5, <1>6, <1>7 DEF InOrder

\* A new connection has no bytes yet.
Dials(c) ==
  /\ modem'.transport = c /\ modem.transport # c
  /\ conns[c] = Unused /\ conns[c]' = Dialled /\ Arrived(c)' = Arrived(c)

LEMMA DialsOrder ==
  ASSUME LineInv, NEW c \in Conns, InOrder(c), Dials(c)
  PROVE  InOrder(c)'
<1> DEFINE a == Arrived(c)  none == <<>>
<1>1. a \in Seq(Nat) /\ Len(a) \in Nat
  BY ArrivedTyped
<1>2. a = Numbers(Len(a)) /\ Len(a) <= 0
  BY DEF InOrder, Dials, Unused
<1>3. Len(a) = 0
  BY <1>1, <1>2
<1>4. a = none /\ none \in Seq(Nat)
  BY <1>1, <1>3
<1>5. Arrived(c)' = a /\ conns[c]' = Dialled
  BY DEF Dials
<1>6. Dialled.sent = 0 /\ Coming(Dialled) = none \o (none \o none)
  BY DialledFits DEF Coming
<1> HIDE DEF a, none
<1>7. none \o (none \o none) = none /\ a \o none = a
  BY <1>4, NoneJoins DEF none
<1>8. a \o Coming(conns[c]') = Numbers(conns[c]'.sent)
  BY <1>2, <1>3, <1>5, <1>6, <1>7
<1>9. a = Numbers(Len(a)) /\ Len(a) <= conns[c]'.sent
  BY <1>2, <1>5, <1>6
<1> QED BY <1>5, <1>8, <1>9 DEF InOrder, Coming

-----------------------------------------------------------------------------
(* The steps. *)

Passes(c) ==
  /\ Arrived(c)' = Arrived(c) /\ Coming(conns[c]') = Coming(conns[c])
  /\ conns[c]'.sent = conns[c].sent
  /\ modem'.transport = c => modem.transport = c

Receives(c) ==
  /\ Arrived(c)' = Arrived(c) /\ Coming(conns[c]') = Coming(conns[c]) \o <<conns[c].sent + 1>>
  /\ conns[c]'.sent = conns[c].sent + 1 /\ modem' = modem

\* What a step may do to the bytes of c.
Moves(c) == Passes(c) \/ Receives(c) \/ Drain(c) \/ Forgets(c) \/ Dials(c)

LEMMA UnmovedPasses ==
  ASSUME NEW c, Unmoved(c)
  PROVE  Moves(c)
BY QuietComing DEF Unmoved, Passes, Moves

LEMMA StatusActions ==
  ASSUME LineInv, ReadStatus \/ TakeIrq \/ ReadModemStatus
  PROVE  LineInv' /\ \A c \in Conns : Moves(c)
<1>1. CASE ReadStatus
  <2>1. Idle /\ ~port.dr /\ Asks("lsr")
    BY <1>1 DEF ReadStatus
  <2>2. LineInv' /\ \A c \in Conns : Unmoved(c) \/ Drain(c)
    BY <2>1, AsksIs
  <2> QED BY <2>2, UnmovedPasses DEF Moves
<1>2. CASE TakeIrq
  <2>1. Idle /\ Asks("irq")
    BY <1>2 DEF TakeIrq
  <2>2. LineInv' /\ \A c \in Conns : Unmoved(c) \/ Drain(c)
    BY <2>1, AsksIs
  <2> QED BY <2>2, UnmovedPasses DEF Moves
<1>3. CASE ReadModemStatus
  <2>1. Idle /\ program.todo # <<>> /\ Asks("msr")
    BY <1>3 DEF ReadModemStatus
  <2>2. LineInv' /\ \A c \in Conns : Unmoved(c) \/ Drain(c)
    BY <2>1, AsksIs
  <2> QED BY <2>2, UnmovedPasses DEF Moves
<1> QED BY <1>1, <1>2, <1>3

LEMMA TakesEventIs ==
  ASSUME LineInv, TakesEvent
  PROVE  LineInv' /\ \A c \in Conns : Moves(c)
<1>1. PICK event : Completes(access, OnEvent(modem, event), AfterEvent(Transport, event))
  BY DEF TakesEvent
<1> DEFINE m == OnEvent(modem, event)  k == AfterEvent(Transport, event)
<1>2. access \in {"lsr", "irq", "msr"} /\ access' = "none"
  BY DEF TakesEvent, Idle, LineInv, TypeOK
<1>3. Alike(modem, m) /\ m.transport \in {modem.transport, NoConn}
  BY OnEventIs DEF LineInv
<1>4. modem.transport # NoConn => ConnFits(k) /\ k.bridge # "unused" /\ Quiet(Transport, k)
  BY TransportIs, AfterEventIs
<1>5. (access = "lsr" => ~port.dr) /\ (access = "msr" => program.todo # <<>>)
  BY DEF LineInv
<1> HIDE DEF m, k
<1>6. Completes(access, m, k)
  BY <1>1 DEF m, k
<1>7. LineInv' /\ \A c \in Conns : Unmoved(c)
  BY <1>2, <1>3, <1>4, <1>5, <1>6, CompletesIs
<1> QED BY <1>7, UnmovedPasses

\* The byte read is the one that was latched.
LEMMA ReadByteIs ==
  ASSUME LineInv, ReadByte
  PROVE  LineInv' /\ \A c \in Conns : Moves(c)
<1> DEFINE x == port.rbr  no == FALSE
<1>1. /\ Idle /\ port.dr /\ port' = [port EXCEPT !.dr = no] /\ Hears(x)
      /\ UNCHANGED <<modem, conns, access, program, typed>> /\ no \in BOOLEAN
  BY DEF ReadByte
<1>2. /\ port \in [dr : BOOLEAN, rbr : Items, ier : BOOLEAN] /\ x \in Items /\ FromPeer(x)
      /\ heard \in [Conns -> Seq(1..MaxData)]
  BY DEF LineInv, TypeOK
<1> HIDE DEF x
<1>3. port' \in [dr : BOOLEAN, rbr : Items, ier : BOOLEAN] /\ port'.rbr = port.rbr /\ port'.dr = no
  <2> HIDE DEF no
  <2> QED BY <1>1, <1>2
<1>4. /\ heard' \in [Conns -> Seq(1..MaxData)]
      /\ \A c \in Conns :
           heard'[c] = IF x.kind = "byte" /\ x.conn = c THEN Append(heard[c], x.n) ELSE heard[c]
  <2>1. CASE x.kind = "byte"
    <3> DEFINE d == x.conn  n == x.n
    <3>1. d \in Conns /\ n \in 1..MaxData
      BY <1>2, <2>1 DEF FromPeer
    <3>2. heard' = [heard EXCEPT ![d] = Append(@, n)]
      BY <1>1, <2>1 DEF Hears
    <3> HIDE DEF d, n
    <3>3. heard' \in [Conns -> Seq(1..MaxData)]
      BY <1>2, <3>1, <3>2, Appended
    <3>4. \A c \in Conns : heard'[c] = IF c = d THEN Append(heard[c], n) ELSE heard[c]
      BY <1>2, <3>1, <3>2
    <3> QED BY <2>1, <3>3, <3>4 DEF d, n
  <2>2. CASE x.kind # "byte"
    <3>1. heard' = heard
      BY <1>1, <2>2 DEF Hears
    <3> QED BY <1>2, <2>2, <3>1
  <2> QED BY <2>1, <2>2
<1>5. TypeOK'
  BY <1>1, <1>3, <1>4 DEF LineInv, TypeOK
<1>6. LineInv'
  BY <1>1, <1>2, <1>3, <1>5 DEF LineInv, Idle, x
<1>7. ASSUME NEW c \in Conns PROVE Moves(c)
  <2> DEFINE h == heard[c]  q == BytesOf(c, modem.rx)  none == <<>>
             g == heard'[c]  l == BytesOf(c, <<x>>)
  <2>1. h \in Seq(Nat) /\ q \in Seq(Nat)
    BY ArrivedTyped
  <2>2. l = IF x.kind = "byte" /\ x.conn = c THEN <<x.n>> ELSE none
    BY <1>2, ByteOfOne
  <2>3. x.n \in Nat
    BY <1>2 DEF Items
  <2>4. g = h \o l /\ g \in Seq(Nat)
    <3>1. CASE x.kind = "byte" /\ x.conn = c
      <4>1. g = Append(h, x.n) /\ l = <<x.n>>
        BY <1>4, <2>2, <3>1
      <4>2. Append(h, x.n) = h \o <<x.n>> /\ Append(h, x.n) \in Seq(Nat)
        BY <2>1, <2>3, Appends
      <4> QED BY <4>1, <4>2
    <3>2. CASE ~(x.kind = "byte" /\ x.conn = c)
      <4>1. g = h /\ l = none
        BY <1>4, <2>2, <3>2
      <4> QED BY <2>1, <4>1, NoneJoins
    <3> QED BY <3>1, <3>2
  <2>5. BytesOf(c, none) = none /\ g \o none = g
    <3>1. BytesOf(c, none) = none
      BY BytesFound
    <3> QED BY <2>4, <3>1, NoneJoins
  <2>6. Arrived(c) = (h \o l) \o q
    BY <1>1 DEF Arrived, x
  <2>7. Arrived(c)' = (g \o BytesOf(c, none)) \o q
    BY <1>1, <1>3 DEF Arrived
  <2> HIDE DEF h, q, none, g, l
  <2>8. Arrived(c)' = Arrived(c)
    BY <2>4, <2>5, <2>6, <2>7
  <2>9. Unmoved(c)
    BY <1>1, <2>8 DEF Unmoved, Quiet
  <2> QED BY <2>9, UnmovedPasses
<1> QED BY <1>6, <1>7

LEMMA BeginSendIs ==
  ASSUME LineInv, BeginSend
  PROVE  LineInv' /\ \A c \in Conns : Moves(c)
<1>1. PICK s \in Sends : program' = [program EXCEPT !.todo = s, !.sends = @ + 1]
  BY DEF BeginSend
<1>2. /\ program.todo = <<>> /\ program.sends < MaxSends
      /\ UNCHANGED <<port, modem, conns, access, heard, typed>>
  BY DEF BeginSend
<1> DEFINE n == program.sends + 1
<1>3. /\ program \in [todo : Seq(Written \cup {MSR}), sends : 0..MaxSends, handler : BOOLEAN]
      /\ access # "msr"
  BY <1>2 DEF LineInv, TypeOK
<1>4. s \in Seq(Written \cup {MSR})
  BY SerialAssumption
<1>5. n \in 0..MaxSends /\ program' = [program EXCEPT !.todo = s, !.sends = n]
  BY <1>1, <1>2, <1>3, SerialAssumption
<1> HIDE DEF n
<1>6. program' \in [todo : Seq(Written \cup {MSR}), sends : 0..MaxSends, handler : BOOLEAN]
  BY <1>3, <1>4, <1>5
<1>7. TypeOK'
  BY <1>2, <1>6 DEF LineInv, TypeOK
<1>8. LineInv'
  BY <1>2, <1>3, <1>7 DEF LineInv
<1>9. \A c \in Conns : Unmoved(c)
  BY <1>2 DEF Unmoved, Quiet, Arrived
<1> QED BY <1>8, <1>9, UnmovedPasses

\* A new modem has nothing to say and no connection.
LEMMA ModemNewIs ==
  ASSUME NEW echo \in BOOLEAN
  PROVE  LET p == [ModemNew EXCEPT !.echo = echo]
         IN Fits(p) /\ p.rx = <<>> /\ p.transport = NoConn
<1> DEFINE f == FALSE  t == TRUE  none == <<>>
           p == [ModemNew EXCEPT !.echo = echo]
<1> SUFFICES Fits(p) /\ p.rx = none /\ p.transport = NoConn
  OBVIOUS
<1>1. f \in BOOLEAN /\ t \in BOOLEAN /\ none \in Seq(Items) /\ none \in Seq(Chars) /\ none = <<>>
  OBVIOUS
<1>2. ModemNew =
  [state |-> "CommandMode", cmdBuf |-> none, rx |-> none, irq |-> f,
   echo |-> t, quiet |-> f, dcd |-> f, escape |-> 0,
   guard |-> NoGuard, transport |-> NoConn]
  BY DEF ModemNew
<1> HIDE DEF f, t, none
<1>3. ModemNew \in ModemState /\ ModemNew.rx = none /\ ModemNew.transport = NoConn
  BY <1>1, <1>2, CountIs DEF ModemState
<1>4. p \in ModemState /\ p.rx = ModemNew.rx /\ p.transport = ModemNew.transport
  BY <1>3 DEF ModemState
<1> HIDE DEF p
<1>5. \A i \in 1..Len(none) : FromPeer(none[i])
  BY <1>1
<1> QED BY <1>1, <1>3, <1>4, <1>5 DEF Fits

LEMMA ResetIs ==
  ASSUME LineInv, Reset
  PROVE  LineInv' /\ \A c \in Conns : Moves(c)
<1> DEFINE no == FALSE  none == <<>>  echo == EchoOn  item == NoItem
           p == [ModemNew EXCEPT !.echo = echo]
<1>1. /\ Idle /\ port' = [port EXCEPT !.dr = no, !.rbr = item]
      /\ modem' = p
      /\ program' = [program EXCEPT !.todo = none, !.handler = no]
      /\ UNCHANGED <<conns, access, heard, typed>>
      /\ no \in BOOLEAN /\ no = FALSE /\ none \in Seq(Written \cup {MSR}) /\ echo \in BOOLEAN
  BY SerialAssumption DEF Reset
<1>2. item \in Items /\ FromPeer(item)
  BY DEF NoItem, Item, Items, FromPeer
<1> HIDE DEF no, echo, item
<1>3. Fits(p) /\ p.rx = <<>> /\ p.transport = NoConn
  BY <1>1, ModemNewIs
<1> HIDE DEF p
<1>4. p \in ModemState
  BY <1>3 DEF Fits
<1>5. Fits(p) /\ p.rx = none /\ p.transport = NoConn
  BY <1>3
<1> HIDE DEF none
<1>6. /\ port \in [dr : BOOLEAN, rbr : Items, ier : BOOLEAN]
      /\ program \in [todo : Seq(Written \cup {MSR}), sends : 0..MaxSends, handler : BOOLEAN]
  BY DEF LineInv, TypeOK
<1>7. /\ port' \in [dr : BOOLEAN, rbr : Items, ier : BOOLEAN] /\ port'.rbr = item
      /\ port'.dr = no
      /\ program' \in [todo : Seq(Written \cup {MSR}), sends : 0..MaxSends, handler : BOOLEAN]
  BY <1>1, <1>2, <1>6
<1>8. TypeOK'
  BY <1>1, <1>4, <1>7 DEF LineInv, TypeOK
<1>9. LineInv'
  BY <1>1, <1>2, <1>5, <1>7, <1>8 DEF LineInv, Idle
<1>10. ASSUME NEW c \in Conns PROVE Forgets(c)
  <2>1. heard[c] \in Seq(Nat) /\ BytesOf(c, <<>>) = <<>>
    BY ArrivedTyped, BytesFound
  <2>2. Arrived(c)' = heard[c] \o BytesOf(c, <<>>) \o BytesOf(c, <<>>)
    BY <1>1, <1>5, <1>7 DEF Arrived, none
  <2>3. \A a \in Seq(Nat) : (a \o <<>>) \o <<>> = a
    OBVIOUS
  <2>4. Arrived(c)' = heard[c]
    BY <2>1, <2>2, <2>3
  <2> QED BY <1>1, <1>5, <2>4, ConnsAre DEF Forgets
<1> QED BY <1>9, <1>10 DEF Moves

\* What the modem, becoming p, does to a connection it has or does not take.
LEMMA OthersStay ==
  ASSUME LineInv, NEW p, Alike(modem, p), NEW k, Becomes(p, k),
         modem.transport # NoConn => ConnFits(k) /\ k.bridge # "unused" /\ Quiet(Transport, k),
         p.transport \in {modem.transport, NoConn}
           \/ (p.transport \in Conns /\ conns[p.transport].bridge = "unused"),
         UNCHANGED <<port, heard>>
  PROVE  \A c \in Conns : Moves(c)
<1> SUFFICES ASSUME NEW c \in Conns PROVE Moves(c)
  OBVIOUS
<1>1. /\ modem' = p /\ Fits(p)
      /\ c = modem.transport => conns'[c] = k
      /\ c # modem.transport /\ c = p.transport => conns'[c] = Dialled
      /\ c # modem.transport /\ c # p.transport => conns'[c] = conns[c]
  BY BecomesIs DEF Alike
<1>2. Arrived(c)' = Arrived(c)
  BY <1>1, ArrivedStays DEF Alike
<1>3. CASE c = modem.transport
  <2>1. conns[c]' = k /\ Transport = conns[c] /\ modem.transport # NoConn
    BY <1>1, <1>3, TransportIs, ConnsAre
  <2>2. Unmoved(c)
    BY <1>2, <1>3, <2>1 DEF Unmoved
  <2> QED BY <2>2, UnmovedPasses
<1>4. CASE c # modem.transport /\ c = p.transport
  <2>1. conns[c].bridge = "unused"
    BY <1>4, ConnsAre
  <2>2. conns[c] = Unused
    BY <2>1 DEF LineInv, ConnFits
  <2>3. Dials(c)
    BY <1>1, <1>2, <1>4, <2>2 DEF Dials
  <2> QED BY <2>3 DEF Moves
<1>5. CASE c # modem.transport /\ c # p.transport
  <2>1. conns[c]' = conns[c] /\ modem'.transport # c
    BY <1>1, <1>5
  <2>2. Unmoved(c)
    BY <1>2, <2>1 DEF Unmoved, Quiet
  <2> QED BY <2>2, UnmovedPasses
<1> QED BY <1>3, <1>4, <1>5

LEMMA ForwardedIs ==
  ASSUME NEW m \in ModemState, NEW ch \in Written
  PROVE  Forwarded(m, ch) \in Seq(Written)
<1> DEFINE n == m.escape  held == [i \in 1..n |-> "+"]  one == <<ch>>
<1>1. n \in Nat /\ "+" \in Written
  BY CountIs DEF ModemState, Written, Chars
<1>2. held \in Seq(Written) /\ one \in Seq(Written)
  <2>1. one \in Seq(Written)
    OBVIOUS
  <2>2. held \in [1..n -> Written]
    BY <1>1
  <2> HIDE DEF n, held
  <2>3. held \in Seq(Written)
    BY <1>1, <2>2, SeqDef
  <2> QED BY <2>1, <2>3
<1>3. Forwarded(m, ch) = held \o one
  BY DEF Forwarded
<1> HIDE DEF held, one
<1> QED BY <1>2, <1>3

\* A write types a character, is dropped while dialling, or is a command.
LEMMA SendIs ==
  ASSUME LineInv, Send
  PROVE  LineInv' /\ \A c \in Conns : Moves(c)
<1> DEFINE ch == Head(program.todo)
           online == modem.state = "Connected"
           expired == online /\ ch # "+" /\ EscapeExpired(modem, Elapsed(Transport))
           rest == Tail(program.todo)
           m == IF expired THEN EscapeConfirmed(modem) ELSE modem
           next == CommandChar(m, ch, NextConn)
           held == HoldsPlus(modem)
           a == IF held.guard # modem.guard THEN StartGuard(Transport) ELSE Transport
           b == SendBytes(CancelGuard(Transport), Forwarded(modem, ch))
           d == IF expired THEN CancelGuard(Transport) ELSE Transport
<1>1. /\ Idle /\ program.todo # <<>> /\ ch # MSR
      /\ program' = [program EXCEPT !.todo = rest]
      /\ UNCHANGED <<port, access, heard>>
  BY DEF Send
<1>2. /\ program \in [todo : Seq(Written \cup {MSR}), sends : 0..MaxSends, handler : BOOLEAN]
      /\ typed \in [Conns -> Seq(Written \cup {"OK"})]
      /\ Fits(modem) /\ modem \in ModemState /\ Alike(modem, modem)
      /\ modem.state \in {"CommandMode", "Dialing", "Connected"}
  BY DEF LineInv, TypeOK, Fits, Alike, ModemState
<1>3. ch \in Written /\ rest \in Seq(Written \cup {MSR})
  <2> DEFINE todo == program.todo  T == Written \cup {MSR}
  <2>1. todo \in Seq(T) /\ todo # <<>>
    BY <1>1, <1>2
  <2>2. Head(todo) \in T /\ Tail(todo) \in Seq(T)
    <3> HIDE DEF todo, T
    <3> QED BY <2>1
  <2> QED BY <1>1, <2>2
<1>4. \/ online /\ ch = "+"
      \/ online /\ ch # "+" /\ ~expired
      \/ modem.state = "Dialing"
      \/ expired
      \/ modem.state = "CommandMode"
  BY <1>2
<1>5. /\ online /\ ch = "+" =>
           Becomes(held, a) /\ typed' = [typed EXCEPT ![modem.transport] = Append(@, ch)]
      /\ online /\ ch # "+" /\ ~expired =>
           Becomes(Forwards(modem), b) /\ typed' = [typed EXCEPT ![modem.transport] = Append(@, ch)]
      /\ modem.state = "Dialing" => UNCHANGED <<modem, conns, typed>>
      /\ expired \/ modem.state = "CommandMode" => Becomes(next, d) /\ Confirms(expired)
  BY DEF Send
<1>6. modem.transport # NoConn =>
        /\ ConnFits(a) /\ a.bridge # "unused" /\ Quiet(Transport, a)
        /\ ConnFits(b) /\ b.bridge # "unused" /\ Quiet(Transport, b)
        /\ ConnFits(d) /\ d.bridge # "unused" /\ Quiet(Transport, d)
  <2> SUFFICES ASSUME modem.transport # NoConn
               PROVE  /\ ConnFits(a) /\ a.bridge # "unused" /\ Quiet(Transport, a)
                      /\ ConnFits(b) /\ b.bridge # "unused" /\ Quiet(Transport, b)
                      /\ ConnFits(d) /\ d.bridge # "unused" /\ Quiet(Transport, d)
    OBVIOUS
  <2> DEFINE t == Transport  g == CancelGuard(t)  s == StartGuard(t)
  <2>1. ConnFits(t) /\ t.bridge # "unused" /\ Quiet(t, t)
    BY TransportIs DEF Quiet
  <2>2. /\ ConnFits(s) /\ s.bridge # "unused" /\ Quiet(t, s)
        /\ ConnFits(g) /\ g.bridge # "unused" /\ Quiet(t, g)
    BY <2>1, GuardsAre
  <2>3. ConnFits(b) /\ b.bridge # "unused" /\ Quiet(g, b)
    BY <1>2, <1>3, <2>2, ForwardedIs, SendBytesIs
  <2>4. (a = t \/ a = s) /\ (d = t \/ d = g)
    OBVIOUS
  <2> HIDE DEF t, g, s, a, b, d
  <2>5. ConnFits(a) /\ a.bridge # "unused" /\ Quiet(t, a)
    BY <2>1, <2>2, <2>4
  <2>6. ConnFits(d) /\ d.bridge # "unused" /\ Quiet(t, d)
    BY <2>1, <2>2, <2>4
  <2>7. Quiet(t, b)
    BY <2>2, <2>3 DEF Quiet
  <2> QED BY <2>3, <2>5, <2>6, <2>7 DEF t
<1>7. program' \in [todo : Seq(Written \cup {MSR}), sends : 0..MaxSends, handler : BOOLEAN]
  <2> HIDE DEF rest
  <2> QED BY <1>1, <1>2, <1>3
<1> HIDE DEF ch, online, expired, rest, next, held, a, b, d
\* The modem becomes p, with what has been typed u.
<1>8. ASSUME NEW p, NEW k, Becomes(p, k), Alike(modem, p),
             modem.transport # NoConn =>
               ConnFits(k) /\ k.bridge # "unused" /\ Quiet(Transport, k),
             p.transport \in {modem.transport, NoConn}
               \/ (p.transport \in Conns /\ conns[p.transport].bridge = "unused"),
             typed' \in [Conns -> Seq(Written \cup {"OK"})]
      PROVE  LineInv' /\ \A c \in Conns : Moves(c)
  <2>1. /\ modem' = p /\ conns' \in [Conns -> ConnState(Written)]
        /\ \A c \in Conns : ConnFits(conns'[c])
        /\ p.transport # NoConn => conns'[p.transport].bridge # "unused"
    BY <1>8, BecomesIs DEF Alike
  <2>2. Fits(p) /\ p \in ModemState
    BY <1>8 DEF Alike, Fits
  <2>3. TypeOK'
    BY <1>1, <1>7, <1>8, <2>1, <2>2 DEF LineInv, TypeOK
  <2>4. LineInv'
    BY <1>1, <2>1, <2>2, <2>3 DEF LineInv, Idle
  <2>5. \A c \in Conns : Moves(c)
    BY <1>1, <1>8, OthersStay
  <2> QED BY <2>4, <2>5
<1>9. [typed EXCEPT ![modem.transport] = Append(@, ch)] \in [Conns -> Seq(Written \cup {"OK"})]
  <2>1. ch \in Written \cup {"OK"}
    BY <1>3
  <2> QED BY <1>2, <2>1, Appended
<1>10. CASE online /\ ch = "+"
  <2>1. Becomes(held, a) /\ typed' = [typed EXCEPT ![modem.transport] = Append(@, ch)]
    BY <1>5, <1>10
  <2>2. Fits(held) /\ held.rx = modem.rx /\ held.transport = modem.transport
    BY <1>2, PlusesIs DEF held
  <2>3. Alike(modem, held)
    BY <2>2 DEF Alike
  <2>4. held.transport \in {modem.transport, NoConn}
    BY <2>2
  <2> QED BY <1>6, <1>8, <1>9, <2>1, <2>3, <2>4
<1>11. CASE online /\ ch # "+" /\ ~expired
  <2> DEFINE p == Forwards(modem)
  <2>1. Becomes(p, b) /\ typed' = [typed EXCEPT ![modem.transport] = Append(@, ch)]
    BY <1>5, <1>11
  <2>2. Fits(p) /\ p.rx = modem.rx /\ p.transport = modem.transport
    BY <1>2, PlusesIs
  <2> HIDE DEF p
  <2>3. Alike(modem, p)
    BY <2>2 DEF Alike
  <2>4. p.transport \in {modem.transport, NoConn}
    BY <2>2
  <2> QED BY <1>6, <1>8, <1>9, <2>1, <2>3, <2>4
<1>12. CASE modem.state = "Dialing"
  <2>1. UNCHANGED <<modem, conns, typed>>
    BY <1>5, <1>12
  <2>2. TypeOK'
    BY <1>1, <1>7, <2>1 DEF LineInv, TypeOK
  <2>3. LineInv'
    BY <1>1, <2>1, <2>2 DEF LineInv, Idle
  <2>4. \A c \in Conns : Unmoved(c)
    BY <1>1, <2>1 DEF Unmoved, Quiet, Arrived
  <2> QED BY <2>3, <2>4, UnmovedPasses
<1>13. CASE expired \/ modem.state = "CommandMode"
  <2>1. Becomes(next, d) /\ Confirms(expired)
    BY <1>5, <1>13
  <2>2. /\ Fits(m) /\ m.state = "CommandMode" /\ Alike(modem, m)
        /\ m.transport = modem.transport
    BY <1>2, <1>13, EscapeConfirmedIs DEF Alike
  <2> HIDE DEF m
  <2>3. Obeys(m, next, NextConn)
    BY <1>3, <2>2, NextConnIs, CommandCharIs DEF next, Written
  <2>4. Alike(modem, next) /\ next.transport \in {modem.transport, NoConn, NextConn}
    BY <2>2, <2>3 DEF Obeys, Alike
  <2>5. next.transport \in {modem.transport, NoConn}
          \/ (next.transport \in Conns /\ conns[next.transport].bridge = "unused")
    BY <2>4, NextConnIs
  <2>6. typed' \in [Conns -> Seq(Written \cup {"OK"})]
    <3>1. CASE expired
      <4>1. typed' = [typed EXCEPT ![modem.transport] = Append(@, "OK")]
        BY <2>1, <3>1 DEF Confirms
      <4>2. "OK" \in Written \cup {"OK"}
        OBVIOUS
      <4> QED BY <1>2, <4>1, <4>2, Appended
    <3>2. CASE ~expired
      BY <1>2, <2>1, <3>2 DEF Confirms
    <3> QED BY <3>1, <3>2
  <2> QED BY <1>6, <1>8, <2>1, <2>4, <2>5, <2>6
<1> QED BY <1>4, <1>10, <1>11, <1>12, <1>13

\* A step of one connection's threads or peer.
LEMMA OneConnIs ==
  ASSUME LineInv, NEW c \in Conns, NEW k, ConnFits(k), k.bridge # "unused",
         conns' = [conns EXCEPT ![c] = k],
         UNCHANGED <<port, modem, access, program, heard, typed>>,
         \/ Coming(k) = Coming(conns[c]) /\ k.sent = conns[c].sent
         \/ /\ Coming(k) = Coming(conns[c]) \o <<conns[c].sent + 1>>
            /\ k.sent = conns[c].sent + 1
  PROVE  LineInv' /\ \A d \in Conns : Moves(d)
<1>1. /\ conns \in [Conns -> ConnState(Written)] /\ k \in ConnState(Written)
      /\ \A d \in Conns : ConnFits(conns[d])
      /\ modem.transport \in Conns \cup {NoConn}
  BY DEF LineInv, TypeOK, ConnFits, ModemState
<1>2. /\ conns' \in [Conns -> ConnState(Written)]
      /\ \A d \in Conns : conns'[d] = IF d = c THEN k ELSE conns[d]
  BY <1>1
<1>3. \A d \in Conns : ConnFits(conns'[d]) /\ (conns[d].bridge # "unused" => conns'[d].bridge # "unused")
  BY <1>1, <1>2
<1>4. TypeOK'
  BY <1>2 DEF LineInv, TypeOK
<1>5. LineInv'
  BY <1>1, <1>3, <1>4 DEF LineInv
<1>6. ASSUME NEW d \in Conns PROVE Moves(d)
  <2>1. Arrived(d)' = Arrived(d) /\ modem' = modem
    BY ArrivedStays
  <2>2. CASE d = c
    <3>1. conns[d]' = k
      BY <1>2, <2>2
    <3>2. Passes(d) \/ Receives(d)
      BY <2>1, <2>2, <3>1 DEF Passes, Receives
    <3> QED BY <3>2 DEF Moves
  <2>3. CASE d # c
    <3>1. conns[d]' = conns[d]
      BY <1>2, <2>3
    <3>2. Passes(d)
      BY <2>1, <3>1 DEF Passes
    <3> QED BY <3>2 DEF Moves
  <2> QED BY <2>2, <2>3
<1> QED BY <1>5, <1>6

LEMMA ThreadsIs ==
  ASSUME LineInv, NEW c \in Conns, Threads(c)
  PROVE  LineInv' /\ \A d \in Conns : Moves(d)
<1> DEFINE o == conns[c]
<1>1. PICK k \in Connect(o) \cup Read(o) \cup Extend(o) \cup
              ReadEnds(o) \cup Write(o) \cup WriteEnds(o, Dropped(c)) :
        conns' = [conns EXCEPT ![c] = k]
  BY DEF Threads
<1>2. UNCHANGED <<port, modem, access, program, heard, typed>>
  BY DEF Threads
<1>3. ConnFits(o)
  BY DEF LineInv
<1> HIDE DEF o
<1>4. ConnFits(k) /\ k.bridge # "unused" /\ Coming(k) = Coming(o) /\ k.sent = o.sent
  <2>1. CASE k \in Read(o) \cup Extend(o)
    <3>1. Coming(k) = Coming(o) /\ k.sent = o.sent
      BY <1>3, <2>1, ReaderPasses
    <3>2. ConnFits(k) /\ k.bridge # "unused"
      BY <1>3, <2>1, ReadIs, ExtendIs
    <3> QED BY <3>1, <3>2
  <2>2. CASE k \in Connect(o) \cup ReadEnds(o) \cup Write(o) \cup WriteEnds(o, Dropped(c))
    <3>1. ConnFits(k) /\ k.bridge # "unused" /\ Quiet(o, k)
      BY <1>3, <2>2, ConnectIs, ReadEndsIs, WriteIs, WriteEndsIs
    <3> QED BY <3>1, QuietComing
  <2> QED BY <1>1, <2>1, <2>2
<1> QED BY <1>1, <1>2, <1>4, OneConnIs DEF o

\* While the bound on the bytes is not reached, no connection has reached it.
LEMMA RoomLeft ==
  ASSUME LineInv, NEW c \in Conns, SentInAll < MaxData
  PROVE  conns[c].sent < MaxData
<1> DEFINE all == Conns \X (1..MaxData)
           S == {b \in all : b[2] <= conns[b[1]].sent}
           f == [i \in 1..MaxData |-> <<c, i>>]
<1>1. conns[c].sent \in 0..MaxData /\ MaxData \in Nat
  BY TransportAssumption DEF LineInv, TypeOK, ConnState
<1>2. IsFiniteSet(S) /\ SentInAll = Cardinality(S)
  <2>1. IsFiniteSet(1..MaxData)
    BY <1>1, FS_Interval
  <2>2. IsFiniteSet(all)
    BY <2>1, ConnsAre, FS_Product
  <2>3. IsFiniteSet(S)
    BY <2>2, FS_Subset
  <2> QED BY <2>3 DEF SentInAll
<1>3. CASE conns[c].sent = MaxData
  <2>1. \A i \in 1..MaxData : f[i] \in S
    BY <1>3
  <2>2. \A i, j \in 1..MaxData : f[i] = f[j] => i = j
    OBVIOUS
  <2>3. f = [i \in 1..MaxData |-> f[i]]
    OBVIOUS
  <2> HIDE DEF f, S
  <2>4. f \in Injection(1..MaxData, S)
    BY <2>1, <2>2, <2>3 DEF Injection, IsInjective
  <2>5. /\ ExistsInjection(1..MaxData, S) /\ IsFiniteSet(1..MaxData)
        /\ Cardinality(1..MaxData) = MaxData
    <3>1. ExistsInjection(1..MaxData, S)
      BY <2>4 DEF ExistsInjection
    <3>2. IsFiniteSet(1..MaxData) /\ Cardinality(1..MaxData) = MaxData
      BY <1>1, FS_Interval
    <3> QED BY <3>1, <3>2
  <2>6. MaxData <= Cardinality(S)
    BY <1>2, <2>4, <2>5, FS_Injection
  <2>7. Cardinality(S) \in Nat
    BY <1>2, FS_CardinalityType
  <2> QED BY <1>1, <1>2, <2>6, <2>7
<1> QED BY <1>1, <1>3

LEMMA WorldIs ==
  ASSUME LineInv, NEW c \in Conns, World(c)
  PROVE  LineInv' /\ \A d \in Conns : Moves(d)
<1> DEFINE o == conns[c]
<1>1. PICK k \in (IF SentInAll < MaxData THEN PeerSends(o) ELSE {})
               \cup PeerCloses(o) \cup ClockElapses(o) :
        conns' = [conns EXCEPT ![c] = k]
  BY DEF World
<1>2. UNCHANGED <<port, modem, access, program, heard, typed>>
  BY DEF World
<1>3. ConnFits(o)
  BY DEF LineInv
<1>4. SentInAll < MaxData => o.sent < MaxData
  BY RoomLeft
<1>5. \/ o.sent < MaxData /\ k \in PeerSends(o)
      \/ k \in PeerCloses(o) \cup ClockElapses(o)
  BY <1>1, <1>4
<1> HIDE DEF o
<1>6. CASE o.sent < MaxData /\ k \in PeerSends(o)
  <2>1. ConnFits(k) /\ k.bridge # "unused"
    BY <1>3, <1>6, PeerSendsIs
  <2>2. Coming(k) = Coming(o) \o <<o.sent + 1>> /\ k.sent = o.sent + 1
    BY <1>3, <1>6, PeerAdds
  <2> QED BY <1>1, <1>2, <2>1, <2>2, OneConnIs DEF o
<1>7. CASE k \in PeerCloses(o) \cup ClockElapses(o)
  <2>1. ConnFits(k) /\ k.bridge # "unused" /\ Quiet(o, k)
    BY <1>3, <1>7, PeerClosesIs, ClockElapsesIs
  <2>2. Coming(k) = Coming(o) /\ k.sent = o.sent
    BY <2>1, QuietComing
  <2> QED BY <1>1, <1>2, <2>1, <2>2, OneConnIs DEF o
<1> QED BY <1>5, <1>6, <1>7

LEMMA NextIs ==
  ASSUME LineInv, [Next]_vars
  PROVE  LineInv' /\ \A c \in Conns : Moves(c)
<1>1. CASE ReadStatus \/ TakeIrq \/ ReadModemStatus
  BY <1>1, StatusActions
<1>2. CASE ReadByte
  BY <1>2, ReadByteIs
<1>3. CASE TakesEvent
  BY <1>3, TakesEventIs
<1>4. CASE BeginSend
  BY <1>4, BeginSendIs
<1>5. CASE Send
  BY <1>5, SendIs
<1>6. CASE Reset
  BY <1>6, ResetIs
<1>7. CASE \E c \in Conns : Threads(c) \/ World(c)
  BY <1>7, ThreadsIs, WorldIs
<1>8. CASE UNCHANGED vars
  <2>1. UNCHANGED <<port, modem, conns, access, program, heard, typed>>
    BY <1>8 DEF vars
  <2>2. LineInv'
    BY <2>1 DEF LineInv, TypeOK
  <2>3. \A c \in Conns : Unmoved(c)
    BY <2>1 DEF Unmoved, Quiet, Arrived
  <2> QED BY <2>2, <2>3, UnmovedPasses
<1> QED BY <1>1, <1>2, <1>3, <1>4, <1>5, <1>6, <1>7, <1>8 DEF Next

LEMMA MovesOrder ==
  ASSUME LineInv, LineInv', NEW c \in Conns, InOrder(c), Moves(c)
  PROVE  InOrder(c)'
<1>1. CASE Passes(c)
  <2>1. Coming(conns[c])' = Coming(conns[c]') /\ Coming(conns[c]') = Coming(conns[c])
    BY <1>1 DEF Passes, Coming
  <2> QED BY <1>1, <2>1, OrderKept DEF Passes
<1>2. CASE Receives(c)
  BY <1>2, PeerOrder DEF Receives
<1>3. CASE Drain(c)
  BY <1>3, DrainOrder
<1>4. CASE Forgets(c)
  BY <1>4, ForgetsOrder
<1>5. CASE Dials(c)
  BY <1>5, DialsOrder
<1> QED BY <1>1, <1>2, <1>3, <1>4, <1>5 DEF Moves

-----------------------------------------------------------------------------
(* Types and the order of the bytes. *)

LEMMA InitIs ==
  ASSUME Init
  PROVE  LineInv /\ \A c \in Conns : InOrder(c)
<1> DEFINE no == FALSE  none == <<>>  echo == EchoOn  p == [ModemNew EXCEPT !.echo = echo]
<1>1. /\ \E style \in Styles : port = [dr |-> no, rbr |-> NoItem, ier |-> style = "irq"]
      /\ modem = p /\ conns = [c \in Conns |-> Unused] /\ access = "none"
      /\ program = [todo |-> none, sends |-> 0, handler |-> no]
      /\ heard = [c \in Conns |-> none] /\ typed = [c \in Conns |-> none]
  BY DEF Init
<1>2. /\ no \in BOOLEAN /\ ~no /\ echo \in BOOLEAN /\ none = <<>> /\ none \in Seq(1..MaxData)
      /\ none \in Seq(Written \cup {"OK"}) /\ none \in Seq(Written \cup {MSR}) /\ 0 \in 0..MaxSends
  BY SerialAssumption
<1>3. Fits(p) /\ p.rx = none /\ p.transport = NoConn
  <2> HIDE DEF echo
  <2> QED BY <1>2, ModemNewIs
<1>4. NoItem \in Items /\ FromPeer(NoItem)
  BY DEF NoItem, Item, Items, FromPeer
<1>5. PICK b \in BOOLEAN : port = [dr |-> no, rbr |-> NoItem, ier |-> b]
  BY <1>1
<1> HIDE DEF no, none, p
<1>6. /\ port \in [dr : BOOLEAN, rbr : Items, ier : BOOLEAN] /\ port.rbr = NoItem /\ port.dr = no
  BY <1>2, <1>4, <1>5
<1>7. program \in [todo : Seq(Written \cup {MSR}), sends : 0..MaxSends, handler : BOOLEAN]
  BY <1>1, <1>2
<1>8. ConnFits(Unused) /\ Unused \in ConnState(Written)
  BY UnusedFits DEF ConnFits
<1>9. /\ conns \in [Conns -> ConnState(Written)] /\ heard \in [Conns -> Seq(1..MaxData)]
      /\ typed \in [Conns -> Seq(Written \cup {"OK"})]
      /\ \A c \in Conns : conns[c] = Unused /\ heard[c] = none
  BY <1>1, <1>2, <1>8
<1>10. TypeOK
  BY <1>1, <1>3, <1>6, <1>7, <1>9 DEF TypeOK, Fits
<1>11. LineInv
  BY <1>1, <1>2, <1>3, <1>4, <1>6, <1>8, <1>9, <1>10 DEF LineInv
<1>12. ASSUME NEW c \in Conns PROVE InOrder(c)
  <2>1. Arrived(c) = none \o BytesOf(c, none) \o BytesOf(c, none)
    BY <1>1, <1>2, <1>3, <1>6, <1>9 DEF Arrived
  <2>2. BytesOf(c, none) = none /\ none \in Seq(Nat) /\ none \o none = none
    BY <1>2, BytesFound
  <2>3. Arrived(c) = none
    BY <2>1, <2>2
  <2>4. Len(none) = 0 /\ Numbers(0) = none
    BY <1>2 DEF Numbers
  <2>5. conns[c].sent = 0 /\ modem.transport # c
    BY <1>1, <1>3, <1>9, ConnsAre DEF Unused
  <2> QED BY <2>3, <2>4, <2>5 DEF InOrder
<1> QED BY <1>11, <1>12

\* Every variable keeps its type: in particular no byte is latched, queued or
\* counted that is not a byte of a connection.
THEOREM TypeCorrect == Spec => []TypeOK
<1>1. Init => LineInv
  BY InitIs
<1>2. LineInv /\ [Next]_vars => LineInv'
  BY NextIs
<1>3. LineInv => TypeOK
  BY DEF LineInv
<1> QED BY <1>1, <1>2, <1>3, PTL DEF Spec

\* What has reached the modem of a connection is an unbroken beginning of what
\* its peer has sent, and with what is still on its way it is all of it while
\* the modem holds the connection.
LEMMA OrderIsIntact ==
  ASSUME LineInv, \A c \in Conns : InOrder(c)
  PROVE  StreamIntact
<1> SUFFICES ASSUME NEW c \in Conns
             PROVE  /\ IsPrefix(Arrived(c), Numbers(conns[c].sent))
                    /\ modem.transport = c =>
                         Arrived(c) \o conns[c].incoming \o conns[c].chunk \o conns[c].network
                           = Numbers(conns[c].sent)
  BY DEF StreamIntact, Numbers
<1> DEFINE a == Arrived(c)  i == conns[c].incoming  h == conns[c].chunk
           w == conns[c].network  n == conns[c].sent
<1>1. a \in Seq(Nat) /\ Len(a) \in Nat
  BY ArrivedTyped
<1>2. i \in Seq(Nat) /\ h \in Seq(Nat) /\ w \in Seq(Nat) /\ n \in Nat
  BY ComingTyped DEF LineInv
<1>3. a = Numbers(Len(a)) /\ Len(a) <= n /\ (modem.transport = c => a \o (i \o (h \o w)) = Numbers(n))
  BY DEF InOrder, Coming
<1> HIDE DEF a, i, h, w, n
<1>4. IsPrefix(a, Numbers(n))
  BY <1>1, <1>2, <1>3, NumbersPrefix
<1>5. ((a \o i) \o h) \o w = a \o (i \o (h \o w))
  <2>1. (a \o i) \in Seq(Nat) /\ (h \o w) \in Seq(Nat)
    BY <1>1, <1>2, Joins
  <2>2. ((a \o i) \o h) \o w = (a \o i) \o (h \o w)
    <3> DEFINE t == a \o i
    <3>1. t \in Seq(Nat)
      BY <2>1
    <3> HIDE DEF t
    <3>2. (t \o h) \o w = t \o (h \o w)
      BY <1>2, <3>1, Joins
    <3> QED BY <3>2 DEF t
  <2>3. (a \o i) \o (h \o w) = a \o (i \o (h \o w))
    <3> DEFINE t == h \o w
    <3>1. t \in Seq(Nat)
      BY <2>1
    <3> HIDE DEF t
    <3>2. (a \o i) \o t = a \o (i \o t)
      BY <1>1, <1>2, <3>1, Joins, ZenonT(60)
    <3> QED BY <3>2 DEF t
  <2> QED BY <2>2, <2>3
<1> QED BY <1>3, <1>4, <1>5 DEF a, i, h, w, n

\* Through two threads and three queues, resets, hang-ups and new connections,
\* a byte from a peer is neither lost nor doubled nor reordered.
THEOREM BytesInOrder == Spec => []StreamIntact
<1> DEFINE Ordered == \A c \in Conns : InOrder(c)
<1>1. Init => LineInv /\ Ordered
  BY InitIs
<1>2. LineInv /\ Ordered /\ [Next]_vars => LineInv' /\ Ordered'
  <2> SUFFICES ASSUME LineInv, Ordered, [Next]_vars PROVE LineInv' /\ Ordered'
    OBVIOUS
  <2>1. LineInv' /\ \A c \in Conns : Moves(c)
    BY NextIs
  <2>2. \A c \in Conns : InOrder(c)'
    BY <2>1, MovesOrder
  <2> QED BY <2>1, <2>2
<1>3. LineInv /\ Ordered => StreamIntact
  BY OrderIsIntact
<1> HIDE DEF Ordered
<1> QED BY <1>1, <1>2, <1>3, PTL DEF Spec

-----------------------------------------------------------------------------
(* The characters due to the peer. *)

\* The members of t at the places S, in order.
Pick(S, t) == [n \in 1..Cardinality(S) |->
                 t[CHOOSE i \in S : Cardinality({j \in S : j <= i}) = n]]

Shown(t) == {i \in 1..Len(t) : t[i] # "OK" /\ ~Withheld(t, i)}

\* A place after those picked adds its member at the end.
LEMMA PickMore ==
  ASSUME NEW S \in SUBSET Nat, IsFiniteSet(S), NEW q \in Nat, \A i \in S : i < q, NEW t
  PROVE  Pick(S \cup {q}, t) = Append(Pick(S, t), t[q])
<1> DEFINE R == S \cup {q}  n == Cardinality(S)
           a == Pick(S, t)  V == {a[i] : i \in 1..n} \cup {t[q]}
<1>1. /\ IsFiniteSet(R) /\ Cardinality(R) = n + 1 /\ n \in Nat /\ q \notin S
      /\ Cardinality(S) = n
  BY FS_AddElement, FS_CardinalityType
<1>2. \A i \in S : {j \in R : j <= i} = {j \in S : j <= i}
  OBVIOUS
<1>3. \A i \in S : Cardinality({j \in S : j <= i}) \in Nat /\ Cardinality({j \in S : j <= i}) <= n
  <2> SUFFICES ASSUME NEW i \in S
               PROVE  Cardinality({j \in S : j <= i}) \in Nat /\ Cardinality({j \in S : j <= i}) <= n
    OBVIOUS
  <2> DEFINE low == {j \in S : j <= i}
  <2>1. IsFiniteSet(low) /\ Cardinality(low) <= n
    BY FS_Subset
  <2> HIDE DEF low
  <2>2. Cardinality(low) \in Nat
    BY <2>1, FS_CardinalityType
  <2> QED BY <2>1, <2>2 DEF low
<1>4. {j \in R : j <= q} = R
  <2>1. \A j \in R : j <= q
    OBVIOUS
  <2> HIDE DEF R
  <2> QED BY <2>1
<1> HIDE DEF n
<1>5. ASSUME NEW k \in 1..n
      PROVE  (CHOOSE i \in R : Cardinality({j \in R : j <= i}) = k)
               = (CHOOSE i \in S : Cardinality({j \in S : j <= i}) = k)
  <2>1. ASSUME NEW i
        PROVE  (i \in R /\ Cardinality({j \in R : j <= i}) = k)
                 <=> (i \in S /\ Cardinality({j \in S : j <= i}) = k)
    <3>1. CASE i \in S
      BY <1>2, <3>1
    <3>2. CASE i = q
      <4>1. Cardinality({j \in R : j <= i}) = n + 1
        BY <1>1, <1>4, <3>2
      <4>2. n + 1 # k
        BY <1>1
      <4> QED BY <1>1, <3>2, <4>1, <4>2
    <3>3. CASE i \notin R
      BY <3>3
    <3> QED BY <3>1, <3>2, <3>3
  <2> HIDE DEF R
  <2> QED BY <2>1, ZenonT(60)
<1>6. (CHOOSE i \in R : Cardinality({j \in R : j <= i}) = n + 1) = q
  <2>1. ASSUME NEW i \in R, Cardinality({j \in R : j <= i}) = n + 1 PROVE i = q
    <3>1. CASE i \in S
      <4>1. Cardinality({j \in S : j <= i}) = n + 1
        BY <1>2, <2>1, <3>1
      <4> QED BY <1>1, <1>3, <3>1, <4>1
    <3> QED BY <3>1
  <2>2. q \in R /\ Cardinality({j \in R : j <= q}) = n + 1
    BY <1>1, <1>4
  <2> HIDE DEF R
  <2> QED BY <2>1, <2>2
<1> DEFINE b == Pick(R, t)
<1>7. /\ a = [i \in 1..n |-> a[i]] /\ b = [i \in 1..(n + 1) |-> b[i]]
      /\ \A k \in 1..n : b[k] = a[k]
      /\ b[n + 1] = t[q]
  <2>1. a = [i \in 1..n |-> a[i]]
    BY <1>1 DEF Pick
  <2>2. b = [i \in 1..(n + 1) |-> b[i]]
    BY <1>1 DEF Pick
  <2>3. ASSUME NEW k \in 1..n PROVE b[k] = a[k]
    <3>1. k \in 1..(n + 1)
      BY <1>1
    <3>2. b[k] = t[CHOOSE i \in R : Cardinality({j \in R : j <= i}) = k]
      <4> HIDE DEF R
      <4> QED BY <1>1, <3>1 DEF Pick
    <3>3. a[k] = t[CHOOSE i \in S : Cardinality({j \in S : j <= i}) = k]
      BY <1>1 DEF Pick
    <3> HIDE DEF a, b, R
    <3> QED BY <1>5, <3>2, <3>3
  <2>4. b[n + 1] = t[q]
    <3>1. n + 1 \in 1..(n + 1)
      BY <1>1
    <3>2. b[n + 1] = t[CHOOSE i \in R : Cardinality({j \in R : j <= i}) = n + 1]
      <4> HIDE DEF R
      <4> QED BY <1>1, <3>1 DEF Pick
    <3> HIDE DEF b, R
    <3> QED BY <1>6, <3>2
  <2> QED BY <2>1, <2>2, <2>3, <2>4
<1> HIDE DEF a, b
<1>8. a \in Seq(V) /\ Len(a) = n /\ t[q] \in V /\ \A k \in 1..n : a[k] \in V
  <2>1. t[q] \in V /\ \A k \in 1..n : a[k] \in V
    OBVIOUS
  <2> HIDE DEF V
  <2>2. a \in [1..n -> V]
    BY <1>7, <2>1
  <2> QED BY <1>1, <2>1, <2>2
<1>9. b = Append(a, t[q])
  <2> DEFINE c == Append(a, t[q])
  <2>1. c \in Seq(V) /\ Len(c) = n + 1 /\ (\A k \in 1..n : c[k] = a[k]) /\ c[n + 1] = t[q]
    <3> HIDE DEF V
    <3> QED BY <1>1, <1>8
  <2>2. b \in Seq(V) /\ Len(b) = n + 1
    <3> HIDE DEF V
    <3>1. ASSUME NEW k \in 1..(n + 1) PROVE b[k] \in V
      <4>1. k \in 1..n \/ k = n + 1
        BY <1>1
      <4> QED BY <1>7, <1>8, <4>1
    <3>2. b \in [1..(n + 1) -> V]
      BY <1>7, <3>1
    <3> QED BY <1>1, <3>2
  <2> HIDE DEF c, V
  <2>3. ASSUME NEW k \in 1..(n + 1) PROVE c[k] = b[k]
    <3>1. k \in 1..n \/ k = n + 1
      BY <1>1
    <3> QED BY <1>7, <2>1, <3>1
  <2> QED BY <2>1, <2>2, <2>3, SeqEqual DEF c
<1> QED BY <1>9 DEF a, b, R

\* Among places there is one of each rank.
LEMMA RankMet ==
  ASSUME NEW S \in SUBSET Nat, IsFiniteSet(S), NEW n \in 1..Cardinality(S)
  PROVE  \E i \in S : Cardinality({j \in S : j <= i}) = n
<1> DEFINE low(i) == {j \in S : j <= i}
           D == 1..Cardinality(S)
           f == [i \in S |-> Cardinality(low(i))]
<1>1. Cardinality(S) \in Nat
  BY FS_CardinalityType
<1>2. IsFiniteSet(D) /\ Cardinality(D) = Cardinality(S)
  BY <1>1, FS_Interval
<1>3. ASSUME NEW i \in S
      PROVE  IsFiniteSet(low(i)) /\ Cardinality(low(i)) \in D /\ low(i) \in SUBSET S
  <2> DEFINE part == low(i)
  <2>1. part \in SUBSET S /\ i \in part
    OBVIOUS
  <2> HIDE DEF low, part
  <2>2. IsFiniteSet(part) /\ Cardinality(part) <= Cardinality(S)
    BY <2>1, FS_Subset
  <2>3. Cardinality(part) \in Nat /\ (Cardinality(part) = 0 <=> part = {})
    BY <2>2, FS_CardinalityType, FS_EmptySet
  <2>4. Cardinality(part) \in D
    BY <1>1, <2>1, <2>2, <2>3
  <2> QED BY <2>1, <2>2, <2>4 DEF part
<1>4. ASSUME NEW i \in S, NEW k \in S, i < k PROVE f[i] # f[k]
  <2> DEFINE less == low(i)  more == low(k)
  <2>0. \A j \in S : j \in Nat /\ (j <= i => j <= k)
    BY <1>4
  <2>1. less \in SUBSET more /\ k \in more /\ k \notin less
    <3>1. k \in more /\ k \notin less
      BY <1>4, <2>0
    <3>2. \A j \in less : j \in more
      BY <2>0
    <3> HIDE DEF less, more
    <3> QED BY <3>1, <3>2
  <2>2. IsFiniteSet(more) /\ f[i] = Cardinality(less) /\ f[k] = Cardinality(more)
    BY <1>3
  <2> HIDE DEF less, more, f
  <2>3. Cardinality(less) # Cardinality(more)
    BY <2>1, <2>2, FS_Subset
  <2> QED BY <2>2, <2>3
<1>5. f \in Injection(S, D)
  <2>1. f \in [S -> D]
    BY <1>3
  <2>2. ASSUME NEW i \in S, NEW k \in S, f[i] = f[k] PROVE i = k
    <3>1. ~(i < k) /\ ~(k < i)
      BY <1>4, <2>2
    <3> QED BY <3>1
  <2> HIDE DEF f
  <2>3. IsInjective(f)
    BY <2>1, <2>2 DEF IsInjective
  <2> QED BY <2>1, <2>3 DEF Injection
<1>6. f \in Surjection(S, D)
  <2> HIDE DEF f, D
  <2> QED BY <1>2, <1>5, FS_Injection
<1>7. \E i \in S : f[i] = n
  <2>1. n \in D
    OBVIOUS
  <2> HIDE DEF f, D
  <2> QED BY <1>6, <2>1 DEF Surjection
<1> QED BY <1>7

\* Only the members at the places matter.
LEMMA PickAgrees ==
  ASSUME NEW S \in SUBSET Nat, IsFiniteSet(S), NEW t, NEW u, \A i \in S : t[i] = u[i]
  PROVE  Pick(S, t) = Pick(S, u)
<1> DEFINE place(n) == CHOOSE i \in S : Cardinality({j \in S : j <= i}) = n
<1>1. ASSUME NEW n \in 1..Cardinality(S) PROVE t[place(n)] = u[place(n)]
  <2>1. \E i \in S : Cardinality({j \in S : j <= i}) = n
    BY RankMet
  <2>2. place(n) \in S
    BY <2>1
  <2> QED BY <2>2
<1>2. /\ Pick(S, t) = [n \in 1..Cardinality(S) |-> t[place(n)]]
      /\ Pick(S, u) = [n \in 1..Cardinality(S) |-> u[place(n)]]
  BY DEF Pick
<1> HIDE DEF place
<1> QED BY <1>1, <1>2

LEMMA DueIs ==
  ASSUME NEW t, Len(t) \in Nat
  PROVE  /\ Due(t) = Pick(Shown(t), t)
         /\ Shown(t) \in SUBSET Nat /\ IsFiniteSet(Shown(t))
         /\ \A i \in Shown(t) : i <= Len(t)
<1>1. Due(t) = Pick(Shown(t), t)
  BY DEF Due, Pick, Shown
<1>2. Shown(t) \in SUBSET (1..Len(t)) /\ IsFiniteSet(1..Len(t))
  BY FS_Interval DEF Shown
<1>3. IsFiniteSet(Shown(t))
  BY <1>2, FS_Subset
<1> QED BY <1>1, <1>2, <1>3

\* A plus at the end of t is withheld, and another one, or a confirmation,
\* after it changes nothing of that.
LEMMA WithheldStill ==
  ASSUME NEW T, NEW t \in Seq(T), NEW x \in {"+", "OK"}, x \in T, NEW i \in 1..Len(t)
  PROVE  Withheld(Append(t, x), i) <=> Withheld(t, i)
<1> DEFINE u == Append(t, x)  n == Len(t)
<1>1. /\ n \in Nat /\ Len(u) = n + 1 /\ u[n + 1] = x
      /\ \A k \in 1..n : u[k] = t[k]
  OBVIOUS
<1> SUFFICES Withheld(u, i) <=> Withheld(t, i)
  OBVIOUS
<1> HIDE DEF u
<1>2. ASSUME Withheld(u, i) PROVE Withheld(t, i)
  <2>1. PICK j \in i..(n + 1) : (\A k \in i..j : u[k] = "+") /\ (j < n + 1 => u[j + 1] = "OK")
    BY <1>1, <1>2 DEF Withheld
  <2>2. CASE j = n + 1
    <3>1. n \in i..n /\ \A k \in i..n : t[k] = "+"
      BY <1>1, <2>1, <2>2
    <3> QED BY <1>1, <3>1 DEF Withheld
  <2>3. CASE j # n + 1
    <3>1. j \in i..n /\ (\A k \in i..j : t[k] = "+") /\ (j < n => t[j + 1] = "OK")
      BY <1>1, <2>1, <2>3
    <3> QED BY <1>1, <3>1 DEF Withheld
  <2> QED BY <2>2, <2>3
<1>3. ASSUME Withheld(t, i) PROVE Withheld(u, i)
  <2>1. PICK j \in i..n : (\A k \in i..j : t[k] = "+") /\ (j < n => t[j + 1] = "OK")
    BY <1>3 DEF Withheld
  <2>2. \A k \in i..j : u[k] = "+"
    BY <1>1, <2>1
  <2>3. CASE j = n /\ x = "+"
    <3>1. n + 1 \in i..(n + 1) /\ \A k \in i..(n + 1) : u[k] = "+"
      BY <1>1, <2>2, <2>3
    <3> QED BY <1>1, <3>1 DEF Withheld
  <2>4. CASE j < n \/ x = "OK"
    <3>1. j \in i..(n + 1) /\ u[j + 1] = "OK"
      <4>1. CASE j < n
        BY <1>1, <2>1, <4>1
      <4>2. CASE j = n
        BY <1>1, <2>1, <2>4, <4>2
      <4> QED BY <1>1, <2>1, <4>1, <4>2
    <3> QED BY <1>1, <2>2, <3>1 DEF Withheld
  <2> QED BY <2>1, <2>3, <2>4
<1> QED BY <1>2, <1>3

\* So neither sends anything to the peer.
LEMMA NothingDue ==
  ASSUME NEW T, NEW t \in Seq(T), NEW x \in {"+", "OK"}, x \in T
  PROVE  Due(Append(t, x)) = Due(t)
<1> DEFINE u == Append(t, x)  n == Len(t)
<1>1. /\ n \in Nat /\ Len(u) = n + 1 /\ u[n + 1] = x
      /\ \A k \in 1..n : u[k] = t[k]
  OBVIOUS
<1>2. \A i \in 1..n : Withheld(u, i) <=> Withheld(t, i)
  BY WithheldStill
<1> SUFFICES Due(u) = Due(t)
  OBVIOUS
<1> HIDE DEF u
<1>3. x = "+" => Withheld(u, n + 1)
  <2>1. x = "+" => \A k \in (n + 1)..(n + 1) : u[k] = "+"
    BY <1>1
  <2>2. n + 1 \in (n + 1)..Len(u) /\ ~(n + 1 < Len(u))
    BY <1>1
  <2> QED BY <2>1, <2>2 DEF Withheld
<1>4. Shown(u) = Shown(t)
  <2>1. ASSUME NEW i PROVE i \in Shown(u) <=> i \in Shown(t)
    <3>1. CASE i \in 1..n
      BY <1>1, <1>2, <3>1 DEF Shown
    <3>2. CASE i = n + 1
      BY <1>1, <1>3, <3>2 DEF Shown
    <3>3. CASE i \notin 1..(n + 1)
      BY <1>1, <3>3 DEF Shown
    <3> QED BY <1>1, <3>1, <3>2, <3>3
  <2> QED BY <2>1
<1>5. \A i \in Shown(t) : u[i] = t[i]
  BY <1>1 DEF Shown
<1>6. Pick(Shown(t), u) = Pick(Shown(t), t)
  BY <1>1, <1>5, DueIs, PickAgrees
<1> QED BY <1>1, <1>4, <1>6, DueIs

\* t ends with n pluses, and no more.
Trails(t, n) ==
  /\ n \in 0..Len(t)
  /\ \A i \in 1..Len(t) : i > Len(t) - n => t[i] = "+"
  /\ n < Len(t) => t[Len(t) - n] # "+"

Pluses(n) == [i \in 1..n |-> "+"]

LEMMA TrailsOn ==
  ASSUME NEW T, NEW t \in Seq(T), NEW n, Trails(t, n)
  PROVE  /\ "+" \in T => Trails(Append(t, "+"), n + 1)
         /\ \A x \in T \ {"+"} : Trails(Append(t, x), 0)
<1> DEFINE l == Len(t)
<1>1. l \in Nat /\ n \in 0..l /\ (\A i \in 1..l : i > l - n => t[i] = "+") /\ (n < l => t[l - n] # "+")
  BY DEF Trails
<1>2. ASSUME NEW x \in T
      PROVE  /\ Len(Append(t, x)) = l + 1 /\ Append(t, x)[l + 1] = x
             /\ \A i \in 1..l : Append(t, x)[i] = t[i]
  OBVIOUS
<1>3. ASSUME "+" \in T PROVE Trails(Append(t, "+"), n + 1)
  <2> DEFINE u == Append(t, "+")
  <2>1. Len(u) = l + 1 /\ u[l + 1] = "+" /\ \A i \in 1..l : u[i] = t[i]
    BY <1>2, <1>3
  <2> HIDE DEF u, l
  <2>2. n + 1 \in 0..Len(u)
    BY <1>1, <2>1
  <2>3. ASSUME NEW i \in 1..Len(u), i > Len(u) - (n + 1) PROVE u[i] = "+"
    <3>1. i = l + 1 \/ (i \in 1..l /\ i > l - n)
      BY <1>1, <2>1, <2>3
    <3> QED BY <1>1, <2>1, <3>1
  <2>4. ASSUME n + 1 < Len(u) PROVE u[Len(u) - (n + 1)] # "+"
    <3>1. Len(u) - (n + 1) = l - n /\ l - n \in 1..l /\ n < l
      BY <1>1, <2>1, <2>4
    <3> QED BY <1>1, <2>1, <3>1
  <2>5. Trails(u, n + 1)
    BY <2>2, <2>3, <2>4 DEF Trails
  <2> QED BY <2>5 DEF u
<1>4. ASSUME NEW x \in T \ {"+"} PROVE Trails(Append(t, x), 0)
  <2> DEFINE u == Append(t, x)
  <2>1. Len(u) = l + 1 /\ u[l + 1] = x
    BY <1>2
  <2> HIDE DEF u, l
  <2>2. 0 \in 0..Len(u) /\ Len(u) - 0 = l + 1
    BY <1>1, <2>1
  <2>3. Trails(u, 0)
    BY <1>1, <2>1, <2>2 DEF Trails
  <2> QED BY <2>3 DEF u
<1> QED BY <1>3, <1>4

LEMMA NoneTrail == Trails(<<>>, 0)
<1> DEFINE none == <<>>
<1>1. Len(none) = 0
  OBVIOUS
<1> HIDE DEF none
<1>2. Trails(none, 0)
  BY <1>1 DEF Trails
<1> QED BY <1>2 DEF none

LEMMA PlusesAre ==
  ASSUME NEW T, "+" \in T, NEW n \in Nat
  PROVE  /\ Pluses(n) \in Seq(T) /\ Pluses(0) = <<>>
         /\ Pluses(n + 1) = Append(Pluses(n), "+")
<1> DEFINE p == Pluses(n)  q == Pluses(n + 1)  r == Append(p, "+")
<1>1. p \in [1..n -> T] /\ q \in [1..(n + 1) -> T]
  BY DEF Pluses
<1>2. (\A i \in 1..n : p[i] = "+") /\ (\A i \in 1..(n + 1) : q[i] = "+")
  BY DEF Pluses
<1>3. Pluses(0) = <<>>
  BY DEF Pluses
<1> HIDE DEF p, q
<1>4. p \in Seq(T) /\ q \in Seq(T) /\ Len(p) = n /\ Len(q) = n + 1
  BY <1>1
<1>5. r \in Seq(T) /\ Len(r) = n + 1 /\ r[n + 1] = "+" /\ \A i \in 1..n : r[i] = p[i]
  BY <1>4
<1> HIDE DEF r
<1>6. ASSUME NEW i \in 1..(n + 1) PROVE q[i] = r[i]
  <2>1. i \in 1..n \/ i = n + 1
    OBVIOUS
  <2> QED BY <1>2, <1>5, <2>1
<1>7. q = r
  BY <1>4, <1>5, <1>6, SeqEqual
<1> QED BY <1>3, <1>4, <1>7 DEF p, q, r

LEMMA DueTyped ==
  ASSUME NEW T, NEW t \in Seq(T)
  PROVE  Due(t) \in Seq(T)
<1> DEFINE places == Shown(t)  n == Cardinality(places)  d == Due(t)
<1>1. /\ d = Pick(places, t) /\ places \in SUBSET Nat /\ IsFiniteSet(places)
      /\ places \in SUBSET (1..Len(t))
  BY DueIs DEF Shown
<1>2. n \in Nat
  BY <1>1, FS_CardinalityType
<1> HIDE DEF d, places
<1>3. ASSUME NEW k \in 1..n PROVE d[k] \in T
  <2> DEFINE place == CHOOSE i \in places : Cardinality({j \in places : j <= i}) = k
  <2>1. \E i \in places : Cardinality({j \in places : j <= i}) = k
    BY <1>1, RankMet
  <2>2. place \in places
    BY <2>1
  <2>3. d[k] = t[place]
    BY <1>1 DEF Pick
  <2> HIDE DEF place
  <2> QED BY <1>1, <2>2, <2>3, ElementOfSeq
<1>4. d = [k \in 1..n |-> d[k]]
  BY <1>1 DEF Pick
<1>5. d \in [1..n -> T]
  BY <1>3, <1>4
<1> QED BY <1>2, <1>5 DEF d

\* A character that is no plus shows what has been withheld before it.
LEMMA ShownAfter ==
  ASSUME NEW T, NEW t \in Seq(T), NEW m, Trails(t, m), NEW x \in T \ {"+", "OK"}
  PROVE  /\ Shown(Append(t, x)) = Shown(t) \cup ((Len(t) - m + 1)..(Len(t) + 1))
         /\ \A i \in Shown(t) : i <= Len(t) - m
<1> DEFINE u == Append(t, x)  n == Len(t)  low == n - m
<1>1. /\ n \in Nat /\ Len(u) = n + 1 /\ u[n + 1] = x
      /\ \A k \in 1..n : u[k] = t[k]
  OBVIOUS
<1>2. /\ m \in 0..n /\ (\A i \in 1..n : i > n - m => t[i] = "+")
      /\ (m < n => t[n - m] # "+")
  BY DEF Trails
<1>3. low \in 0..n /\ (\A i \in 1..n : i > low => t[i] = "+") /\ (low > 0 => t[low] # "+")
  BY <1>1, <1>2
<1> SUFFICES Shown(u) = Shown(t) \cup ((low + 1)..(n + 1)) /\ \A i \in Shown(t) : i <= low
  OBVIOUS
<1> HIDE DEF u, low
<1>4. ASSUME NEW i \in 1..n, i > low PROVE Withheld(t, i) /\ ~Withheld(u, i) /\ u[i] # "OK"
  <2>1. n \in i..n /\ ~(n < n) /\ \A k \in i..n : t[k] = "+"
    BY <1>1, <1>3, <1>4
  <2>2. Withheld(t, i)
    BY <2>1 DEF Withheld
  <2>3. ASSUME NEW j \in i..(n + 1), \A k \in i..j : u[k] = "+", j < n + 1 => u[j + 1] = "OK"
        PROVE  FALSE
    <3>1. CASE j = n + 1
      <4>1. n + 1 \in i..j
        BY <1>1, <3>1
      <4> QED BY <1>1, <2>3, <4>1
    <3>2. CASE j = n
      BY <1>1, <2>3, <3>2
    <3>3. CASE j < n
      <4>1. j + 1 \in 1..n /\ j + 1 > low /\ j < n + 1
        BY <1>1, <1>3, <1>4, <3>3
      <4>2. u[j + 1] = "+" /\ u[j + 1] = "OK"
        BY <1>1, <1>3, <2>3, <4>1
      <4> QED BY <4>2
    <3> QED BY <1>1, <3>1, <3>2, <3>3
  <2>4. ~Withheld(u, i)
    BY <1>1, <2>3 DEF Withheld
  <2>5. u[i] = "+"
    BY <1>1, <1>3, <1>4
  <2> QED BY <2>2, <2>4, <2>5
<1>5. ASSUME NEW i \in 1..low PROVE Withheld(u, i) <=> Withheld(t, i)
  <2>0. i \in 1..n
    BY <1>1, <1>3
  <2>1. ASSUME NEW j \in i..(n + 1), \A k \in i..j : u[k] = "+" PROVE j < low
    <3>1. low \notin i..j
      <4>1. low \in 1..n /\ u[low] # "+"
        BY <1>1, <1>3
      <4> QED BY <2>1, <4>1
    <3> QED BY <1>1, <1>3, <3>1
  <2>2. ASSUME NEW j \in i..n, \A k \in i..j : t[k] = "+" PROVE j < low
    <3>1. low \notin i..j
      BY <1>3, <2>2
    <3> QED BY <1>1, <1>3, <3>1
  <2>3. ASSUME NEW j \in i..n, j < low
        PROVE  ((\A k \in i..j : u[k] = "+") /\ (j < n + 1 => u[j + 1] = "OK"))
                 <=> ((\A k \in i..j : t[k] = "+") /\ (j < n => t[j + 1] = "OK"))
    <3>1. j < n /\ j + 1 \in 1..n /\ j < n + 1 /\ \A k \in i..j : k \in 1..n
      BY <1>1, <1>3, <2>3
    <3>2. u[j + 1] = t[j + 1] /\ \A k \in i..j : u[k] = t[k]
      BY <1>1, <3>1
    <3> QED BY <3>1, <3>2
  <2>4. ASSUME Withheld(u, i) PROVE Withheld(t, i)
    <3>1. PICK j \in i..(n + 1) : (\A k \in i..j : u[k] = "+") /\ (j < n + 1 => u[j + 1] = "OK")
      BY <1>1, <2>4 DEF Withheld
    <3>2. j < low /\ j \in i..n
      BY <1>1, <1>3, <2>1, <3>1
    <3> QED BY <2>3, <3>1, <3>2 DEF Withheld
  <2>5. ASSUME Withheld(t, i) PROVE Withheld(u, i)
    <3>1. PICK j \in i..n : (\A k \in i..j : t[k] = "+") /\ (j < n => t[j + 1] = "OK")
      BY <2>5 DEF Withheld
    <3>2. j < low /\ j \in i..(n + 1)
      BY <1>1, <2>2, <3>1
    <3> QED BY <1>1, <2>3, <3>1, <3>2 DEF Withheld
  <2> QED BY <2>4, <2>5
<1>6. u[n + 1] # "OK" /\ ~Withheld(u, n + 1)
  <2>1. ASSUME NEW j \in (n + 1)..(n + 1), \A k \in (n + 1)..j : u[k] = "+" PROVE FALSE
    <3>1. n + 1 \in (n + 1)..j
      BY <1>1
    <3> QED BY <1>1, <2>1, <3>1
  <2> QED BY <1>1, <2>1 DEF Withheld
<1>7. ASSUME NEW i PROVE i \in Shown(u) <=> i \in Shown(t) \cup ((low + 1)..(n + 1))
  <2>1. CASE i \in 1..low
    <3>1. i \in 1..n /\ i \in 1..(n + 1) /\ i \notin (low + 1)..(n + 1) /\ u[i] = t[i]
      BY <1>1, <1>3, <2>1
    <3> QED BY <1>1, <1>5, <2>1, <3>1 DEF Shown
  <2>2. CASE i \in 1..n /\ i > low
    <3>1. i \in 1..(n + 1) /\ i \in (low + 1)..(n + 1)
      BY <1>1, <1>3, <2>2
    <3> QED BY <1>1, <1>4, <2>2, <3>1 DEF Shown
  <2>3. CASE i = n + 1
    <3>1. i \in 1..(n + 1) /\ i \in (low + 1)..(n + 1)
      BY <1>1, <1>3, <2>3
    <3> QED BY <1>1, <1>6, <2>3, <3>1 DEF Shown
  <2>4. CASE i \notin 1..(n + 1)
    <3>1. i \notin 1..n /\ i \notin (low + 1)..(n + 1)
      BY <1>1, <1>3, <2>4
    <3> QED BY <1>1, <2>4, <3>1 DEF Shown
  <2>5. i \in 1..low \/ (i \in 1..n /\ i > low) \/ i = n + 1 \/ i \notin 1..(n + 1)
    BY <1>1, <1>3
  <2> QED BY <2>1, <2>2, <2>3, <2>4, <2>5
<1>8. ASSUME NEW i \in Shown(t) PROVE i <= low
  <2>1. i \in 1..n /\ ~Withheld(t, i)
    BY DEF Shown
  <2> QED BY <1>3, <1>4, <2>1
<1> QED BY <1>7, <1>8

\* It sends them, and itself.
LEMMA AllDue ==
  ASSUME NEW T, "+" \in T, NEW t \in Seq(T), NEW m, Trails(t, m), NEW x \in T \ {"+", "OK"}
  PROVE  Due(Append(t, x)) = Due(t) \o (Pluses(m) \o <<x>>)
<1> DEFINE u == Append(t, x)  n == Len(t)  low == n - m  d == Due(t)
           Up(i) == Shown(t) \cup ((low + 1)..(low + i))
           Filled(i) == Pick(Up(i), u) = d \o Pluses(i)
<1>1. /\ n \in Nat /\ Len(u) = n + 1 /\ u[n + 1] = x
      /\ \A k \in 1..n : u[k] = t[k]
  OBVIOUS
<1>2. m \in 0..n /\ \A i \in 1..n : i > n - m => t[i] = "+"
  BY DEF Trails
<1>3. low \in Nat /\ low + m = n /\ m \in Nat
  BY <1>1, <1>2
<1>4. /\ d = Pick(Shown(t), t) /\ Shown(t) \in SUBSET Nat /\ IsFiniteSet(Shown(t))
      /\ d \in Seq(T)
  BY <1>1, DueIs, DueTyped
<1>5. /\ Due(u) = Pick(Shown(u), u)
      /\ Shown(u) = Shown(t) \cup ((low + 1)..(n + 1)) /\ \A i \in Shown(t) : i <= low
  <2>1. Shown(u) = Shown(t) \cup ((low + 1)..(n + 1)) /\ \A i \in Shown(t) : i <= low
    BY ShownAfter
  <2> HIDE DEF u
  <2>2. Due(u) = Pick(Shown(u), u)
    BY <1>1, DueIs
  <2> QED BY <2>1, <2>2
<1> SUFFICES Due(u) = d \o (Pluses(m) \o <<x>>)
  OBVIOUS
<1> HIDE DEF u, d, low, n
<1>6. ASSUME NEW i \in Nat
      PROVE  /\ Up(i) \in SUBSET Nat /\ IsFiniteSet(Up(i)) /\ \A j \in Up(i) : j < low + i + 1
             /\ Up(i + 1) = Up(i) \cup {low + i + 1}
  <2> DEFINE more == (low + 1)..(low + i)
  <2>1. IsFiniteSet(more) /\ more \in SUBSET Nat /\ \A j \in more : j < low + i + 1
    BY <1>3, FS_Interval
  <2>2. (low + 1)..(low + (i + 1)) = more \cup {low + i + 1}
    BY <1>3
  <2>3. \A j \in Shown(t) : j < low + i + 1
    BY <1>3, <1>4, <1>5
  <2> HIDE DEF more
  <2>4. IsFiniteSet(Shown(t) \cup more)
    BY <1>4, <2>1, FS_Union
  <2> QED BY <1>4, <2>1, <2>2, <2>3, <2>4 DEF more
<1>7. Filled(0)
  <2>1. Up(0) = Shown(t)
    BY <1>3
  <2>2. \A i \in Shown(t) : u[i] = t[i]
    BY <1>1 DEF Shown, n
  <2>3. Pick(Shown(t), u) = d
    BY <1>4, <2>2, PickAgrees
  <2>4. d \o Pluses(0) = d
    BY <1>4, PlusesAre, ConcatEmptySeq
  <2> QED BY <2>1, <2>3, <2>4
<1>8. ASSUME NEW i \in Nat, i + 1 <= m, Filled(i) PROVE Filled(i + 1)
  <2>1. i \in Nat /\ Pick(Up(i), u) = d \o Pluses(i) /\ i + 1 <= m
    BY <1>8
  <2>2. low + i + 1 \in Nat /\ u[low + i + 1] = "+"
    <3>1. low + i + 1 \in 1..n /\ low + i + 1 > n - m
      BY <1>3, <2>1
    <3> QED BY <1>1, <1>2, <3>1
  <2>3. Pick(Up(i + 1), u) = Append(Pick(Up(i), u), u[low + i + 1])
    <3> DEFINE S == Up(i)  q == low + i + 1
    <3>1. S \in SUBSET Nat /\ IsFiniteSet(S) /\ (\A j \in S : j < q) /\ Up(i + 1) = S \cup {q}
      BY <1>6, <2>1
    <3>2. q \in Nat
      BY <2>2
    <3> HIDE DEF S, q, Up
    <3>3. Pick(S \cup {q}, u) = Append(Pick(S, u), u[q])
      BY <3>1, <3>2, PickMore
    <3> QED BY <3>1, <3>3 DEF S, q
  <2>4. Pluses(i) \in Seq(T) /\ Pluses(i + 1) = Append(Pluses(i), "+")
    BY <2>1, PlusesAre
  <2>5. Append(d \o Pluses(i), "+") = d \o Append(Pluses(i), "+")
    <3> DEFINE p == Pluses(i)  y == "+"
    <3>1. d \in Seq(T) /\ p \in Seq(T) /\ y \in T
      BY <1>4, <2>4
    <3> HIDE DEF p, y
    <3>2. d \o Append(p, y) = Append(d \o p, y)
      BY <3>1, AppendToBoth
    <3> QED BY <3>2 DEF p, y
  <2> QED BY <2>1, <2>2, <2>3, <2>4, <2>5
<1>9. Pick(Up(m), u) = d \o Pluses(m)
  <2> DEFINE P == {i \in Nat : i <= m => Filled(i)}
  <2> HIDE DEF Filled
  <2>1. 0 \in P /\ \A i \in P : i + 1 \in P
    <3>1. \A i \in Nat : i + 1 <= m => i <= m
      BY <1>3
    <3> QED BY <1>7, <1>8, <3>1
  <2>2. P = Nat
    <3> HIDE DEF P
    <3> QED BY <2>1, Induction DEF P
  <2>3. Filled(m)
    BY <1>3, <2>2
  <2> QED BY <2>3 DEF Filled
<1>10. Shown(u) = Up(m) \cup {n + 1} /\ Up(m) \in SUBSET Nat /\ IsFiniteSet(Up(m))
       /\ \A j \in Up(m) : j < n + 1
  <2>1. (low + 1)..(n + 1) = ((low + 1)..(low + m)) \cup {n + 1} /\ low + m + 1 = n + 1
    BY <1>3
  <2>2. /\ Up(m) \in SUBSET Nat /\ IsFiniteSet(Up(m)) /\ \A j \in Up(m) : j < low + m + 1
    BY <1>3, <1>6
  <2>3. Shown(u) = Up(m) \cup {n + 1}
    BY <1>5, <2>1
  <2> HIDE DEF Up
  <2> QED BY <2>1, <2>2, <2>3
<1> HIDE DEF Up
<1>11. Pick(Shown(u), u) = Append(d \o Pluses(m), x)
  <2>1. n + 1 \in Nat
    BY <1>1
  <2>2. Pick(Up(m) \cup {n + 1}, u) = Append(Pick(Up(m), u), u[n + 1])
    <3> DEFINE S == Up(m)  q == n + 1
    <3>1. S \in SUBSET Nat /\ IsFiniteSet(S) /\ (\A j \in S : j < q) /\ q \in Nat
      BY <1>10, <2>1
    <3> HIDE DEF S, q
    <3>2. Pick(S \cup {q}, u) = Append(Pick(S, u), u[q])
      BY <3>1, PickMore
    <3> QED BY <3>2 DEF S, q
  <2> QED BY <1>1, <1>9, <1>10, <2>2
<1>12. Pluses(m) \in Seq(T) /\ x \in T
  BY <1>3, PlusesAre
<1> DEFINE p == Pluses(m)
<1> HIDE DEF p
<1>13. Append(d \o p, x) = d \o Append(p, x) /\ Append(p, x) = p \o <<x>>
  <2>1. p \in Seq(T) /\ d \in Seq(T)
    BY <1>4, <1>12 DEF p
  <2>2. d \o Append(p, x) = Append(d \o p, x)
    BY <1>12, <2>1, AppendToBoth
  <2>3. Append(p, x) = p \o <<x>>
    BY <1>12, <2>1, AppendIsConcat
  <2> QED BY <2>2, <2>3
<1> QED BY <1>5, <1>11, <1>13 DEF p

-----------------------------------------------------------------------------
(* What has been typed to a connection and what its peer gets. *)

\* Connection k has been typed t: nothing before it was made; its peer gets
\* what is due as long as it is there; an escape took three pluses.
Served(t, k) ==
  /\ k.connected \/ (t = <<>> /\ k.received = <<>> /\ k.outgoing = <<>>)
  /\ k.bridge \in {"unused", "connecting"} => ~k.connected
  /\ k.bridge \in {"connecting", "writing"} /\ k.peerOpen =>
       k.received \o k.outgoing = Due(t)
  /\ \A i \in 1..Len(t) : t[i] = "OK" => i > 3 /\ \A j \in 1..3 : t[i - j] = "+"

\* Nothing of that differs between k and n.
AsServed(k, n) ==
  /\ n.connected = k.connected /\ n.received = k.received /\ n.outgoing = k.outgoing
  /\ n.bridge = k.bridge /\ n.peerOpen = k.peerOpen

LEMMA ServedStill ==
  ASSUME NEW t, NEW k, NEW n, Served(t, k), AsServed(k, n)
  PROVE  Served(t, n)
BY DEF Served, AsServed

LEMMA UnusedServed == Served(<<>>, Unused) /\ Served(<<>>, Dialled)
<1> DEFINE none == <<>>  b == "connecting"
<1>1. /\ Unused.received = none /\ Unused.outgoing = none /\ ~Unused.connected /\ ~Unused.peerOpen
      /\ Unused.bridge = "unused" /\ none = <<>> /\ Len(none) = 0
  BY DEF Unused
<1>2. /\ Dialled.received = none /\ Dialled.outgoing = none /\ ~Dialled.connected /\ ~Dialled.peerOpen
      /\ Dialled.bridge = "connecting"
  BY DEF Dialled, Unused
<1> HIDE DEF none
<1>3. Served(none, Unused) /\ Served(none, Dialled)
  BY <1>1, <1>2 DEF Served
<1> QED BY <1>3 DEF none

\* Before a connection is made nothing is due to it.
LEMMA NoneDue == Due(<<>>) = <<>>
<1> DEFINE none == <<>>
<1>1. Len(none) = 0 /\ none \in Seq({})
  OBVIOUS
<1> HIDE DEF none
<1>2. Due(none) \in Seq({})
  BY <1>1, DueTyped
<1>3. \A s \in Seq({}) : s = <<>>
  OBVIOUS
<1> QED BY <1>2, <1>3 DEF none

\* The first of a queue, moved to the end of another.
LEMMA HeadMoves ==
  ASSUME NEW T, NEW r \in Seq(T), NEW o \in Seq(T), o # <<>>
  PROVE  Append(r, Head(o)) \o Tail(o) = r \o o
<1> DEFINE x == Head(o)  w == Tail(o)  one == <<x>>
<1>1. x \in T /\ w \in Seq(T)
  OBVIOUS
<1>2. o = one \o w
  OBVIOUS
<1>3. one \in Seq(T)
  BY <1>1
<1> HIDE DEF x, w
<1>4. Append(r, x) = r \o one
  BY <1>1, AppendIsConcat
<1> HIDE DEF one
<1>5. (r \o one) \o w = r \o (one \o w)
  BY <1>1, <1>3, ConcatAssociative
<1> QED BY <1>2, <1>4, <1>5 DEF x, w

\* The guard and the modem's looks do not touch what is served.
LEMMA ObjectServes ==
  ASSUME NEW k, ConnFits(k), NEW event
  PROVE  /\ AsServed(k, StartGuard(k)) /\ AsServed(k, CancelGuard(k))
         /\ AsServed(k, AfterPoll(k)) /\ AsServed(k, AfterEvent(k, event))
<1>1. k \in ConnState(Written)
  BY DEF ConnFits
<1>2. \A v : AsServed(k, [k EXCEPT !.clock = v])
  BY <1>1 DEF ConnState, AsServed
<1>3. \A v : AsServed(k, [k EXCEPT !.incoming = v])
  BY <1>1 DEF ConnState, AsServed
<1>4. \A v : AsServed(k, [k EXCEPT !.connectDelivered = v])
  BY <1>1 DEF ConnState, AsServed
<1>5. AsServed(k, k)
  BY DEF AsServed
<1>6. AsServed(k, AfterEvent(k, event))
  <2> DEFINE yes == TRUE
  <2>1. AfterEvent(k, event) \in {k, [k EXCEPT !.connectDelivered = yes]}
    BY DEF AfterEvent
  <2> HIDE DEF yes
  <2> QED BY <1>4, <1>5, <2>1
<1>7. AsServed(k, AfterPoll(k))
  <2> DEFINE none == <<>>
  <2>1. AfterPoll(k) = [k EXCEPT !.incoming = none]
    BY DEF AfterPoll
  <2> HIDE DEF none
  <2> QED BY <1>3, <2>1
<1> QED BY <1>2, <1>6, <1>7 DEF StartGuard, CancelGuard

LEMMA ConnectServes ==
  ASSUME NEW t, NEW k, ConnFits(k), Served(t, k), NEW n \in Connect(k)
  PROVE  Served(t, n) /\ (k.connected => n.connected)
<1> DEFINE yes == TRUE
           w == [k EXCEPT !.bridge = "writing", !.reader = "reading", !.done = yes,
                          !.connected = yes, !.peerOpen = yes]
           e == [k EXCEPT !.bridge = "ended", !.done = yes]
<1>1. k.bridge = "connecting" /\ (n = w \/ n = e) /\ yes = TRUE
  BY DEF Connect
<1>2. k \in ConnState(Written)
  BY DEF ConnFits
<1> HIDE DEF yes
<1>3. /\ w.bridge = "writing" /\ w.connected = yes
      /\ w.received = k.received /\ w.outgoing = k.outgoing
  BY <1>2 DEF ConnState
<1>4. /\ e.bridge = "ended" /\ e.connected = k.connected
      /\ e.received = k.received /\ e.outgoing = k.outgoing
  BY <1>2 DEF ConnState
<1>5. t = <<>> /\ k.received = <<>> /\ k.outgoing = <<>>
  BY <1>1 DEF Served
<1>6. k.received \o k.outgoing = Due(t)
  <2>1. k.received \o k.outgoing = <<>>
    BY <1>5
  <2> QED BY <1>5, <2>1, NoneDue
<1> HIDE DEF w, e
<1>7. Served(t, w)
  BY <1>1, <1>3, <1>6 DEF Served
<1>8. Served(t, e)
  BY <1>4 DEF Served
<1>9. ~k.connected
  BY <1>1 DEF Served
<1> QED BY <1>1, <1>7, <1>8, <1>9

LEMMA ReaderServes ==
  ASSUME NEW t, NEW k, ConnFits(k), Served(t, k),
         NEW n \in Read(k) \cup Extend(k) \cup ReadEnds(k) \cup PeerSends(k) \cup ClockElapses(k)
  PROVE  Served(t, n) /\ (k.connected => n.connected)
<1>1. k \in ConnState(Written)
  BY DEF ConnFits
<1>2. AsServed(k, n)
  <2>1. CASE n \in Read(k)
    <3> DEFINE none == <<>>
               w == [k EXCEPT !.reader = "extending", !.chunk = k.network, !.network = none]
    <3>1. n = w
      BY <2>1 DEF Read
    <3> HIDE DEF none
    <3> QED BY <1>1, <3>1 DEF ConnState, AsServed
  <2>2. CASE n \in Extend(k)
    <3> DEFINE none == <<>>  in == k.incoming \o k.chunk
               w == [k EXCEPT !.reader = "reading", !.incoming = in, !.chunk = none]
    <3>1. n = w
      BY <2>2 DEF Extend
    <3> HIDE DEF none, in
    <3> QED BY <1>1, <3>1 DEF ConnState, AsServed
  <2>3. CASE n \in ReadEnds(k)
    <3> DEFINE yes == TRUE
    <3>1. n = [k EXCEPT !.reader = "ended", !.disconnected = yes]
      BY <2>3 DEF ReadEnds
    <3> HIDE DEF yes
    <3> QED BY <1>1, <3>1 DEF ConnState, AsServed
  <2>4. CASE n \in PeerSends(k)
    <3> DEFINE sent == k.sent + 1  net == Append(k.network, sent)
    <3>1. n = [k EXCEPT !.sent = sent, !.network = net]
      BY <2>4 DEF PeerSends
    <3> HIDE DEF sent, net
    <3> QED BY <1>1, <3>1 DEF ConnState, AsServed
  <2>5. CASE n \in ClockElapses(k)
    <3>1. n = [k EXCEPT !.clock = "elapsed"]
      BY <2>5 DEF ClockElapses
    <3> QED BY <1>1, <3>1 DEF ConnState, AsServed
  <2> QED BY <2>1, <2>2, <2>3, <2>4, <2>5
<1> QED BY <1>2, ServedStill DEF AsServed

\* The thread hands the first character on, or the peer is gone.
LEMMA WriterServes ==
  ASSUME NEW t, NEW k, ConnFits(k), Served(t, k), NEW dropped,
         NEW n \in Write(k) \cup WriteEnds(k, dropped) \cup PeerCloses(k)
  PROVE  Served(t, n) /\ (k.connected => n.connected)
<1>1. /\ k \in ConnState(Written) /\ k.outgoing \in Seq(Written) /\ k.received \in Seq(Written)
  BY DEF ConnFits, ConnState
<1>2. CASE n \in Write(k)
  <2> DEFINE tail == Tail(k.outgoing)  none == <<>>  yes == TRUE
             more == Append(k.received, Head(k.outgoing))
             a == [k EXCEPT !.outgoing = tail]
             b == [k EXCEPT !.outgoing = tail, !.received = more]
             c == [k EXCEPT !.outgoing = none, !.bridge = "ended", !.shut = yes]
  <2>1. k.bridge = "writing" /\ k.outgoing # <<>>
    BY <1>2 DEF Write
  <2>2. (k.peerOpen /\ n = b) \/ (~k.peerOpen /\ (n = a \/ n = c))
    <3> DEFINE next == [k EXCEPT !.outgoing = tail]
    <3>1. /\ [next EXCEPT !.received = Append(@, Head(k.outgoing))] = b
          /\ [next EXCEPT !.bridge = "ended", !.shut = TRUE, !.outgoing = <<>>] = c
          /\ next = a
      BY <1>1 DEF ConnState
    <3> HIDE DEF a, b, c
    <3>2. n \in (IF k.peerOpen THEN {[next EXCEPT !.received = Append(@, Head(k.outgoing))]}
                 ELSE {next, [next EXCEPT !.bridge = "ended", !.shut = TRUE, !.outgoing = <<>>]})
      BY <1>2, <2>1 DEF Write
    <3> QED BY <3>1, <3>2
  <2>3. k.connected
    BY <2>1 DEF Served
  <2>4. more \o tail = k.received \o k.outgoing
    BY <1>1, <2>1, HeadMoves
  <2> HIDE DEF tail, more, none, yes
  <2>5. /\ a.connected = k.connected /\ a.bridge = k.bridge /\ a.peerOpen = k.peerOpen
        /\ b.connected = k.connected /\ b.bridge = k.bridge /\ b.peerOpen = k.peerOpen
        /\ b.received = more /\ b.outgoing = tail
        /\ c.connected = k.connected /\ c.bridge = "ended"
    BY <1>1 DEF ConnState
  <2> HIDE DEF a, b, c
  <2>6. ~k.peerOpen => Served(t, a)
    BY <2>1, <2>3, <2>5 DEF Served
  <2>7. k.peerOpen => Served(t, b)
    BY <2>1, <2>3, <2>4, <2>5 DEF Served
  <2>8. Served(t, c)
    BY <2>3, <2>5 DEF Served
  <2> QED BY <2>2, <2>5, <2>6, <2>7, <2>8
<1>3. CASE n \in WriteEnds(k, dropped)
  <2> DEFINE yes == TRUE
             w == [k EXCEPT !.bridge = "ended", !.shut = yes]
  <2>1. n = w
    BY <1>3 DEF WriteEnds
  <2> HIDE DEF yes
  <2>2. /\ w.connected = k.connected /\ w.bridge = "ended"
        /\ w.received = k.received /\ w.outgoing = k.outgoing
    BY <1>1 DEF ConnState
  <2> HIDE DEF w
  <2> QED BY <2>1, <2>2 DEF Served
<1>4. CASE n \in PeerCloses(k)
  <2> DEFINE no == FALSE
             w == [k EXCEPT !.peerOpen = no]
  <2>1. n = w /\ no = FALSE
    BY <1>4 DEF PeerCloses
  <2> HIDE DEF no
  <2>2. /\ w.connected = k.connected /\ w.bridge = k.bridge /\ w.peerOpen = no
        /\ w.received = k.received /\ w.outgoing = k.outgoing
    BY <1>1 DEF ConnState
  <2> HIDE DEF w
  <2> QED BY <2>1, <2>2 DEF Served
<1> QED BY <1>2, <1>3, <1>4

\* Characters typed on a connection that is made.
Typed == Written \cup {"OK"}

\* A plus is held back.
LEMMA PlusServed ==
  ASSUME NEW t \in Seq(Typed), NEW k, Served(t, k), k.connected
  PROVE  Served(Append(t, "+"), k)
<1> DEFINE u == Append(t, "+")
<1>1. "+" \in Typed
  BY DEF Typed, Written, Chars
<1>2. Due(u) = Due(t)
  BY <1>1, NothingDue
<1>3. Len(t) \in Nat /\ Len(u) = Len(t) + 1 /\ u[Len(t) + 1] = "+" /\ \A i \in 1..Len(t) : u[i] = t[i]
  BY <1>1
<1> HIDE DEF u
<1>4. ASSUME NEW i \in 1..Len(u), u[i] = "OK" PROVE i > 3 /\ \A j \in 1..3 : u[i - j] = "+"
  <2>1. i \in 1..Len(t) /\ t[i] = "OK"
    BY <1>3, <1>4
  <2>2. i > 3 /\ \A j \in 1..3 : t[i - j] = "+"
    BY <2>1 DEF Served
  <2> QED BY <1>3, <2>1, <2>2
<1>5. Served(u, k)
  BY <1>2, <1>4 DEF Served
<1> QED BY <1>5 DEF u

\* Another character is sent, after the pluses.
LEMMA CharServed ==
  ASSUME NEW t \in Seq(Typed), NEW k, ConnFits(k), Served(t, k), k.connected,
         NEW n, Trails(t, n), NEW ch \in Written \ {"+"}
  PROVE  Served(Append(t, ch), SendBytes(k, Pluses(n) \o <<ch>>))
<1> DEFINE v == Append(t, ch)  bytes == Pluses(n) \o <<ch>>  out == k.outgoing \o bytes
           w == [k EXCEPT !.outgoing = out]
           r == SendBytes(k, bytes)
<1>1. ch \in Typed \ {"+", "OK"} /\ "+" \in Typed /\ "+" \in Written
  BY DEF Typed, Written, Chars, Digits, CR, BS
<1>2. Due(v) = Due(t) \o bytes
  BY <1>1, AllDue
<1>3. Len(t) \in Nat /\ Len(v) = Len(t) + 1 /\ v[Len(t) + 1] = ch /\ \A i \in 1..Len(t) : v[i] = t[i]
  BY <1>1
<1>4. k \in ConnState(Written) /\ k.received \in Seq(Written) /\ k.outgoing \in Seq(Written)
  BY DEF ConnFits, ConnState
<1>5. bytes \in Seq(Written)
  <2> DEFINE p == Pluses(n)  one == <<ch>>
  <2>1. n \in Nat
    BY <1>3 DEF Trails
  <2>2. p \in Seq(Written) /\ one \in Seq(Written)
    BY <1>1, <2>1, PlusesAre
  <2> HIDE DEF p, one
  <2>3. p \o one \in Seq(Written)
    BY <2>2
  <2> QED BY <2>3 DEF p, one
<1> SUFFICES Served(v, r)
  OBVIOUS
<1>6. r = IF k.bridge = "ended" THEN k ELSE w
  BY DEF SendBytes
<1> HIDE DEF v, bytes, r
<1>7. ASSUME NEW i \in 1..Len(v), v[i] = "OK" PROVE i > 3 /\ \A j \in 1..3 : v[i - j] = "+"
  <2>1. i \in 1..Len(t) /\ t[i] = "OK"
    BY <1>1, <1>3, <1>7
  <2>2. i > 3 /\ \A j \in 1..3 : t[i - j] = "+"
    BY <2>1 DEF Served
  <2> QED BY <1>3, <2>1, <2>2
<1>8. k.received \o out = (k.received \o k.outgoing) \o bytes
  <2> DEFINE a == k.received  b == k.outgoing
  <2>1. a \in Seq(Written) /\ b \in Seq(Written)
    BY <1>4
  <2> HIDE DEF a, b
  <2>2. (a \o b) \o bytes = a \o (b \o bytes)
    BY <1>5, <2>1, ConcatAssociative
  <2> QED BY <2>2 DEF a, b
<1> HIDE DEF out
<1>9. /\ w.connected = k.connected /\ w.bridge = k.bridge /\ w.peerOpen = k.peerOpen
      /\ w.received = k.received /\ w.outgoing = out
  BY <1>4 DEF ConnState
<1> HIDE DEF w
<1>10. CASE k.bridge = "ended"
  BY <1>6, <1>7, <1>10 DEF Served
<1>11. CASE k.bridge # "ended"
  <2>1. k.bridge \in {"connecting", "writing"} /\ k.peerOpen => k.received \o out = Due(v)
    BY <1>2, <1>8 DEF Served
  <2> QED BY <1>6, <1>7, <1>9, <1>11, <2>1 DEF Served
<1> QED BY <1>10, <1>11

\* An escape is confirmed after three pluses.
LEMMA EscapeServed ==
  ASSUME NEW t \in Seq(Typed), NEW k, Served(t, k), k.connected, NEW n, Trails(t, n), n >= 3
  PROVE  Served(Append(t, "OK"), k)
<1> DEFINE u == Append(t, "OK")
<1>1. "OK" \in Typed
  BY DEF Typed
<1>2. Due(u) = Due(t)
  BY <1>1, NothingDue
<1>3. Len(t) \in Nat /\ Len(u) = Len(t) + 1 /\ \A i \in 1..Len(t) : u[i] = t[i]
  BY <1>1
<1>4. n \in 0..Len(t) /\ \A i \in 1..Len(t) : i > Len(t) - n => t[i] = "+"
  BY DEF Trails
<1> HIDE DEF u
<1>5. ASSUME NEW i \in 1..Len(u), u[i] = "OK" PROVE i > 3 /\ \A j \in 1..3 : u[i - j] = "+"
  <2>1. CASE i \in 1..Len(t)
    <3>1. i > 3 /\ \A j \in 1..3 : t[i - j] = "+"
      BY <1>3, <1>5, <2>1 DEF Served
    <3> QED BY <1>3, <2>1, <3>1
  <2>2. CASE i = Len(t) + 1
    <3>1. \A j \in 1..3 : i - j \in 1..Len(t) /\ i - j > Len(t) - n
      BY <1>3, <1>4, <2>2
    <3> QED BY <1>3, <1>4, <2>2, <3>1
  <2> QED BY <1>3, <2>1, <2>2
<1>6. Served(u, k)
  BY <1>2, <1>5 DEF Served
<1> QED BY <1>6 DEF u

\* Pluses are counted, and the guard runs, on a connection only; the guard
\* runs after three of them.
Settled(m) ==
  /\ m.state # "Connected" => m.escape = 0 /\ m.guard = NoGuard
  /\ m.guard # NoGuard => m.escape >= 3

\* A modem that sends characters on has a connection that is made, and counts
\* the pluses typed last.
TextInv ==
  /\ Settled(modem)
  /\ modem.state = "Connected" => modem.transport # NoConn /\ conns[modem.transport].connected
  /\ modem.transport # NoConn => Trails(typed[modem.transport], modem.escape)
  /\ \A c \in Conns : Served(typed[c], conns[c])

\* Another connection than the one the modem has is as it was, or new.
LEMMA BecomesText ==
  ASSUME LineInv, TextInv, NEW p, Fits(p), NEW k, Becomes(p, k), Settled(p),
         modem.transport # NoConn =>
           ConnFits(k) /\ k.bridge # "unused" /\ Served(typed'[modem.transport], k),
         \A c \in Conns : c # modem.transport => typed'[c] = typed[c],
         \/ p.transport \in {modem.transport, NoConn}
         \/ p.transport \in Conns /\ conns[p.transport].bridge = "unused" /\ p.escape = 0,
         p.state = "Connected" =>
           p.transport = modem.transport /\ p.transport # NoConn /\ k.connected,
         p.transport = modem.transport /\ p.transport # NoConn =>
           Trails(typed'[p.transport], p.escape)
  PROVE  TextInv'
<1>1. /\ modem' = p
      /\ \A c \in Conns :
           /\ c = modem.transport => conns'[c] = k
           /\ c # modem.transport /\ c = p.transport => conns'[c] = Dialled
           /\ c # modem.transport /\ c # p.transport => conns'[c] = conns[c]
  BY BecomesIs
<1>2. p.transport \in Conns \cup {NoConn} /\ NoConn \notin Conns
  BY ConnsAre DEF Fits, ModemState
<1>3. ASSUME NEW c \in Conns, c # modem.transport, c = p.transport
      PROVE  typed'[c] = <<>> /\ conns'[c] = Dialled /\ p.escape = 0
  <2>1. conns[c].bridge = "unused" /\ p.escape = 0
    BY <1>2, <1>3
  <2>2. conns[c] = Unused /\ Served(typed[c], conns[c])
    BY <2>1 DEF LineInv, ConnFits, TextInv
  <2>3. ~Unused.connected
    BY DEF Unused
  <2>4. typed[c] = <<>>
    BY <2>2, <2>3 DEF Served
  <2> QED BY <1>1, <1>3, <2>1, <2>4
<1>4. ASSUME NEW c \in Conns PROVE Served(typed'[c], conns'[c])
  <2>1. CASE c = modem.transport
    BY <1>1, <1>2, <2>1
  <2>2. CASE c # modem.transport /\ c = p.transport
    BY <1>3, <2>2, UnusedServed
  <2>3. CASE c # modem.transport /\ c # p.transport
    BY <1>1, <2>3 DEF TextInv
  <2> QED BY <2>1, <2>2, <2>3
<1>5. p.transport # NoConn => Trails(typed'[p.transport], p.escape)
  <2>1. CASE p.transport # NoConn /\ p.transport # modem.transport
    BY <1>2, <1>3, <2>1, NoneTrail
  <2> QED BY <2>1
<1>6. p.state = "Connected" => p.transport # NoConn /\ conns'[p.transport].connected
  BY <1>1, <1>2
<1> QED BY <1>1, <1>4, <1>5, <1>6 DEF TextInv

\* Nothing is typed and the modem keeps its count.
LEMMA TextStays ==
  ASSUME TextInv, UNCHANGED typed, modem' = modem,
         \A c \in Conns : /\ Served(typed[c], conns'[c])
                          /\ conns[c].connected => conns'[c].connected,
         modem.transport \in Conns \cup {NoConn}
  PROVE  TextInv'
BY DEF TextInv

\* What is typed to a connection is added at the end of it.
LEMMA TypedAfter ==
  ASSUME LineInv, modem.transport # NoConn, NEW x,
         typed' = [typed EXCEPT ![modem.transport] = Append(@, x)]
  PROVE  /\ modem.transport \in Conns /\ typed[modem.transport] \in Seq(Typed)
         /\ typed'[modem.transport] = Append(typed[modem.transport], x)
         /\ \A c \in Conns : c # modem.transport => typed'[c] = typed[c]
<1>1. typed \in [Conns -> Seq(Typed)] /\ modem.transport \in Conns
  BY TransportIs DEF LineInv, TypeOK, Typed
<1> QED BY <1>1

\* An escape is confirmed on the connection the modem has.
LEMMA ConfirmedText ==
  ASSUME LineInv, TextInv, modem.transport # NoConn, NEW k, k.connected,
         Served(typed[modem.transport], k), NEW n, n >= 3, Trails(typed[modem.transport], n),
         Confirms(TRUE)
  PROVE  /\ Served(typed'[modem.transport], k) /\ Trails(typed'[modem.transport], 0)
         /\ \A c \in Conns : c # modem.transport => typed'[c] = typed[c]
<1> DEFINE t == typed[modem.transport]  v == "OK"
<1>1. typed' = [typed EXCEPT ![modem.transport] = Append(@, v)]
  BY DEF Confirms
<1>2. /\ t \in Seq(Typed) /\ typed'[modem.transport] = Append(t, v)
      /\ \A c \in Conns : c # modem.transport => typed'[c] = typed[c]
  <2> HIDE DEF v
  <2> QED BY <1>1, TypedAfter
<1>3. v \in Typed \ {"+"}
  BY DEF Typed
<1>4. Served(t, k) /\ Trails(t, n)
  OBVIOUS
<1> HIDE DEF t
<1>5. Served(Append(t, v), k) /\ Trails(Append(t, v), 0)
  BY <1>2, <1>3, <1>4, EscapeServed, TrailsOn
<1> QED BY <1>2, <1>5

LEMMA ReadText ==
  ASSUME LineInv, TextInv, NEW m, Alike(modem, m), m.transport \in {modem.transport, NoConn},
         Settled(m), NEW k,
         modem.transport # NoConn =>
           ConnFits(k) /\ k.bridge # "unused" /\ Served(typed[modem.transport], k),
         m.state = "Connected" =>
           m.transport = modem.transport /\ m.transport # NoConn /\ k.connected,
         m.transport = modem.transport /\ m.transport # NoConn =>
           Trails(typed[m.transport], m.escape),
         DeviceRead(m, k)
  PROVE  TextInv'
<1> DEFINE r == AfterRead(m)  j == IF EscapeDue(m) THEN CancelGuard(k) ELSE k
<1>1. Becomes(r, j) /\ Confirms(EscapeDue(m))
  BY DEF DeviceRead
<1>2. /\ Fits(r) /\ r.transport = m.transport
      /\ EscapeDue(m) => r.state = "CommandMode" /\ r.guard = NoGuard /\ r.escape = 0
      /\ ~EscapeDue(m) => /\ r.state = m.state /\ r.escape = m.escape
                          /\ r.guard = NoGuard <=> m.guard = NoGuard
  BY AfterReadIs DEF Alike
<1> HIDE DEF r
<1>3. CASE EscapeDue(m)
  <2>1. m.guard # NoGuard
    BY <1>3 DEF EscapeDue
  <2>2. m.state = "Connected" /\ m.escape >= 3
    BY <2>1 DEF Settled
  <2> DEFINE g == CancelGuard(k)
  <2>3. modem.transport # NoConn /\ m.transport = modem.transport /\ k.connected
    BY <2>2
  <2>4. j = g /\ ConnFits(g) /\ g.bridge # "unused" /\ AsServed(k, g)
    BY <1>3, <2>3, GuardsAre, ObjectServes
  <2> HIDE DEF g, j
  <2>5. Served(typed[modem.transport], g) /\ g.connected
    BY <2>3, <2>4, ServedStill DEF AsServed
  <2>6. Confirms(TRUE)
    BY <1>1, <1>3 DEF Confirms
  <2>7. /\ Served(typed'[modem.transport], g) /\ Trails(typed'[modem.transport], 0)
        /\ \A c \in Conns : c # modem.transport => typed'[c] = typed[c]
    BY <2>2, <2>3, <2>5, <2>6, ConfirmedText
  <2>8. Settled(r) /\ r.state # "Connected" /\ r.escape = 0 /\ r.transport = modem.transport
    BY <1>2, <1>3, <2>3 DEF Settled
  <2> QED BY <1>1, <1>2, <2>4, <2>7, <2>8, BecomesText
<1>4. CASE ~EscapeDue(m)
  <2>1. UNCHANGED typed /\ j = k
    BY <1>1, <1>4 DEF Confirms
  <2>2. Settled(r) /\ r.state = m.state /\ r.escape = m.escape
    BY <1>2, <1>4 DEF Settled
  <2> HIDE DEF j
  <2> QED BY <1>1, <1>2, <2>1, <2>2, BecomesText
<1> QED BY <1>3, <1>4

LEMMA CompletesText ==
  ASSUME LineInv, TextInv, NEW kind \in {"lsr", "irq", "msr"},
         NEW m, Alike(modem, m), m.transport \in {modem.transport, NoConn},
         Settled(m), NEW k,
         modem.transport # NoConn =>
           ConnFits(k) /\ k.bridge # "unused" /\ Served(typed[modem.transport], k),
         m.state = "Connected" =>
           m.transport = modem.transport /\ m.transport # NoConn /\ k.connected,
         m.transport = modem.transport /\ m.transport # NoConn =>
           Trails(typed[m.transport], m.escape),
         Completes(kind, m, k)
  PROVE  TextInv'
<1>1. CASE kind = "lsr"
  <2>1. DeviceRead(m, k)
    BY <1>1 DEF Completes
  <2> QED BY <2>1, ReadText
<1>2. CASE kind = "irq"
  <2> DEFINE p == TakeIrqOf(m)
  <2>1. Becomes(p, k) /\ UNCHANGED typed
    BY <1>2 DEF Completes
  <2>2. Fits(p) /\ Kept(m, p)
    BY TakeIrqOfIs DEF Alike, Kept
  <2> HIDE DEF p
  <2>3. p.state = m.state /\ p.escape = m.escape /\ p.transport = m.transport /\ Settled(p)
    BY <2>2 DEF Kept, Settled
  <2> QED BY <2>1, <2>2, <2>3, BecomesText
<1>3. CASE kind = "msr"
  <2>1. Becomes(m, k) /\ UNCHANGED typed /\ Fits(m)
    BY <1>3 DEF Completes, Alike
  <2> QED BY <2>1, BecomesText
<1> QED BY <1>1, <1>2, <1>3

LEMMA AsksText ==
  ASSUME LineInv, TextInv, NEW kind \in {"lsr", "irq", "msr"}, Asks(kind)
  PROVE  TextInv'
<1>0. /\ Fits(modem) /\ Alike(modem, modem) /\ modem.transport \in Conns \cup {NoConn}
      /\ Settled(modem)
      /\ modem.state = "Connected" => modem.transport # NoConn /\ Transport.connected
      /\ modem.transport # NoConn => Trails(typed[modem.transport], modem.escape)
  BY TransportIs DEF LineInv, Alike, Fits, ModemState, TextInv
<1>1. CASE modem.transport = NoConn
  <2>1. Completes(kind, modem, Unused)
    BY <1>1 DEF Asks
  <2> QED BY <1>0, <1>1, <2>1, CompletesText
<1>2. CASE modem.transport # NoConn
  <2> DEFINE d == modem.transport
             in == [i \in 1..Len(Transport.incoming) |-> Byte(d, Transport.incoming[i])]
             p == Drained(modem, in)
             k == AfterPoll(Transport)
  <2>1. /\ d \in Conns /\ Transport = conns[d] /\ ConnFits(Transport)
        /\ Transport.bridge # "unused"
    BY <1>2, TransportIs
  <2>2. Transport.incoming \in Seq(1..MaxData)
    BY <2>1 DEF ConnFits, ConnState
  <2>3. UNCHANGED typed /\ (Becomes(p, k) \/ UNCHANGED <<modem, conns>>)
    BY <1>2 DEF Asks
  <2>4. /\ Fits(p) /\ p.state = modem.state /\ p.guard = modem.guard
        /\ p.escape = modem.escape /\ p.transport = modem.transport
    <3> DEFINE bytes == Transport.incoming
    <3>1. Fits(modem) /\ d \in Conns /\ bytes \in Seq(1..MaxData)
      BY <1>0, <2>1, <2>2
    <3> HIDE DEF bytes, d
    <3>2. LET i0 == [i \in 1..Len(bytes) |-> Byte(d, bytes[i])]
              q == Drained(modem, i0)
          IN /\ Fits(q) /\ q.state = modem.state /\ q.guard = modem.guard
             /\ q.escape = modem.escape /\ q.transport = modem.transport
      BY <3>1, DrainedIs
    <3> QED BY <3>2 DEF bytes
  <2>5. ConnFits(k) /\ k.bridge # "unused" /\ AsServed(Transport, k)
    BY <2>1, AfterPollIs, ObjectServes
  <2>6. Served(typed[modem.transport], Transport)
    BY <2>1 DEF TextInv
  <2> HIDE DEF d, in, p, k
  <2>7. CASE UNCHANGED <<modem, conns>>
    <3>1. UNCHANGED typed /\ modem' = modem /\ conns' = conns
      BY <2>3, <2>7
    <3> QED BY <1>0, <3>1, TextStays DEF TextInv
  <2>8. CASE Becomes(p, k)
    <3>1. Served(typed[modem.transport], k)
      BY <2>5, <2>6, ServedStill
    <3>2. k.connected = Transport.connected
      BY <2>5 DEF AsServed
    <3>3. Settled(p)
      BY <1>0, <2>4 DEF Settled
    <3> QED BY <1>0, <2>3, <2>4, <2>5, <2>8, <3>1, <3>2, <3>3, BecomesText
  <2> QED BY <2>3, <2>7, <2>8
<1> QED BY <1>1, <1>2

\* A connection reports that it is made when it is, and that it failed when
\* it never was.
LEMMA TakesEventText ==
  ASSUME LineInv, TextInv, TakesEvent
  PROVE  TextInv'
<1>1. PICK event \in Events(Transport) :
        Completes(access, OnEvent(modem, event), AfterEvent(Transport, event))
  BY DEF TakesEvent
<1> DEFINE m == OnEvent(modem, event)  k == AfterEvent(Transport, event)
<1>2. access \in {"lsr", "irq", "msr"}
  BY DEF TakesEvent, Idle, LineInv, TypeOK
<1>3. /\ Alike(modem, m) /\ m.transport \in {modem.transport, NoConn}
      /\ event = "connected" => m.state = "Connected" /\ m.transport = modem.transport
      /\ event = "connectFailed" => m.state = "CommandMode" /\ m.transport = NoConn
      /\ event = "remoteDisconnected" =>
           /\ m.state = "CommandMode" /\ m.transport = NoConn
           /\ m.guard = NoGuard /\ m.escape = 0
      /\ event \in {"connected", "connectFailed"} =>
           m.guard = modem.guard /\ m.escape = modem.escape
      /\ event \notin {"connected", "connectFailed", "remoteDisconnected"} => m = modem
  BY OnEventIs DEF LineInv
<1>4. /\ event = "connected" => Transport.connected
      /\ event = "connectFailed" => Transport.done /\ ~Transport.connected
  BY DEF Events
<1>5. modem.transport = NoConn => ~Transport.connected /\ ~Transport.done
  BY DEF Transport, Unused
<1>6. /\ Settled(modem)
      /\ modem.state = "Connected" => modem.transport # NoConn /\ Transport.connected
      /\ modem.transport # NoConn => Trails(typed[modem.transport], modem.escape)
  BY TransportIs DEF TextInv
<1>7. modem.transport # NoConn =>
        /\ ConnFits(k) /\ k.bridge # "unused" /\ Served(typed[modem.transport], k)
        /\ k.connected = Transport.connected
  <2> SUFFICES ASSUME modem.transport # NoConn
               PROVE  /\ ConnFits(k) /\ k.bridge # "unused" /\ Served(typed[modem.transport], k)
                      /\ k.connected = Transport.connected
    OBVIOUS
  <2>1. /\ ConnFits(Transport) /\ Transport.bridge # "unused"
        /\ Served(typed[modem.transport], Transport)
    BY TransportIs DEF TextInv
  <2>2. ConnFits(k) /\ k.bridge # "unused" /\ AsServed(Transport, k)
    BY <2>1, AfterEventIs, ObjectServes
  <2> HIDE DEF k
  <2>3. Served(typed[modem.transport], k)
    BY <2>1, <2>2, ServedStill
  <2> QED BY <2>2, <2>3 DEF AsServed
<1> HIDE DEF m, k
<1>8. Completes(access, m, k)
  BY <1>1 DEF m, k
<1>9. Settled(m)
  BY <1>3, <1>4, <1>6 DEF Settled
<1>10. m.state = "Connected" =>
         m.transport = modem.transport /\ m.transport # NoConn /\ k.connected
  BY <1>3, <1>4, <1>5, <1>6, <1>7
<1>11. m.transport = modem.transport /\ m.transport # NoConn =>
         Trails(typed[m.transport], m.escape)
  BY <1>3, <1>6
<1> QED BY <1>2, <1>3, <1>7, <1>8, <1>9, <1>10, <1>11, CompletesText

\* The count of pluses, which has eight bits, is not at its end: one more plus
\* than that and the modem has forgotten them all.
CountsOn == modem.escape < 255

LEMMA SendStaysMade ==
  ASSUME NEW k, ConnFits(k), NEW bytes
  PROVE  SendBytes(k, bytes).connected = k.connected
<1> DEFINE out == k.outgoing \o bytes  w == [k EXCEPT !.outgoing = out]
<1>1. SendBytes(k, bytes) = k \/ SendBytes(k, bytes) = w
  BY DEF SendBytes
<1>2. k \in ConnState(Written)
  BY DEF ConnFits
<1> HIDE DEF out
<1>3. w.connected = k.connected
  BY <1>2 DEF ConnState
<1> QED BY <1>1, <1>3

\* A plus is counted.
LEMMA PlusText ==
  ASSUME LineInv, TextInv, CountsOn, modem.state = "Connected",
         Becomes(HoldsPlus(modem),
                 IF HoldsPlus(modem).guard # modem.guard THEN StartGuard(Transport) ELSE Transport),
         typed' = [typed EXCEPT ![modem.transport] = Append(@, "+")]
  PROVE  TextInv'
<1> DEFINE p == HoldsPlus(modem)  t == typed[modem.transport]
           k == IF p.guard # modem.guard THEN StartGuard(Transport) ELSE Transport
<1>1. /\ modem.transport # NoConn /\ modem.transport \in Conns
      /\ Transport = conns[modem.transport] /\ ConnFits(Transport)
      /\ Transport.bridge # "unused" /\ Transport.connected /\ Served(t, Transport)
      /\ Trails(t, modem.escape) /\ Settled(modem)
  BY TransportIs DEF TextInv
<1>2. /\ t \in Seq(Typed) /\ typed'[modem.transport] = Append(t, "+")
      /\ \A c \in Conns : c # modem.transport => typed'[c] = typed[c]
  BY <1>1, TypedAfter
<1>3. modem.escape \in Nat /\ Fits(modem)
  BY CountIs DEF LineInv, Fits, ModemState
<1>4. (modem.escape + 1) % 256 = modem.escape + 1
  BY <1>3 DEF CountsOn
<1>5. /\ Fits(p) /\ p.state = modem.state /\ p.transport = modem.transport
      /\ p.escape = modem.escape + 1
      /\ p.guard = IF modem.escape + 1 >= 3 /\ modem.guard = NoGuard THEN 0 ELSE modem.guard
  BY <1>3, <1>4, PlusesIs
<1>6. ConnFits(k) /\ k.bridge # "unused" /\ AsServed(Transport, k)
  <2>1. AsServed(Transport, Transport)
    BY DEF AsServed
  <2>2. /\ ConnFits(StartGuard(Transport)) /\ StartGuard(Transport).bridge # "unused"
        /\ AsServed(Transport, StartGuard(Transport))
    BY <1>1, GuardsAre, ObjectServes
  <2> QED BY <1>1, <2>1, <2>2
<1>7. Becomes(p, k)
  OBVIOUS
<1> HIDE DEF p, t, k
<1>8. Served(Append(t, "+"), k) /\ k.connected
  BY <1>1, <1>2, <1>6, PlusServed, ServedStill DEF AsServed
<1>9. Trails(Append(t, "+"), modem.escape + 1)
  <2>1. "+" \in Typed
    BY DEF Typed, Written, Chars
  <2> QED BY <1>1, <1>2, <2>1, TrailsOn
<1>10. Settled(p)
  BY <1>1, <1>3, <1>5 DEF Settled
<1> QED BY <1>1, <1>2, <1>5, <1>6, <1>7, <1>8, <1>9, <1>10, BecomesText

\* Any other character sends the pluses on, and itself.
LEMMA CharText ==
  ASSUME LineInv, TextInv, modem.state = "Connected", NEW ch \in Written \ {"+"},
         Becomes(Forwards(modem), SendBytes(CancelGuard(Transport), Forwarded(modem, ch))),
         typed' = [typed EXCEPT ![modem.transport] = Append(@, ch)]
  PROVE  TextInv'
<1> DEFINE p == Forwards(modem)  t == typed[modem.transport]  g == CancelGuard(Transport)
           bytes == Forwarded(modem, ch)  k == SendBytes(g, bytes)
<1>1. /\ modem.transport # NoConn /\ modem.transport \in Conns
      /\ Transport = conns[modem.transport] /\ ConnFits(Transport)
      /\ Transport.bridge # "unused" /\ Transport.connected /\ Served(t, Transport)
      /\ Trails(t, modem.escape)
  BY TransportIs DEF TextInv
<1>2. /\ t \in Seq(Typed) /\ typed'[modem.transport] = Append(t, ch)
      /\ \A c \in Conns : c # modem.transport => typed'[c] = typed[c]
  BY <1>1, TypedAfter
<1>3. Fits(modem) /\ modem \in ModemState
  BY DEF LineInv, Fits
<1>4. /\ Fits(p) /\ p.state = modem.state /\ p.transport = modem.transport
      /\ p.escape = 0 /\ p.guard = NoGuard
  BY <1>3, PlusesIs
<1>5. bytes \in Seq(Written) /\ bytes = Pluses(modem.escape) \o <<ch>>
  BY <1>3, ForwardedIs DEF Forwarded, Pluses
<1>6. ConnFits(g) /\ g.bridge # "unused" /\ AsServed(Transport, g)
  BY <1>1, GuardsAre, ObjectServes
<1>7. Becomes(p, k)
  OBVIOUS
<1> HIDE DEF p, t, g, bytes
<1>8. Served(t, g) /\ g.connected
  BY <1>1, <1>6, ServedStill DEF AsServed
<1>9. Served(Append(t, ch), k)
  <2>1. Served(Append(t, ch), SendBytes(g, Pluses(modem.escape) \o <<ch>>))
    BY <1>1, <1>2, <1>6, <1>8, CharServed
  <2> QED BY <1>5, <2>1
<1>10. ConnFits(k) /\ k.bridge # "unused" /\ k.connected
  BY <1>5, <1>6, <1>8, SendBytesIs, SendStaysMade
<1>11. Trails(Append(t, ch), 0)
  <2>1. ch \in Typed \ {"+"}
    BY DEF Typed
  <2> QED BY <1>1, <1>2, <2>1, TrailsOn
<1>12. Settled(p)
  BY <1>4 DEF Settled
<1> HIDE DEF k
<1> QED BY <1>1, <1>2, <1>4, <1>7, <1>9, <1>10, <1>11, <1>12, BecomesText

\* A character of a command, or the one that ends the guard time.
LEMMA CommandText ==
  ASSUME LineInv, TextInv, NEW ch \in Written, NEW expired \in BOOLEAN,
         expired => modem.state = "Connected" /\ modem.escape >= 3,
         ~expired => modem.state = "CommandMode",
         Becomes(CommandChar(IF expired THEN EscapeConfirmed(modem) ELSE modem, ch, NextConn),
                 IF expired THEN CancelGuard(Transport) ELSE Transport),
         Confirms(expired)
  PROVE  TextInv'
<1> DEFINE m == IF expired THEN EscapeConfirmed(modem) ELSE modem
           p == CommandChar(m, ch, NextConn)
           k == IF expired THEN CancelGuard(Transport) ELSE Transport
<1>1. /\ Settled(modem)
      /\ modem.state = "Connected" => modem.transport # NoConn /\ Transport.connected
      /\ modem.transport # NoConn =>
           /\ ConnFits(Transport) /\ Transport.bridge # "unused"
           /\ Served(typed[modem.transport], Transport)
           /\ Trails(typed[modem.transport], modem.escape)
  BY TransportIs DEF TextInv
<1>2. Fits(modem)
  BY DEF LineInv
<1>3. /\ Fits(m) /\ m.state = "CommandMode" /\ m.transport = modem.transport
      /\ m.guard = NoGuard /\ m.escape = 0
  BY <1>1, <1>2, EscapeConfirmedIs DEF Settled, Alike
<1>4. Becomes(p, k)
  OBVIOUS
<1> HIDE DEF m
<1>5. Obeys(m, p, NextConn)
  BY <1>3, NextConnIs, CommandCharIs DEF Written
<1> HIDE DEF p
<1>6. /\ Fits(p) /\ p.state # "Connected" /\ p.guard = NoGuard /\ p.escape = 0
      /\ p.transport \in {modem.transport, NoConn, NextConn}
  BY <1>3, <1>5 DEF Obeys, Alike
<1>7. \/ p.transport \in {modem.transport, NoConn}
      \/ p.transport \in Conns /\ conns[p.transport].bridge = "unused" /\ p.escape = 0
  BY <1>6, NextConnIs
<1>8. Settled(p)
  BY <1>6 DEF Settled
<1>9. CASE expired
  <2>1. /\ modem.transport # NoConn /\ Transport.connected /\ Confirms(TRUE)
        /\ k = CancelGuard(Transport)
    BY <1>1, <1>9 DEF Confirms
  <2>2. ConnFits(k) /\ k.bridge # "unused" /\ AsServed(Transport, k)
    BY <1>1, <2>1, GuardsAre, ObjectServes
  <2> HIDE DEF k
  <2>3. Served(typed[modem.transport], k) /\ k.connected
    BY <1>1, <2>1, <2>2, ServedStill DEF AsServed
  <2>4. modem.escape >= 3
    BY <1>9
  <2>5. /\ Served(typed'[modem.transport], k) /\ Trails(typed'[modem.transport], 0)
        /\ \A c \in Conns : c # modem.transport => typed'[c] = typed[c]
    BY <1>1, <2>1, <2>3, <2>4, ConfirmedText
  <2> QED BY <1>4, <1>6, <1>7, <1>8, <2>2, <2>5, BecomesText
<1>10. CASE ~expired
  <2>1. UNCHANGED typed /\ k = Transport /\ modem.escape = 0
    BY <1>1, <1>10 DEF Confirms, Settled
  <2>2. modem.transport # NoConn =>
          ConnFits(k) /\ k.bridge # "unused" /\ Served(typed'[modem.transport], k)
    BY <1>1, <2>1
  <2>3. p.transport = modem.transport /\ p.transport # NoConn =>
          Trails(typed'[p.transport], p.escape)
    BY <1>1, <1>6, <2>1
  <2> HIDE DEF k
  <2> QED BY <1>4, <1>6, <1>7, <1>8, <2>1, <2>2, <2>3, BecomesText
<1> QED BY <1>9, <1>10

LEMMA SendText ==
  ASSUME LineInv, TextInv, CountsOn, Send
  PROVE  TextInv'
<1> DEFINE ch == Head(program.todo)
           online == modem.state = "Connected"
           expired == online /\ ch # "+" /\ EscapeExpired(modem, Elapsed(Transport))
           held == HoldsPlus(modem)
           a == IF held.guard # modem.guard THEN StartGuard(Transport) ELSE Transport
           b == SendBytes(CancelGuard(Transport), Forwarded(modem, ch))
           d == IF expired THEN CancelGuard(Transport) ELSE Transport
           m == IF expired THEN EscapeConfirmed(modem) ELSE modem
           next == CommandChar(m, ch, NextConn)
<1>1. /\ program.todo \in Seq(Written \cup {MSR}) /\ program.todo # <<>> /\ ch # MSR
      /\ modem.state \in {"CommandMode", "Dialing", "Connected"}
      /\ modem.transport \in Conns \cup {NoConn}
  BY DEF Send, LineInv, TypeOK, ModemState
<1>2. ch \in Written
  <2> DEFINE todo == program.todo  T == Written \cup {MSR}
  <2>1. todo \in Seq(T) /\ todo # <<>>
    BY <1>1
  <2>2. Head(todo) \in T
    <3> HIDE DEF todo, T
    <3> QED BY <2>1
  <2> QED BY <1>1, <2>2
<1>3. /\ online /\ ch = "+" =>
           Becomes(held, a) /\ typed' = [typed EXCEPT ![modem.transport] = Append(@, ch)]
      /\ online /\ ch # "+" /\ ~expired =>
           Becomes(Forwards(modem), b) /\ typed' = [typed EXCEPT ![modem.transport] = Append(@, ch)]
      /\ modem.state = "Dialing" => UNCHANGED <<modem, conns, typed>>
      /\ expired \/ modem.state = "CommandMode" => Becomes(next, d) /\ Confirms(expired)
  BY DEF Send
<1>4. CASE online /\ ch = "+"
  BY <1>3, <1>4, PlusText
<1>5. CASE online /\ ch # "+" /\ ~expired
  BY <1>2, <1>3, <1>5, CharText
<1>6. CASE modem.state = "Dialing"
  <2>1. UNCHANGED typed /\ modem' = modem /\ conns' = conns
    BY <1>3, <1>6
  <2> QED BY <1>1, <2>1, TextStays DEF TextInv
<1>7. CASE expired \/ modem.state = "CommandMode"
  <2>1. expired \in BOOLEAN
    OBVIOUS
  <2>2. expired => modem.state = "Connected" /\ modem.escape >= 3
    BY DEF EscapeExpired
  <2>3. ~expired => modem.state = "CommandMode"
    BY <1>7
  <2>4. Becomes(next, d) /\ Confirms(expired)
    BY <1>3, <1>7
  <2> HIDE DEF expired
  <2> QED BY <1>2, <2>1, <2>2, <2>3, <2>4, CommandText
<1> QED BY <1>1, <1>4, <1>5, <1>6, <1>7

\* A new modem counts nothing and has nobody to send to.
LEMMA NewCountsNothing ==
  LET p == [ModemNew EXCEPT !.echo = EchoOn]
  IN Settled(p) /\ p.state # "Connected" /\ p.transport = NoConn
<1> DEFINE echo == EchoOn  p == [ModemNew EXCEPT !.echo = echo]
<1> HIDE DEF echo
<1>1. p.state = "CommandMode" /\ p.escape = 0 /\ p.guard = NoGuard /\ p.transport = NoConn
  BY DEF ModemNew
<1> HIDE DEF p
<1>2. Settled(p) /\ p.state # "Connected" /\ p.transport = NoConn
  BY <1>1 DEF Settled
<1> QED BY <1>2 DEF p, echo

LEMMA ResetText ==
  ASSUME TextInv, Reset
  PROVE  TextInv'
<1> DEFINE p == [ModemNew EXCEPT !.echo = EchoOn]
<1>1. modem' = p /\ conns' = conns /\ typed' = typed
  BY DEF Reset
<1>2. Settled(p) /\ p.state # "Connected" /\ p.transport = NoConn
  BY NewCountsNothing
<1> HIDE DEF p
<1> QED BY <1>1, <1>2 DEF TextInv

\* The threads, the peer and the clock of one connection.
LEMMA ThreadsText ==
  ASSUME LineInv, TextInv, NEW c \in Conns, Threads(c) \/ World(c)
  PROVE  TextInv'
<1> DEFINE o == conns[c]
<1>1. UNCHANGED typed /\ modem' = modem /\ modem.transport \in Conns \cup {NoConn}
      /\ conns \in [Conns -> ConnState(Written)]
  BY DEF Threads, World, LineInv, TypeOK, ModemState
<1>2. ConnFits(o) /\ Served(typed[c], o)
  BY DEF LineInv, TextInv
<1>3. PICK k \in Connect(o) \cup Read(o) \cup Extend(o) \cup ReadEnds(o) \cup Write(o)
                 \cup WriteEnds(o, Dropped(c)) \cup PeerSends(o) \cup PeerCloses(o)
                 \cup ClockElapses(o) :
        conns' = [conns EXCEPT ![c] = k]
  <2>1. CASE Threads(c)
    BY <2>1 DEF Threads
  <2>2. CASE World(c)
    BY <2>2 DEF World
  <2> QED BY <2>1, <2>2
<1> HIDE DEF o
<1>4. Served(typed[c], k) /\ (o.connected => k.connected)
  <2>1. CASE k \in Connect(o)
    BY <1>2, <2>1, ConnectServes
  <2>2. CASE k \in Read(o) \cup Extend(o) \cup ReadEnds(o) \cup PeerSends(o) \cup ClockElapses(o)
    BY <1>2, <2>2, ReaderServes
  <2>3. CASE k \in Write(o) \cup WriteEnds(o, Dropped(c)) \cup PeerCloses(o)
    BY <1>2, <2>3, WriterServes
  <2> QED BY <1>3, <2>1, <2>2, <2>3
<1>5. \A d \in Conns : conns'[d] = IF d = c THEN k ELSE conns[d]
  BY <1>1, <1>3
<1>6. \A d \in Conns : Served(typed[d], conns'[d]) /\ (conns[d].connected => conns'[d].connected)
  BY <1>4, <1>5 DEF TextInv, o
<1> QED BY <1>1, <1>6, TextStays

LEMMA NextText ==
  ASSUME LineInv, TextInv, CountsOn, [Next]_vars
  PROVE  TextInv'
<1>1. CASE ReadStatus \/ TakeIrq \/ ReadModemStatus
  BY <1>1, AsksText DEF ReadStatus, TakeIrq, ReadModemStatus
<1>2. CASE TakesEvent
  BY <1>2, TakesEventText
<1>3. CASE ReadByte \/ BeginSend \/ UNCHANGED vars
  <2>1. modem' = modem /\ conns' = conns /\ typed' = typed
    BY <1>3 DEF ReadByte, BeginSend, vars
  <2> QED BY <2>1 DEF TextInv
<1>4. CASE Send
  BY <1>4, SendText
<1>5. CASE Reset
  BY <1>5, ResetText
<1>6. CASE \E c \in Conns : Threads(c) \/ World(c)
  BY <1>6, ThreadsText
<1> QED BY <1>1, <1>2, <1>3, <1>4, <1>5, <1>6 DEF Next

LEMMA InitText ==
  ASSUME Init
  PROVE  TextInv
<1> DEFINE p == [ModemNew EXCEPT !.echo = EchoOn]
<1>1. modem = p /\ \A c \in Conns : conns[c] = Unused /\ typed[c] = <<>>
  BY DEF Init
<1>2. Settled(p) /\ p.state # "Connected" /\ p.transport = NoConn
  BY NewCountsNothing
<1> HIDE DEF p
<1> QED BY <1>1, <1>2, UnusedServed DEF TextInv

\* While the modem's 8-bit count of pluses does not come to its end, a peer
\* gets every character typed to it, in order, except the pluses of a confirmed
\* escape and those that may become one, and an escape took three of them:
\* whatever the guest, the bridge thread and the peer do in between.
THEOREM EscapesHeld == Spec /\ []CountsOn => []EscapeHeld
<1>1. Init => LineInv /\ TextInv
  BY InitIs, InitText
<1>2. LineInv /\ TextInv /\ CountsOn /\ [Next]_vars => LineInv' /\ TextInv'
  BY NextIs, NextText
<1>3. TextInv => EscapeHeld
  BY DEF TextInv, Served, EscapeHeld
<1> QED BY <1>1, <1>2, <1>3, PTL DEF Spec
=============================================================================
