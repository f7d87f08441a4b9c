------------------------ MODULE DiskServices_proofs ------------------------
(***************************************************************************)
(* For disks of any geometry, any contents and any requests: what INT 13h  *)
(* and the ports of the hard disk controller do is what BlockStore         *)
(* promises.                                                               *)
(***************************************************************************)
EXTENDS DiskServices, NumberLemmas, SequenceTheorems

-----------------------------------------------------------------------------
(* The sectors that follow an address. *)

\* The addresses of a transfer are those that read_sectors goes through.
LEMMA RunIs ==
  ASSUME NEW g, NEW a, NEW n \in Nat
  PROVE  Run(g, a, n) =
           [i \in 1..n |-> IF i = 1 THEN a ELSE Following(g, Run(g, a, n)[i - 1])]
<1> DEFINE Goes(f, m) == f = [i \in 1..m |-> IF i = 1 THEN a ELSE Following(g, f[i - 1])]
           S == {m \in Nat : \E f : Goes(f, m)}
<1>1. 0 \in S
  <2>1. Goes([i \in 1..0 |-> a], 0)
    OBVIOUS
  <2> QED BY <2>1
<1>2. ASSUME NEW m \in S PROVE m + 1 \in S
  <2>1. PICK f : Goes(f, m)
    OBVIOUS
  <2> DEFINE h == [i \in 1..(m + 1) |->
                     IF i = m + 1 THEN IF m = 0 THEN a ELSE Following(g, f[m]) ELSE f[i]]
  <2>2. ASSUME NEW i \in 1..(m + 1)
        PROVE  h[i] = IF i = 1 THEN a ELSE Following(g, h[i - 1])
    <3>1. CASE i = m + 1
      BY <3>1
    <3>2. CASE i \in 1..m
      <4>1. f[i] = IF i = 1 THEN a ELSE Following(g, f[i - 1])
        BY <2>1, <3>2
      <4>2. i # 1 => i - 1 \in 1..m
        BY <3>2
      <4> QED BY <3>2, <4>1, <4>2
    <3> QED BY <3>1, <3>2
  <2>3. Goes(h, m + 1)
    BY <2>2
  <2> HIDE DEF h
  <2> QED BY <2>3
<1>3. S = Nat
  <2> HIDE DEF S
  <2> QED BY <1>1, <1>2, Induction DEF S
<1>4. \E f : Goes(f, n)
  BY <1>3
<1>5. Goes(CHOOSE f : Goes(f, n), n)
  BY <1>4
<1> QED BY <1>5, ZenonT(60) DEF Run

\* The addresses of a disk are numbered without gaps up to the last one.
LEMMA LbaBound ==
  ASSUME NEW g \in Geometry, NEW a \in Address, OnDisk(g, a)
  PROVE  Lba(g, a) \in Nat /\ Lba(g, a) < TotalSectors(g)
<1> DEFINE C == g.cylinders  H == g.heads  S == g.spt
           t == (a.c * H) + a.h
<1>1. C \in Nat /\ H \in Nat \ {0} /\ S \in Nat \ {0}
  BY DEF Geometry
<1>2. a.c \in Nat /\ a.h \in Nat /\ a.s \in 1..S /\ a.c < C /\ a.h < H
  BY DEF Address, OnDisk
<1> HIDE DEF C, H, S
<1>3. (a.c * H) + H <= C * H
  BY <1>1, <1>2, Products
<1>4. a.c * H \in Nat /\ C * H \in Nat
  BY <1>1, <1>2
<1>5. t \in Nat /\ t < C * H
  BY <1>1, <1>2, <1>3, <1>4
<1> HIDE DEF t
<1>6. (t * S) + S <= (C * H) * S
  BY <1>1, <1>4, <1>5, Products
<1>7. t * S \in Nat /\ (C * H) * S \in Nat
  BY <1>1, <1>4, <1>5
<1>8. (t * S) + a.s - 1 \in Nat /\ (t * S) + a.s - 1 < (C * H) * S
  BY <1>1, <1>2, <1>6, <1>7
<1> QED BY <1>8 DEF Lba, TotalSectors, C, H, S, t

\* The address that follows is the next one, or past the end after the last.
LEMMA NextSector ==
  ASSUME NEW g \in Geometry, NEW a \in Address, OnDisk(g, a)
  PROVE  /\ Following(g, a) \in Address
         /\ Lba(g, a) + 1 < TotalSectors(g) =>
              OnDisk(g, Following(g, a)) /\ Lba(g, Following(g, a)) = Lba(g, a) + 1
         /\ Lba(g, a) + 1 = TotalSectors(g) => ~OnDisk(g, Following(g, a))
<1> DEFINE C == g.cylinders  H == g.heads  S == g.spt
           b == Following(g, a)
<1>1. C \in Nat /\ H \in Nat \ {0} /\ S \in Nat \ {0}
  BY DEF Geometry
<1>2. a.c \in Nat /\ a.h \in Nat /\ a.s \in 1..S /\ a.c < C /\ a.h < H
  BY DEF Address, OnDisk
<1>3. a = [c |-> a.c, h |-> a.h, s |-> a.s]
  BY DEF Address
<1>4. b \in Address => /\ b.c \in Nat /\ b.h \in Nat /\ b.s \in Nat
                       /\ OnDisk(g, b) <=> (b.c < C /\ b.h < H /\ b.s \in 1..S)
                       /\ Lba(g, b) = (((b.c * H) + b.h) * S) + b.s - 1
  BY DEF Address, OnDisk, Lba
<1>5. Lba(g, a) = (((a.c * H) + a.h) * S) + a.s - 1
  BY DEF Lba
<1>6. TotalSectors(g) = (C * H) * S
  BY DEF TotalSectors
<1>7. Lba(g, a) \in Nat
  BY LbaBound
<1>8. CASE a.s < S
  <2>1. b = [c |-> a.c, h |-> a.h, s |-> a.s + 1]
    BY <1>1, <1>2, <1>3, <1>8 DEF Following
  <2>2. b \in Address
    BY <1>2, <2>1 DEF Address
  <2>3. OnDisk(g, b)
    BY <1>1, <1>2, <1>4, <1>8, <2>1, <2>2
  <2>4. ((a.c * H) + a.h) * S \in Nat
    BY <1>1, <1>2
  <2>5. Lba(g, b) = Lba(g, a) + 1
    BY <1>1, <1>2, <1>4, <1>5, <2>1, <2>2, <2>4
  <2>6. Lba(g, b) < TotalSectors(g)
    BY <2>2, <2>3, LbaBound
  <2> QED BY <2>2, <2>3, <2>5, <2>6, <1>7
<1>9. CASE a.s = S /\ a.h + 1 < H
  <2>1. b = [c |-> a.c, h |-> a.h + 1, s |-> 1]
    <3>1. [a EXCEPT !.s = 1, !.h = @ + 1] = [c |-> a.c, h |-> a.h + 1, s |-> 1]
      <4>1. [a EXCEPT !.s = 1] = [c |-> a.c, h |-> a.h, s |-> 1]
        BY <1>3
      <4>2. [[c |-> a.c, h |-> a.h, s |-> 1] EXCEPT !.h = a.h + 1]
              = [c |-> a.c, h |-> a.h + 1, s |-> 1]
        OBVIOUS
      <4> QED BY <4>1, <4>2
    <3>2. ~(a.s < S) /\ a.s >= S /\ a.h + 1 < H /\ ~(a.h + 1 >= H)
      BY <1>1, <1>2, <1>9
    <3> QED BY <3>1, <3>2 DEF Following
  <2>2. b \in Address
    BY <1>2, <2>1 DEF Address
  <2>3. OnDisk(g, b)
    BY <1>1, <1>2, <1>4, <1>9, <2>1, <2>2
  <2>4. \A t \in Nat : t * S \in Nat /\ (t + 1) * S = (t * S) + S
    BY <1>1
  <2>5. (a.c * H) + a.h \in Nat /\ (a.c * H) + (a.h + 1) = ((a.c * H) + a.h) + 1
    BY <1>1, <1>2
  <2>6. Lba(g, b) = Lba(g, a) + 1
    BY <1>1, <1>2, <1>4, <1>5, <1>9, <2>1, <2>2, <2>4, <2>5
  <2>7. Lba(g, b) < TotalSectors(g)
    BY <2>2, <2>3, LbaBound
  <2> QED BY <2>2, <2>3, <2>6, <2>7, <1>7
<1>10. CASE a.s = S /\ a.h + 1 = H
  <2>1. b = [c |-> a.c + 1, h |-> 0, s |-> 1]
    BY <1>1, <1>2, <1>3, <1>10 DEF Following
  <2>2. b \in Address
    BY <1>2, <2>1 DEF Address
  <2>3. OnDisk(g, b) <=> a.c + 1 < C
    BY <1>1, <1>2, <1>4, <2>1, <2>2
  <2>4. \A t \in Nat : t * S \in Nat /\ (t + 1) * S = (t * S) + S
    BY <1>1
  <2>5. a.c * H \in Nat /\ (a.c + 1) * H = ((a.c * H) + a.h) + 1
    BY <1>1, <1>2, <1>10
  <2>6. ((a.c + 1) * H) * S = Lba(g, a) + 1
    BY <1>1, <1>2, <1>5, <1>10, <2>4, <2>5
  <2>7. (((a.c + 1) * H) + 0) * S = ((a.c + 1) * H) * S
    BY <1>1, <1>2, <2>5
  <2>8. Lba(g, b) = Lba(g, a) + 1
    BY <1>7, <1>4, <2>1, <2>2, <2>6, <2>7
  <2>9. CASE a.c + 1 < C
    <3>1. Lba(g, b) < TotalSectors(g)
      BY <2>2, <2>3, <2>9, LbaBound
    <3> QED BY <1>7, <2>2, <2>3, <2>8, <2>9, <3>1
  <2>10. CASE a.c + 1 = C
    <3>1. TotalSectors(g) = Lba(g, a) + 1
      BY <1>6, <2>6, <2>10
    <3> QED BY <1>1, <1>2, <1>7, <2>2, <2>3, <2>10, <3>1
  <2> QED BY <1>1, <1>2, <2>9, <2>10
<1> QED BY <1>1, <1>2, <1>8, <1>9, <1>10

\* A run of sectors stays on the disk up to the last sector, and no further.
LEMMA RunStays ==
  ASSUME NEW g \in Geometry, NEW a \in Address, OnDisk(g, a), NEW n \in Nat
  PROVE  \A i \in 1..n :
           /\ Lba(g, a) + i - 1 < TotalSectors(g) =>
                /\ Run(g, a, n)[i] \in Address /\ OnDisk(g, Run(g, a, n)[i])
                /\ Lba(g, Run(g, a, n)[i]) = Lba(g, a) + i - 1
           /\ Lba(g, a) + i - 1 = TotalSectors(g) => ~OnDisk(g, Run(g, a, n)[i])
<1> DEFINE run == Run(g, a, n)  first == Lba(g, a)  total == TotalSectors(g)
           Good(i) == /\ first + i - 1 < total =>
                           /\ run[i] \in Address /\ OnDisk(g, run[i])
                           /\ Lba(g, run[i]) = first + i - 1
                      /\ first + i - 1 = total => ~OnDisk(g, run[i])
           S == {k \in Nat : k \in 1..n => Good(k)}
<1>1. first \in Nat /\ total \in Nat /\ first < total
  BY LbaBound DEF TotalSectors, Geometry
<1>2. \A i \in 1..n : run[i] = IF i = 1 THEN a ELSE Following(g, run[i - 1])
  BY RunIs
<1>3. 0 \in S
  OBVIOUS
<1>4. ASSUME NEW k \in S PROVE k + 1 \in S
  <2> HIDE DEF run, first, total
  <2> SUFFICES ASSUME k + 1 \in 1..n PROVE Good(k + 1)
    OBVIOUS
  <2>1. CASE k = 0
    <3>1. run[k + 1] = a
      BY <1>2, <2>1
    <3> QED BY <1>1, <2>1, <3>1 DEF first
  <2>2. CASE k # 0
    <3>1. k \in 1..n /\ Good(k) /\ k \in Nat
      BY <2>2
    <3>2. run[k + 1] = Following(g, run[k])
      BY <1>2, <2>2
    <3>3. first + (k + 1) - 1 <= total => first + k - 1 < total
      BY <1>1
    <3>4. CASE first + (k + 1) - 1 <= total
      <4>1. /\ run[k] \in Address /\ OnDisk(g, run[k])
            /\ Lba(g, run[k]) = first + k - 1
        BY <3>1, <3>3, <3>4
      <4>2. /\ Following(g, run[k]) \in Address
            /\ Lba(g, run[k]) + 1 < total =>
                 OnDisk(g, Following(g, run[k])) /\ Lba(g, Following(g, run[k])) = Lba(g, run[k]) + 1
            /\ Lba(g, run[k]) + 1 = total => ~OnDisk(g, Following(g, run[k]))
        BY <4>1, NextSector DEF total
      <4>3. Lba(g, run[k]) + 1 = first + (k + 1) - 1
        BY <1>1, <3>1, <4>1
      <4> QED BY <3>2, <4>2, <4>3
    <3> QED BY <1>1, <3>1, <3>4
  <2> QED BY <2>1, <2>2
<1>5. S = Nat
  <2> HIDE DEF S
  <2> QED BY <1>3, <1>4, Induction DEF S
<1>6. \A i \in 1..n : Good(i)
  BY <1>5
<1> QED BY <1>6

\* How many sectors of a run are on the disk.
LEMMA ReachableIs ==
  ASSUME NEW g \in Geometry, NEW a \in Address, NEW n \in Nat \ {0}
  PROVE  /\ OnDisk(g, a) =>
              Reachable(g, Run(g, a, n)) =
                IF Lba(g, a) + n <= TotalSectors(g) THEN n ELSE TotalSectors(g) - Lba(g, a)
         /\ ~OnDisk(g, a) => Reachable(g, Run(g, a, n)) = 0
<1> DEFINE run == Run(g, a, n)
           first == Lba(g, a)
           total == TotalSectors(g)
           Ends(k) == /\ \A i \in 1..k : OnDisk(g, run[i])
                      /\ k < n => ~OnDisk(g, run[k + 1])
<1>1. Len(run) = n
  BY RunIs
<1>2. Reachable(g, run) = CHOOSE k \in 0..n : Ends(k)
  BY <1>1 DEF Reachable
<1>3. ASSUME NEW j \in 0..n, NEW k \in 0..n, Ends(j), Ends(k) PROVE j = k
  <2>1. ~(j < k)
    <3> SUFFICES ASSUME j < k PROVE FALSE
      OBVIOUS
    <3>1. j + 1 \in 1..k /\ j < n
      OBVIOUS
    <3> QED BY <1>3, <3>1
  <2>2. ~(k < j)
    <3> SUFFICES ASSUME k < j PROVE FALSE
      OBVIOUS
    <3>1. k + 1 \in 1..j /\ k < n
      OBVIOUS
    <3> QED BY <1>3, <3>1
  <2> QED BY <2>1, <2>2
<1>4. ASSUME NEW k \in 0..n, Ends(k) PROVE Reachable(g, run) = k
  <2> HIDE DEF Ends, run
  <2> QED BY <1>2, <1>3, <1>4
<1>5. CASE ~OnDisk(g, a)
  <2>1. run[1] = a
    BY RunIs
  <2>2. Ends(0)
    BY <1>5, <2>1
  <2> QED BY <1>4, <1>5, <2>2
<1>6. CASE OnDisk(g, a)
  <2>1. first \in Nat /\ total \in Nat /\ first < total
    BY <1>6, LbaBound DEF TotalSectors, Geometry
  <2>2. \A i \in 1..n : /\ first + i - 1 < total => OnDisk(g, run[i])
                        /\ first + i - 1 = total => ~OnDisk(g, run[i])
    BY <1>6, RunStays
  <2> HIDE DEF first, total, run
  <2>3. CASE first + n <= total
    <3>1. \A i \in 1..n : first + i - 1 < total
      BY <2>1, <2>3
    <3>2. Ends(n)
      BY <2>2, <3>1
    <3> QED BY <1>4, <1>6, <2>3, <3>2 DEF first, total, run
  <2>4. CASE ~(first + n <= total)
    <3>1. total - first \in 0..n /\ total - first < n
      BY <2>1, <2>4
    <3>2. \A i \in 1..(total - first) : i \in 1..n /\ first + i - 1 < total
      BY <2>1, <3>1
    <3>3. (total - first) + 1 \in 1..n /\ first + ((total - first) + 1) - 1 = total
      BY <2>1, <3>1
    <3>4. Ends(total - first)
      BY <2>2, <3>1, <3>2, <3>3
    <3> QED BY <1>4, <1>6, <2>4, <3>1, <3>4 DEF first, total, run
  <2> QED BY <2>3, <2>4
<1> QED BY <1>5, <1>6

-----------------------------------------------------------------------------
(* Sectors as bytes. *)

\* The bytes of sectors in a row.
Joined(s) ==
  [b \in 1..(Len(s) * SectorBytes) |->
     s[((b - 1) \div SectorBytes) + 1][((b - 1) % SectorBytes) + 1]]

\* Where byte b of n sectors is, and which byte is byte k of sector i.
LEMMA BytePlaces ==
  ASSUME NEW n \in Nat
  PROVE  /\ n * SectorBytes \in Nat /\ (n * SectorBytes) \div SectorBytes = n
         /\ \A b \in 1..(n * SectorBytes) :
              /\ ((b - 1) \div SectorBytes) + 1 \in 1..n
              /\ ((b - 1) % SectorBytes) + 1 \in 1..SectorBytes
         /\ \A i \in 1..n, k \in 1..SectorBytes :
              LET b == ((i - 1) * SectorBytes) + k IN
              /\ (i - 1) * SectorBytes \in Nat
              /\ i * SectorBytes = ((i - 1) * SectorBytes) + SectorBytes
              /\ b \in 1..(n * SectorBytes)
              /\ ((b - 1) \div SectorBytes) + 1 = i
              /\ ((b - 1) % SectorBytes) + 1 = k
<1> DEFINE B == SectorBytes
<1>1. B \in Nat \ {0}
  BY DiskAssumption
<1> HIDE DEF B
<1>2. n * B \in Nat /\ (n * B) + 0 = n * B
  BY <1>1
<1>3. (n * B) \div B = n
  <2>1. 0 \in 0..(B - 1)
    BY <1>1
  <2>2. ((n * B) + 0) \div B = n
    BY <1>1, <2>1, DivisionOfSum
  <2> QED BY <1>2, <2>2
<1>4. ASSUME NEW b \in 1..(n * B)
      PROVE  ((b - 1) \div B) + 1 \in 1..n /\ ((b - 1) % B) + 1 \in 1..B
  <2>1. b - 1 \in Nat
    BY <1>2
  <2>2. /\ (b - 1) \div B \in Nat /\ (b - 1) % B \in 0..(B - 1)
        /\ b - 1 = (((b - 1) \div B) * B) + ((b - 1) % B)
    BY <1>1, <2>1, DivisionParts
  <2> DEFINE q == (b - 1) \div B  r == (b - 1) % B
  <2>3. q \in Nat /\ r \in 0..(B - 1) /\ b - 1 = (q * B) + r
    BY <2>2
  <2> HIDE DEF q, r
  <2>4. q * B \in Nat
    BY <1>1, <2>3
  <2>5. q < n
    <3> SUFFICES ASSUME ~(q < n) PROVE FALSE
      OBVIOUS
    <3>1. q = n \/ n < q
      BY <2>3
    <3>2. n * B <= q * B
      <4>1. CASE q = n
        BY <1>2, <4>1
      <4>2. CASE n < q
        <5>1. (n * B) + B <= q * B
          BY <1>1, <2>3, <4>2, Products
        <5> QED BY <1>1, <1>2, <2>4, <5>1
      <4> QED BY <3>1, <4>1, <4>2
    <3> QED BY <1>1, <1>2, <2>3, <2>4, <3>2
  <2>6. q + 1 \in 1..n /\ r + 1 \in 1..B
    BY <1>1, <2>3, <2>5
  <2> QED BY <2>6 DEF q, r
<1>5. ASSUME NEW i \in 1..n, NEW k \in 1..B
      PROVE  /\ (i - 1) * B \in Nat /\ i * B = ((i - 1) * B) + B
             /\ ((i - 1) * B) + k \in 1..(n * B)
             /\ (((((i - 1) * B) + k) - 1) \div B) + 1 = i
             /\ (((((i - 1) * B) + k) - 1) % B) + 1 = k
  <2>1. i - 1 \in Nat /\ k - 1 \in 0..(B - 1) /\ i - 1 < n
    BY <1>1
  <2>2. (i - 1) * B \in Nat
    BY <1>1, <2>1
  <2>3. i * B = ((i - 1) * B) + B
    BY <1>1
  <2>4. ((i - 1) * B) + B <= n * B
    BY <1>1, <2>1, Products
  <2>5. /\ (((i - 1) * B) + (k - 1)) \div B = i - 1
        /\ (((i - 1) * B) + (k - 1)) % B = k - 1
    BY <1>1, <2>1, DivisionOfSum
  <2>6. (((i - 1) * B) + k) - 1 = ((i - 1) * B) + (k - 1)
    BY <1>1, <2>2
  <2>7. ((i - 1) * B) + k \in 1..(n * B)
    BY <1>1, <1>2, <2>2, <2>4
  <2>8. (i - 1) + 1 = i /\ (k - 1) + 1 = k
    OBVIOUS
  <2> QED BY <2>2, <2>3, <2>5, <2>6, <2>7, <2>8
<1> QED BY <1>2, <1>3, <1>4, <1>5 DEF B

\* The sectors that the bytes of sectors make up are these sectors.
LEMMA ChunksOfJoined ==
  ASSUME NEW s \in Seq(Sector)
  PROVE  /\ Joined(s) \in Seq(Values) /\ Len(Joined(s)) = Len(s) * SectorBytes
         /\ Chunks(Joined(s)) = s
<1> DEFINE n == Len(s)
           bytes == Joined(s)
           chunks == Chunks(bytes)
<1>1. n \in Nat /\ n * SectorBytes \in Nat /\ SectorBytes \in Nat \ {0}
  BY BytePlaces, DiskAssumption
<1>9. \A i \in 1..n, k \in 1..SectorBytes :
        LET b == ((i - 1) * SectorBytes) + k IN
        /\ (i - 1) * SectorBytes \in Nat
        /\ i * SectorBytes = ((i - 1) * SectorBytes) + SectorBytes
        /\ b \in 1..(n * SectorBytes)
        /\ ((b - 1) \div SectorBytes) + 1 = i
        /\ ((b - 1) % SectorBytes) + 1 = k
  <2> HIDE DEF n
  <2> QED BY <1>1, BytePlaces
<1>2. \A i \in 1..n : s[i] \in [1..SectorBytes -> Values]
  BY DEF Sector
<1>3. bytes \in [1..(n * SectorBytes) -> Values]
  <2>1. ASSUME NEW b \in 1..(n * SectorBytes)
        PROVE  s[((b - 1) \div SectorBytes) + 1][((b - 1) % SectorBytes) + 1] \in Values
    <3> DEFINE i == ((b - 1) \div SectorBytes) + 1  k == ((b - 1) % SectorBytes) + 1
    <3>1. i \in 1..n /\ k \in 1..SectorBytes
      <4> HIDE DEF n
      <4> QED BY <1>1, BytePlaces
    <3> HIDE DEF i, k
    <3>2. s[i][k] \in Values
      BY <1>2, <3>1
    <3> QED BY <3>2 DEF i, k
  <2> QED BY <2>1 DEF Joined
<1>4. bytes \in Seq(Values) /\ Len(bytes) = n * SectorBytes
  BY <1>1, <1>3
<1>5. Len(bytes) \div SectorBytes = n
  BY <1>1, <1>4, BytePlaces
<1>6. ASSUME NEW i \in 1..n
      PROVE  SubSeq(bytes, ((i - 1) * SectorBytes) + 1, i * SectorBytes) = s[i]
  <2> DEFINE base == (i - 1) * SectorBytes
             part == SubSeq(bytes, base + 1, i * SectorBytes)
  <2>1. base \in Nat /\ i * SectorBytes = base + SectorBytes
    <3>1. 1 \in 1..SectorBytes
      BY <1>1
    <3> QED BY <1>9, <3>1
  <2>2. ASSUME NEW k \in 1..SectorBytes
        PROVE  base + k \in 1..(n * SectorBytes) /\ bytes[base + k] = s[i][k]
    <3>1. /\ base + k \in 1..(n * SectorBytes)
          /\ (((base + k) - 1) \div SectorBytes) + 1 = i
          /\ (((base + k) - 1) % SectorBytes) + 1 = k
      BY <1>9
    <3> HIDE DEF base
    <3> QED BY <3>1 DEF Joined
  <2> HIDE DEF bytes, base
  <2>3. \A j \in (base + 1)..(base + SectorBytes) : bytes[j] \in Values
    <3> SUFFICES ASSUME NEW j \in (base + 1)..(base + SectorBytes) PROVE bytes[j] \in Values
      OBVIOUS
    <3>1. j - base \in 1..SectorBytes /\ base + (j - base) = j
      BY <1>1, <2>1
    <3>2. j \in 1..(n * SectorBytes)
      BY <2>2, <3>1
    <3> QED BY <1>3, <3>2
  <2>4. /\ part \in Seq(Values) /\ Len(part) = (base + SectorBytes) - (base + 1) + 1
        /\ \A k \in 1..((base + SectorBytes) - (base + 1) + 1) : part[k] = bytes[(base + 1) + k - 1]
    <3>1. base + 1 \in Int /\ base + SectorBytes \in Int /\ base + 1 <= base + SectorBytes
      BY <1>1, <2>1
    <3> QED BY <2>1, <2>3, <3>1, SubSeqProperties
  <2>5. (base + SectorBytes) - (base + 1) + 1 = SectorBytes
    BY <1>1, <2>1
  <2>6. \A k \in 1..SectorBytes : (base + 1) + k - 1 = base + k
    BY <1>1, <2>1
  <2>7. s[i] \in Seq(Values) /\ Len(s[i]) = SectorBytes
    BY <1>1, <1>2
  <2> HIDE DEF part
  <2>8. Len(part) = SectorBytes /\ \A k \in 1..SectorBytes : part[k] = s[i][k]
    BY <2>2, <2>4, <2>5, <2>6
  <2>9. part = s[i]
    BY <2>4, <2>7, <2>8, SeqEqual
  <2> QED BY <2>9 DEF part, base
<1>7. chunks = [i \in 1..n |-> s[i]]
  <2>1. chunks = [i \in 1..n |-> SubSeq(bytes, ((i - 1) * SectorBytes) + 1, i * SectorBytes)]
    BY <1>5 DEF Chunks
  <2> HIDE DEF chunks, bytes
  <2> QED BY <1>6, <2>1
<1>8. s = [i \in 1..n |-> s[i]]
  OBVIOUS
<1> QED BY <1>4, <1>7, <1>8

\* A transfer is carried out if its first sector is on the disk and the last is.
LEMMA ReadableIs ==
  ASSUME NEW m \in Disk, NEW a \in Address, NEW n \in Nat \ {0}
  PROVE  Readable(m, a, n) <=>
           OnDisk(m.geometry, a) /\ Lba(m.geometry, a) + n <= TotalSectors(m.geometry)
<1> DEFINE g == m.geometry
<1>1. g \in Geometry
  BY DEF Disk
<1>2. CASE OnDisk(g, a)
  <2>1. Lba(g, a) \in Nat /\ TotalSectors(g) \in Nat /\ Lba(g, a) < TotalSectors(g)
    BY <1>1, <1>2, LbaBound DEF TotalSectors, Geometry
  <2>2. Reachable(g, Run(g, a, n)) =
          IF Lba(g, a) + n <= TotalSectors(g) THEN n ELSE TotalSectors(g) - Lba(g, a)
    BY <1>1, <1>2, ReachableIs
  <2> QED BY <1>2, <2>1, <2>2 DEF Readable
<1>3. CASE ~OnDisk(g, a)
  <2>1. Reachable(g, Run(g, a, n)) = 0
    BY <1>1, <1>3, ReachableIs
  <2> QED BY <1>3, <2>1 DEF Readable
<1> QED BY <1>2, <1>3

\* read_sectors returns the bytes of the sectors in a row.
LEMMA ReadIs ==
  ASSUME NEW m, Whole(m), NEW a \in Address, NEW n \in Nat \ {0}, Readable(m, a, n)
  PROVE  LET first == Lba(m.geometry, a) IN
         /\ first \in Nat /\ first + n <= Len(m.sectors)
         /\ SubSeq(m.sectors, first + 1, first + n) \in Seq(Sector)
         /\ Len(SubSeq(m.sectors, first + 1, first + n)) = n
         /\ ReadSectors(m, a, n) = Joined(SubSeq(m.sectors, first + 1, first + n))
<1> DEFINE g == m.geometry
           first == Lba(g, a)
           run == Run(g, a, n)
           row == SubSeq(m.sectors, first + 1, first + n)
<1>1. m \in Disk /\ g \in Geometry /\ m.sectors \in Seq(Sector)
      /\ Len(m.sectors) = TotalSectors(g)
  BY DEF Whole, Disk
<1>2. OnDisk(g, a) /\ first + n <= TotalSectors(g)
  BY <1>1, ReadableIs
<1>3. first \in Nat
  BY <1>1, <1>2, LbaBound
<1>4. Len(m.sectors) \in Nat /\ \A i \in 1..Len(m.sectors) : m.sectors[i] \in Sector
  BY <1>1
<1>5. /\ row \in Seq(Sector) /\ Len(row) = n
      /\ \A i \in 1..n : row[i] = m.sectors[first + i]
  <2> HIDE DEF first
  <2>1. first + 1 \in Int /\ first + n \in Int /\ first + 1 <= first + n
    BY <1>3
  <2>2. \A i \in (first + 1)..(first + n) : m.sectors[i] \in Sector
    BY <1>1, <1>2, <1>3, <1>4 DEF first
  <2>3. /\ row \in Seq(Sector) /\ Len(row) = (first + n) - (first + 1) + 1
        /\ \A i \in 1..((first + n) - (first + 1) + 1) : row[i] = m.sectors[(first + 1) + i - 1]
    BY <2>1, <2>2, SubSeqProperties
  <2>4. (first + n) - (first + 1) + 1 = n /\ \A i \in 1..n : (first + 1) + i - 1 = first + i
    BY <1>3
  <2> QED BY <2>3, <2>4
<1>6. \A i \in 1..n : Lba(g, run[i]) + 1 = first + i
  <2> SUFFICES ASSUME NEW i \in 1..n PROVE Lba(g, run[i]) + 1 = first + i
    OBVIOUS
  <2>1. first + i - 1 < TotalSectors(g)
    <3> HIDE DEF first
    <3>1. TotalSectors(g) \in Nat
      BY <1>1, <1>4
    <3> QED BY <1>2, <1>3, <3>1 DEF first
  <2>2. Lba(g, run[i]) = first + i - 1
    BY <1>1, <1>2, <2>1, RunStays
  <2> HIDE DEF first
  <2> QED BY <1>3, <2>2
<1>7. ReadSectors(m, a, n) = [b \in 1..(n * SectorBytes) |->
        m.sectors[Lba(g, run[((b - 1) \div SectorBytes) + 1]) + 1][((b - 1) % SectorBytes) + 1]]
  BY DEF ReadSectors
<1>8. \A b \in 1..(n * SectorBytes) : ((b - 1) \div SectorBytes) + 1 \in 1..n
  BY BytePlaces
<1> HIDE DEF run, row, first
<1>9. Joined(row) = [b \in 1..(n * SectorBytes) |->
        row[((b - 1) \div SectorBytes) + 1][((b - 1) % SectorBytes) + 1]]
  BY <1>5 DEF Joined
<1>10. ASSUME NEW b \in 1..(n * SectorBytes)
       PROVE  m.sectors[Lba(g, run[((b - 1) \div SectorBytes) + 1]) + 1]
                = row[((b - 1) \div SectorBytes) + 1]
  <2>1. PICK i \in 1..n : i = ((b - 1) \div SectorBytes) + 1
    BY <1>8
  <2>2. m.sectors[Lba(g, run[i]) + 1] = row[i]
    BY <1>5, <1>6
  <2> QED BY <2>1, <2>2
<1>11. ReadSectors(m, a, n) = Joined(row)
  BY <1>7, <1>9, <1>10
<1> QED BY <1>1, <1>2, <1>3, <1>5, <1>11 DEF row, first

\* What programs write, as bytes and as sectors.
LEMMA BytesAre ==
  ASSUME NEW n \in 1..Len(Payload)
  PROVE  /\ Bytes(n) \in Seq(Values) /\ Len(Bytes(n)) = n * SectorBytes
         /\ Chunks(Bytes(n)) = SubSeq(Payload, 1, n)
         /\ Len(SubSeq(Payload, 1, n)) = n
         /\ \A i \in 1..n : SubSeq(Payload, 1, n)[i] = Payload[i] /\ Payload[i] \in Sector
<1> DEFINE row == SubSeq(Payload, 1, n)
<1>1. Payload \in Seq(Sector) /\ Len(Payload) \in Nat
      /\ \A i \in 1..Len(Payload) : Payload[i] \in Sector
  BY ServicesAssumption
<1>2. row \in Seq(Sector) /\ Len(row) = n /\ \A i \in 1..n : row[i] = Payload[i]
  <2>1. /\ row \in Seq(Sector) /\ Len(row) = n - 1 + 1
        /\ \A i \in 1..(n - 1 + 1) : row[i] = Payload[1 + i - 1]
    BY <1>1, SubSeqProperties
  <2> QED BY <2>1
<1>3. \A b \in 1..(n * SectorBytes) : ((b - 1) \div SectorBytes) + 1 \in 1..n
  BY BytePlaces
<1> HIDE DEF row
<1>4. Bytes(n) = Joined(row)
  <2>1. ASSUME NEW b \in 1..(n * SectorBytes)
        PROVE  Payload[((b - 1) \div SectorBytes) + 1] = row[((b - 1) \div SectorBytes) + 1]
    BY <1>2, <1>3
  <2> QED BY <1>2, <2>1 DEF Bytes, Joined
<1>5. Joined(row) \in Seq(Values) /\ Len(Joined(row)) = Len(row) * SectorBytes
      /\ Chunks(Joined(row)) = row
  BY <1>2, ChunksOfJoined
<1>6. \A i \in 1..n : Payload[i] \in Sector
  BY <1>1
<1> QED BY <1>2, <1>4, <1>5, <1>6 DEF row

\* Where a transfer on a disk begins, as a number.
FirstOn(m, a) == IF OnDisk(m.geometry, a) THEN Lba(m.geometry, a) ELSE -1

\* The first k sectors of the payload stored from first on.
StoredOn(sectors, first, k) ==
  [i \in DOMAIN sectors |-> IF i - first \in 1..k THEN Payload[i - first] ELSE sectors[i]]

\* write_sectors stores a beginning of what it is given, all of it if the
\* transfer can be carried out, and leaves a whole disk of the same geometry.
LEMMA WriteIs ==
  ASSUME NEW m, Whole(m), NEW a \in Address, NEW n \in 1..Len(Payload)
  PROVE  /\ Whole(WriteSectors(m, a, Bytes(n)))
         /\ WriteSectors(m, a, Bytes(n)).geometry = m.geometry
         /\ \E k \in 0..n :
              /\ k = n <=> Readable(m, a, n)
              /\ WriteSectors(m, a, Bytes(n)).sectors = StoredOn(m.sectors, FirstOn(m, a), k)
<1> DEFINE g == m.geometry
           first == FirstOn(m, a)
           data == Chunks(Bytes(n))
           run == Run(g, a, n)
           k == Reachable(g, run)
           new == WriteSectors(m, a, Bytes(n))
           at(l) == {i \in 1..k : Lba(g, run[i]) + 1 = l}
           old == m.sectors
<1>1. m \in Disk /\ g \in Geometry /\ old \in Seq(Sector)
      /\ Len(old) = TotalSectors(g) /\ Len(old) \in Nat /\ DOMAIN old = 1..Len(old)
      /\ \A i \in 1..Len(old) : old[i] \in Sector
  BY DEF Whole, Disk
<1>2. Len(data) = n /\ \A i \in 1..n : data[i] = Payload[i] /\ Payload[i] \in Sector
  BY BytesAre
<1>3. k \in 0..n /\ (k = n <=> Readable(m, a, n))
      /\ \A i \in 1..k : first \in Nat /\ Lba(g, run[i]) + 1 = first + i /\ first + i <= Len(old)
  <2>1. CASE OnDisk(g, a)
    <3>1. first = Lba(g, a) /\ first \in Nat /\ first < TotalSectors(g)
      BY <1>1, <2>1, LbaBound DEF FirstOn
    <3>2. k = IF first + n <= TotalSectors(g) THEN n ELSE TotalSectors(g) - first
      BY <1>1, <2>1, <3>1, ReachableIs
    <3>3. \A i \in 1..n : first + i - 1 < TotalSectors(g) => Lba(g, run[i]) = first + i - 1
      BY <1>1, <2>1, <3>1, RunStays
    <3>4. k = n <=> Readable(m, a, n)
      BY DEF Readable
    <3> HIDE DEF k, first, run
    <3>5. TotalSectors(g) \in Nat
      BY <1>1
    <3>6. k \in 0..n /\ \A i \in 1..k : i \in 1..n /\ first + i - 1 < TotalSectors(g)
      BY <3>1, <3>2, <3>5
    <3>7. \A i \in 1..k : Lba(g, run[i]) + 1 = first + i /\ first + i <= TotalSectors(g)
      <4> SUFFICES ASSUME NEW i \in 1..k
                   PROVE  Lba(g, run[i]) + 1 = first + i /\ first + i <= TotalSectors(g)
        OBVIOUS
      <4>1. Lba(g, run[i]) = first + i - 1 /\ first + i - 1 < TotalSectors(g) /\ i \in Nat
        BY <3>3, <3>6
      <4> QED BY <3>1, <3>5, <4>1
    <3> QED BY <1>1, <3>1, <3>4, <3>6, <3>7
  <2>2. CASE ~OnDisk(g, a)
    <3>1. k = 0
      BY <1>1, <2>2, ReachableIs
    <3> QED BY <3>1 DEF Readable
  <2> QED BY <2>1, <2>2
<1>4. new = [m EXCEPT !.sectors =
               [l \in DOMAIN old |-> IF at(l) = {} THEN old[l] ELSE data[CHOOSE i \in at(l) : TRUE]]]
  BY <1>2 DEF WriteSectors
<1> HIDE DEF k, run, first, data, new
<1>5. ASSUME NEW l \in 1..Len(old)
      PROVE  (IF at(l) = {} THEN old[l] ELSE data[CHOOSE i \in at(l) : TRUE])
               = IF l - first \in 1..k THEN Payload[l - first] ELSE old[l]
  <2>1. CASE at(l) = {}
    <3>1. l - first \notin 1..k
      <4> SUFFICES ASSUME l - first \in 1..k PROVE FALSE
        OBVIOUS
      <4>1. first \in Nat /\ Lba(g, run[l - first]) + 1 = first + (l - first)
        BY <1>3, SMTT(60)
      <4>2. first + (l - first) = l
        BY <4>1
      <4> QED BY <2>1, <4>1, <4>2
    <3> QED BY <2>1, <3>1
  <2>2. CASE at(l) # {}
    <3>1. PICK i \in at(l) : i = CHOOSE j \in at(l) : TRUE
      BY <2>2
    <3>2. i \in 1..k /\ i \in 1..n /\ first \in Nat /\ l = first + i
      BY <1>3, <3>1
    <3>3. l - first = i
      BY <3>2
    <3> QED BY <1>2, <2>2, <3>1, <3>2, <3>3
  <2> QED BY <2>1, <2>2
<1>6. new = [m EXCEPT !.sectors = StoredOn(old, first, k)]
  BY <1>1, <1>4, <1>5, ZenonT(60) DEF StoredOn
<1>7. StoredOn(old, first, k) \in [1..Len(old) -> Sector]
  <2>1. ASSUME NEW i \in 1..Len(old), i - first \in 1..k PROVE Payload[i - first] \in Sector
    BY <1>2, <1>3, <2>1
  <2> QED BY <1>1, <2>1 DEF StoredOn
<1>8. StoredOn(old, first, k) \in Seq(Sector) /\ Len(StoredOn(old, first, k)) = Len(old)
  BY <1>1, <1>7
<1>9. new.sectors = StoredOn(old, first, k) /\ new.geometry = g /\ new \in Disk
  BY <1>1, <1>6, <1>8 DEF Disk
<1>10. Whole(new)
  BY <1>1, <1>8, <1>9 DEF Whole
<1> QED BY <1>3, <1>9, <1>10 DEF first, new

-----------------------------------------------------------------------------
(* What holds between the steps. *)

\* A controller tells the cylinders of its disk apart, and programs name heads
\* that it tells apart.
Fitting ==
  /\ \A i \in Indices :
       HardDisks[i] # NoMedium => HardDisks[i].geometry.cylinders \in 1..CylinderRadix
  /\ \A d \in HardDrives : \A a \in Requested[d] : a.h < HeadRadix

\* The address the controller makes of the one in its registers, and when it
\* carries out a transfer.
Cast(a) == [a EXCEPT !.c = @ % CylinderRadix, !.h = @ % HeadRadix]

Known(d, a) == Medium(d) # NoMedium /\ a.c < Medium(d).geometry.cylinders

Found(d, a, n) == Known(d, a) /\ Readable(Medium(d), Cast(a), n)

\* The disk a program at the ports is talking to.
PortDisk == media[Index[port.drive]]

\* What the program has read so far is a beginning of what the controller
\* serves: who it is, or sectors as they still are on the disk.
ReadingInv ==
  /\ hdc.phase = "read" /\ reply = NoReply
  /\ port.drive \in HardDrives /\ PortDisk # NoMedium
  /\ hdc.index < Len(hdc.data) /\ Len(hdc.data) = port.n * SectorBytes
  /\ port.bytes = SubSeq(hdc.data, 1, hdc.index)
  /\ \/ /\ port.op = "identify" /\ port.n = 1
        /\ hdc.data = Identity(Index[port.drive])
     \/ /\ port.op = "read" /\ port.n \in Counts /\ port.addr \in Requested[port.drive]
        /\ Found(port.drive, port.addr, port.n)
        /\ hdc.data = ReadSectors(PortDisk, Cast(port.addr), port.n)

\* What the program has written so far is a beginning of its payload, and the
\* controller holds just that.
WritingInv ==
  /\ hdc.phase = "write" /\ reply = NoReply
  /\ port.drive \in HardDrives
  /\ port.op = "write" /\ port.n \in Counts /\ port.addr \in Requested[port.drive]
  /\ hdc.drive = Index[port.drive] /\ hdc.at = Cast(port.addr)
  /\ Known(port.drive, port.addr)
  /\ hdc.expected = port.n * SectorBytes
  /\ Len(port.bytes) < hdc.expected
  /\ port.bytes = SubSeq(Bytes(port.n), 1, Len(port.bytes))
  /\ hdc.data = port.bytes

\* The controller is idle between requests, so that no command finds the phase
\* of another.
PortInv ==
  /\ hdc.srst = (port.at = "held")
  /\ port.at \in {"ready", "held"} => hdc.phase = "idle"
  /\ port.at = "held" => reply = NoReply
  /\ port.at = "read" => ReadingInv
  /\ port.at = "write" => WritingInv

\* A reply comes from a service or from the program at the ports.
ReplyInv == reply # NoReply => reply.by # "nobody" /\ reply.drive \in Drives

IInv == TypeOK /\ PortInv /\ ReplyInv

-----------------------------------------------------------------------------
(* The store: what a reply says of it.  Each lemma takes an action that ends *)
(* in a reply of its kind to the step of BlockStore.                         *)

\* A disk is not the absence of one.
LEMMA WholeIsDisk ==
  ASSUME NEW m, Whole(m)
  PROVE  m # NoMedium /\ m.geometry \in Geometry /\ m.sectors \in Seq(Sector)
         /\ Len(m.sectors) = TotalSectors(m.geometry)
BY ServicesAssumption DEF Whole, Disk

\* A drive is empty or holds a whole disk.
LEMMA MediumType ==
  ASSUME DisksOK, NEW d \in Drives
  PROVE  Medium(d) = NoMedium \/ Whole(Medium(d))
BY DEF DisksOK, Medium, Drives, Index, Indices

\* The drive holds a disk that has the sectors a request names.
Able(d, a, n) == Medium(d) # NoMedium /\ Readable(Medium(d), a, n)

\* What that says of the first sector and the number of them.
LEMMA AbleIs ==
  ASSUME DisksOK, NEW d \in Drives, NEW a \in Address, NEW n \in Counts
  PROVE  /\ n \in Nat \ {0} /\ n \in 1..Len(Payload)
         /\ First(d, a) \in {-1} \cup Nat
         /\ Able(d, a, n) <=>
              First(d, a) # -1 /\ First(d, a) + n <= Len(Contents(Medium(d)))
<1>1. n \in Nat \ {0} /\ n \in 1..Len(Payload)
  BY ServicesAssumption
<1>2. CASE Medium(d) = NoMedium
  BY <1>1, <1>2 DEF First, Able
<1>3. CASE Whole(Medium(d))
  <2> DEFINE m == Medium(d)
  <2>1. m # NoMedium /\ m \in Disk /\ m.geometry \in Geometry
        /\ Len(m.sectors) = TotalSectors(m.geometry)
    BY <1>3, WholeIsDisk DEF Whole
  <2>2. Readable(m, a, n) <=>
          OnDisk(m.geometry, a) /\ Lba(m.geometry, a) + n <= TotalSectors(m.geometry)
    BY <1>1, <2>1, ReadableIs
  <2>3. OnDisk(m.geometry, a) => Lba(m.geometry, a) \in Nat
    BY <2>1, LbaBound
  <2> QED BY <1>1, <2>1, <2>2, <2>3 DEF First, Able, Contents
<1> QED BY <1>2, <1>3, MediumType

\* An action that ends in a reply to a request of kind op.
Reports(op) ==
  /\ reply = NoReply
  /\ reply' \in ReplyType /\ reply'.op = op
  /\ reply'.by \in {"service", "ports"} /\ reply'.drive \in Drives
  /\ (status' # "success") = IF reply'.by = "service" THEN ~reply'.ok ELSE status # "success"

\* No answer is no answer for the store.
LEMMA RowOfNoReply == RowOf(NoReply) = Store!NoReply
BY DEF RowOf, NoReply, Store!NoReply, Store!Answer, Store!Nowhere

\* The row a reply becomes.
LEMMA ReportedRow ==
  ASSUME NEW op, Reports(op)
  PROVE  /\ RowOf(reply) = Store!NoReply
         /\ RowOf(reply)' =
              [by |-> reply'.by, op |-> op, drive |-> reply'.drive,
               first |-> IF op \in {"read", "write", "verify"}
                         THEN First(reply.drive, reply.at)' ELSE -1,
               n |-> IF op = "params" THEN Told(reply.bytes)' ELSE reply'.n,
               ok |-> reply'.ok,
               data |-> IF op = "read" THEN Chunks(reply'.bytes) ELSE <<>>]
BY RowOfNoReply DEF Reports, RowOf

\* What the store looks like depends on the disks alone.
LEMMA StoreKept ==
  ASSUME UNCHANGED <<media, floppy>>
  PROVE  /\ [d \in Drives |-> Contents(Medium(d))]' = [d \in Drives |-> Contents(Medium(d))]
         /\ \A d, a : First(d, a)' = First(d, a)
         /\ \A d : Medium(d)' = Medium(d)
BY DEF Medium, First

\* A reply to a read that tells the truth is the store's.
LEMMA StoreReads ==
  ASSUME DisksOK, Reports("read"), UNCHANGED <<media, floppy, changeline>>,
         reply'.n \in Counts,
         reply'.ok <=> Able(reply'.drive, reply'.at, reply'.n),
         reply'.bytes = IF reply'.ok
                        THEN ReadSectors(Medium(reply'.drive), reply'.at, reply'.n) ELSE <<>>
  PROVE  Store!Read
<1> DEFINE d == reply'.drive  a == reply'.at  n == reply'.n  first == First(d, a)
           row == [by |-> reply'.by, op |-> "read", drive |-> d, first |-> first, n |-> n,
                   ok |-> reply'.ok, data |-> Chunks(reply'.bytes)]
<1>1. d \in Drives /\ a \in Address /\ n \in Counts
  BY DEF Reports, ReplyType
<1>2. /\ n \in Nat \ {0} /\ first \in {-1} \cup Nat
      /\ reply'.ok <=> first # -1 /\ first + n <= Len(Contents(Medium(d)))
  BY <1>1, AbleIs
<1>3. First(reply.drive, reply.at)' = first
  BY StoreKept DEF First, Medium
<1>4. RowOf(reply) = Store!NoReply /\ RowOf(reply)' = row
  BY <1>3, ReportedRow
<1>5. Chunks(reply'.bytes) =
        IF reply'.ok THEN SubSeq(Contents(Medium(d)), first + 1, first + n) ELSE <<>>
  <2>1. CASE reply'.ok
    <3> DEFINE m == Medium(d)
               part == SubSeq(m.sectors, first + 1, first + n)
    <3>1. m # NoMedium /\ Readable(m, a, n) /\ Whole(m)
      BY <1>1, <2>1, MediumType DEF Able
    <3>2. first = Lba(m.geometry, a)
      BY <1>2, <2>1, <3>1 DEF First
    <3>3. part \in Seq(Sector) /\ ReadSectors(m, a, n) = Joined(part)
      BY <1>1, <1>2, <3>1, <3>2, ReadIs
    <3>4. Chunks(Joined(part)) = part
      BY <3>3, ChunksOfJoined
    <3> QED BY <2>1, <3>1, <3>3, <3>4 DEF Contents
  <2>2. CASE ~reply'.ok
    <3>1. 0 \div SectorBytes = 0
      <4>1. 0 * SectorBytes = 0 /\ (0 * SectorBytes) \div SectorBytes = 0
        BY BytePlaces, DiskAssumption
      <4> QED BY <4>1
    <3>2. Chunks(<<>>) = <<>>
      BY <3>1 DEF Chunks
    <3> QED BY <2>2, <3>2
  <2> QED BY <2>1, <2>2 DEF Reports, ReplyType
<1>6. [d_1 \in Drives |-> Contents(Medium(d_1))]' = [d_1 \in Drives |-> Contents(Medium(d_1))]
  BY StoreKept
<1>7. Store!Has(row) = reply'.ok /\ Store!Named(row)
  BY <1>1, <1>2 DEF Store!Has, Store!Named, Store!Nowhere, Reports, ReplyType
<1>8. row.data = IF Store!Has(row)
                 THEN SubSeq([d_1 \in Drives |-> Contents(Medium(d_1))][row.drive],
                             row.first + 1, row.first + row.n) ELSE <<>>
  BY <1>1, <1>5, <1>7
<1>9. row = Store!Answer(row.by, "read", row.drive, row.first, row.n, Store!Has(row), row.data)
  BY <1>7 DEF Store!Answer
<1>10. row.by \in {"service", "ports"} /\ row.drive \in Drives
       /\ (status' # "success") = IF row.by = "service" THEN ~Store!Has(row) ELSE status # "success"
  BY <1>7 DEF Reports
<1> HIDE DEF row
<1> QED BY <1>4, <1>6, <1>7, <1>8, <1>9, <1>10 DEF Store!Read, Store!Answers

\* So is one to a verification, which delivers nothing.
LEMMA StoreVerifies ==
  ASSUME DisksOK, Reports("verify"), UNCHANGED <<media, floppy, changeline>>,
         reply'.n \in Counts,
         reply'.ok <=> Able(reply'.drive, reply'.at, reply'.n)
  PROVE  Store!Verify
<1> DEFINE d == reply'.drive  a == reply'.at  n == reply'.n  first == First(d, a)
           row == [by |-> reply'.by, op |-> "verify", drive |-> d, first |-> first, n |-> n,
                   ok |-> reply'.ok, data |-> <<>>]
<1>1. d \in Drives /\ a \in Address /\ n \in Counts
  BY DEF Reports, ReplyType
<1>2. /\ n \in Nat \ {0} /\ first \in {-1} \cup Nat
      /\ reply'.ok <=> first # -1 /\ first + n <= Len(Contents(Medium(d)))
  BY <1>1, AbleIs
<1>3. First(reply.drive, reply.at)' = first
  BY StoreKept DEF First, Medium
<1>4. RowOf(reply) = Store!NoReply /\ RowOf(reply)' = row
  BY <1>3, ReportedRow
<1>5. [d_1 \in Drives |-> Contents(Medium(d_1))]' = [d_1 \in Drives |-> Contents(Medium(d_1))]
  BY StoreKept
<1>6. Store!Has(row) = reply'.ok /\ Store!Named(row)
  BY <1>1, <1>2 DEF Store!Has, Store!Named, Store!Nowhere, Reports, ReplyType
<1>7. row = Store!Answer(row.by, "verify", row.drive, row.first, row.n, Store!Has(row), <<>>)
  BY <1>6 DEF Store!Answer
<1>8. row.by \in {"service", "ports"} /\ row.drive \in Drives
      /\ (status' # "success") = IF row.by = "service" THEN ~Store!Has(row) ELSE status # "success"
  BY <1>6 DEF Reports
<1> HIDE DEF row
<1> QED BY <1>4, <1>5, <1>6, <1>7, <1>8 DEF Store!Verify, Store!Answers

\* A write may fail before it stores anything; else it stores what fits.
LEMMA StoreWrites ==
  ASSUME DisksOK, Reports("write"), UNCHANGED changeline,
         NEW d \in Drives, NEW a \in Address, NEW n \in Counts,
         reply'.drive = d, reply'.at = a, reply'.n = n,
         reply'.ok <=> Able(d, a, n),
         \/ Medium(d)' = Medium(d) /\ ~reply'.ok
         \/ Medium(d) # NoMedium /\ Medium(d)' = WriteSectors(Medium(d), a, Bytes(n)),
         \A e \in Drives \ {d} : Medium(e)' = Medium(e)
  PROVE  Store!Write
<1> DEFINE first == First(d, a)  store == [e \in Drives |-> Contents(Medium(e))]
           row == [by |-> reply'.by, op |-> "write", drive |-> d, first |-> first, n |-> n,
                   ok |-> reply'.ok, data |-> <<>>]
<1>2. /\ n \in Nat \ {0} /\ n \in 1..Len(Payload) /\ first \in {-1} \cup Nat
      /\ reply'.ok <=> first # -1 /\ first + n <= Len(Contents(Medium(d)))
  BY AbleIs
<1>3. \E k \in 0..n :
         /\ reply'.ok <=> k = n
         /\ store' = [store EXCEPT ![d] = StoredOn(@, first, k)]
  <2>1. CASE Medium(d)' = Medium(d) /\ ~reply'.ok
    <3>1. StoredOn(store[d], first, 0) = store[d]
      <4>1. Medium(d) = NoMedium \/ Medium(d).sectors \in Seq(Sector)
        BY MediumType, WholeIsDisk
      <4>2. store[d] = [i \in DOMAIN store[d] |-> store[d][i]]
        BY <4>1 DEF Contents
      <4> QED BY <4>2 DEF StoredOn
    <3>2. store' = [store EXCEPT ![d] = StoredOn(@, first, 0)]
      BY <2>1, <3>1
    <3> QED BY <1>2, <2>1, <3>2
  <2>2. CASE Medium(d) # NoMedium /\ Medium(d)' = WriteSectors(Medium(d), a, Bytes(n))
    <3> DEFINE m == Medium(d)  new == WriteSectors(m, a, Bytes(n))
    <3>1. Whole(m) /\ m # NoMedium
      BY <2>2, MediumType
    <3>2. PICK k \in 0..n : /\ k = n <=> Readable(m, a, n)
                            /\ new.sectors = StoredOn(m.sectors, FirstOn(m, a), k)
      BY <1>2, <3>1, WriteIs
    <3>3. new # NoMedium
      BY <1>2, <3>1, WriteIs, WholeIsDisk
    <3>4. first = FirstOn(m, a)
      BY <3>1 DEF First, FirstOn
    <3>5. Contents(m) = m.sectors /\ Contents(new) = new.sectors
      BY <3>1, <3>3 DEF Contents
    <3>6. store' = [store EXCEPT ![d] = StoredOn(@, first, k)]
      BY <2>2, <3>2, <3>4, <3>5
    <3>7. reply'.ok <=> k = n
      BY <3>1, <3>2 DEF Able
    <3> QED BY <3>6, <3>7
  <2> QED BY <2>1, <2>2
<1>4. PICK k \in 0..n : /\ reply'.ok <=> k = n
                        /\ store' = [store EXCEPT ![d] = StoredOn(@, first, k)]
  BY <1>3
<1>5. First(reply.drive, reply.at)' = first
  <2>1. \/ Medium(d)' = Medium(d)
        \/ /\ Medium(d) # NoMedium /\ Medium(d)' # NoMedium
           /\ Medium(d)'.geometry = Medium(d).geometry
    <3>1. CASE Medium(d) # NoMedium /\ Medium(d)' = WriteSectors(Medium(d), a, Bytes(n))
      <4> DEFINE m == Medium(d)  new == WriteSectors(m, a, Bytes(n))
      <4>1. Whole(m)
        BY <3>1, MediumType
      <4>2. Whole(new) /\ new.geometry = m.geometry
        BY <1>2, <4>1, WriteIs
      <4>3. new # NoMedium
        BY <4>2, WholeIsDisk
      <4> QED BY <3>1, <4>2, <4>3
    <3> QED BY <3>1
  <2>2. First(d, a)' = first
    BY <2>1 DEF First
  <2> QED BY <2>2 DEF First, Medium
<1>6. RowOf(reply) = Store!NoReply /\ RowOf(reply)' = row
  BY <1>5, ReportedRow
<1>7. Store!Has(row) = reply'.ok /\ Store!Named(row)
  BY <1>2 DEF Store!Has, Store!Named, Store!Nowhere, Reports, ReplyType
<1>8. row = Store!Answer(row.by, "write", row.drive, row.first, row.n, Store!Has(row), <<>>)
  BY <1>7 DEF Store!Answer
<1>9. row.by \in {"service", "ports"} /\ row.drive \in Drives
      /\ (status' # "success") = IF row.by = "service" THEN ~Store!Has(row) ELSE status # "success"
  BY <1>7 DEF Reports
<1>10. /\ \/ Store!Has(row) /\ store' = Store!Stored(row.drive, row.first, row.n)
          \/ ~Store!Has(row) /\ \E j \in 0..(row.n - 1) : store' = Store!Stored(row.drive, row.first, j)
  <2>1. store' = Store!Stored(row.drive, row.first, k)
    BY <1>4 DEF Store!Stored, StoredOn
  <2>2. k # n => k \in 0..(row.n - 1)
    BY <1>2
  <2> QED BY <1>4, <1>7, <2>1, <2>2
<1> HIDE DEF row
<1> QED BY <1>6, <1>7, <1>8, <1>9, <1>10 DEF Store!Write, Store!Answers

\* What a drive says of its size is its size, if it tells all cylinders apart.
LEMMA StoreParameters ==
  ASSUME DisksOK, Fitting, Reports("params"), UNCHANGED <<media, floppy, changeline>>,
         NEW d \in HardDrives, reply'.drive = d,
         reply'.ok <=> Medium(d) # NoMedium,
         reply'.bytes = IF reply'.ok THEN Identity(Index[d]) ELSE <<>>
  PROVE  Store!Parameters
<1> DEFINE store == [e \in Drives |-> Contents(Medium(e))]
           row == [by |-> reply'.by, op |-> "params", drive |-> d, first |-> -1,
                   n |-> Len(store[d]), ok |-> reply'.ok, data |-> <<>>]
<1>1. d \in Drives \ {"A"} /\ Index[d] \in Indices /\ Medium(d) = media[Index[d]]
  BY DEF HardDrives, Index, Drives, Indices, Medium
<1>2. Told(reply'.bytes) = Len(store[d]) /\ (reply'.ok <=> Len(store[d]) > 0)
  <2>1. CASE ~reply'.ok
    BY <1>1, <2>1 DEF Told, Contents, Reports, ReplyType
  <2>2. CASE reply'.ok
    <3> DEFINE m == media[Index[d]]  g == m.geometry
    <3>1. Whole(m) /\ m # NoMedium /\ g = HardDisks[Index[d]].geometry
          /\ HardDisks[Index[d]] # NoMedium
      BY <1>1, <2>2 DEF DisksOK
    <3>2. g.cylinders \in 1..CylinderRadix /\ g.heads \in Nat \ {0} /\ g.spt \in Nat \ {0}
      BY <1>1, <3>1, WholeIsDisk DEF Fitting, Geometry
    <3>3. ((g.cylinders - 1) % CylinderRadix) + 1 = g.cylinders
      <4>1. \A x \in 1..CylinderRadix : ((x - 1) % CylinderRadix) + 1 = x
        BY DiskAssumption, BelowDivisor
      <4> QED BY <3>2, <4>1
    <3>4. reply'.bytes # <<>> /\ reply'.bytes[1] = <<Index[d]>>
      BY <2>2, DiskAssumption DEF Identity
    <3>5. Index[d] \in {0, 1} /\ <<Index[d]>> \in {<<0>>, <<1>>} /\ <<Index[d]>>[1] = Index[d]
      BY <1>1 DEF Indices
    <3>6. Told(reply'.bytes) = TotalSectors(g)
      BY <3>3, <3>4, <3>5 DEF Told, TotalSectors
    <3>7. Len(store[d]) = TotalSectors(g)
      BY <1>1, <3>1, WholeIsDisk DEF Contents
    <3>8. TotalSectors(g) > 0
      <4> DEFINE cs == g.cylinders  hs == g.heads  ss == g.spt
      <4>1. cs \in Nat \ {0} /\ hs \in Nat \ {0} /\ ss \in Nat \ {0}
        BY <3>2, DiskAssumption
      <4>2. TotalSectors(g) = (cs * hs) * ss
        BY DEF TotalSectors
      <4> HIDE DEF cs, hs, ss
      <4>3. cs * hs \in Nat \ {0}
        BY <4>1, PositiveProduct
      <4>4. (cs * hs) * ss \in Nat \ {0}
        BY <4>1, <4>3, PositiveProduct
      <4> QED BY <4>2, <4>4
    <3> QED BY <2>2, <3>6, <3>7, <3>8
  <2> QED BY <2>1, <2>2 DEF Reports, ReplyType
<1>3. Told(reply.bytes)' = Told(reply'.bytes)
  BY DEF Told
<1>4. RowOf(reply) = Store!NoReply /\ RowOf(reply)' = row
  BY <1>2, <1>3, ReportedRow
<1>5. store' = store
  BY StoreKept
<1>6. reply'.ok = (row.n > 0)
  BY <1>2 DEF Reports, ReplyType
<1>7. row = Store!Answer(row.by, "params", row.drive, row.first, row.n, row.n > 0, <<>>)
  BY <1>6 DEF Store!Answer
<1>8. row.by \in {"service", "ports"} /\ row.drive \in Drives /\ row.drive \in HardDrives
      /\ row.n = Len(store[row.drive])
      /\ (status' # "success") = IF row.by = "service" THEN ~(row.n > 0) ELSE status # "success"
  BY <1>1, <1>6 DEF Reports
<1> HIDE DEF row
<1> QED BY <1>4, <1>5, <1>7, <1>8 DEF Store!Parameters, Store!Answers

\* A reset succeeds.
LEMMA StoreResets ==
  ASSUME Reports("reset"), UNCHANGED <<media, floppy, changeline>>, reply'.ok = TRUE
  PROVE  Store!Reset
<1> DEFINE row == [by |-> reply'.by, op |-> "reset", drive |-> reply'.drive, first |-> -1,
                   n |-> reply'.n, ok |-> TRUE, data |-> <<>>]
<1>1. RowOf(reply) = Store!NoReply /\ RowOf(reply)' = row
  BY ReportedRow
<1>2. [e \in Drives |-> Contents(Medium(e))]' = [e \in Drives |-> Contents(Medium(e))]
  BY StoreKept
<1>3. row = Store!Answer(row.by, "reset", row.drive, row.first, row.n, TRUE, <<>>)
  BY DEF Store!Answer
<1>4. row.by \in {"service", "ports"} /\ row.drive \in Drives
      /\ (status' # "success") = IF row.by = "service" THEN ~TRUE ELSE status # "success"
  BY DEF Reports
<1> HIDE DEF row
<1> QED BY <1>1, <1>2, <1>3, <1>4 DEF Store!Reset, Store!Answers

\* The status told is that of the last service.
LEMMA StoreStatus ==
  ASSUME UNCHANGED <<media, floppy, changeline, status>>, reply = NoReply,
         NEW d \in Drives,
         reply' = [by |-> "service", op |-> "status", drive |-> d, at |-> NoAddress,
                   n |-> 0, ok |-> status = "success", bytes |-> <<>>]
  PROVE  Store!Status
<1>1. [e \in Drives |-> Contents(Medium(e))]' = [e \in Drives |-> Contents(Medium(e))]
  BY StoreKept
<1>2. RowOf(reply)' = [by |-> "service", op |-> "status", drive |-> d, first |-> -1,
                       n |-> 0, ok |-> status = "success", data |-> <<>>]
  BY DEF RowOf
<1>3. (status = "success") = ~(status # "success")
  OBVIOUS
<1>4. RowOf(reply)' = Store!Answer("service", "status", d, -1, 0, ~(status # "success"), <<>>)
  BY <1>2, <1>3 DEF Store!Answer
<1>5. RowOf(reply) = Store!NoReply
  BY RowOfNoReply
<1> QED BY <1>1, <1>4, <1>5 DEF Store!Status, Store!Nowhere

\* The change line is told once.
LEMMA StoreChanged ==
  ASSUME Reports("changed"), UNCHANGED <<media, floppy>>, changeline \in BOOLEAN,
         NEW d \in Drives, reply'.drive = d, 
         reply'.ok <=> d = "A" /\ ~changeline,
         changeline' = IF d = "A" THEN FALSE ELSE changeline
  PROVE  Store!Changed
<1> DEFINE changed == IF changeline THEN {"A"} ELSE {}
           row == [by |-> reply'.by, op |-> "changed", drive |-> d, first |-> -1,
                   n |-> reply'.n, ok |-> reply'.ok, data |-> <<>>]
<1>1. RowOf(reply) = Store!NoReply /\ RowOf(reply)' = row
  BY ReportedRow
<1>2. [e \in Drives |-> Contents(Medium(e))]' = [e \in Drives |-> Contents(Medium(e))]
  BY StoreKept
<1>3. reply'.ok = (row.drive \notin changed \cup HardDrives)
  BY DEF Drives, HardDrives, Index, Reports, ReplyType
<1>4. row = Store!Answer(row.by, "changed", row.drive, row.first, row.n,
                         row.drive \notin changed \cup HardDrives, <<>>)
  BY <1>3 DEF Store!Answer
<1>5. row.by \in {"service", "ports"} /\ row.drive \in Drives
      /\ (status' # "success") =
           IF row.by = "service" THEN ~(row.drive \notin changed \cup HardDrives)
           ELSE status # "success"
  BY <1>3 DEF Reports
<1>6. changed' = changed \ {row.drive}
  BY DEF Drives
<1> HIDE DEF row
<1> QED BY <1>1, <1>2, <1>4, <1>5, <1>6 DEF Store!Changed, Store!Answers

\* Nothing that the store sees has changed.
LEMMA StoreStutters ==
  ASSUME UNCHANGED <<media, floppy, changeline, status, reply>>
  PROVE  UNCHANGED Store!vars
<1>1. [e \in Drives |-> Contents(Medium(e))]' = [e \in Drives |-> Contents(Medium(e))]
  BY StoreKept
<1>2. RowOf(reply)' = RowOf(reply)
  BY DEF RowOf, First, Medium, Told
<1> QED BY <1>1, <1>2 DEF Store!vars

\* The program takes its answer.
LEMMA StoreTakes ==
  ASSUME UNCHANGED <<media, floppy, changeline, status>>,
         ReplyInv, reply # NoReply, reply' = NoReply
  PROVE  Store!Take
<1>1. [e \in Drives |-> Contents(Medium(e))]' = [e \in Drives |-> Contents(Medium(e))]
  BY StoreKept
<1>2. RowOf(reply)' = Store!NoReply
  BY DEF RowOf, NoReply, Store!NoReply, Store!Answer, Store!Nowhere
<1>3. RowOf(reply) # Store!NoReply
  BY DEF ReplyInv, RowOf, Store!NoReply, Store!Answer
<1> QED BY <1>1, <1>2, <1>3 DEF Store!Take

\* Another floppy, or none.
LEMMA StoreExchanges ==
  ASSUME UNCHANGED <<media, status, reply>>, reply = NoReply,
         floppy' \in Floppies \cup {NoMedium}, changeline' = TRUE, changeline \in BOOLEAN
  PROVE  Store!Exchange("A")
<1> DEFINE store == [e \in Drives |-> Contents(Medium(e))]
           sets == {Contents(m) : m \in Floppies \cup {NoMedium}}
<1>1. Contents(floppy') \in sets
  OBVIOUS
<1>2. \A e \in Drives : Medium(e)' = IF e = "A" THEN floppy' ELSE Medium(e)
  BY DEF Medium
<1>3. store' = [store EXCEPT !["A"] = Contents(floppy')]
  BY <1>2 DEF Drives
<1>4. RowOf(reply) = Store!NoReply
  BY RowOfNoReply
<1>5. RowOf(reply)' = Store!NoReply
  BY RowOfNoReply DEF RowOf, NoReply, Store!NoReply, Store!Answer, Store!Nowhere
<1>6. (IF changeline' THEN {"A"} ELSE {}) = (IF changeline THEN {"A"} ELSE {}) \cup {"A"}
  OBVIOUS
<1> QED BY <1>1, <1>3, <1>4, <1>5, <1>6 DEF Store!Exchange

-----------------------------------------------------------------------------
(* The controller, command by command. *)

\* A controller between two requests.
Idle(h) == h \in HdcType /\ h.phase = "idle" /\ h.srst = FALSE

\* The address the controller makes is one, and the same if it has the bits.
LEMMA CastIs ==
  ASSUME NEW a \in Address
  PROVE  /\ Cast(a) \in Address
         /\ a.c < CylinderRadix /\ a.h < HeadRadix => Cast(a) = a
<1>1. a = [c |-> a.c, h |-> a.h, s |-> a.s] /\ a.c \in Nat /\ a.h \in Nat /\ a.s \in Nat
  BY DEF Address
<1>2. Cast(a) = [c |-> a.c % CylinderRadix, h |-> a.h % HeadRadix, s |-> a.s]
  <2>1. [a EXCEPT !.c = a.c % CylinderRadix] = [c |-> a.c % CylinderRadix, h |-> a.h, s |-> a.s]
    BY <1>1
  <2>2. [[c |-> a.c % CylinderRadix, h |-> a.h, s |-> a.s] EXCEPT !.h = a.h % HeadRadix]
          = [c |-> a.c % CylinderRadix, h |-> a.h % HeadRadix, s |-> a.s]
    OBVIOUS
  <2> QED BY <2>1, <2>2 DEF Cast
<1>3. a.c % CylinderRadix \in Nat /\ a.h % HeadRadix \in Nat
  BY <1>1, DiskAssumption
<1>4. a.c < CylinderRadix => a.c % CylinderRadix = a.c
  BY <1>1, DiskAssumption, BelowDivisor
<1>5. a.h < HeadRadix => a.h % HeadRadix = a.h
  BY <1>1, DiskAssumption, BelowDivisor
<1> QED BY <1>1, <1>2, <1>3, <1>4, <1>5 DEF Address

\* The ends of a command without data, and the wait for data.
Ends(h, error) == [h EXCEPT !.error = error]

Awaits(h, i, b, size) ==
  [ToIdle(h) EXCEPT !.phase = "write", !.at = b, !.drive = i, !.expected = size,
                    !.error = "none"]

\* What each command does to the controller.
LEMMA CommandIs ==
  ASSUME NEW h, NEW d \in HardDrives, NEW a, NEW n
  PROVE  LET m == Medium(d) IN
         /\ Command(h, media, "read", Index[d], a, n) =
              IF Found(d, a, n) THEN Serves(h, ReadSectors(m, Cast(a), n)) ELSE Aborts(h)
         /\ Command(h, media, "verify", Index[d], a, n) =
              IF Found(d, a, n) THEN Ends(h, "none") ELSE Aborts(h)
         /\ Command(h, media, "write", Index[d], a, n) =
              IF Known(d, a)
              THEN Awaits(h, Index[d], Cast(a), n * SectorBytes)
              ELSE Aborts(h)
         /\ Command(h, media, "identify", Index[d], a, n) =
              IF m # NoMedium THEN Serves(h, Identity(Index[d])) ELSE Aborts(h)
         /\ Command(h, media, "diagnose", Index[d], a, n) = Ends(h, "diagnosed")
<1>1. Medium(d) = media[Index[d]]
  BY DEF Medium, HardDrives, Index
<1> DEFINE known == media[Index[d]] # NoMedium /\ a.c < media[Index[d]].geometry.cylinders
           found == known /\ Readable(media[Index[d]], Cast(a), n)
<1>2. Known(d, a) <=> known
  BY <1>1 DEF Known
<1>3. Found(d, a, n) <=> found
  BY <1>1 DEF Known, Found
<1>4. ASSUME NEW cmd
      PROVE  Command(h, media, cmd, Index[d], a, n) =
        CASE cmd = "read" /\ found    -> Serves(h, ReadSectors(media[Index[d]], Cast(a), n))
          [] cmd = "verify" /\ found  -> Ends(h, "none")
          [] cmd = "write" /\ known   ->
               Awaits(h, Index[d], Cast(a), n * SectorBytes)
          [] cmd = "identify" /\ media[Index[d]] # NoMedium -> Serves(h, Identity(Index[d]))
          [] cmd = "diagnose" -> Ends(h, "diagnosed")
          [] OTHER -> Aborts(h)
  BY DEF Command, Cast, Ends, Awaits
<1> HIDE DEF known, found
<1> QED BY <1>1, <1>2, <1>3, <1>4

\* HdcPhase::Idle keeps the error and SRST.
LEMMA ToIdleIs ==
  ASSUME NEW h \in HdcType
  PROVE  /\ ToIdle(h) \in HdcType /\ ToIdle(h).phase = "idle" /\ ToIdle(h).data = <<>>
         /\ ToIdle(h).error = h.error /\ ToIdle(h).srst = h.srst
<1> DEFINE t == HdcNew
<1>1. t \in HdcType /\ t.phase = "idle" /\ t.data = <<>>
  BY DEF HdcNew, HdcType, Indices, Address
<1> HIDE DEF t
<1>2. ToIdle(h) = [t EXCEPT !.error = h.error, !.srst = h.srst]
  BY DEF ToIdle, t
<1>3. h.error \in {"none", "abort", "diagnosed"} /\ h.srst \in BOOLEAN
  BY DEF HdcType
<1>4. ToIdle(h) \in HdcType
  BY <1>1, <1>2, <1>3 DEF HdcType
<1> QED BY <1>1, <1>2, <1>4 DEF HdcType

\* A command that fails leaves an error and asks for no data.
LEMMA AbortsIs ==
  ASSUME NEW h, Idle(h)
  PROVE  Idle(Aborts(h)) /\ Err(Aborts(h)) /\ ~Drq(Aborts(h))
BY DEF Idle, Aborts, HdcType, Err, Drq

\* One that serves data has no error until they are read.
LEMMA ServesIs ==
  ASSUME NEW h, Idle(h), NEW data \in Seq(ByteSet)
  PROVE  /\ Serves(h, data) \in HdcType /\ Serves(h, data).phase = "read"
         /\ Serves(h, data).data = data /\ Serves(h, data).index = 0
         /\ Serves(h, data).srst = FALSE
         /\ ~Err(Serves(h, data)) /\ Drq(Serves(h, data))
BY DEF Idle, Serves, ToIdle, HdcNew, HdcType, Err, Drq, Indices, Address

\* One that reports success or a diagnosis asks for no data either.
LEMMA EndsIs ==
  ASSUME NEW h, Idle(h), NEW e \in {"none", "abort", "diagnosed"}
  PROVE  /\ Idle(Ends(h, e)) /\ ~Drq(Ends(h, e))
         /\ Err(Ends(h, e)) <=> e # "none"
BY DEF Idle, HdcType, Err, Drq, Ends

\* Reading all the data.
LEMMA ReadsAll ==
  ASSUME NEW h \in HdcType, h.phase = "read", h.index = 0, h.srst = FALSE,
         Len(h.data) # 0
  PROVE  Idle(AfterReads(h, Len(h.data))) /\ PortBytes(h, Len(h.data)) = h.data
<1>1. h.data \in Seq(ByteSet) /\ Len(h.data) \in Nat
  BY DEF HdcType
<1>2. AfterReads(h, Len(h.data)) = ToIdle(h)
  BY <1>1 DEF AfterReads
<1>3. PortBytes(h, Len(h.data)) = [i \in 1..Len(h.data) |-> h.data[i]]
  BY <1>1 DEF PortBytes
<1> QED BY <1>1, <1>2, <1>3, ToIdleIs DEF Idle

\* Reading one byte.
LEMMA ReadsOne ==
  ASSUME NEW h \in HdcType, h.phase = "read", h.srst = FALSE, h.index < Len(h.data)
  PROVE  /\ PortBytes(h, 1) = <<h.data[h.index + 1]>>
         /\ h.index + 1 = Len(h.data) => Idle(AfterReads(h, 1))
         /\ h.index + 1 # Len(h.data) =>
              LET g == AfterReads(h, 1) IN
              /\ g \in HdcType /\ g.phase = "read" /\ g.srst = FALSE
              /\ g.data = h.data /\ g.index = h.index + 1 /\ g.index < Len(g.data)
<1>1. h.data \in Seq(ByteSet) /\ Len(h.data) \in Nat /\ h.index \in Nat
  BY DEF HdcType
<1>2. PortBytes(h, 1) = <<h.data[h.index + 1]>>
  <2>1. PortBytes(h, 1) = [i \in 1..1 |-> h.data[h.index + i]]
    BY <1>1 DEF PortBytes
  <2>2. \A x : <<x>> = [i \in 1..1 |-> x]
    OBVIOUS
  <2>3. [i \in 1..1 |-> h.data[h.index + i]] = [i \in 1..1 |-> h.data[h.index + 1]]
    OBVIOUS
  <2> QED BY <2>1, <2>2, <2>3
<1>3. CASE h.index + 1 = Len(h.data)
  <2>1. AfterReads(h, 1) = ToIdle(h)
    BY <1>1, <1>3 DEF AfterReads
  <2> QED BY <1>2, <1>3, <2>1, ToIdleIs DEF Idle
<1>4. CASE h.index + 1 # Len(h.data)
  <2>1. AfterReads(h, 1) = [h EXCEPT !.index = h.index + 1]
    BY <1>1, <1>4 DEF AfterReads
  <2> DEFINE g == AfterReads(h, 1)
  <2>2. g \in HdcType /\ g.phase = "read" /\ g.srst = FALSE
        /\ g.data = h.data /\ g.index = h.index + 1
    BY <1>1, <2>1 DEF HdcType
  <2> HIDE DEF g
  <2>3. g.index < Len(g.data)
    BY <1>1, <1>4, <2>2
  <2> QED BY <1>2, <1>4, <2>2, <2>3 DEF g
<1> QED BY <1>3, <1>4

\* The hard disks once n sectors have been written to disk i.
Written(i, b, n) == [media EXCEPT ![i] = WriteSectors(@, b, Bytes(n))]

\* The last byte of a write stores the sectors, and says whether all are stored.
LEMMA Commit ==
  ASSUME NEW h \in HdcType, h.phase = "write", h.srst = FALSE,
         NEW i \in Indices, h.drive = i, NEW b, h.at = b,
         NEW n \in Counts, h.expected = n * SectorBytes,
         NEW bytes \in Seq(Values), bytes # <<>>, h.data \o bytes = Bytes(n),
         Len(h.data) + Len(bytes) = n * SectorBytes
  PROVE  LET g == AfterWrites(h, media, bytes) IN
         /\ Idle(g) /\ (Err(g) <=> ~Readable(media[i], b, n))
         /\ MediaAfterWrites(h, media, bytes) = Written(i, b, n)
<1> DEFINE g == AfterWrites(h, media, bytes)
           error == IF Readable(media[i], b, n) THEN "none" ELSE "abort"
<1>1. n \in Nat /\ n \in 1..Len(Payload)
  BY ServicesAssumption
<1>2. /\ Bytes(n) \in Seq(Values) /\ Len(Bytes(n)) = n * SectorBytes
      /\ (n * SectorBytes) \div SectorBytes = n /\ n * SectorBytes \in Nat
  BY <1>1, BytesAre, BytePlaces
<1>3. SubSeq(Bytes(n), 1, n * SectorBytes) = Bytes(n)
  BY <1>2
<1>4. Commits(h, bytes)
  BY <1>2 DEF Commits
<1>5. g = [ToIdle(h) EXCEPT !.error = error]
  BY <1>2, <1>4 DEF AfterWrites
<1>6. Idle(ToIdle(h))
  BY ToIdleIs DEF Idle
<1>7. Idle(g) /\ (Err(g) <=> error # "none")
  BY <1>5, <1>6, EndsIs DEF Ends
<1>8. MediaAfterWrites(h, media, bytes) = Written(i, b, n)
  BY <1>2, <1>3, <1>4 DEF MediaAfterWrites, Written
<1> QED BY <1>7, <1>8

\* A byte before the last is kept for it.
LEMMA Keeps ==
  ASSUME NEW h \in HdcType, h.phase = "write", h.srst = FALSE,
         NEW byte \in Values, Len(h.data) + 1 < h.expected
  PROVE  LET g == AfterWrites(h, media, <<byte>>) IN
         /\ g \in HdcType /\ g.phase = "write" /\ g.srst = FALSE
         /\ g.drive = h.drive /\ g.at = h.at /\ g.expected = h.expected
         /\ g.data = Append(h.data, byte)
         /\ MediaAfterWrites(h, media, <<byte>>) = media
<1>1. h.data \in Seq(ByteSet) /\ Len(h.data) \in Nat /\ h.expected \in Nat /\ byte \in ByteSet
  BY DEF HdcType, ByteSet
<1>2. ~Commits(h, <<byte>>)
  BY <1>1 DEF Commits
<1>3. h.data \o <<byte>> = Append(h.data, byte) /\ Append(h.data, byte) \in Seq(ByteSet)
  BY <1>1
<1>4. AfterWrites(h, media, <<byte>>) = [h EXCEPT !.data = Append(h.data, byte)]
  BY <1>2, <1>3 DEF AfterWrites
<1>5. [h EXCEPT !.data = Append(h.data, byte)] \in HdcType
  BY <1>3 DEF HdcType
<1> QED BY <1>2, <1>4, <1>5 DEF MediaAfterWrites, HdcType

\* A beginning of a sequence, and one more.
LEMMA PrefixGrows ==
  ASSUME NEW S, NEW s \in Seq(S)
  PROVE  /\ SubSeq(s, 1, 0) = <<>> /\ SubSeq(s, 1, Len(s)) = s
         /\ \A k \in 0..Len(s) : /\ SubSeq(s, 1, k) \in Seq(S) /\ Len(SubSeq(s, 1, k)) = k
         /\ \A k \in 0..(Len(s) - 1) :
              /\ s[k + 1] \in S
              /\ SubSeq(s, 1, k) \o <<s[k + 1]>> = SubSeq(s, 1, k + 1)
              /\ Append(SubSeq(s, 1, k), s[k + 1]) = SubSeq(s, 1, k + 1)
OBVIOUS

-----------------------------------------------------------------------------
(* The invariant, action by action.                                        *)

\* What a drive holds depends on the disks alone; a hard disk is one of them.
LEMMA HardMedium ==
  ASSUME NEW d \in HardDrives
  PROVE  /\ d \in Drives \ {"A"} /\ Index[d] \in Indices /\ Medium(d) = media[Index[d]]
         /\ \A e \in HardDrives : e # d => Index[e] # Index[d]
BY DEF HardDrives, Drives, Index, Indices, Medium

\* The parts of a request are what they should be.
LEMMA RequestIs ==
  ASSUME NEW d \in Drives, NEW a \in Requested[d], NEW n \in Counts
  PROVE  /\ a \in Address /\ Cast(a) \in Address
         /\ n \in Nat \ {0} /\ n \in 1..Len(Payload) /\ n * SectorBytes \in Nat \ {0}
<1>1. a \in Address /\ n \in Nat \ {0} /\ n \in 1..Len(Payload)
  BY ServicesAssumption
<1>2. \A x, y \in Nat \ {0} : x * y \in Nat \ {0}
  OBVIOUS
<1> QED BY <1>1, <1>2, CastIs, DiskAssumption

\* A write that is accepted makes the controller wait for its data.
LEMMA AwaitsIs ==
  ASSUME Idle(hdc), NEW d \in HardDrives, NEW n \in Counts, NEW a \in Requested[d], Known(d, a)
  PROVE  LET g == Command(hdc, media, "write", Index[d], a, n) IN
         /\ g \in HdcType /\ g.phase = "write" /\ g.at = Cast(a) /\ g.drive = Index[d]
         /\ g.expected = n * SectorBytes /\ g.data = <<>> /\ g.srst = FALSE
         /\ ~Err(g) /\ Drq(g)
<1> DEFINE t == ToIdle(hdc)  size == n * SectorBytes  to == Index[d]  b == Cast(a)
           g == Command(hdc, media, "write", Index[d], a, n)
<1>1. t \in HdcType /\ t.phase = "idle" /\ t.data = <<>> /\ t.srst = FALSE
  BY ToIdleIs DEF Idle
<1>2. to \in Indices /\ b \in Address /\ size \in Nat
  BY HardMedium, RequestIs
<1>3. g = Awaits(hdc, to, b, size)
  BY CommandIs
<1> HIDE DEF t, size, to, b, g
<1>4. g = [t EXCEPT !.phase = "write", !.at = b, !.drive = to, !.expected = size, !.error = "none"]
  BY <1>3 DEF t, Awaits
<1>5. g \in HdcType
  BY <1>1, <1>2, <1>4 DEF HdcType
<1>6. /\ g.phase = "write" /\ g.at = b /\ g.drive = to /\ g.expected = size
      /\ g.data = <<>> /\ g.srst = FALSE
  BY <1>1, <1>4 DEF HdcType
<1> QED BY <1>5, <1>6 DEF Err, Drq, size, to, b, g

\* The bytes a command serves.
LEMMA DataIs ==
  ASSUME DisksOK, NEW d \in HardDrives, NEW a \in Requested[d], NEW n \in Counts
  PROVE  /\ Found(d, a, n) =>
              /\ ReadSectors(Medium(d), Cast(a), n) \in Seq(ByteSet)
              /\ Len(ReadSectors(Medium(d), Cast(a), n)) = n * SectorBytes
         /\ Identity(Index[d]) \in Seq(ByteSet) /\ Len(Identity(Index[d])) = SectorBytes
<1>1. d \in Drives /\ Index[d] \in Indices
  BY HardMedium
<1>2. n \in Nat \ {0} /\ Cast(a) \in Address
  BY <1>1, RequestIs
<1>3. ASSUME Found(d, a, n)
      PROVE  /\ ReadSectors(Medium(d), Cast(a), n) \in Seq(ByteSet)
             /\ Len(ReadSectors(Medium(d), Cast(a), n)) = n * SectorBytes
  <2> DEFINE m == Medium(d)  first == Lba(m.geometry, Cast(a))
             part == SubSeq(m.sectors, first + 1, first + n)
  <2>1. Whole(m) /\ Readable(m, Cast(a), n)
    BY <1>1, <1>3, MediumType DEF Found, Known
  <2>2. part \in Seq(Sector) /\ Len(part) = n /\ ReadSectors(m, Cast(a), n) = Joined(part)
    BY <1>2, <2>1, ReadIs
  <2>3. Joined(part) \in Seq(Values) /\ Len(Joined(part)) = n * SectorBytes
    BY <2>2, ChunksOfJoined
  <2>4. \A s \in Seq(Values) : s \in Seq(ByteSet)
    BY DEF ByteSet
  <2> QED BY <2>2, <2>3, <2>4
<1>4. <<Index[d]>> \in ByteSet
  BY <1>1 DEF Indices, ByteSet
<1>5. Identity(Index[d]) \in Seq(ByteSet) /\ Len(Identity(Index[d])) = SectorBytes
  BY <1>4, DiskAssumption DEF Identity
<1> QED BY <1>3, <1>5

\* A service begins with an idle controller and leaves an idle one.
LEMMA ServiceKeeps ==
  ASSUME IInv, port.at = "ready", UNCHANGED port,
         DisksOK', changeline' \in BOOLEAN, Idle(hdc'), status' \in Errors,
         reply' \in ReplyType, reply'.by = "service", reply'.drive \in Drives,
         writes' \in 0..MaxWrites
  PROVE  IInv'
<1>1. TypeOK'
  BY DEF IInv, TypeOK, Idle
<1>2. PortInv'
  BY DEF IInv, PortInv, Idle
<1> QED BY <1>1, <1>2 DEF IInv, ReplyInv

\* A program free to make a request finds an idle controller.
LEMMA FreeIs ==
  ASSUME IInv, Free
  PROVE  /\ port.at = "ready" /\ reply = NoReply /\ Idle(hdc) /\ DisksOK
         /\ changeline \in BOOLEAN /\ status \in Errors /\ writes \in 0..MaxWrites
BY DEF IInv, TypeOK, PortInv, Idle, Free, HdcType

\* The reply of a service.
LEMMA ReturnsIs ==
  ASSUME NEW op \in Operations, NEW d \in Drives, NEW a \in Address, NEW n \in Nat,
         NEW error \in Errors, NEW bytes \in Seq(ByteSet), Returns(op, d, a, n, error, bytes)
  PROVE  /\ reply' \in ReplyType /\ status' = error
         /\ reply'.by = "service" /\ reply'.op = op /\ reply'.drive = d /\ reply'.at = a
         /\ reply'.n = n /\ (reply'.ok <=> error = "success") /\ reply'.bytes = bytes
<1>1. reply' = [by |-> "service", op |-> op, drive |-> d, at |-> a, n |-> n,
                ok |-> error = "success", bytes |-> bytes] /\ status' = error
  BY DEF Returns
<1>2. (error = "success") \in BOOLEAN
  OBVIOUS
<1>3. reply' \in ReplyType
  BY <1>1, <1>2 DEF ReplyType
<1> QED BY <1>1, <1>3

\* The reports of a service, for the store.
LEMMA ServiceReports ==
  ASSUME reply = NoReply, NEW op \in Operations, NEW d \in Drives, NEW a \in Address, NEW n \in Nat,
         NEW error \in Errors, NEW bytes \in Seq(ByteSet), Returns(op, d, a, n, error, bytes)
  PROVE  Reports(op)
BY ReturnsIs DEF Reports, ReplyType

\* Disks that nothing touches stay as they are.
LEMMA KeptDisks ==
  ASSUME DisksOK, UNCHANGED <<media, floppy>>
  PROVE  DisksOK'
BY DEF DisksOK

\* A controller that tells the cylinders of its disk apart carries out what the
\* disk is able to do.
LEMMA FittingIs ==
  ASSUME DisksOK, Fitting, NEW d \in HardDrives, NEW a \in Requested[d], NEW n \in Counts
  PROVE  /\ Known(d, a) => Cast(a) = a
         /\ Found(d, a, n) <=> Able(d, a, n)
         /\ Able(d, a, n) => Known(d, a)
<1>1. d \in Drives /\ Index[d] \in Indices /\ Medium(d) = media[Index[d]]
  BY HardMedium
<1>2. a \in Address /\ n \in Nat \ {0}
  BY <1>1, RequestIs
<1>3. Known(d, a) => Cast(a) = a
  <2> SUFFICES ASSUME Known(d, a) PROVE Cast(a) = a
    OBVIOUS
  <2>1. HardDisks[Index[d]] # NoMedium
        /\ Medium(d).geometry = HardDisks[Index[d]].geometry
    BY <1>1 DEF Known, DisksOK
  <2>2. Medium(d).geometry.cylinders \in 1..CylinderRadix /\ a.h < HeadRadix
    BY <1>1, <2>1 DEF Fitting
  <2>3. a.c < Medium(d).geometry.cylinders /\ a.c \in Nat
    BY <1>2 DEF Known, Address
  <2>4. a.c < CylinderRadix
    BY <2>2, <2>3, DiskAssumption
  <2> QED BY <1>2, <2>2, <2>4, CastIs
<1>4. Able(d, a, n) => Known(d, a)
  <2> SUFFICES ASSUME Able(d, a, n) PROVE Known(d, a)
    OBVIOUS
  <2>1. Whole(Medium(d)) /\ Medium(d) # NoMedium
    BY <1>1, MediumType DEF Able
  <2>2. OnDisk(Medium(d).geometry, a)
    BY <1>2, <2>1, ReadableIs DEF Able, Whole
  <2> QED BY <2>1, <2>2 DEF Known, OnDisk
<1> QED BY <1>3, <1>4 DEF Found, Able, Known

\* int13_read_sectors
LEMMA ReadHardStep ==
  ASSUME IInv, Free, UNCHANGED <<floppy, changeline, port>>,
         NEW d \in HardDrives, NEW n \in Counts, NEW a \in Requested[d], ReadHard(d, a, n)
  PROVE  IInv' /\ (Fitting => Store!Read)
<1> DEFINE now == Command(hdc, media, "read", Index[d], a, n)
           size == n * SectorBytes
           data == ReadSectors(Medium(d), Cast(a), n)
<1>1. port.at = "ready" /\ reply = NoReply /\ Idle(hdc) /\ DisksOK /\ changeline \in BOOLEAN
      /\ writes \in 0..MaxWrites
  BY FreeIs
<1>2. d \in Drives /\ a \in Address /\ n \in Nat /\ size \in Nat \ {0}
  BY HardMedium, RequestIs
<1>3. UNCHANGED <<media, writes>> /\ DisksOK' /\ changeline' \in BOOLEAN
      /\ writes' \in 0..MaxWrites
  <2>1. UNCHANGED <<media, writes>>
    BY DEF ReadHard
  <2> QED BY <1>1, <2>1, KeptDisks
<1>4. "read" \in Operations /\ "success" \in Errors /\ "driveNotReady" \in Errors /\ <<>> \in Seq(ByteSet)
  BY DEF Operations, Errors
<1>5. /\ Idle(hdc') /\ IInv' /\ Reports("read")
      /\ reply'.drive = d /\ reply'.at = a /\ reply'.n = n
      /\ reply'.ok <=> Found(d, a, n)
      /\ reply'.bytes = IF reply'.ok THEN data ELSE <<>>
  <2>1. CASE Found(d, a, n)
    <3>1. now = Serves(hdc, data) /\ data \in Seq(ByteSet) /\ Len(data) = size
      BY <1>1, <2>1, CommandIs, DataIs
    <3>2. /\ now \in HdcType /\ now.phase = "read" /\ now.data = data /\ now.index = 0
          /\ now.srst = FALSE /\ ~Err(now) /\ Drq(now)
      <4> HIDE DEF now, data
      <4> QED BY <1>1, <3>1, ServesIs
    <3>3. Idle(AfterReads(now, size)) /\ PortBytes(now, size) = data
      BY <1>2, <3>1, <3>2, ReadsAll
    <3>4. hdc' = AfterReads(now, size) /\ Returns("read", d, a, n, "success", data)
      BY <3>2, <3>3 DEF ReadHard
    <3> HIDE DEF now, data, size
    <3>5. Idle(hdc')
      BY <3>3, <3>4
    <3>6. /\ reply' \in ReplyType /\ status' \in Errors /\ Reports("read")
          /\ reply'.by = "service" /\ reply'.drive = d /\ reply'.at = a /\ reply'.n = n
          /\ reply'.ok /\ reply'.bytes = data
      BY <1>1, <1>2, <1>4, <3>1, <3>4, ReturnsIs, ServiceReports
    <3>7. IInv'
      BY <1>1, <1>2, <1>3, <3>5, <3>6, ServiceKeeps
    <3> QED BY <2>1, <3>5, <3>6, <3>7
  <2>2. CASE ~Found(d, a, n)
    <3>1. now = Aborts(hdc)
      BY <2>2, CommandIs
    <3>2. Idle(now) /\ Err(now)
      BY <1>1, <3>1, AbortsIs
    <3>3. hdc' = now /\ Returns("read", d, a, n, "driveNotReady", <<>>)
      BY <3>2 DEF ReadHard
    <3> HIDE DEF now, data, size
    <3>4. Idle(hdc')
      BY <3>2, <3>3
    <3>5. /\ reply' \in ReplyType /\ status' \in Errors /\ Reports("read")
          /\ reply'.by = "service" /\ reply'.drive = d /\ reply'.at = a /\ reply'.n = n
          /\ ~reply'.ok /\ reply'.bytes = <<>>
      BY <1>1, <1>2, <1>4, <3>3, ReturnsIs, ServiceReports, ZenonT(60)
    <3>6. IInv'
      BY <1>1, <1>2, <1>3, <3>4, <3>5, ServiceKeeps
    <3> QED BY <2>2, <3>4, <3>5, <3>6
  <2> QED BY <2>1, <2>2
<1>6. ASSUME Fitting PROVE Store!Read
  <2>1. Found(d, a, n) <=> Able(d, a, n)
    BY <1>1, <1>6, FittingIs
  <2>2. Found(d, a, n) => Cast(a) = a
    BY <1>1, <1>6, FittingIs DEF Found
  <2>3. reply'.bytes = IF reply'.ok THEN ReadSectors(Medium(d), a, n) ELSE <<>>
    BY <1>5, <2>2
  <2> HIDE DEF data
  <2> QED BY <1>1, <1>3, <1>5, <2>1, <2>3, StoreReads
<1> QED BY <1>5, <1>6

\* int13_verify_sectors
LEMMA VerifyHardStep ==
  ASSUME IInv, Free, UNCHANGED <<floppy, changeline, port>>,
         NEW d \in HardDrives, NEW n \in Counts, NEW a \in Requested[d], VerifyHard(d, a, n)
  PROVE  IInv' /\ (Fitting => Store!Verify)
<1> DEFINE now == Command(hdc, media, "verify", Index[d], a, n)
           error == IF Found(d, a, n) THEN "success" ELSE "sectorNotFound"
<1>1. port.at = "ready" /\ reply = NoReply /\ Idle(hdc) /\ DisksOK /\ changeline \in BOOLEAN
      /\ writes \in 0..MaxWrites
  BY FreeIs
<1>2. d \in Drives /\ a \in Address /\ n \in Nat
  BY HardMedium, RequestIs
<1>3. UNCHANGED <<media, writes>> /\ hdc' = now /\ DisksOK' /\ changeline' \in BOOLEAN
      /\ writes' \in 0..MaxWrites
  <2>1. UNCHANGED <<media, writes>> /\ hdc' = now
    BY DEF VerifyHard
  <2> QED BY <1>1, <2>1, KeptDisks
<1>4. "verify" \in Operations /\ error \in Errors /\ <<>> \in Seq(ByteSet)
  BY DEF Operations, Errors
<1>5. Idle(now) /\ (Err(now) <=> ~Found(d, a, n))
  <2>1. CASE Found(d, a, n)
    <3>1. now = Ends(hdc, "none")
      BY <2>1, CommandIs
    <3> QED BY <1>1, <2>1, <3>1, EndsIs
  <2>2. CASE ~Found(d, a, n)
    <3>1. now = Aborts(hdc)
      BY <2>2, CommandIs
    <3> QED BY <1>1, <2>2, <3>1, AbortsIs
  <2> QED BY <2>1, <2>2
<1>6. Returns("verify", d, a, n, error, <<>>)
  BY <1>5 DEF VerifyHard
<1> HIDE DEF now
<1>7. /\ reply' \in ReplyType /\ status' \in Errors /\ Reports("verify")
      /\ reply'.by = "service" /\ reply'.drive = d /\ reply'.at = a /\ reply'.n = n
      /\ reply'.ok <=> error = "success"
  <2> HIDE DEF error
  <2> QED BY <1>1, <1>2, <1>4, <1>6, ReturnsIs, ServiceReports, ZenonT(60)
<1>8. IInv'
  BY <1>1, <1>2, <1>3, <1>5, <1>7, ServiceKeeps
<1>9. ASSUME Fitting PROVE Store!Verify
  <2>1. reply'.ok <=> Able(d, a, n)
    BY <1>1, <1>7, <1>9, FittingIs
  <2> QED BY <1>1, <1>3, <1>7, <2>1, StoreVerifies
<1> QED BY <1>8, <1>9

\* A disk that a write has stored sectors on is whole still.
LEMMA DisksWritten ==
  ASSUME DisksOK, UNCHANGED floppy, NEW d \in HardDrives, NEW b \in Address,
         NEW n \in 1..Len(Payload), Medium(d) # NoMedium,
         media' = Written(Index[d], b, n)
  PROVE  /\ DisksOK' /\ Medium(d)' = WriteSectors(Medium(d), b, Bytes(n))
         /\ \A e \in Drives \ {d} : Medium(e)' = Medium(e)
<1> DEFINE i == Index[d]  m == media[i]  new == WriteSectors(m, b, Bytes(n))
<1>1. d \in Drives \ {"A"} /\ i \in Indices /\ Medium(d) = m
  BY HardMedium
<1>2. Whole(m) /\ m # NoMedium /\ DOMAIN media = Indices
  BY <1>1, MediumType DEF DisksOK
<1>3. Whole(new) /\ new.geometry = m.geometry
  BY <1>2, WriteIs
<1>4. DOMAIN media' = Indices /\ media'[i] = new /\ \A j \in Indices \ {i} : media'[j] = media[j]
  BY <1>1, <1>2 DEF Written
<1> HIDE DEF new, i
<1>5. DisksOK'
  <2>1. ASSUME NEW j \in Indices
        PROVE  IF HardDisks[j] = NoMedium THEN media'[j] = NoMedium
               ELSE Whole(media'[j]) /\ media'[j].geometry = HardDisks[j].geometry
    <3>1. CASE j = i
      BY <1>1, <1>2, <1>3, <1>4, <3>1 DEF DisksOK
    <3>2. CASE j # i
      BY <1>4, <3>2 DEF DisksOK
    <3> QED BY <3>1, <3>2
  <2> QED BY <1>4, <2>1 DEF DisksOK
<1>6. Medium(d)' = new
  BY <1>1, <1>4 DEF Medium, i
<1>7. ASSUME NEW e \in Drives \ {d} PROVE Medium(e)' = Medium(e)
  <2>1. CASE e = "A"
    BY <2>1 DEF Medium
  <2>2. CASE e \in HardDrives
    <3>1. Index[e] \in Indices \ {i}
      BY <1>7, <2>2, HardMedium DEF i
    <3> QED BY <1>4, <2>2, <3>1, HardMedium DEF Medium, HardDrives, Index
  <2> QED BY <2>1, <2>2 DEF Drives, HardDrives, Index
<1> QED BY <1>1, <1>5, <1>6, <1>7 DEF new

\* int13_write_sectors
LEMMA WriteHardStep ==
  ASSUME IInv, Free, UNCHANGED <<floppy, changeline, port>>,
         NEW d \in HardDrives, NEW n \in Counts, NEW a \in Requested[d], WriteHard(d, a, n)
  PROVE  IInv' /\ (Fitting => Store!Write)
<1> DEFINE now == Command(hdc, media, "write", Index[d], a, n)
           done == AfterWrites(now, media, Bytes(n))
           size == n * SectorBytes
<1>1. port.at = "ready" /\ reply = NoReply /\ Idle(hdc) /\ DisksOK /\ changeline \in BOOLEAN
      /\ writes \in 0..MaxWrites
  BY FreeIs
<1>2. d \in Drives /\ Index[d] \in Indices /\ Medium(d) = media[Index[d]]
      /\ a \in Address /\ Cast(a) \in Address /\ n \in Nat /\ n \in 1..Len(Payload)
      /\ size \in Nat \ {0}
  BY HardMedium, RequestIs
<1>3. writes' \in 0..MaxWrites /\ changeline' \in BOOLEAN
  BY <1>1, ServicesAssumption DEF WriteHard
<1>4. "write" \in Operations /\ <<>> \in Seq(ByteSet)
      /\ "success" \in Errors /\ "driveNotReady" \in Errors /\ "writeFault" \in Errors
  BY DEF Operations, Errors
<1>5. CASE Known(d, a)
  <2>2. /\ now \in HdcType /\ now.phase = "write" /\ now.at = Cast(a) /\ now.drive = Index[d]
        /\ now.expected = size /\ now.data = <<>> /\ now.srst = FALSE
        /\ ~Err(now) /\ Drq(now)
    BY <1>1, <1>5, AwaitsIs
  <2>3. /\ Bytes(n) \in Seq(Values) /\ Len(Bytes(n)) = size /\ Bytes(n) # <<>>
        /\ now.data \o Bytes(n) = Bytes(n) /\ Len(now.data) + Len(Bytes(n)) = size
    BY <1>2, <2>2, BytesAre
  <2>4. /\ Idle(done) /\ (Err(done) <=> ~Readable(media[Index[d]], Cast(a), n))
        /\ MediaAfterWrites(now, media, Bytes(n)) = Written(Index[d], Cast(a), n)
    <3> HIDE DEF now
    <3> QED BY <1>2, <2>2, <2>3, Commit, ZenonT(60)
  <2> DEFINE error == IF Err(done) THEN "writeFault" ELSE "success"
  <2>5. /\ hdc' = done /\ Returns("write", d, a, n, error, <<>>)
        /\ media' = Written(Index[d], Cast(a), n)
    BY <2>2, <2>4 DEF WriteHard
  <2>6. error = "success" <=> Found(d, a, n)
    BY <1>2, <1>5, <2>4 DEF Found
  <2>7. error \in Errors
    BY <1>4
  <2> HIDE DEF now, done, size, error
  <2>8. DisksOK' /\ Medium(d)' = WriteSectors(Medium(d), Cast(a), Bytes(n))
        /\ \A e \in Drives \ {d} : Medium(e)' = Medium(e)
    BY <1>1, <1>2, <1>5, <2>5, DisksWritten DEF Known
  <2>9. /\ reply' \in ReplyType /\ status' \in Errors /\ Reports("write")
        /\ reply'.by = "service" /\ reply'.drive = d /\ reply'.at = a /\ reply'.n = n
        /\ reply'.ok <=> error = "success"
    BY <1>1, <1>2, <1>4, <2>5, <2>7, ReturnsIs, ServiceReports, ZenonT(60)
  <2>10. IInv'
    BY <1>1, <1>2, <1>3, <2>4, <2>5, <2>8, <2>9, ServiceKeeps
  <2>11. ASSUME Fitting PROVE Store!Write
    <3>1. Cast(a) = a /\ (Found(d, a, n) <=> Able(d, a, n))
      BY <1>1, <1>5, <2>11, FittingIs
    <3>2. Medium(d) # NoMedium /\ Medium(d)' = WriteSectors(Medium(d), a, Bytes(n))
      BY <1>5, <2>8, <3>1 DEF Known
    <3>3. reply'.ok <=> Able(d, a, n)
      BY <2>6, <2>9, <3>1
    <3> QED BY <1>1, <1>2, <2>8, <2>9, <3>2, <3>3, StoreWrites
  <2> QED BY <2>10, <2>11
<1>6. CASE ~Known(d, a)
  <2>1. now = Aborts(hdc)
    BY <1>6, CommandIs
  <2>2. Idle(now) /\ Err(now)
    BY <1>1, <2>1, AbortsIs
  <2>3. hdc' = now /\ media' = media /\ Returns("write", d, a, n, "driveNotReady", <<>>)
    BY <2>2 DEF WriteHard
  <2> HIDE DEF now, done, size
  <2>4. DisksOK'
    BY <1>1, <2>3, KeptDisks
  <2>5. /\ reply' \in ReplyType /\ status' \in Errors /\ Reports("write")
        /\ reply'.by = "service" /\ reply'.drive = d /\ reply'.at = a /\ reply'.n = n
        /\ ~reply'.ok
    <3>1. Returns("write", d, a, n, "driveNotReady", <<>>)
      BY <2>3
    <3>2. "write" \in Operations /\ "driveNotReady" \in Errors /\ <<>> \in Seq(ByteSet)
      BY DEF Operations, Errors
    <3>3. /\ reply' \in ReplyType /\ status' = "driveNotReady"
          /\ reply'.by = "service" /\ reply'.drive = d /\ reply'.at = a /\ reply'.n = n
          /\ (reply'.ok <=> "driveNotReady" = "success")
      BY <1>1, <1>2, <1>4, <3>1, <3>2, ReturnsIs, ZenonT(60)
    <3>4. Reports("write")
      BY <1>1, <1>2, <1>4, <3>1, <3>2, ServiceReports, ZenonT(60)
    <3> QED BY <3>2, <3>3, <3>4
  <2>6. IInv'
    BY <1>1, <1>2, <1>3, <2>2, <2>3, <2>4, <2>5, ServiceKeeps
  <2>7. ASSUME Fitting PROVE Store!Write
    <3>1. ~Able(d, a, n)
      BY <1>1, <1>6, <2>7, FittingIs
    <3>2. \A e \in Drives : Medium(e)' = Medium(e)
      BY <2>3, StoreKept
    <3>3. (reply'.ok <=> Able(d, a, n)) /\ Medium(d)' = Medium(d) /\ ~reply'.ok
      BY <1>2, <2>5, <3>1, <3>2
    <3> QED BY <1>1, <1>2, <2>5, <3>2, <3>3, StoreWrites
  <2> QED BY <2>6, <2>7
<1> QED BY <1>5, <1>6

\* int13_get_drive_params
LEMMA IdentifyHardStep ==
  ASSUME IInv, Free, UNCHANGED <<floppy, changeline, port>>,
         NEW d \in HardDrives, NEW n \in Counts, NEW a \in Requested[d], IdentifyHard(d, a, n)
  PROVE  IInv' /\ (Fitting => Store!Parameters)
<1> DEFINE now == Command(hdc, media, "identify", Index[d], NoAddress, 0)
           data == Identity(Index[d])
<1>1. port.at = "ready" /\ reply = NoReply /\ Idle(hdc) /\ DisksOK /\ changeline \in BOOLEAN
      /\ writes \in 0..MaxWrites
  BY FreeIs
<1>2. d \in Drives /\ NoAddress \in Address /\ 0 \in Nat /\ SectorBytes \in Nat \ {0}
  BY HardMedium, DiskAssumption DEF NoAddress, Address
<1>3. UNCHANGED <<media, writes>> /\ DisksOK' /\ changeline' \in BOOLEAN
      /\ writes' \in 0..MaxWrites
  <2>1. UNCHANGED <<media, writes>>
    BY DEF IdentifyHard
  <2> QED BY <1>1, <2>1, KeptDisks
<1>4. "params" \in Operations /\ "success" \in Errors /\ "driveNotReady" \in Errors
      /\ <<>> \in Seq(ByteSet)
  BY DEF Operations, Errors
<1>5. /\ IInv' /\ Reports("params") /\ reply'.drive = d
      /\ reply'.ok <=> Medium(d) # NoMedium
      /\ reply'.bytes = IF reply'.ok THEN data ELSE <<>>
  <2>1. CASE Medium(d) # NoMedium
    <3>1. now = Serves(hdc, data) /\ data \in Seq(ByteSet) /\ Len(data) = SectorBytes
      BY <1>1, <2>1, CommandIs, DataIs
    <3>2. /\ now \in HdcType /\ now.phase = "read" /\ now.data = data /\ now.index = 0
          /\ now.srst = FALSE /\ ~Err(now) /\ Drq(now)
      <4> HIDE DEF now, data
      <4> QED BY <1>1, <3>1, ServesIs
    <3>3. Idle(AfterReads(now, SectorBytes)) /\ PortBytes(now, SectorBytes) = data
      BY <1>2, <3>1, <3>2, ReadsAll
    <3>4. hdc' = AfterReads(now, SectorBytes)
          /\ Returns("params", d, NoAddress, 0, "success", data)
      BY <3>2, <3>3 DEF IdentifyHard
    <3> HIDE DEF now, data
    <3>5. Idle(hdc')
      BY <3>3, <3>4
    <3>6. /\ reply' \in ReplyType /\ status' \in Errors /\ Reports("params")
          /\ reply'.by = "service" /\ reply'.drive = d /\ reply'.ok /\ reply'.bytes = data
      BY <1>1, <1>2, <1>4, <3>1, <3>4, ReturnsIs, ServiceReports
    <3>7. IInv'
      BY <1>1, <1>2, <1>3, <3>5, <3>6, ServiceKeeps
    <3> QED BY <2>1, <3>6, <3>7
  <2>2. CASE Medium(d) = NoMedium
    <3>1. now = Aborts(hdc)
      BY <2>2, CommandIs
    <3>2. Idle(now) /\ Err(now)
      BY <1>1, <3>1, AbortsIs
    <3>3. hdc' = now /\ Returns("params", d, NoAddress, 0, "driveNotReady", <<>>)
      BY <3>2 DEF IdentifyHard
    <3> HIDE DEF now, data
    <3>4. /\ reply' \in ReplyType /\ status' \in Errors /\ Reports("params")
          /\ reply'.by = "service" /\ reply'.drive = d /\ ~reply'.ok /\ reply'.bytes = <<>>
      BY <1>1, <1>2, <1>4, <3>3, ReturnsIs, ServiceReports, ZenonT(60)
    <3>5. IInv'
      BY <1>1, <1>2, <1>3, <3>2, <3>3, <3>4, ServiceKeeps
    <3> QED BY <2>2, <3>4, <3>5
  <2> QED BY <2>1, <2>2
<1>6. ASSUME Fitting PROVE Store!Parameters
  BY <1>1, <1>3, <1>5, <1>6, StoreParameters
<1> QED BY <1>5, <1>6

\* A software reset, asserted and released, leaves an idle controller.
LEMMA SrstIs ==
  ASSUME NEW h \in HdcType
  PROVE  /\ AssertSrst(h) \in HdcType /\ AssertSrst(h).srst = TRUE
         /\ h.srst = FALSE => AssertSrst(h).phase = "idle"
         /\ h.srst = TRUE => AssertSrst(h) = h
         /\ h.srst = TRUE /\ h.phase = "idle" => Idle(ReleaseSrst(h))
<1>1. CASE h.srst = FALSE
  <2> DEFINE t == ToIdle(h)
  <2>1. t \in HdcType /\ t.phase = "idle"
    BY ToIdleIs
  <2>2. AssertSrst(h) = [t EXCEPT !.srst = TRUE]
    BY <1>1 DEF AssertSrst
  <2> HIDE DEF t
  <2> QED BY <1>1, <2>1, <2>2 DEF HdcType
<1>2. CASE h.srst = TRUE
  BY <1>2 DEF AssertSrst, ReleaseSrst, HdcType, Idle
<1> QED BY <1>1, <1>2 DEF HdcType

\* int13_reset_disk on a hard disk.
LEMMA ResetHardStep ==
  ASSUME IInv, Free, UNCHANGED <<floppy, changeline, port>>,
         NEW d \in HardDrives, NEW n \in Counts, NEW a \in Requested[d], ResetHard(d, a, n)
  PROVE  IInv' /\ Store!Reset
<1>1. port.at = "ready" /\ reply = NoReply /\ Idle(hdc) /\ DisksOK /\ changeline \in BOOLEAN
      /\ writes \in 0..MaxWrites
  BY FreeIs
<1>2. d \in Drives /\ NoAddress \in Address /\ 0 \in Nat
  BY HardMedium DEF NoAddress, Address
<1>3. UNCHANGED <<media, writes>> /\ DisksOK' /\ changeline' \in BOOLEAN
      /\ writes' \in 0..MaxWrites
  <2>1. UNCHANGED <<media, writes>>
    BY DEF ResetHard
  <2> QED BY <1>1, <2>1, KeptDisks
<1>4. "reset" \in Operations /\ "success" \in Errors /\ <<>> \in Seq(ByteSet)
  BY DEF Operations, Errors
<1>5. Idle(ReleaseSrst(AssertSrst(hdc)))
  BY <1>1, SrstIs DEF Idle
<1>6. hdc' = ReleaseSrst(AssertSrst(hdc)) /\ Returns("reset", d, NoAddress, 0, "success", <<>>)
  BY DEF ResetHard
<1>7. /\ reply' \in ReplyType /\ status' \in Errors /\ Reports("reset")
      /\ reply'.by = "service" /\ reply'.drive = d /\ reply'.ok = TRUE
  <2>1. reply' \in ReplyType /\ status' \in Errors /\ Reports("reset")
        /\ reply'.by = "service" /\ reply'.drive = d /\ reply'.ok
    BY <1>1, <1>2, <1>4, <1>6, ReturnsIs, ServiceReports
  <2> QED BY <2>1 DEF ReplyType
<1>8. IInv'
  BY <1>1, <1>2, <1>3, <1>5, <1>6, <1>7, ServiceKeeps
<1>9. Store!Reset
  BY <1>3, <1>7, StoreResets
<1> QED BY <1>8, <1>9

\* A service that reads sectors of the floppy.
LEMMA FloppyDataIs ==
  ASSUME DisksOK, NEW a \in Requested["A"], NEW n \in Counts
  PROVE  /\ "A" \in Drives /\ Medium("A") = floppy /\ a \in Address
         /\ n \in Nat /\ n \in 1..Len(Payload)
         /\ FloppyError(a, n) \in Errors
         /\ FloppyError(a, n) = "success" <=> Able("A", a, n)
         /\ Able("A", a, n) => ReadSectors(floppy, a, n) \in Seq(ByteSet)
<1>1. "A" \in Drives /\ Medium("A") = floppy
  BY DEF Drives, Medium
<1>2. a \in Address /\ n \in Nat \ {0} /\ n \in 1..Len(Payload)
  BY <1>1, RequestIs
<1>3. FloppyError(a, n) \in Errors /\ (FloppyError(a, n) = "success" <=> Able("A", a, n))
  BY <1>1 DEF FloppyError, FloppyHas, Able, Errors
<1>4. ASSUME Able("A", a, n) PROVE ReadSectors(floppy, a, n) \in Seq(ByteSet)
  <2> DEFINE first == Lba(floppy.geometry, a)
             part == SubSeq(floppy.sectors, first + 1, first + n)
  <2>1. Whole(floppy) /\ Readable(floppy, a, n)
    BY <1>1, <1>4, MediumType DEF Able
  <2>2. part \in Seq(Sector) /\ ReadSectors(floppy, a, n) = Joined(part)
    BY <1>2, <2>1, ReadIs
  <2>3. Joined(part) \in Seq(Values)
    BY <2>2, ChunksOfJoined
  <2>4. \A s \in Seq(Values) : s \in Seq(ByteSet)
    BY DEF ByteSet
  <2> QED BY <2>2, <2>3, <2>4
<1> QED BY <1>1, <1>2, <1>3, <1>4

\* int13_read_sectors on the floppy.
LEMMA ReadFloppyStep ==
  ASSUME IInv, Free, UNCHANGED <<media, hdc, port>>,
         NEW n \in Counts, NEW a \in Requested["A"], ReadFloppy(a, n)
  PROVE  IInv' /\ Store!Read
<1> DEFINE error == FloppyError(a, n)
           data == IF error = "success" THEN ReadSectors(floppy, a, n) ELSE <<>>
<1>1. port.at = "ready" /\ reply = NoReply /\ Idle(hdc) /\ DisksOK /\ changeline \in BOOLEAN
      /\ writes \in 0..MaxWrites
  BY FreeIs
<1>2. /\ "A" \in Drives /\ Medium("A") = floppy /\ a \in Address /\ n \in Nat
      /\ error \in Errors /\ (error = "success" <=> Able("A", a, n))
      /\ data \in Seq(ByteSet) /\ "read" \in Operations
  <2>1. <<>> \in Seq(ByteSet) /\ "read" \in Operations
    BY DEF Operations
  <2> QED BY <1>1, <2>1, FloppyDataIs
<1>3. UNCHANGED <<floppy, changeline, writes>> /\ Returns("read", "A", a, n, error, data)
  BY DEF ReadFloppy
<1>4. DisksOK' /\ changeline' \in BOOLEAN /\ writes' \in 0..MaxWrites /\ Idle(hdc')
  BY <1>1, <1>3, KeptDisks
<1>5. data = IF error = "success" THEN ReadSectors(floppy, a, n) ELSE <<>>
  OBVIOUS
<1> HIDE DEF error, data
<1>6. /\ reply' \in ReplyType /\ status' \in Errors /\ Reports("read")
      /\ reply'.by = "service" /\ reply'.drive = "A" /\ reply'.at = a /\ reply'.n = n
      /\ (reply'.ok <=> error = "success") /\ reply'.bytes = data
  BY <1>1, <1>2, <1>3, ReturnsIs, ServiceReports
<1>7. IInv'
  BY <1>1, <1>2, <1>4, <1>6, ServiceKeeps
<1>8. Store!Read
  <2>1. reply'.bytes = IF reply'.ok THEN ReadSectors(floppy, a, n) ELSE <<>>
    BY <1>5, <1>6
  <2> QED BY <1>1, <1>2, <1>3, <1>6, <2>1, StoreReads
<1> QED BY <1>7, <1>8

\* int13_verify_sectors on the floppy.
LEMMA VerifyFloppyStep ==
  ASSUME IInv, Free, UNCHANGED <<media, hdc, port>>,
         NEW n \in Counts, NEW a \in Requested["A"], VerifyFloppy(a, n)
  PROVE  IInv' /\ Store!Verify
<1> DEFINE error == FloppyError(a, n)
<1>1. port.at = "ready" /\ reply = NoReply /\ Idle(hdc) /\ DisksOK /\ changeline \in BOOLEAN
      /\ writes \in 0..MaxWrites
  BY FreeIs
<1>2. /\ "A" \in Drives /\ Medium("A") = floppy /\ a \in Address /\ n \in Nat
      /\ error \in Errors /\ (error = "success" <=> Able("A", a, n))
      /\ <<>> \in Seq(ByteSet) /\ "verify" \in Operations
  BY <1>1, FloppyDataIs DEF Operations
<1>3. UNCHANGED <<floppy, changeline, writes>> /\ Returns("verify", "A", a, n, error, <<>>)
  BY DEF VerifyFloppy
<1>4. DisksOK' /\ changeline' \in BOOLEAN /\ writes' \in 0..MaxWrites /\ Idle(hdc')
  BY <1>1, <1>3, KeptDisks
<1> HIDE DEF error
<1>5. /\ reply' \in ReplyType /\ status' \in Errors /\ Reports("verify")
      /\ reply'.by = "service" /\ reply'.drive = "A" /\ reply'.at = a /\ reply'.n = n
      /\ (reply'.ok <=> error = "success")
  BY <1>1, <1>2, <1>3, ReturnsIs, ServiceReports, ZenonT(60)
<1>6. IInv'
  BY <1>1, <1>2, <1>4, <1>5, ServiceKeeps
<1>7. Store!Verify
  BY <1>1, <1>2, <1>3, <1>5, StoreVerifies
<1> QED BY <1>6, <1>7

\* int13_write_sectors on the floppy: what fits is stored, an error or not.
LEMMA WriteFloppyStep ==
  ASSUME IInv, Free, UNCHANGED <<media, hdc, port>>,
         NEW n \in Counts, NEW a \in Requested["A"], WriteFloppy(a, n)
  PROVE  IInv' /\ Store!Write
<1> DEFINE error == FloppyError(a, n)  new == WriteSectors(floppy, a, Bytes(n))
<1>1. port.at = "ready" /\ reply = NoReply /\ Idle(hdc) /\ DisksOK /\ changeline \in BOOLEAN
      /\ writes \in 0..MaxWrites
  BY FreeIs
<1>2. /\ "A" \in Drives /\ Medium("A") = floppy /\ a \in Address /\ n \in Nat
      /\ n \in 1..Len(Payload)
      /\ error \in Errors /\ (error = "success" <=> Able("A", a, n))
      /\ <<>> \in Seq(ByteSet) /\ "write" \in Operations
  BY <1>1, FloppyDataIs DEF Operations
<1>3. /\ UNCHANGED changeline /\ Returns("write", "A", a, n, error, <<>>)
      /\ floppy' = IF floppy = NoMedium THEN floppy ELSE new
      /\ writes' \in 0..MaxWrites
  BY <1>1, ServicesAssumption DEF WriteFloppy
<1>4. floppy # NoMedium => Whole(new)
  <2> SUFFICES ASSUME floppy # NoMedium PROVE Whole(new)
    OBVIOUS
  <2>1. Whole(floppy)
    BY <1>1, <1>2, MediumType
  <2> QED BY <1>2, <2>1, WriteIs
<1> HIDE DEF new
<1>5. DisksOK' /\ changeline' \in BOOLEAN /\ Idle(hdc')
  BY <1>1, <1>3, <1>4 DEF DisksOK
<1>6. Medium("A")' = floppy' /\ \A e \in Drives \ {"A"} : Medium(e)' = Medium(e)
  BY DEF Medium
<1>7. \/ Medium("A")' = Medium("A") /\ ~Able("A", a, n)
      \/ Medium("A") # NoMedium /\ Medium("A")' = WriteSectors(Medium("A"), a, Bytes(n))
  BY <1>2, <1>3, <1>6 DEF Able, new
<1> HIDE DEF error
<1>8. /\ reply' \in ReplyType /\ status' \in Errors /\ Reports("write")
      /\ reply'.by = "service" /\ reply'.drive = "A" /\ reply'.at = a /\ reply'.n = n
      /\ (reply'.ok <=> error = "success")
  BY <1>1, <1>2, <1>3, ReturnsIs, ServiceReports, ZenonT(60)
<1>9. IInv'
  BY <1>1, <1>2, <1>3, <1>5, <1>8, ServiceKeeps
<1>10. Store!Write
  <2>1. (reply'.ok <=> Able("A", a, n)) 
    BY <1>2, <1>8
  <2> QED BY <1>1, <1>2, <1>3, <1>6, <1>7, <1>8, <2>1, StoreWrites
<1> QED BY <1>9, <1>10

\* int13_reset_disk on the floppy.
LEMMA ResetFloppyStep ==
  ASSUME IInv, Free, UNCHANGED <<media, hdc, port>>, ResetFloppy
  PROVE  IInv' /\ Store!Reset
<1>1. port.at = "ready" /\ reply = NoReply /\ Idle(hdc) /\ DisksOK /\ changeline \in BOOLEAN
      /\ writes \in 0..MaxWrites
  BY FreeIs
<1>2. "A" \in Drives /\ NoAddress \in Address /\ 0 \in Nat /\ "reset" \in Operations
      /\ "success" \in Errors /\ <<>> \in Seq(ByteSet)
  BY DEF Drives, NoAddress, Address, Operations, Errors
<1>3. UNCHANGED <<floppy, changeline, writes>> /\ Returns("reset", "A", NoAddress, 0, "success", <<>>)
  BY DEF ResetFloppy
<1>4. DisksOK' /\ changeline' \in BOOLEAN /\ writes' \in 0..MaxWrites /\ Idle(hdc')
  BY <1>1, <1>3, KeptDisks
<1>5. /\ reply' \in ReplyType /\ status' \in Errors /\ Reports("reset")
      /\ reply'.by = "service" /\ reply'.drive = "A" /\ reply'.ok
  BY <1>1, <1>2, <1>3, ReturnsIs, ServiceReports
<1>6. reply'.ok = TRUE
  BY <1>5 DEF ReplyType
<1>7. IInv'
  BY <1>1, <1>2, <1>4, <1>5, ServiceKeeps
<1> QED BY <1>3, <1>5, <1>6, <1>7, StoreResets

\* int13_detect_disk_change
LEMMA DetectChangeStep ==
  ASSUME IInv, DetectChange
  PROVE  IInv' /\ Store!Changed
<1>1. port.at = "ready" /\ reply = NoReply /\ Idle(hdc) /\ DisksOK /\ changeline \in BOOLEAN
      /\ writes \in 0..MaxWrites
  BY FreeIs DEF DetectChange
<1>2. UNCHANGED <<media, floppy, hdc, port, writes>>
  BY DEF DetectChange
<1>3. PICK d \in Drives :
        /\ changeline' = IF d = "A" THEN FALSE ELSE changeline
        /\ Returns("changed", d, NoAddress, 0,
                   CASE d \in HardDrives -> "invalidCommand"
                     [] d = "A" -> IF changeline THEN "diskChanged" ELSE "success", <<>>)
  BY DEF DetectChange
<1> DEFINE error == IF d = "A" THEN IF changeline THEN "diskChanged" ELSE "success"
                    ELSE "invalidCommand"
<1>4. Returns("changed", d, NoAddress, 0, error, <<>>)
  BY <1>3 DEF Drives, HardDrives, Index
<1>5. error \in Errors /\ (error = "success" <=> d = "A" /\ ~changeline)
      /\ NoAddress \in Address /\ 0 \in Nat /\ "changed" \in Operations /\ <<>> \in Seq(ByteSet)
  BY DEF Errors, NoAddress, Address, Operations
<1> HIDE DEF error
<1>6. DisksOK' /\ changeline' \in BOOLEAN /\ writes' \in 0..MaxWrites /\ Idle(hdc')
  BY <1>1, <1>2, <1>3, KeptDisks
<1>7. /\ reply' \in ReplyType /\ status' \in Errors /\ Reports("changed")
      /\ reply'.by = "service" /\ reply'.drive = d /\ (reply'.ok <=> error = "success")
  BY <1>1, <1>4, <1>5, ReturnsIs, ServiceReports
<1>8. IInv'
  BY <1>1, <1>2, <1>6, <1>7, ServiceKeeps
<1>9. Store!Changed
  BY <1>1, <1>2, <1>3, <1>5, <1>7, StoreChanged
<1> QED BY <1>8, <1>9

\* int13_get_status
LEMMA GetStatusStep ==
  ASSUME IInv, GetStatus
  PROVE  IInv' /\ Store!Status
<1>1. port.at = "ready" /\ reply = NoReply /\ Idle(hdc) /\ DisksOK /\ changeline \in BOOLEAN
      /\ status \in Errors /\ writes \in 0..MaxWrites
  BY FreeIs DEF GetStatus
<1>2. UNCHANGED <<media, floppy, changeline, hdc, status, port, writes>>
  BY DEF GetStatus
<1>3. PICK d \in Drives :
        reply' = [by |-> "service", op |-> "status", drive |-> d, at |-> NoAddress,
                  n |-> 0, ok |-> status = "success", bytes |-> <<>>]
  BY DEF GetStatus
<1>4. reply' \in ReplyType /\ reply'.by = "service" /\ reply'.drive \in Drives
  <2>1. NoAddress \in Address /\ 0 \in Nat /\ "status" \in Operations /\ <<>> \in Seq(ByteSet)
        /\ (status = "success") \in BOOLEAN
    BY DEF NoAddress, Address, Operations
  <2> QED BY <1>3, <2>1 DEF ReplyType
<1>5. DisksOK'
  BY <1>1, <1>2, KeptDisks
<1>6. IInv'
  BY <1>1, <1>2, <1>4, <1>5, ServiceKeeps
<1> QED BY <1>1, <1>2, <1>3, <1>6, StoreStatus

\* The program's request at the ports ends at once: the controller is idle.
LEMMA PortsAnswer ==
  ASSUME IInv, UNCHANGED floppy, DisksOK', UNCHANGED <<changeline, status>>,
         port'.at = "ready", port' \in PortType, Idle(hdc'), writes' \in 0..MaxWrites,
         reply' \in ReplyType, reply' # NoReply => reply'.by = "ports" /\ reply'.drive \in Drives
  PROVE  IInv'
<1>1. TypeOK'
  BY DEF IInv, TypeOK, Idle
<1>2. PortInv'
  BY DEF PortInv, Idle
<1> QED BY <1>1, <1>2 DEF IInv, ReplyInv

\* It goes on: the controller serves its data, or waits for the program's.
LEMMA PortsBegin ==
  ASSUME IInv, Free, UNCHANGED <<media, floppy, changeline, status, reply>>,
         port' \in PortType, hdc' \in HdcType, hdc'.srst = FALSE,
         hdc'.phase = "read" => hdc'.index < Len(hdc'.data),
         hdc'.phase = "write" => Len(hdc'.data) < hdc'.expected,
         writes' \in 0..MaxWrites,
         \/ port'.at = "read" /\ ReadingInv'
         \/ port'.at = "write" /\ WritingInv'
  PROVE  IInv' /\ UNCHANGED Store!vars
<1>1. DisksOK'
  BY FreeIs, KeptDisks
<1>2. TypeOK'
  BY <1>1 DEF IInv, TypeOK
<1>3. PortInv'
  BY DEF PortInv
<1>4. ReplyInv'
  BY DEF Free, ReplyInv
<1> QED BY <1>2, <1>3, <1>4, StoreStutters DEF IInv

\* A program at rest, or holding the controller in reset.
LEMMA RestingType ==
  /\ Resting \in PortType /\ Resting.at = "ready"
  /\ [Resting EXCEPT !.at = "held"] \in PortType /\ [Resting EXCEPT !.at = "held"].at = "held"
<1>1. Resting \in PortType /\ Resting.at = "ready"
  BY DEF Resting, PortType, Operations, NoAddress, Address
<1> QED BY <1>1 DEF PortType

\* A command at the ports: it is answered at once, or its data begin.
LEMMA PortCommandStep ==
  ASSUME IInv, PortCommand
  PROVE  /\ IInv'
         /\ Fitting => \/ Store!Read \/ Store!Verify \/ Store!Write \/ Store!Parameters
                       \/ UNCHANGED Store!vars
<1>1. port.at = "ready" /\ reply = NoReply /\ Idle(hdc) /\ DisksOK /\ changeline \in BOOLEAN
      /\ status \in Errors /\ writes \in 0..MaxWrites
  BY FreeIs DEF PortCommand
<1>2. UNCHANGED <<media, floppy, changeline, status>> /\ Free
  BY DEF PortCommand
<1>3. PICK op \in {"read", "write", "verify", "identify", "diagnose"},
           d \in HardDrives, n \in Counts : \E a \in Requested[d] :
        LET h == Command(hdc, media, op, Index[d], a, n) IN
        /\ hdc' = h
        /\ op = "write" => writes < MaxWrites
        /\ writes' = IF op = "write" THEN writes + 1 ELSE writes
        /\ CASE Drq(h) ->
                  /\ port' = [at |-> h.phase, op |-> op, drive |-> d, addr |-> a,
                              n |-> IF op = "identify" THEN 1 ELSE n, bytes |-> <<>>]
                  /\ UNCHANGED reply
             [] ~Drq(h) /\ op \in {"read", "write", "verify"} ->
                  PortReply(op, d, a, n, ~Err(h), <<>>) /\ UNCHANGED port
             [] ~Drq(h) /\ op = "identify" ->
                  PortReply("params", d, NoAddress, 0, FALSE, <<>>) /\ UNCHANGED port
             [] ~Drq(h) /\ op = "diagnose" -> UNCHANGED <<port, reply>>
  BY DEF PortCommand
<1>4. PICK a \in Requested[d] :
        LET h == Command(hdc, media, op, Index[d], a, n) IN
        /\ hdc' = h
        /\ op = "write" => writes < MaxWrites
        /\ writes' = IF op = "write" THEN writes + 1 ELSE writes
        /\ CASE Drq(h) ->
                  /\ port' = [at |-> h.phase, op |-> op, drive |-> d, addr |-> a,
                              n |-> IF op = "identify" THEN 1 ELSE n, bytes |-> <<>>]
                  /\ UNCHANGED reply
             [] ~Drq(h) /\ op \in {"read", "write", "verify"} ->
                  PortReply(op, d, a, n, ~Err(h), <<>>) /\ UNCHANGED port
             [] ~Drq(h) /\ op = "identify" ->
                  PortReply("params", d, NoAddress, 0, FALSE, <<>>) /\ UNCHANGED port
             [] ~Drq(h) /\ op = "diagnose" -> UNCHANGED <<port, reply>>
  BY <1>3
<1>5. writes' \in 0..MaxWrites
  BY <1>1, <1>4, ServicesAssumption
<1>6. d \in Drives /\ a \in Address /\ Cast(a) \in Address /\ n \in Nat \ {0}
      /\ n \in 1..Len(Payload) /\ n * SectorBytes \in Nat \ {0} /\ Medium(d) = media[Index[d]]
  BY HardMedium, RequestIs
<1> DEFINE now == Command(hdc, media, op, Index[d], a, n)
<1>7. /\ hdc' = now
      /\ Drq(now) => /\ port' = [at |-> now.phase, op |-> op, drive |-> d, addr |-> a,
                                 n |-> IF op = "identify" THEN 1 ELSE n, bytes |-> <<>>]
                     /\ reply' = reply
      /\ ~Drq(now) /\ op \in {"read", "write", "verify"} =>
            PortReply(op, d, a, n, ~Err(now), <<>>) /\ port' = port
      /\ ~Drq(now) /\ op = "identify" =>
            PortReply("params", d, NoAddress, 0, FALSE, <<>>) /\ port' = port
      /\ ~Drq(now) /\ op = "diagnose" => port' = port /\ reply' = reply
  BY <1>4
<1>8. DisksOK' /\ port \in PortType
  BY <1>1, <1>2, KeptDisks DEF IInv, TypeOK
<1>9. ASSUME ~Drq(now), op \in {"read", "write", "verify"}
      PROVE  /\ reply' \in ReplyType /\ reply'.by = "ports" /\ reply'.op = op
             /\ reply'.drive = d /\ reply'.at = a /\ reply'.n = n
             /\ (reply'.ok <=> ~Err(now)) /\ reply'.bytes = <<>>
             /\ port' = port /\ Reports(op)
  <2> HIDE DEF now
  <2>1. reply' = [by |-> "ports", op |-> op, drive |-> d, at |-> a, n |-> n,
                  ok |-> ~Err(now), bytes |-> <<>>] /\ port' = port
    BY <1>7, <1>9 DEF PortReply
  <2>2. (~Err(now)) \in BOOLEAN /\ op \in Operations /\ <<>> \in Seq(ByteSet)
    BY DEF Operations
  <2>3. reply' \in ReplyType
    BY <1>6, <2>1, <2>2 DEF ReplyType
  <2>4. Reports(op)
    BY <1>1, <1>2, <1>6, <2>1, <2>3 DEF Reports
  <2> QED BY <2>1, <2>3, <2>4
<1>10. CASE op = "read"
  <2>1. CASE Found(d, a, n)
    <3> DEFINE data == ReadSectors(Medium(d), Cast(a), n)
    <3>1. now = Serves(hdc, data) /\ data \in Seq(ByteSet) /\ Len(data) = n * SectorBytes
      BY <1>1, <1>10, <2>1, CommandIs, DataIs
    <3>2. /\ now \in HdcType /\ now.phase = "read" /\ now.data = data /\ now.index = 0
          /\ now.srst = FALSE /\ Drq(now)
      <4> HIDE DEF now, data
      <4> QED BY <1>1, <3>1, ServesIs
    <3> HIDE DEF now
    <3>3. hdc' = now /\ reply' = reply
          /\ port' = [at |-> "read", op |-> "read", drive |-> d, addr |-> a, n |-> n, bytes |-> <<>>]
      BY <1>7, <1>10, <3>2
    <3>4. port' \in PortType
      <4>1. "read" \in Operations /\ <<>> \in Seq(ByteSet)
        BY DEF Operations
      <4> QED BY <1>6, <3>3, <4>1 DEF PortType
    <3>5. SubSeq(hdc'.data, 1, 0) = <<>>
      BY <3>1, <3>2, <3>3, PrefixGrows
    <3>6. Found(port.drive, port.addr, port.n)' /\ PortDisk' # NoMedium
      BY <1>2, <2>1, <1>6, <3>3 DEF Found, Known, Medium, PortDisk
    <3>7. hdc'.data = ReadSectors(PortDisk', Cast(port'.addr), port'.n)
      BY <1>2, <1>6, <3>2, <3>3 DEF PortDisk
    <3>8. hdc'.index < Len(hdc'.data)
      BY <1>6, <3>1, <3>2, <3>3
    <3> HIDE DEF data
    <3>9. ReadingInv'
      BY <1>1, <1>6, <3>1, <3>2, <3>3, <3>5, <3>6, <3>7, <3>8 DEF ReadingInv
    <3>10. IInv' /\ UNCHANGED Store!vars
      BY <1>2, <1>5, <3>2, <3>3, <3>4, <3>8, <3>9, PortsBegin
    <3> QED BY <3>10
  <2>2. CASE ~Found(d, a, n)
    <3>1. now = Aborts(hdc)
      BY <1>10, <2>2, CommandIs
    <3>2. Idle(now) /\ Err(now) /\ ~Drq(now)
      BY <1>1, <3>1, AbortsIs
    <3> HIDE DEF now
    <3>3. IInv'
      BY <1>1, <1>2, <1>5, <1>6, <1>7, <1>8, <1>9, <1>10, <3>2, PortsAnswer
    <3>4. ASSUME Fitting PROVE Store!Read
      <4>1. ~Able(d, a, n)
        BY <1>1, <2>2, <3>4, FittingIs
      <4> QED BY <1>1, <1>2, <1>9, <1>10, <3>2, <4>1, StoreReads
    <3> QED BY <3>3, <3>4
  <2> QED BY <2>1, <2>2
<1>11. CASE op = "verify"
  <2>1. Idle(now) /\ ~Drq(now) /\ (Err(now) <=> ~Found(d, a, n))
    <3>1. CASE Found(d, a, n)
      <4>1. now = Ends(hdc, "none")
        BY <1>11, <3>1, CommandIs
      <4> QED BY <1>1, <3>1, <4>1, EndsIs
    <3>2. CASE ~Found(d, a, n)
      <4>1. now = Aborts(hdc)
        BY <1>11, <3>2, CommandIs
      <4> QED BY <1>1, <3>2, <4>1, AbortsIs
    <3> QED BY <3>1, <3>2
  <2> HIDE DEF now
  <2>2. IInv'
    BY <1>1, <1>2, <1>5, <1>6, <1>7, <1>8, <1>9, <1>11, <2>1, PortsAnswer
  <2>3. ASSUME Fitting PROVE Store!Verify
    <3>1. reply'.ok <=> Able(d, a, n)
      BY <1>1, <1>9, <1>11, <2>1, <2>3, FittingIs
    <3> QED BY <1>1, <1>2, <1>9, <1>11, <2>1, <3>1, StoreVerifies
  <2> QED BY <2>2, <2>3
<1>12. CASE op = "write"
  <2>1. CASE Known(d, a)
    <3>1. /\ now \in HdcType /\ now.phase = "write" /\ now.at = Cast(a) /\ now.drive = Index[d]
          /\ now.expected = n * SectorBytes /\ now.data = <<>> /\ now.srst = FALSE
          /\ Drq(now)
      <4> DEFINE wait == Command(hdc, media, "write", Index[d], a, n)
      <4>1. now = wait
        BY <1>12
      <4>2. /\ wait \in HdcType /\ wait.phase = "write" /\ wait.at = Cast(a)
            /\ wait.drive = Index[d] /\ wait.expected = n * SectorBytes /\ wait.data = <<>>
            /\ wait.srst = FALSE /\ ~Err(wait) /\ Drq(wait)
        BY <1>1, <2>1, AwaitsIs
      <4> HIDE DEF now, wait
      <4> QED BY <4>1, <4>2
    <3> HIDE DEF now
    <3>2. hdc' = now /\ reply' = reply
          /\ port' = [at |-> "write", op |-> "write", drive |-> d, addr |-> a, n |-> n, bytes |-> <<>>]
      BY <1>7, <1>12, <3>1
    <3>3. port' \in PortType
      <4>1. "write" \in Operations /\ <<>> \in Seq(ByteSet)
        BY DEF Operations
      <4> QED BY <1>6, <3>2, <4>1 DEF PortType
    <3>4. SubSeq(Bytes(n), 1, 0) = <<>> /\ Len(<<>>) = 0
      BY <1>6, BytesAre, PrefixGrows
    <3>5. Known(port.drive, port.addr)'
      BY <1>2, <2>1, <3>2 DEF Known, Medium
    <3>6. Len(hdc'.data) < hdc'.expected /\ Len(port'.bytes) < hdc'.expected
      BY <1>6, <3>1, <3>2
    <3>7. WritingInv'
      BY <1>1, <1>6, <3>1, <3>2, <3>4, <3>5, <3>6 DEF WritingInv
    <3>8. IInv' /\ UNCHANGED Store!vars
      BY <1>2, <1>5, <3>1, <3>2, <3>3, <3>6, <3>7, PortsBegin
    <3> QED BY <3>8
  <2>2. CASE ~Known(d, a)
    <3>1. now = Aborts(hdc)
      BY <1>12, <2>2, CommandIs
    <3>2. Idle(now) /\ Err(now) /\ ~Drq(now)
      BY <1>1, <3>1, AbortsIs
    <3> HIDE DEF now
    <3>3. IInv'
      BY <1>1, <1>2, <1>5, <1>6, <1>7, <1>8, <1>9, <1>12, <3>2, PortsAnswer
    <3>4. ASSUME Fitting PROVE Store!Write
      <4>1. ~Able(d, a, n)
        BY <1>1, <2>2, <3>4, FittingIs
      <4>2. \A e \in Drives : Medium(e)' = Medium(e)
        BY <1>2, StoreKept
      <4>3. (reply'.ok <=> Able(d, a, n)) /\ Medium(d)' = Medium(d) /\ ~reply'.ok
        BY <1>6, <1>9, <1>12, <3>2, <4>1, <4>2
      <4>4. Reports("write") /\ reply'.drive = d /\ reply'.at = a /\ reply'.n = n
        BY <1>9, <1>12, <3>2
      <4> QED BY <1>1, <1>2, <1>6, <4>2, <4>3, <4>4, StoreWrites
    <3> QED BY <3>3, <3>4
  <2> QED BY <2>1, <2>2
<1>13. CASE op = "identify"
  <2>1. CASE Medium(d) # NoMedium
    <3> DEFINE data == Identity(Index[d])
    <3>1. now = Serves(hdc, data) /\ data \in Seq(ByteSet) /\ Len(data) = SectorBytes
      BY <1>1, <1>13, <2>1, CommandIs, DataIs
    <3>2. /\ now \in HdcType /\ now.phase = "read" /\ now.data = data /\ now.index = 0
          /\ now.srst = FALSE /\ Drq(now)
      <4> HIDE DEF now, data
      <4>1. Idle(hdc) /\ now = Serves(hdc, data) /\ data \in Seq(ByteSet)
        BY <1>1, <3>1
      <4> QED BY <4>1, ServesIs
    <3> HIDE DEF now
    <3>3. hdc' = now /\ reply' = reply
          /\ port' = [at |-> "read", op |-> "identify", drive |-> d, addr |-> a, n |-> 1, bytes |-> <<>>]
      BY <1>7, <1>13, <3>2
    <3>4. port' \in PortType
      <4>1. "identify" \in Operations /\ <<>> \in Seq(ByteSet)
        BY DEF Operations
      <4> QED BY <1>6, <3>3, <4>1 DEF PortType
    <3>5. SubSeq(hdc'.data, 1, 0) = <<>>
      BY <3>1, <3>2, <3>3, PrefixGrows
    <3>6. PortDisk' # NoMedium
      BY <1>2, <2>1, <1>6, <3>3 DEF PortDisk
    <3>7. SectorBytes = 1 * SectorBytes /\ 0 < SectorBytes
      BY DiskAssumption
    <3>8. hdc'.index < Len(hdc'.data) /\ Len(hdc'.data) = port'.n * SectorBytes
      BY <3>1, <3>2, <3>3, <3>7
    <3>9. hdc'.data = Identity(Index[port'.drive])
      BY <3>2, <3>3
    <3> HIDE DEF data
    <3>10. ReadingInv'
      BY <1>1, <1>6, <3>1, <3>2, <3>3, <3>5, <3>6, <3>8, <3>9 DEF ReadingInv
    <3>11. IInv' /\ UNCHANGED Store!vars
      BY <1>2, <1>5, <3>2, <3>3, <3>4, <3>8, <3>10, PortsBegin
    <3> QED BY <3>11
  <2>2. CASE Medium(d) = NoMedium
    <3>1. now = Aborts(hdc)
      BY <1>13, <2>2, CommandIs
    <3>2. Idle(now) /\ Err(now) /\ ~Drq(now)
      BY <1>1, <3>1, AbortsIs
    <3> HIDE DEF now
    <3>3. reply' = [by |-> "ports", op |-> "params", drive |-> d, at |-> NoAddress, n |-> 0,
                    ok |-> FALSE, bytes |-> <<>>] /\ port' = port
      BY <1>7, <1>13, <3>2 DEF PortReply
    <3>4. reply' \in ReplyType /\ Reports("params")
      <4>1. NoAddress \in Address /\ 0 \in Nat /\ "params" \in Operations /\ <<>> \in Seq(ByteSet)
        BY DEF NoAddress, Address, Operations
      <4>2. reply' \in ReplyType
        BY <1>6, <3>3, <4>1 DEF ReplyType
      <4> QED BY <1>1, <1>2, <1>6, <3>3, <4>2 DEF Reports
    <3>5. IInv'
      BY <1>1, <1>2, <1>5, <1>6, <1>7, <1>8, <3>2, <3>3, <3>4, PortsAnswer
    <3>6. ASSUME Fitting PROVE Store!Parameters
      <4>1. reply'.drive = d /\ (reply'.ok <=> Medium(d) # NoMedium)
            /\ reply'.bytes = IF reply'.ok THEN Identity(Index[d]) ELSE <<>>
        BY <2>2, <3>3
      <4> QED BY <1>1, <1>2, <3>4, <3>6, <4>1, StoreParameters
    <3> QED BY <3>5, <3>6
  <2> QED BY <2>1, <2>2
<1>14. CASE op = "diagnose"
  <2>1. now = Ends(hdc, "diagnosed")
    BY <1>14, CommandIs
  <2>2. Idle(now) /\ ~Drq(now)
    BY <1>1, <2>1, EndsIs
  <2> HIDE DEF now
  <2>3. hdc' = now /\ port' = port /\ reply' = reply
    BY <1>7, <1>14, <2>2
  <2>4. reply \in ReplyType
    BY DEF IInv, TypeOK
  <2>5. IInv'
    BY <1>1, <1>2, <1>5, <1>8, <2>2, <2>3, <2>4, PortsAnswer
  <2>6. UNCHANGED Store!vars
    BY <1>2, <2>3, StoreStutters
  <2> QED BY <2>5, <2>6
<1> QED BY <1>10, <1>11, <1>12, <1>13, <1>14

\* One byte more of what the controller serves; after the last, the answer.
LEMMA PortReadStep ==
  ASSUME IInv, PortRead
  PROVE  /\ IInv'
         /\ Fitting => Store!Read \/ Store!Parameters \/ UNCHANGED Store!vars
<1> DEFINE data == hdc.data  k == hdc.index  d == port.drive  n == port.n  a == port.addr
           more == SubSeq(data, 1, k + 1)
<1>1. /\ DisksOK /\ changeline \in BOOLEAN /\ status \in Errors /\ writes \in 0..MaxWrites
      /\ hdc \in HdcType /\ port \in PortType /\ reply \in ReplyType /\ hdc.srst = FALSE
      /\ port.at = "read" /\ ReadingInv /\ reply = NoReply
  BY DEF IInv, TypeOK, PortInv, PortRead, ReadingInv
<1>2. /\ UNCHANGED <<media, floppy, changeline, status, writes>>
      /\ hdc' = AfterReads(hdc, 1)
      /\ IF Len(port.bytes \o PortBytes(hdc, 1)) = port.n * SectorBytes
         THEN /\ port' = Resting
              /\ IF port.op = "identify"
                 THEN PortReply("params", port.drive, NoAddress, 0, TRUE,
                                port.bytes \o PortBytes(hdc, 1))
                 ELSE PortReply("read", port.drive, port.addr, port.n, TRUE,
                                port.bytes \o PortBytes(hdc, 1))
         ELSE port' = [port EXCEPT !.bytes = port.bytes \o PortBytes(hdc, 1)] /\ reply' = reply
  BY DEF PortRead
<1>3. /\ data \in Seq(ByteSet) /\ k \in Nat /\ k < Len(data) /\ Len(data) \in Nat
      /\ Len(data) = n * SectorBytes /\ d \in HardDrives /\ d \in Drives
      /\ port.bytes = SubSeq(data, 1, k) /\ hdc.phase = "read"
  BY <1>1, HardMedium DEF HdcType, ReadingInv
<1>4. port.bytes \o PortBytes(hdc, 1) = more /\ Len(more) = k + 1 /\ more \in Seq(ByteSet)
  <2>1. PortBytes(hdc, 1) = <<data[k + 1]>>
    BY <1>1, <1>3, ReadsOne
  <2>2. k \in 0..(Len(data) - 1) /\ k + 1 \in 0..Len(data)
    BY <1>3
  <2> QED BY <1>3, <2>1, <2>2, PrefixGrows, ZenonT(60)
<1>5. DisksOK'
  BY <1>1, <1>2, KeptDisks
<1>6. CASE k + 1 = Len(data)
  <2>1. Idle(hdc')
    BY <1>1, <1>2, <1>3, <1>6, ReadsOne
  <2>2. more = data
    BY <1>3, <1>6, PrefixGrows
  <2>3. port' = Resting
    BY <1>2, <1>3, <1>4, <1>6
  <2>4. CASE port.op = "identify"
    <3>1. reply' = [by |-> "ports", op |-> "params", drive |-> d, at |-> NoAddress, n |-> 0,
                    ok |-> TRUE, bytes |-> data]
      BY <1>2, <1>3, <1>4, <1>6, <2>2, <2>4 DEF PortReply
    <3> HIDE DEF data, d
    <3>2. reply' \in ReplyType
      <4>1. NoAddress \in Address /\ 0 \in Nat /\ "params" \in Operations
        BY DEF NoAddress, Address, Operations
      <4> QED BY <1>3, <3>1, <4>1 DEF ReplyType
    <3>3. Reports("params")
      BY <1>1, <1>2, <1>3, <3>1, <3>2 DEF Reports
    <3>4. IInv'
      BY <1>1, <1>2, <1>3, <1>5, <2>1, <2>3, <3>1, <3>2, RestingType, PortsAnswer
    <3>5. ASSUME Fitting PROVE Store!Parameters
      <4>1. data = Identity(Index[d]) /\ Medium(d) # NoMedium
        BY <1>1, <1>3, <2>4, HardMedium DEF ReadingInv, PortDisk, data, d
      <4>2. reply'.drive = d /\ (reply'.ok <=> Medium(d) # NoMedium)
            /\ reply'.bytes = IF reply'.ok THEN Identity(Index[d]) ELSE <<>>
        BY <3>1, <4>1
      <4> QED BY <1>1, <1>2, <1>3, <3>3, <3>5, <4>2, StoreParameters
    <3> QED BY <3>4, <3>5
  <2>5. CASE port.op # "identify"
    <3>1. reply' = [by |-> "ports", op |-> "read", drive |-> d, at |-> a, n |-> n,
                    ok |-> TRUE, bytes |-> data]
      BY <1>2, <1>3, <1>4, <1>6, <2>2, <2>5 DEF PortReply
    <3>2. /\ n \in Counts /\ a \in Requested[d] /\ Found(d, a, n) /\ Medium(d) = PortDisk
          /\ data = ReadSectors(Medium(d), Cast(a), n)
      BY <1>1, <1>3, <2>5, HardMedium DEF ReadingInv, PortDisk
    <3>3. a \in Address /\ n \in Nat
      BY <1>1 DEF PortType
    <3> HIDE DEF data, d, n, a
    <3>4. reply' \in ReplyType
      <4>1. "read" \in Operations
        BY DEF Operations
      <4> QED BY <1>3, <3>1, <3>3, <4>1 DEF ReplyType
    <3>5. Reports("read")
      BY <1>1, <1>2, <1>3, <3>1, <3>4 DEF Reports
    <3>6. IInv'
      BY <1>1, <1>2, <1>3, <1>5, <2>1, <2>3, <3>1, <3>4, RestingType, PortsAnswer
    <3>7. ASSUME Fitting PROVE Store!Read
      <4>1. Cast(a) = a /\ Able(d, a, n)
        BY <1>1, <1>3, <3>2, <3>7, FittingIs DEF Found
      <4>2. reply'.n \in Counts /\ (reply'.ok <=> Able(reply'.drive, reply'.at, reply'.n))
            /\ reply'.bytes = IF reply'.ok THEN ReadSectors(Medium(reply'.drive), reply'.at, reply'.n)
                              ELSE <<>>
        BY <3>1, <3>2, <4>1
      <4> QED BY <1>1, <1>2, <3>5, <4>2, StoreReads
    <3> QED BY <3>6, <3>7
  <2> QED BY <2>4, <2>5
<1>7. CASE k + 1 # Len(data)
  <2>1. /\ hdc' \in HdcType /\ hdc'.phase = "read" /\ hdc'.srst = FALSE
        /\ hdc'.data = data /\ hdc'.index = k + 1 /\ hdc'.index < Len(hdc'.data)
    BY <1>1, <1>2, <1>3, <1>7, ReadsOne
  <2>2. port' = [port EXCEPT !.bytes = more] /\ reply' = reply
    <3>1. Len(more) # port.n * SectorBytes
      BY <1>3, <1>4, <1>7
    <3> QED BY <1>2, <1>4, <3>1
  <2> HIDE DEF more
  <2>3. /\ port' \in PortType /\ port'.bytes = more /\ port'.at = "read"
        /\ port'.op = port.op /\ port'.drive = port.drive /\ port'.addr = port.addr
        /\ port'.n = port.n
    BY <1>1, <1>4, <2>2 DEF PortType
  <2>4. PortDisk' = PortDisk
    BY <1>2, <2>3 DEF PortDisk
  <2>5. Found(port.drive, port.addr, port.n) => Found(port.drive, port.addr, port.n)'
    BY <1>2, <2>3 DEF Found, Known, Medium
  <2>6. ReadingInv'
    BY <1>1, <1>2, <2>1, <2>2, <2>3, <2>4, <2>5 DEF ReadingInv, more
  <2>7. TypeOK'
    BY <1>1, <1>2, <1>5, <2>1, <2>2, <2>3 DEF IInv, TypeOK
  <2>8. PortInv'
    BY <2>1, <2>3, <2>6 DEF PortInv
  <2>9. ReplyInv'
    BY <1>1, <2>2 DEF ReplyInv
  <2>10. UNCHANGED Store!vars
    BY <1>2, <2>2, StoreStutters
  <2> QED BY <2>7, <2>8, <2>9, <2>10 DEF IInv
<1> QED BY <1>6, <1>7

\* One byte more of what the program writes; the last stores the sectors.
LEMMA PortWriteStep ==
  ASSUME IInv, PortWrite
  PROVE  /\ IInv'
         /\ Fitting => Store!Write \/ UNCHANGED Store!vars
<1>1. /\ DisksOK /\ changeline \in BOOLEAN /\ status \in Errors /\ writes \in 0..MaxWrites
      /\ hdc \in HdcType /\ port \in PortType /\ reply \in ReplyType /\ hdc.srst = FALSE
      /\ port.at = "write" /\ WritingInv /\ reply = NoReply
  BY DEF IInv, TypeOK, PortInv, PortWrite, WritingInv
<1>d. PICK d \in HardDrives : d = port.drive
  BY <1>1 DEF WritingInv
<1>n. PICK n \in Counts : n = port.n
  BY <1>1 DEF WritingInv
<1>a. PICK a \in Requested[d] : a = port.addr
  BY <1>1, <1>d DEF WritingInv
<1> DEFINE k == Len(port.bytes)
           size == n * SectorBytes  byte == Bytes(n)[k + 1]  one == <<byte>>
           now == AfterWrites(hdc, media, one)
<1>2. /\ UNCHANGED <<floppy, changeline, status, writes>>
      /\ hdc' = now /\ media' = MediaAfterWrites(hdc, media, one)
      /\ IF k + 1 = size
         THEN port' = Resting /\ PortReply("write", d, a, n, ~Err(now), <<>>)
         ELSE port' = [port EXCEPT !.bytes = port.bytes \o one] /\ reply' = reply
  BY <1>d, <1>n, <1>a DEF PortWrite
<1>3. /\ d \in HardDrives /\ d \in Drives /\ n \in Counts /\ a \in Requested[d]
      /\ Known(d, a) /\ k < size /\ hdc.phase = "write" /\ hdc.expected = size
      /\ hdc.drive = Index[d] /\ hdc.at = Cast(a) /\ hdc.data = port.bytes
      /\ port.bytes = SubSeq(Bytes(n), 1, k)
  BY <1>1, <1>d, <1>n, <1>a, HardMedium DEF WritingInv
<1>4. /\ a \in Address /\ Cast(a) \in Address /\ n \in Nat /\ n \in 1..Len(Payload)
      /\ size \in Nat /\ Index[d] \in Indices /\ Medium(d) = media[Index[d]]
      /\ Bytes(n) \in Seq(Values) /\ Len(Bytes(n)) = size
  BY <1>3, RequestIs, HardMedium, BytesAre
<1>5. k \in Nat /\ port.bytes \in Seq(ByteSet)
  BY <1>1 DEF PortType
<1>6. /\ byte \in Values /\ port.bytes \o one = SubSeq(Bytes(n), 1, k + 1)
      /\ Append(port.bytes, byte) = SubSeq(Bytes(n), 1, k + 1)
      /\ SubSeq(Bytes(n), 1, size) = Bytes(n) /\ Len(SubSeq(Bytes(n), 1, k + 1)) = k + 1
      /\ SubSeq(Bytes(n), 1, k + 1) \in Seq(ByteSet)
  <2>1. k \in 0..(Len(Bytes(n)) - 1) /\ k + 1 \in 0..Len(Bytes(n))
    BY <1>3, <1>4, <1>5
  <2>2. \A s \in Seq(Values) : s \in Seq(ByteSet)
    BY DEF ByteSet
  <2> HIDE DEF k, size
  <2> QED BY <1>3, <1>4, <2>1, <2>2, PrefixGrows
<1>7. CASE k + 1 = size
  <2>1. /\ one \in Seq(Values) /\ one # <<>> /\ hdc.data \o one = Bytes(n)
        /\ Len(hdc.data) + Len(one) = size
    BY <1>3, <1>6, <1>7
  <2>2. /\ Idle(now) /\ (Err(now) <=> ~Readable(media[Index[d]], Cast(a), n))
        /\ media' = Written(Index[d], Cast(a), n)
    <3> DEFINE i == Index[d]  b == Cast(a)
    <3>1. i \in Indices /\ hdc.drive = i /\ hdc.at = b
      BY <1>3, <1>4
    <3>2. hdc.phase = "write" /\ hdc.srst = FALSE /\ hdc \in HdcType
          /\ hdc.expected = n * SectorBytes
      BY <1>1, <1>3
    <3> HIDE DEF one, i, b
    <3>3. /\ Idle(now) /\ (Err(now) <=> ~Readable(media[i], b, n))
          /\ MediaAfterWrites(hdc, media, one) = Written(i, b, n)
      BY <2>1, <3>1, <3>2, Commit, ZenonT(60)
    <3> QED BY <1>2, <3>3 DEF i, b
  <2> HIDE DEF now, one, byte
  <2>3. DisksOK' /\ Medium(d)' = WriteSectors(Medium(d), Cast(a), Bytes(n))
        /\ \A e \in Drives \ {d} : Medium(e)' = Medium(e)
    BY <1>1, <1>2, <1>3, <1>4, <2>2, DisksWritten DEF Known
  <2>4. /\ reply' = [by |-> "ports", op |-> "write", drive |-> d, at |-> a, n |-> n,
                     ok |-> ~Err(now), bytes |-> <<>>]
        /\ port' = Resting
    BY <1>2, <1>7 DEF PortReply
  <2>5. reply' \in ReplyType /\ Reports("write")
    <3>1. "write" \in Operations /\ <<>> \in Seq(ByteSet) /\ (~Err(now)) \in BOOLEAN
      BY DEF Operations
    <3>2. reply' \in ReplyType
      BY <1>3, <1>4, <2>4, <3>1 DEF ReplyType
    <3> QED BY <1>1, <1>2, <1>3, <2>4, <3>2 DEF Reports
  <2>6. IInv'
    BY <1>1, <1>2, <1>3, <2>2, <2>3, <2>4, <2>5, RestingType, PortsAnswer
  <2>7. ASSUME Fitting PROVE Store!Write
    <3>1. Cast(a) = a /\ (Found(d, a, n) <=> Able(d, a, n))
      BY <1>1, <1>3, <2>7, FittingIs
    <3>2. Found(d, a, n) <=> ~Err(now)
      BY <1>3, <1>4, <2>2 DEF Found
    <3>3. /\ reply'.drive = d /\ reply'.at = a /\ reply'.n = n /\ (reply'.ok <=> Able(d, a, n))
          /\ Medium(d) # NoMedium /\ Medium(d)' = WriteSectors(Medium(d), a, Bytes(n))
      BY <1>3, <2>3, <2>4, <3>1, <3>2 DEF Known
    <3> QED BY <1>1, <1>2, <1>3, <1>4, <2>3, <2>5, <3>3, StoreWrites
  <2> QED BY <2>6, <2>7
<1>8. CASE k + 1 # size
  <2>1. Len(hdc.data) + 1 < hdc.expected
    BY <1>3, <1>4, <1>5, <1>8
  <2>2. /\ now \in HdcType /\ now.phase = "write" /\ now.srst = FALSE
        /\ now.drive = hdc.drive /\ now.at = hdc.at /\ now.expected = hdc.expected
        /\ now.data = Append(hdc.data, byte)
        /\ MediaAfterWrites(hdc, media, one) = media
    <3> HIDE DEF byte
    <3> QED BY <1>1, <1>3, <1>6, <2>1, Keeps
  <2>3. media' = media /\ reply' = reply /\ port' = [port EXCEPT !.bytes = port.bytes \o one]
    BY <1>2, <1>8, <2>2
  <2> HIDE DEF now, one, byte
  <2>4. /\ port' \in PortType /\ port'.bytes = port.bytes \o one /\ port'.at = "write"
        /\ port'.op = port.op /\ port'.drive = d /\ port'.addr = a /\ port'.n = n
    BY <1>1, <1>6, <1>d, <1>n, <1>a, <2>3 DEF PortType
  <2>5. Known(port.drive, port.addr)'
    BY <1>2, <1>3, <1>d, <1>a, <2>3, <2>4 DEF Known, Medium
  <2>6. Len(port'.bytes) = k + 1 /\ k + 1 < size
    BY <1>3, <1>4, <1>5, <1>6, <1>8, <2>4
  <2>7. WritingInv'
    <3>1. hdc'.data = port'.bytes
      BY <1>2, <1>3, <1>6, <2>2, <2>4
    <3>2. port'.bytes = SubSeq(Bytes(port'.n), 1, Len(port'.bytes))
      BY <1>6, <2>4, <2>6
    <3> QED BY <1>1, <1>2, <1>3, <1>d, <1>n, <1>a, <2>2, <2>3, <2>4, <2>5, <2>6, <3>1, <3>2 DEF WritingInv
  <2>8. DisksOK'
    BY <1>1, <1>2, <2>3, KeptDisks
  <2>9. TypeOK'
    <3>1. Len(hdc'.data) < hdc'.expected
      BY <2>7 DEF WritingInv
    <3> QED BY <1>1, <1>2, <2>2, <2>3, <2>4, <2>8, <3>1 DEF TypeOK
  <2>10. PortInv'
    BY <1>2, <2>2, <2>4, <2>7 DEF PortInv
  <2>11. ReplyInv'
    BY <1>1, <2>3 DEF ReplyInv
  <2>12. UNCHANGED Store!vars
    BY <1>2, <2>3, StoreStutters
  <2> QED BY <2>9, <2>10, <2>11, <2>12 DEF IInv
<1> QED BY <1>7, <1>8

\* A software reset at the ports, asserted and then released.
LEMMA PortResetStep ==
  ASSUME IInv, PortReset
  PROVE  IInv' /\ UNCHANGED Store!vars
<1>1. /\ DisksOK /\ changeline \in BOOLEAN /\ status \in Errors /\ writes \in 0..MaxWrites
      /\ hdc \in HdcType /\ reply \in ReplyType /\ reply = NoReply
      /\ hdc.srst = (port.at = "held") /\ (port.at = "held" => hdc.phase = "idle")
  BY DEF IInv, TypeOK, PortInv, PortReset
<1>2. UNCHANGED <<media, floppy, changeline, status, reply, writes>>
  BY DEF PortReset
<1>3. DisksOK' /\ UNCHANGED Store!vars
  BY <1>1, <1>2, KeptDisks, StoreStutters
<1>4. CASE /\ port.at \in {"ready", "read", "write"}
           /\ hdc' = AssertSrst(hdc) /\ port' = [Resting EXCEPT !.at = "held"]
  <2>1. hdc' \in HdcType /\ hdc'.srst = TRUE /\ hdc'.phase = "idle"
    BY <1>1, <1>4, SrstIs
  <2>2. port' \in PortType /\ port'.at = "held"
    BY <1>4, RestingType
  <2>3. TypeOK'
    BY <1>1, <1>2, <1>3, <2>1, <2>2 DEF TypeOK
  <2>4. PortInv'
    BY <1>1, <1>2, <2>1, <2>2 DEF PortInv
  <2> QED BY <1>1, <1>2, <1>3, <2>3, <2>4 DEF IInv, ReplyInv
<1>5. CASE port.at = "held" /\ hdc' = ReleaseSrst(hdc) /\ port' = Resting
  <2>1. Idle(hdc')
    BY <1>1, <1>5, SrstIs
  <2>2. port' \in PortType /\ port'.at = "ready"
    BY <1>5, RestingType
  <2> QED BY <1>1, <1>2, <1>3, <2>1, <2>2, PortsAnswer
<1> QED BY <1>4, <1>5 DEF PortReset

\* The program takes its answer: it has one only between two transfers.
LEMMA TakeStep ==
  ASSUME IInv, Take
  PROVE  IInv' /\ Store!Take
<1>1. /\ reply # NoReply /\ reply' = NoReply
      /\ UNCHANGED <<media, floppy, changeline, hdc, status, port, writes>>
  BY DEF Take
<1>2. /\ DisksOK /\ changeline \in BOOLEAN /\ status \in Errors /\ writes \in 0..MaxWrites
      /\ hdc \in HdcType /\ port \in PortType /\ ReplyInv
  BY DEF IInv, TypeOK
<1>3. port.at = "ready" /\ Idle(hdc)
  <2>1. port.at \in {"ready", "read", "write", "held"}
    BY <1>2 DEF PortType
  <2>2. port.at \notin {"read", "write", "held"}
    BY <1>1 DEF IInv, PortInv, ReadingInv, WritingInv
  <2> QED BY <1>2, <2>1, <2>2 DEF IInv, PortInv, Idle, HdcType
<1>4. NoReply \in ReplyType
  BY DEF NoReply, ReplyType, Operations, NoAddress, Address
<1>5. DisksOK'
  BY <1>1, <1>2, KeptDisks
<1>6. IInv'
  BY <1>1, <1>2, <1>3, <1>4, <1>5, PortsAnswer
<1>7. Store!Take
  BY <1>1, <1>2, StoreTakes
<1> QED BY <1>6, <1>7

\* IDENTIFY, and its response read to the end, leave an idle controller.
LEMMA ProbedIs ==
  ASSUME DisksOK, NEW g, Idle(g), NEW d \in HardDrives
  PROVE  Idle(AfterReads(Command(g, media, "identify", Index[d], NoAddress, 0), SectorBytes))
<1> DEFINE now == Command(g, media, "identify", Index[d], NoAddress, 0)
           data == Identity(Index[d])
<1> SUFFICES Idle(AfterReads(now, SectorBytes))
  OBVIOUS
<1>1. data \in Seq(ByteSet) /\ Len(data) = SectorBytes
  <2>1. <<Index[d]>> \in ByteSet
    BY HardMedium DEF Indices, ByteSet
  <2> QED BY <2>1, DiskAssumption DEF Identity
<1>2. CASE Medium(d) # NoMedium
  <2>1. now = Serves(g, data)
    BY <1>2, CommandIs
  <2>2. now \in HdcType /\ now.phase = "read" /\ now.data = data /\ now.index = 0
        /\ now.srst = FALSE
    <3> HIDE DEF now, data
    <3> QED BY <1>1, <2>1, ServesIs
  <2>3. Len(now.data) = SectorBytes /\ SectorBytes # 0
    BY <1>1, <2>2, DiskAssumption
  <2> HIDE DEF now
  <2> QED BY <2>2, <2>3, ReadsAll
<1>3. CASE Medium(d) = NoMedium
  <2>1. now = Aborts(g)
    BY <1>3, CommandIs
  <2>2. Idle(now)
    BY <2>1, AbortsIs
  <2> HIDE DEF now
  <2> QED BY <2>2 DEF AfterReads, Idle
<1> QED BY <1>2, <1>3

\* post_probe_hard_drives on a new controller.
LEMMA ProbeIs ==
  ASSUME DisksOK
  PROVE  Idle(Probe(HdcNew, media))
<1> DEFINE first == AfterReads(Command(HdcNew, media, "identify", 0, NoAddress, 0), SectorBytes)
           second == AfterReads(Command(first, media, "identify", 1, NoAddress, 0), SectorBytes)
<1>1. Idle(HdcNew)
  BY DEF Idle, HdcNew, HdcType, Indices, Address
<1>2. "C" \in HardDrives /\ "D" \in HardDrives /\ Index["C"] = 0 /\ Index["D"] = 1
  BY DEF HardDrives, Index
<1>3. Idle(first)
  BY <1>1, <1>2, ProbedIs
<1>4. Idle(second)
  <2> HIDE DEF first
  <2> QED BY <1>2, <1>3, ProbedIs
<1>5. Probe(HdcNew, media) = second
  BY DEF Probe
<1> QED BY <1>4, <1>5

\* Computer::reset, in the middle of anything: an answer not yet taken is lost.
LEMMA MachineResetStep ==
  ASSUME IInv, MachineReset
  PROVE  IInv' /\ (Store!Take \/ UNCHANGED Store!vars)
<1>1. /\ hdc' = Probe(HdcNew, media) /\ port' = Resting /\ reply' = NoReply
      /\ UNCHANGED <<media, floppy, changeline, status, writes>>
  BY DEF MachineReset, HdcReset
<1>2. /\ DisksOK /\ changeline \in BOOLEAN /\ status \in Errors /\ writes \in 0..MaxWrites
      /\ ReplyInv
  BY DEF IInv, TypeOK
<1>3. Idle(hdc')
  BY <1>1, <1>2, ProbeIs
<1>4. NoReply \in ReplyType
  BY DEF NoReply, ReplyType, Operations, NoAddress, Address
<1>5. DisksOK'
  BY <1>1, <1>2, KeptDisks
<1>6. IInv'
  BY <1>1, <1>2, <1>3, <1>4, <1>5, RestingType, PortsAnswer
<1>7. CASE reply # NoReply
  BY <1>1, <1>2, <1>6, <1>7, StoreTakes
<1>8. CASE reply = NoReply
  BY <1>1, <1>6, <1>8, StoreStutters
<1> QED BY <1>7, <1>8

\* Computer::set_floppy_disk: a transfer of a hard disk goes on.
LEMMA ChangeFloppyStep ==
  ASSUME IInv, ChangeFloppy
  PROVE  IInv' /\ Store!Exchange("A")
<1>1. /\ reply = NoReply /\ floppy' \in Floppies \cup {NoMedium} /\ changeline' = TRUE
      /\ UNCHANGED <<media, hdc, status, port, reply, writes>>
  BY DEF ChangeFloppy
<1>2. floppy' = NoMedium \/ Whole(floppy')
  BY <1>1, ServicesAssumption DEF Media
<1>3. DisksOK'
  BY <1>1, <1>2 DEF IInv, TypeOK, DisksOK
<1>4. TypeOK'
  BY <1>1, <1>3 DEF IInv, TypeOK
<1>5. \A d \in HardDrives : Medium(d)' = Medium(d)
  BY <1>1 DEF Medium, HardDrives, Index
<1>6. PortDisk' = PortDisk
  BY <1>1 DEF PortDisk
<1>7. ReadingInv => ReadingInv'
  BY <1>1, <1>5, <1>6 DEF ReadingInv, Found, Known
<1>8. WritingInv => WritingInv'
  BY <1>1, <1>5 DEF WritingInv, Known
<1>9. PortInv'
  BY <1>1, <1>7, <1>8 DEF IInv, PortInv
<1>10. ReplyInv'
  BY <1>1 DEF ReplyInv
<1>11. Store!Exchange("A")
  BY <1>1, StoreExchanges DEF IInv, TypeOK
<1> QED BY <1>4, <1>9, <1>10, <1>11 DEF IInv

-----------------------------------------------------------------------------
(* The theorems. *)

\* The machine starts with its controller probed and nothing asked.
LEMMA InitIs ==
  ASSUME Init
  PROVE  IInv /\ Store!Init
<1>1. /\ media = HardDisks /\ floppy \in Floppies \cup {NoMedium} /\ changeline = FALSE
      /\ hdc = Probe(HdcNew, media) /\ status = "success" /\ port = Resting
      /\ reply = NoReply /\ writes = 0
  BY DEF Init
<1>2. DisksOK
  <2>1. \A i \in Indices : HardDisks[i] = NoMedium \/ Whole(HardDisks[i])
    BY ServicesAssumption DEF Media
  <2>2. floppy = NoMedium \/ Whole(floppy)
    BY <1>1, ServicesAssumption DEF Media
  <2>3. \A i \in Indices : Whole(HardDisks[i]) => HardDisks[i] # NoMedium
    BY WholeIsDisk
  <2> QED BY <1>1, <2>1, <2>2, <2>3, ServicesAssumption DEF DisksOK
<1>3. Idle(hdc)
  BY <1>1, <1>2, ProbeIs
<1>4. NoReply \in ReplyType /\ "success" \in Errors /\ 0 \in 0..MaxWrites
  BY ServicesAssumption DEF NoReply, ReplyType, Operations, NoAddress, Address, Errors
<1>5. IInv
  BY <1>1, <1>2, <1>3, <1>4, RestingType
     DEF IInv, TypeOK, PortInv, ReplyInv, Idle
<1>6. Store!Init
  <2> DEFINE sets == {Contents(m) : m \in Floppies \cup {NoMedium}}
  <2>1. Contents(floppy) \in sets
    BY <1>1
  <2>2. [d \in Drives |-> Contents(Medium(d))]
          = [d \in Drives |-> IF d = "A" THEN Contents(floppy) ELSE Contents(HardDisks[Index[d]])]
    BY <1>1 DEF Medium
  <2>3. [d \in Drives |-> Contents(Medium(d))]
          \in {[d \in Drives |-> IF d = "A" THEN f ELSE Contents(HardDisks[Index[d]])] : f \in sets}
    BY <2>1, <2>2
  <2>4. RowOf(reply) = Store!NoReply
    BY <1>1, RowOfNoReply
  <2> QED BY <1>1, <2>3, <2>4 DEF Store!Init
<1> QED BY <1>5, <1>6

\* An action of a hard disk's service.
LEMMA HardServiceStep ==
  ASSUME IInv, HardService
  PROVE  IInv' /\ (Fitting => Store!Next)
<1>1. Free /\ UNCHANGED <<floppy, changeline, port>>
  BY DEF HardService
<1>d. PICK d \in HardDrives, n \in Counts : \E a \in Requested[d] :
        \/ ReadHard(d, a, n) \/ WriteHard(d, a, n) \/ VerifyHard(d, a, n)
        \/ IdentifyHard(d, a, n) \/ ResetHard(d, a, n)
  BY DEF HardService
<1>2. PICK a \in Requested[d] :
        \/ ReadHard(d, a, n) \/ WriteHard(d, a, n) \/ VerifyHard(d, a, n)
        \/ IdentifyHard(d, a, n) \/ ResetHard(d, a, n)
  BY <1>d
<1>3. CASE ReadHard(d, a, n)
  BY <1>1, <1>3, ReadHardStep DEF Store!Next
<1>4. CASE WriteHard(d, a, n)
  BY <1>1, <1>4, WriteHardStep DEF Store!Next
<1>5. CASE VerifyHard(d, a, n)
  BY <1>1, <1>5, VerifyHardStep DEF Store!Next
<1>6. CASE IdentifyHard(d, a, n)
  BY <1>1, <1>6, IdentifyHardStep DEF Store!Next
<1>7. CASE ResetHard(d, a, n)
  BY <1>1, <1>7, ResetHardStep DEF Store!Next
<1> QED BY <1>2, <1>3, <1>4, <1>5, <1>6, <1>7

\* An action of the floppy's service.
LEMMA FloppyServiceStep ==
  ASSUME IInv, FloppyService
  PROVE  IInv' /\ Store!Next
<1>1. Free /\ UNCHANGED <<media, hdc, port>>
  BY DEF FloppyService
<1>2. CASE \E n \in Counts, a \in Requested["A"] :
             ReadFloppy(a, n) \/ WriteFloppy(a, n) \/ VerifyFloppy(a, n)
  <2>1. PICK n \in Counts, a \in Requested["A"] :
          ReadFloppy(a, n) \/ WriteFloppy(a, n) \/ VerifyFloppy(a, n)
    BY <1>2
  <2>2. CASE ReadFloppy(a, n)
    BY <1>1, <2>2, ReadFloppyStep DEF Store!Next
  <2>3. CASE WriteFloppy(a, n)
    BY <1>1, <2>3, WriteFloppyStep DEF Store!Next
  <2>4. CASE VerifyFloppy(a, n)
    BY <1>1, <2>4, VerifyFloppyStep DEF Store!Next
  <2> QED BY <2>1, <2>2, <2>3, <2>4
<1>3. CASE ResetFloppy
  BY <1>1, <1>3, ResetFloppyStep DEF Store!Next
<1> QED BY <1>2, <1>3 DEF FloppyService

\* Every step keeps the invariant, and where the disks fit the controller it is
\* a step of the store or leaves the store alone.
LEMMA Step ==
  ASSUME IInv, [Next]_vars
  PROVE  IInv' /\ (Fitting => [Store!Next]_(Store!vars))
<1>1. CASE HardService
  BY <1>1, HardServiceStep
<1>2. CASE FloppyService
  BY <1>2, FloppyServiceStep
<1>3. CASE DetectChange
  BY <1>3, DetectChangeStep DEF Store!Next
<1>4. CASE GetStatus
  BY <1>4, GetStatusStep DEF Store!Next
<1>5. CASE PortCommand
  BY <1>5, PortCommandStep DEF Store!Next
<1>6. CASE PortRead
  BY <1>6, PortReadStep DEF Store!Next
<1>7. CASE PortWrite
  BY <1>7, PortWriteStep DEF Store!Next
<1>8. CASE PortReset
  BY <1>8, PortResetStep
<1>9. CASE Take
  BY <1>9, TakeStep DEF Store!Next
<1>10. CASE MachineReset
  BY <1>10, MachineResetStep DEF Store!Next
<1>11. CASE ChangeFloppy
  <2>1. "A" \in Drives \ HardDrives
    BY DEF Drives, HardDrives, Index
  <2> QED BY <1>11, <2>1, ChangeFloppyStep DEF Store!Next
<1>12. CASE UNCHANGED vars
  <2>1. IInv'
    BY <1>12 DEF vars, IInv, TypeOK, DisksOK, PortInv, ReplyInv, ReadingInv, WritingInv,
                 PortDisk, Found, Known, Medium
  <2>2. UNCHANGED Store!vars
    BY <1>12, StoreStutters DEF vars
  <2> QED BY <2>1, <2>2
<1> QED BY <1>1, <1>2, <1>3, <1>4, <1>5, <1>6, <1>7, <1>8, <1>9, <1>10, <1>11, <1>12 DEF Next

\* Every variable keeps its type, every disk its size and geometry, whatever
\* geometry that is: the controller never waits for more bytes than a request
\* asked for, nor serves beyond its data.
THEOREM TypeCorrect == Spec => []TypeOK
<1>1. Init => IInv
  BY InitIs
<1>2. IInv /\ [Next]_vars => IInv'
  BY Step
<1>3. IInv => TypeOK
  BY DEF IInv
<1> QED BY <1>1, <1>2, <1>3, PTL DEF Spec

\* INT 13h and the ports of the hard disk controller are a block store: on disks
\* whose cylinders and heads the controller's registers tell apart, every request
\* is answered truly, whatever was abandoned, reset or exchanged before it.
THEOREM ServedTruthfully == ASSUME Fitting PROVE Spec => Truthful
<1>1. Init => IInv /\ Store!Init
  BY InitIs
<1>2. IInv /\ [Next]_vars => IInv' /\ [Store!Next]_(Store!vars)
  BY Step
<1> QED BY <1>1, <1>2, PTL DEF Spec, Truthful, Store!Spec
=============================================================================
