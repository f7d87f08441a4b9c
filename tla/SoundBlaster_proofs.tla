------------------------ MODULE SoundBlaster_proofs ------------------------
(***************************************************************************)
(* For any programs, lengths of blocks and bursts of DMA: the types of the *)
(* Sound Blaster's state, the agreement of the DMA channel with the DSP on *)
(* how much of a block is left, and the sectors of a read delivered whole. *)
(***************************************************************************)
EXTENDS SoundBlaster, NumberLemmas, SequenceTheorems

-----------------------------------------------------------------------------
(* Words and their bytes. *)

Limit == Radix * Radix

\* There are as many words as pairs of bytes.
LEMMA LimitIs == Radix \in Nat \ {0} /\ Limit \in Nat \ {0} /\ Words = 0..(Limit - 1)
<1>1. Radix \in Nat \ {0}
  BY DmaAssumption
<1> QED BY <1>1, PositiveProduct DEF Limit, Words

\* Two bytes make a word.
LEMMA TwoBytes ==
  ASSUME NEW hi \in Bytes, NEW lo \in Bytes
  PROVE  (hi * Radix) + lo \in Words
<1>1. hi \in Nat /\ lo \in Nat /\ hi < Radix /\ lo < Radix /\ Radix \in Nat
  BY LimitIs DEF Bytes
<1>2. (hi * Radix) + Radix <= Radix * Radix
  BY <1>1, Products
<1>3. hi * Radix \in Nat /\ Radix * Radix \in Nat
  BY <1>1
<1> QED BY <1>1, <1>2, <1>3 DEF Words

\* A word is made of its bytes.
LEMMA BytesOfWord ==
  ASSUME NEW word \in Words
  PROVE  /\ word % Radix \in Bytes /\ word \div Radix \in Bytes
         /\ ((word \div Radix) * Radix) + (word % Radix) = word
<1>1. word \in Nat /\ word < Radix * Radix /\ Radix \in Nat \ {0}
  BY LimitIs DEF Limit
<1>2. /\ word \div Radix \in Nat /\ word % Radix \in 0..(Radix - 1)
      /\ word = ((word \div Radix) * Radix) + (word % Radix)
  BY <1>1, DivisionParts
<1> DEFINE q == word \div Radix
<1>3. q < Radix
  <2> SUFFICES ASSUME Radix <= q PROVE FALSE
    BY <1>1, <1>2
  <2> HIDE DEF q
  <2>1. q \in Nat /\ (q = Radix \/ Radix < q)
    BY <1>1, <1>2 DEF q
  <2>2. q = Radix => Radix * Radix <= q * Radix
    BY <1>1
  <2>3. Radix < q => (Radix * Radix) + Radix <= q * Radix
    BY <1>1, <2>1, Products
  <2>4. Radix * Radix \in Nat /\ q * Radix \in Nat
    BY <1>1, <2>1
  <2>5. q * Radix <= word
    BY <1>1, <1>2, <2>1, <2>4 DEF q
  <2> QED BY <1>1, <2>1, <2>2, <2>3, <2>4, <2>5
<1> QED BY <1>1, <1>2, <1>3 DEF Bytes

\* A byte written to a register leaves a word; both give the word written.
LEMMA SetByteIs ==
  /\ \A word \in Words, high \in BOOLEAN, byte \in Bytes : SetByte(word, high, byte) \in Words
  /\ \A old, word \in Words :
       SetByte(SetByte(old, FALSE, word % Radix), TRUE, word \div Radix) = word
<1>1. ASSUME NEW word \in Words, NEW high \in BOOLEAN, NEW byte \in Bytes
      PROVE  SetByte(word, high, byte) \in Words
  BY BytesOfWord, TwoBytes DEF SetByte
<1>2. ASSUME NEW old \in Words, NEW word \in Words
      PROVE  SetByte(SetByte(old, FALSE, word % Radix), TRUE, word \div Radix) = word
  <2> DEFINE q == old \div Radix  r == word % Radix
  <2>1. q \in Nat /\ r \in 0..(Radix - 1) /\ Radix \in Nat \ {0}
    <3>1. q \in Bytes /\ r \in Bytes
      BY BytesOfWord
    <3> HIDE DEF q, r
    <3> QED BY <3>1, LimitIs DEF Bytes
  <2>2. SetByte(old, FALSE, r) = (q * Radix) + r
    BY DEF SetByte
  <2>3. ((q * Radix) + r) % Radix = r
    <3> HIDE DEF q, r
    <3> QED BY <2>1, DivisionOfSum
  <2>4. SetByte((q * Radix) + r, TRUE, word \div Radix)
          = ((word \div Radix) * Radix) + (((q * Radix) + r) % Radix)
    BY DEF SetByte
  <2> QED BY <2>2, <2>3, <2>4, BytesOfWord
<1> QED BY <1>1, <1>2

\* The length of a block survives its bytes, but for the longest, kept as 0.
LEMMA LengthIs ==
  ASSUME NEW len \in 1..Limit
  PROVE  /\ (len - 1) % Radix \in Bytes /\ (len - 1) \div Radix \in Bytes /\ len - 1 \in Words
         /\ Length((len - 1) % Radix, (len - 1) \div Radix) = len % Limit
<1>1. len - 1 \in Words /\ len \in Nat
  BY LimitIs
<1>2. (len - 1) + 1 = len
  BY <1>1
<1> DEFINE lo == (len - 1) % Radix  hi == (len - 1) \div Radix
<1>3. lo \in Bytes /\ hi \in Bytes /\ (hi * Radix) + lo = len - 1
  BY <1>1, BytesOfWord
<1> HIDE DEF lo, hi
<1>4. Length(lo, hi) = len % Limit
  BY <1>2, <1>3 DEF Length, Limit
<1> QED BY <1>1, <1>3, <1>4 DEF lo, hi

\* A number modulo the limit is a word, and below it itself.
LEMMA ModuloIs ==
  /\ \A x \in Nat : x % Limit \in Words
  /\ \A x \in Words : x % Limit = x
  /\ Limit % Limit = 0
<1>1. \A x \in Nat : x % Limit \in Words
  BY LimitIs, DivisionParts
<1>2. \A x \in Words : x % Limit = x
  BY LimitIs, BelowDivisor
<1>3. Limit % Limit = 0
  <2>1. ((1 * Limit) + 0) % Limit = 0
    BY LimitIs, DivisionOfSum
  <2>2. (1 * Limit) + 0 = Limit
    BY LimitIs
  <2> QED BY <2>1, <2>2
<1> QED BY <1>1, <1>2, <1>3

-----------------------------------------------------------------------------
(* The DMA channel. *)

\* A controller has the one channel.
LEMMA ChannelIs ==
  ASSUME NEW m \in DmaState
  PROVE  /\ 1 \in Channels /\ m.ch[1] \in ChannelState /\ m.flipFlop \in BOOLEAN
         /\ m.ch \in [Channels -> ChannelState]
         /\ m.mask \in SUBSET Channels /\ m.dreq \in SUBSET Channels /\ m.tc \in SUBSET Channels
BY SoundAssumption DEF DmaState

\* A write to the address register leaves the count alone.
LEMMA WriteAddressIs ==
  ASSUME NEW m \in DmaState, NEW byte \in Bytes
  PROVE  LET g == WriteAddress(m, 1, byte) IN
         /\ g \in DmaState /\ g.mask = m.mask /\ g.dreq = m.dreq /\ g.flipFlop = ~m.flipFlop
<1> DEFINE word == SetByte(m.ch[1].base, m.flipFlop, byte)
           ch   == [m.ch[1] EXCEPT !.base = word, !.addr = word]
           flip == ~m.flipFlop
           chs  == [m.ch EXCEPT ![1] = ch]
<1>1. 1 \in Channels /\ m.ch[1] \in ChannelState /\ m.flipFlop \in BOOLEAN /\ flip \in BOOLEAN
      /\ m.ch \in [Channels -> ChannelState]
  BY ChannelIs
<1>2. word \in Words
  BY <1>1, SetByteIs DEF ChannelState
<1>3. WriteAddress(m, 1, byte) = [m EXCEPT !.ch[1] = ch, !.flipFlop = flip]
  BY Zenon DEF WriteAddress
<1>4. ch \in ChannelState
  <2> HIDE DEF word
  <2> QED BY <1>1, <1>2 DEF ChannelState
<1> HIDE DEF ch
<1>5. chs \in [Channels -> ChannelState]
  BY <1>1, <1>4
<1>6. WriteAddress(m, 1, byte) = [m EXCEPT !.ch = chs, !.flipFlop = flip]
  BY <1>3
<1> HIDE DEF chs
<1> QED BY <1>1, <1>5, <1>6 DEF DmaState

\* A write to the count register sets the count and what it is reloaded with.
LEMMA WriteCountIs ==
  ASSUME NEW m \in DmaState, NEW byte \in Bytes
  PROVE  LET g == WriteCount(m, 1, byte)
             word == SetByte(m.ch[1].baseCount, m.flipFlop, byte) IN
         /\ g \in DmaState /\ g.mask = m.mask /\ g.dreq = m.dreq /\ g.flipFlop = ~m.flipFlop
         /\ word \in Words /\ g.ch[1].count = word /\ g.ch[1].baseCount = word
<1> DEFINE word == SetByte(m.ch[1].baseCount, m.flipFlop, byte)
           ch   == [m.ch[1] EXCEPT !.baseCount = word, !.count = word]
           flip == ~m.flipFlop
           chs  == [m.ch EXCEPT ![1] = ch]
<1>1. 1 \in Channels /\ m.ch[1] \in ChannelState /\ m.flipFlop \in BOOLEAN /\ flip \in BOOLEAN
      /\ m.ch \in [Channels -> ChannelState]
  BY ChannelIs
<1>2. word \in Words
  BY <1>1, SetByteIs DEF ChannelState
<1>3. WriteCount(m, 1, byte) = [m EXCEPT !.ch[1] = ch, !.flipFlop = flip]
  BY Zenon DEF WriteCount
<1>4. ch \in ChannelState /\ ch.count = word /\ ch.baseCount = word
  <2> HIDE DEF word
  <2> QED BY <1>1, <1>2 DEF ChannelState
<1> HIDE DEF ch
<1>5. chs \in [Channels -> ChannelState] /\ chs[1] = ch
  BY <1>1, <1>4
<1>6. WriteCount(m, 1, byte) = [m EXCEPT !.ch = chs, !.flipFlop = flip]
  BY <1>3
<1> HIDE DEF chs, word
<1>7. WriteCount(m, 1, byte) \in DmaState
  BY <1>1, <1>5, <1>6 DEF DmaState
<1> QED BY <1>1, <1>2, <1>4, <1>5, <1>6, <1>7 DEF DmaState, word

\* What a channel does with memory.
Types == {"verify", "write", "read"}

\* The mode register, the mask and the flip-flop.
LEMMA WriteModeIs ==
  ASSUME NEW m \in DmaState, NEW type \in Types, NEW auto \in BOOLEAN
  PROVE  LET g == WriteMode(m, 1, type, FALSE, auto) IN
         /\ g \in DmaState /\ g.mask = m.mask /\ g.dreq = m.dreq
         /\ g.ch[1].count = m.ch[1].count /\ g.ch[1].baseCount = m.ch[1].baseCount
         /\ g.ch[1].autoInit = auto
<1> DEFINE ch  == [m.ch[1] EXCEPT !.type = type, !.down = FALSE, !.autoInit = auto]
           chs == [m.ch EXCEPT ![1] = ch]
<1>1. 1 \in Channels /\ m.ch[1] \in ChannelState /\ m.ch \in [Channels -> ChannelState]
  BY ChannelIs
<1>2. /\ ch \in ChannelState /\ ch.count = m.ch[1].count /\ ch.baseCount = m.ch[1].baseCount
      /\ ch.autoInit = auto
  BY <1>1 DEF ChannelState, Types
<1>3. WriteMode(m, 1, type, FALSE, auto) = [m EXCEPT !.ch = chs]
  BY DEF WriteMode
<1> HIDE DEF ch
<1>4. chs \in [Channels -> ChannelState] /\ chs[1] = ch
  BY <1>1, <1>2
<1> HIDE DEF chs
<1>5. WriteMode(m, 1, type, FALSE, auto) \in DmaState
  BY <1>3, <1>4 DEF DmaState
<1> QED BY <1>2, <1>3, <1>4, <1>5 DEF DmaState

\* The mask is set or cleared.
LEMMA WriteMaskIs ==
  ASSUME NEW m \in DmaState, NEW set \in BOOLEAN
  PROVE  LET g == WriteMask(m, 1, set) IN
         /\ g \in DmaState /\ g.dreq = m.dreq /\ g.ch = m.ch /\ (1 \in g.mask <=> set)
BY SoundAssumption DEF WriteMask, DmaState

\* The flip-flop is cleared.
LEMMA ClearFlipFlopIs ==
  ASSUME NEW m \in DmaState
  PROVE  LET g == ClearFlipFlop(m) IN
         /\ g \in DmaState /\ g.dreq = m.dreq /\ g.mask = m.mask /\ g.ch = m.ch
         /\ g.flipFlop = FALSE
BY DEF ClearFlipFlop, DmaState

\* A driver programs the channel: it counts from count, and is unmasked.
LEMMA ProgramIs ==
  ASSUME NEW m \in DmaState, NEW count \in Words,
         NEW type \in Types, NEW auto \in BOOLEAN
  PROVE  LET g == Program(m, 1, 0, count, type, FALSE, auto) IN
         /\ g \in DmaState /\ g.dreq = m.dreq /\ 1 \notin g.mask
         /\ g.ch[1].count = count /\ g.ch[1].baseCount = count
         /\ (g.ch[1].autoInit <=> auto)
<1> DEFINE lo      == count % Radix
           hi      == count \div Radix
           zero    == 0 % Radix
           none    == 0 \div Radix
           masked  == ClearFlipFlop(WriteMask(m, 1, TRUE))
           addr1   == WriteAddress(masked, 1, zero)
           addr2   == WriteAddress(addr1, 1, none)
           cleared == ClearFlipFlop(addr2)
           count1  == WriteCount(cleared, 1, lo)
           count2  == WriteCount(count1, 1, hi)
           mode    == WriteMode(count2, 1, type, FALSE, auto)
           g       == WriteMask(mode, 1, FALSE)
<1>0. zero \in Bytes /\ none \in Bytes /\ lo \in Bytes /\ hi \in Bytes
  <2>1. 0 \in Words
    BY LimitIs
  <2>2. zero \in Bytes /\ none \in Bytes
    BY <2>1, BytesOfWord
  <2>3. lo \in Bytes /\ hi \in Bytes
    BY BytesOfWord
  <2> QED BY <2>2, <2>3
<1>00. \A old \in Words : SetByte(SetByte(old, FALSE, lo), TRUE, hi) = count
  BY SetByteIs
<1> HIDE DEF zero, none, lo, hi
<1>1. masked \in DmaState /\ masked.dreq = m.dreq
  BY WriteMaskIs, ClearFlipFlopIs, ZenonT(60)
<1> HIDE DEF masked
<1>2. addr1 \in DmaState /\ addr1.dreq = m.dreq
  BY <1>0, <1>1, WriteAddressIs
<1> HIDE DEF addr1
<1>3. addr2 \in DmaState /\ addr2.dreq = m.dreq
  BY <1>0, <1>2, WriteAddressIs
<1> HIDE DEF addr2
<1>4. cleared \in DmaState /\ cleared.dreq = m.dreq /\ cleared.flipFlop = FALSE
  BY <1>3, ClearFlipFlopIs
<1> HIDE DEF cleared
<1>5. /\ count1 \in DmaState /\ count1.dreq = m.dreq /\ count1.flipFlop = TRUE
      /\ count1.ch[1].baseCount = SetByte(cleared.ch[1].baseCount, FALSE, lo)
  <2>1. /\ count1 \in DmaState /\ count1.dreq = cleared.dreq
        /\ count1.flipFlop = ~cleared.flipFlop
        /\ count1.ch[1].baseCount = SetByte(cleared.ch[1].baseCount, cleared.flipFlop, lo)
    BY <1>0, <1>4, WriteCountIs
  <2> HIDE DEF count1
  <2> QED BY <1>4, <2>1
<1> HIDE DEF count1
<1>6. /\ count2 \in DmaState /\ count2.dreq = m.dreq
      /\ count2.ch[1].count = count /\ count2.ch[1].baseCount = count
  <2>1. cleared.ch[1].baseCount \in Words
    BY <1>4, ChannelIs DEF ChannelState
  <2>2. SetByte(count1.ch[1].baseCount, TRUE, hi) = count
    BY <1>5, <2>1, <1>00
  <2>3. /\ count2 \in DmaState /\ count2.dreq = count1.dreq
        /\ count2.ch[1].count = SetByte(count1.ch[1].baseCount, count1.flipFlop, hi)
        /\ count2.ch[1].baseCount = SetByte(count1.ch[1].baseCount, count1.flipFlop, hi)
    BY <1>0, <1>5, WriteCountIs
  <2> HIDE DEF count2
  <2> QED BY <1>5, <2>2, <2>3
<1> HIDE DEF count2
<1>7. /\ mode \in DmaState /\ mode.dreq = m.dreq /\ mode.ch[1].autoInit = auto
      /\ mode.ch[1].count = count /\ mode.ch[1].baseCount = count
  <2>1. /\ mode \in DmaState /\ mode.dreq = count2.dreq /\ mode.ch[1].autoInit = auto
        /\ mode.ch[1].count = count2.ch[1].count
        /\ mode.ch[1].baseCount = count2.ch[1].baseCount
    <3> HIDE DEF mode
    <3>1. mode = WriteMode(count2, 1, type, FALSE, auto)
      BY DEF mode
    <3>2. /\ mode \in DmaState /\ mode.dreq = count2.dreq
          /\ mode.ch[1].count = count2.ch[1].count
          /\ mode.ch[1].baseCount = count2.ch[1].baseCount
      BY <1>6, <3>1, WriteModeIs, ZenonT(60)
    <3>3. mode.ch[1].autoInit = auto
      BY <1>6, <3>1, WriteModeIs, ZenonT(40)
    <3> QED BY <3>2, <3>3
  <2> HIDE DEF mode
  <2> QED BY <1>6, <2>1
<1> HIDE DEF mode
<1>8. /\ g \in DmaState /\ g.dreq = m.dreq /\ 1 \notin g.mask
      /\ g.ch[1].count = count /\ g.ch[1].baseCount = count /\ g.ch[1].autoInit = auto
  <2>1. g \in DmaState /\ g.dreq = mode.dreq /\ g.ch = mode.ch /\ (1 \in g.mask <=> FALSE)
    BY <1>7, WriteMaskIs
  <2> HIDE DEF g
  <2> QED BY <1>7, <2>1
<1>9. Program(m, 1, 0, count, type, FALSE, auto) = g
  BY DEF Program, masked, addr1, addr2, cleared, count1, count2, mode, zero, none, lo, hi
<1> HIDE DEF g
<1> QED BY <1>8, <1>9

\* A bus cycle counts down, or reloads the channel, or masks it.
LEMMA CycleIs ==
  ASSUME NEW m \in DmaState
  PROVE  LET g == Cycle(m, 1) IN
         /\ g \in DmaState /\ g.dreq = m.dreq /\ g.ch[1].autoInit = m.ch[1].autoInit
         /\ g.ch[1].baseCount = m.ch[1].baseCount
         /\ m.ch[1].count > 0 => g.ch[1].count = m.ch[1].count - 1 /\ g.mask = m.mask
         /\ m.ch[1].count = 0 /\ m.ch[1].autoInit =>
              g.ch[1].count = m.ch[1].baseCount /\ g.mask = m.mask
         /\ m.ch[1].count = 0 /\ ~m.ch[1].autoInit =>
              g.ch[1].count = 0 /\ g.mask = m.mask \cup {1}
<1> DEFINE ch == m.ch[1]  addr == Advanced(ch)
<1>1. 1 \in Channels /\ ch \in ChannelState /\ m.ch \in [Channels -> ChannelState]
      /\ m.mask \in SUBSET Channels /\ m.tc \in SUBSET Channels
  BY ChannelIs
<1>2. /\ ch.addr \in Words /\ ch.count \in Words /\ ch.base \in Words /\ ch.baseCount \in Words
      /\ ch.autoInit \in BOOLEAN
  BY <1>1 DEF ChannelState
<1>3. addr \in Words
  <2> HIDE DEF ch
  <2>1. ch.addr + Limit - 1 \in Nat /\ ch.addr + 1 \in Nat
    BY <1>2, LimitIs
  <2>2. (ch.addr + Limit - 1) % Limit \in Words /\ (ch.addr + 1) % Limit \in Words
    BY <2>1, ModuloIs
  <2> QED BY <2>2 DEF Advanced, Limit
<1>0. SUFFICES
         LET g == Cycle(m, 1) IN
         /\ g \in DmaState /\ g.dreq = m.dreq /\ g.ch[1].autoInit = ch.autoInit
         /\ g.ch[1].baseCount = ch.baseCount
         /\ ch.count > 0 => g.ch[1].count = ch.count - 1 /\ g.mask = m.mask
         /\ ch.count = 0 /\ ch.autoInit => g.ch[1].count = ch.baseCount /\ g.mask = m.mask
         /\ ch.count = 0 /\ ~ch.autoInit => g.ch[1].count = 0 /\ g.mask = m.mask \cup {1}
  BY Zenon
<1> HIDE DEF ch, addr
<1>4. CASE ch.count > 0
  <2> DEFINE new == [ch EXCEPT !.addr = addr, !.count = ch.count - 1]
             chs == [m.ch EXCEPT ![1] = new]
  <2>1. ch.count - 1 \in Words
    BY <1>2, <1>4, LimitIs
  <2>2. /\ new \in ChannelState /\ new.autoInit = ch.autoInit /\ new.baseCount = ch.baseCount
        /\ new.count = ch.count - 1
    BY <1>1, <1>3, <2>1 DEF ChannelState
  <2>3. Cycle(m, 1) = [m EXCEPT !.ch = chs]
    BY <1>1, <1>4 DEF Cycle, ch, addr
  <2> HIDE DEF new
  <2>4. chs \in [Channels -> ChannelState] /\ chs[1] = new
    BY <1>1, <2>2
  <2> HIDE DEF chs
  <2>5. Cycle(m, 1) \in DmaState
    BY <2>3, <2>4 DEF DmaState
  <2>6. Cycle(m, 1).ch = chs /\ Cycle(m, 1).dreq = m.dreq /\ Cycle(m, 1).mask = m.mask
    BY <2>3 DEF DmaState
  <2> QED BY <1>2, <1>4, <2>2, <2>4, <2>5, <2>6, LimitIs
<1>5. CASE ch.count = 0 /\ ch.autoInit
  <2> DEFINE new == [ch EXCEPT !.addr = ch.base, !.count = ch.baseCount]
             chs == [m.ch EXCEPT ![1] = new]  tc == m.tc \cup {1}
  <2>2. /\ new \in ChannelState /\ new.autoInit = ch.autoInit /\ new.baseCount = ch.baseCount
        /\ new.count = ch.baseCount
    BY <1>1, <1>2 DEF ChannelState
  <2>3. Cycle(m, 1) = [m EXCEPT !.tc = tc, !.ch = chs]
    BY <1>1, <1>5 DEF Cycle, ch, addr
  <2> HIDE DEF new
  <2>4. chs \in [Channels -> ChannelState] /\ chs[1] = new /\ tc \in SUBSET Channels
    BY <1>1, <2>2
  <2> HIDE DEF chs, tc
  <2>5. Cycle(m, 1) \in DmaState
    BY <2>3, <2>4 DEF DmaState
  <2>6. Cycle(m, 1).ch = chs /\ Cycle(m, 1).dreq = m.dreq /\ Cycle(m, 1).mask = m.mask
    BY <2>3 DEF DmaState
  <2>7. Cycle(m, 1).ch[1].autoInit = ch.autoInit
    BY <2>2, <2>4, <2>6, ZenonT(60)
  <2>8. Cycle(m, 1).ch[1].baseCount = ch.baseCount /\ Cycle(m, 1).ch[1].count = ch.baseCount
    BY <2>2, <2>4, <2>6
  <2>9. ~(ch.count > 0)
    BY <1>5
  <2> QED BY <1>5, <2>5, <2>6, <2>7, <2>8, <2>9, ZenonT(60)
<1>6. CASE ch.count = 0 /\ ~ch.autoInit
  <2> DEFINE new == [ch EXCEPT !.addr = addr]
             chs == [m.ch EXCEPT ![1] = new]  tc == m.tc \cup {1}  mask == m.mask \cup {1}
  <2>2. /\ new \in ChannelState /\ new.autoInit = ch.autoInit /\ new.baseCount = ch.baseCount
        /\ new.count = ch.count
    BY <1>1, <1>3 DEF ChannelState
  <2>3. Cycle(m, 1) = [m EXCEPT !.tc = tc, !.mask = mask, !.ch = chs]
    BY <1>1, <1>6 DEF Cycle, ch, addr
  <2> HIDE DEF new
  <2>4. chs \in [Channels -> ChannelState] /\ chs[1] = new /\ tc \in SUBSET Channels
        /\ mask \in SUBSET Channels
    BY <1>1, <2>2
  <2> HIDE DEF chs, tc, mask
  <2>5. Cycle(m, 1) \in DmaState
    BY <2>3, <2>4 DEF DmaState
  <2>6. Cycle(m, 1).ch = chs /\ Cycle(m, 1).dreq = m.dreq /\ Cycle(m, 1).mask = mask
    BY <2>3 DEF DmaState
  <2> QED BY <1>2, <1>6, <2>2, <2>4, <2>5, <2>6 DEF mask
<1> QED BY <1>2, <1>4, <1>5, <1>6, LimitIs

-----------------------------------------------------------------------------
(* The DSP. *)

\* Two bytes make the length of a block.
LEMMA LengthWord ==
  ASSUME NEW lo \in Bytes, NEW hi \in Bytes
  PROVE  Length(lo, hi) \in Words
<1>1. (hi * Radix) + lo + 1 \in Nat
  BY LimitIs DEF Bytes
<1> QED BY <1>1, ModuloIs DEF Length, Limit

\* Start and Resume.
LEMMA StartIs ==
  ASSUME NEW d \in DspState, NEW length \in Words
  PROVE  LET g == Start(d, length) IN
         /\ g \in DspState /\ g.blockLen = length /\ g.remaining = length /\ g.active
         /\ g.dreq = "assert" /\ g.wide = d.wide /\ g.auto = d.auto /\ g.e2 = d.e2
         /\ g.status8 = d.status8 /\ g.status16 = d.status16
         /\ g.cmd = d.cmd /\ g.params = d.params
BY DEF Start, DspState

\* Neither does resuming a transfer lead out of them.
LEMMA ResumeType ==
  ASSUME NEW d \in DspState
  PROVE  Resume(d) \in DspState
BY DEF Resume, DspState

\* A command with its parameters leaves a state of the DSP.
LEMMA ExecuteType ==
  ASSUME NEW d \in DspState, NEW c \in DspCommands, NEW p \in Seq(Bytes), Len(p) = Params[c]
  PROVE  Execute(d, c, p) \in DspState
<1>1. CASE c = "play8"
  <2>1. p[1] \in Bytes /\ p[2] \in Bytes
    BY <1>1, SMTT(30) DEF Params
  <2>2. Length(p[1], p[2]) \in Words
    BY <2>1, LengthWord
  <2> QED BY <1>1, <2>2, StartIs DEF Execute
<1>2. CASE c = "record8"
  <2>1. p[1] \in Bytes /\ p[2] \in Bytes
    BY <1>2, SMTT(30) DEF Params
  <2>2. Length(p[1], p[2]) \in Words
    BY <2>1, LengthWord
  <2>3. Start(d, Length(p[1], p[2])) \in DspState
    BY <2>2, StartIs
  <2>4. Execute(d, c, p) = [Start(d, Length(p[1], p[2])) EXCEPT !.wide = FALSE]
    BY <1>2 DEF Execute
  <2> QED BY <2>3, <2>4 DEF DspState
<1>3. CASE c \in {"play8x", "loop8", "play16", "loop16"}
  <2>1. p[2] \in Bytes /\ p[3] \in Bytes
    BY <1>3 DEF Params
  <2>2. Length(p[2], p[3]) \in Words
    BY <2>1, LengthWord
  <2>3. Start(d, Length(p[2], p[3])) \in DspState
    BY <2>2, StartIs
  <2> DEFINE wide == c \in {"play16", "loop16"}  auto == c \in {"loop8", "loop16"}
             begun == Start(d, Length(p[2], p[3]))
  <2>4. Execute(d, c, p) = [begun EXCEPT !.wide = wide, !.auto = auto]
    BY <1>3 DEF Execute
  <2>5. wide \in BOOLEAN /\ auto \in BOOLEAN
    OBVIOUS
  <2> HIDE DEF wide, auto, begun
  <2>6. begun \in DspState
    BY <2>3 DEF begun
  <2> QED BY <2>4, <2>5, <2>6 DEF DspState
<1>4. CASE c = "blockSize"
  <2>1. p[1] \in Bytes /\ p[2] \in Bytes
    BY <1>4 DEF Params
  <2>2. Length(p[1], p[2]) \in Words
    BY <2>1, LengthWord
  <2>3. Execute(d, c, p) = [d EXCEPT !.blockLen = Length(p[1], p[2])]
    BY <1>4 DEF Execute
  <2> QED BY <2>2, <2>3 DEF DspState
<1>5. CASE c \notin {"play8", "record8", "play8x", "loop8", "play16", "loop16", "blockSize"}
  <2>1. Answers(c) \in Nat
    BY DEF Answers
  <2>2. [d EXCEPT !.out = @ + Answers(c)] \in DspState
    BY <2>1 DEF DspState
  <2>3. /\ [d EXCEPT !.active = FALSE] \in DspState /\ [d EXCEPT !.auto = FALSE] \in DspState
        /\ [d EXCEPT !.e2 = TRUE, !.dreq = "assert"] \in DspState
        /\ [d EXCEPT !.pending8 = TRUE] \in DspState /\ [d EXCEPT !.pending16 = TRUE] \in DspState
    BY DEF DspState
  <2> QED BY <1>5, <2>2, <2>3, ResumeType DEF Execute
<1> QED BY <1>1, <1>2, <1>3, <1>4, <1>5

\* A command that needs no parameters, or the first byte of another.
LEMMA WriteCommandType ==
  ASSUME NEW d \in DspState, NEW c \in DspCommands
  PROVE  WriteCommand(d, c) \in DspState
<1>1. Params[c] = 0 => Execute(d, c, <<>>) \in DspState
  <2>1. <<>> \in Seq(Bytes) /\ Len(<<>>) = 0
    OBVIOUS
  <2> QED BY <2>1, ExecuteType
<1>2. [d EXCEPT !.cmd = c, !.params = <<>>] \in DspState
  <2> DEFINE none == <<>>
  <2>1. none \in Seq(Bytes)
    OBVIOUS
  <2> HIDE DEF none
  <2>2. [d EXCEPT !.cmd = c, !.params = none] \in DspState
    BY <2>1 DEF DspState
  <2> QED BY <2>2 DEF none
<1> QED BY <1>1, <1>2 DEF WriteCommand

\* A parameter of the command that is being collected.
LEMMA WriteParamType ==
  ASSUME NEW d \in DspState, d.cmd # "none", NEW byte \in Bytes
  PROVE  WriteParam(d, byte) \in DspState
<1> DEFINE p == Append(d.params, byte)
<1>1. p \in Seq(Bytes) /\ d.cmd \in DspCommands
  BY DEF DspState
<1> HIDE DEF p
<1>2. Len(p) = Params[d.cmd] => Execute(d, d.cmd, p) \in DspState
  BY <1>1, ExecuteType
<1>3. Len(p) = Params[d.cmd] =>
        [Execute(d, d.cmd, p) EXCEPT !.cmd = "none", !.params = <<>>] \in DspState
  <2> DEFINE none == <<>>  g == Execute(d, d.cmd, p)
  <2>1. none \in Seq(Bytes)
    OBVIOUS
  <2> HIDE DEF none, g
  <2>2. g \in DspState => [g EXCEPT !.cmd = "none", !.params = none] \in DspState
    BY <2>1 DEF DspState
  <2> QED BY <1>2, <2>2 DEF none, g
<1>4. [d EXCEPT !.params = p] \in DspState
  BY <1>1 DEF DspState
<1> QED BY <1>3, <1>4 DEF WriteParam, p

\* Reset, the other ports, and the interrupt.
LEMMA PortsType ==
  ASSUME NEW d \in DspState
  PROVE  /\ DspNew \in DspState /\ SoftwareReset(d) \in DspState
         /\ \A high \in BOOLEAN : WriteReset(d, high) \in DspState
         /\ ReadData(d) \in DspState /\ ReadStatus(d) \in DspState /\ ReadAck16(d) \in DspState
         /\ TakeDspIrq(d) \in DspState /\ TakeDspDreq(d) \in DspState
<1>1. 0 \in Words /\ <<>> \in Seq(Bytes)
  BY LimitIs
<1>2. DspNew \in DspState
  BY <1>1 DEF DspNew, DspState
<1>3. SoftwareReset(d) \in DspState
  <2> DEFINE n == DspNew
  <2>1. SoftwareReset(d) = [n EXCEPT !.out = 1, !.dreq = "release",
                                     !.blockLen = d.blockLen, !.remaining = d.remaining]
    BY DEF SoftwareReset
  <2>2. n \in DspState
    BY <1>2
  <2> DEFINE len == d.blockLen  left == d.remaining  one == 1
  <2>3. len \in Words /\ left \in Words /\ one \in Nat
    BY DEF DspState
  <2> HIDE DEF n, len, left, one
  <2>4. [n EXCEPT !.out = one, !.dreq = "release", !.blockLen = len, !.remaining = left]
          \in DspState
    BY <2>2, <2>3 DEF DspState
  <2> QED BY <2>1, <2>4 DEF len, left, one
<1>4. \A high \in BOOLEAN : WriteReset(d, high) \in DspState
  <2>1. [d EXCEPT !.resetting = TRUE] \in DspState
    BY DEF DspState
  <2> QED BY <1>3, <2>1 DEF WriteReset
<1>5. ReadData(d) \in DspState
  <2>1. d.out \in Nat
    BY DEF DspState
  <2> DEFINE n == IF d.out = 0 THEN 0 ELSE d.out - 1
  <2>2. n \in Nat
    BY <2>1
  <2>3. ReadData(d) = [d EXCEPT !.out = n]
    BY DEF ReadData
  <2> HIDE DEF n
  <2> QED BY <2>2, <2>3 DEF DspState
<1>6. ReadStatus(d) \in DspState /\ ReadAck16(d) \in DspState
  BY DEF ReadStatus, ReadAck16, DspState
<1>7. TakeDspIrq(d) \in DspState /\ TakeDspDreq(d) \in DspState
  BY DEF TakeDspIrq, TakeDspDreq, DspState
<1> QED BY <1>2, <1>3, <1>4, <1>5, <1>6, <1>7

\* What a byte moved by DMA does to the block in progress.
LEMMA ReceiveByteIs ==
  ASSUME NEW d \in DspState
  PROVE  LET g    == ReceiveByte(d)
             left == (d.remaining + Limit - 1) % Limit
         IN
         /\ g \in DspState /\ left \in Words
         /\ g.wide = d.wide /\ g.auto = d.auto /\ g.blockLen = d.blockLen
         /\ g.cmd = d.cmd /\ g.params = d.params /\ g.e2 = d.e2
         /\ ~d.active => g = d
         /\ d.active /\ left # 0 =>
              /\ g.active /\ g.remaining = left /\ g.dreq = d.dreq
              /\ g.status8 = d.status8 /\ g.status16 = d.status16
         /\ d.active /\ left = 0 /\ d.auto =>
              g.active /\ g.remaining = d.blockLen /\ g.dreq = d.dreq
         /\ d.active /\ left = 0 /\ ~d.auto =>
              ~g.active /\ g.remaining = 0 /\ g.dreq = "release"
<1> DEFINE left == (d.remaining + Limit - 1) % Limit
<1>1. left \in Words /\ d.blockLen \in Words
  <2>1. d.remaining + Limit - 1 \in Nat
    BY LimitIs DEF DspState
  <2> QED BY <2>1, ModuloIs DEF DspState
<1>2. left = (d.remaining + (Radix * Radix) - 1) % (Radix * Radix)
  BY DEF Limit
<1> HIDE DEF left
<1>3. CASE ~d.active
  <2>1. ReceiveByte(d) = d
    BY <1>3 DEF ReceiveByte
  <2> QED BY <1>1, <1>3, <2>1 DEF left
<1>4. CASE d.active /\ left # 0
  <2> DEFINE g == [d EXCEPT !.remaining = left]
  <2>1. ReceiveByte(d) = g
    BY <1>2, <1>4, ZenonT(60) DEF ReceiveByte, DspState
  <2>2. /\ g \in DspState /\ g.wide = d.wide /\ g.auto = d.auto /\ g.blockLen = d.blockLen
        /\ g.cmd = d.cmd /\ g.params = d.params /\ g.e2 = d.e2
        /\ g.active /\ g.remaining = left /\ g.dreq = d.dreq
        /\ g.status8 = d.status8 /\ g.status16 = d.status16
    BY <1>1, <1>4 DEF DspState
  <2> HIDE DEF g
  <2> QED BY <1>1, <1>4, <2>1, <2>2 DEF left
<1>5. CASE d.active /\ left = 0 /\ d.auto
  <2> DEFINE p8 == d.pending8 \/ ~d.wide  s8 == d.status8 \/ ~d.wide
             p16 == d.pending16 \/ d.wide  s16 == d.status16 \/ d.wide
             len == d.blockLen
             e == [d EXCEPT !.remaining = len]
             f == [e EXCEPT !.pending8 = p8, !.status8 = s8]
             g == [f EXCEPT !.pending16 = p16, !.status16 = s16]
  <2>0. p8 \in BOOLEAN /\ s8 \in BOOLEAN /\ p16 \in BOOLEAN /\ s16 \in BOOLEAN /\ len \in Words
    BY <1>1, LimitIs
  <2>1. ReceiveByte(d) = g
    BY <1>2, <1>5, ZenonT(60) DEF ReceiveByte, DspState
  <2> HIDE DEF p8, s8, p16, s16, len
  <2>2. /\ e \in DspState /\ e.wide = d.wide /\ e.auto = d.auto /\ e.blockLen = d.blockLen
        /\ e.cmd = d.cmd /\ e.params = d.params /\ e.e2 = d.e2
        /\ e.active /\ e.remaining = len /\ e.dreq = d.dreq
    BY <2>0, <1>5 DEF DspState
  <2> HIDE DEF e
  <2>3. /\ f \in DspState /\ f.wide = d.wide /\ f.auto = d.auto /\ f.blockLen = d.blockLen
        /\ f.cmd = d.cmd /\ f.params = d.params /\ f.e2 = d.e2
        /\ f.active /\ f.remaining = len /\ f.dreq = d.dreq
    BY <2>0, <2>2, ZenonT(60) DEF DspState
  <2> HIDE DEF f
  <2>4. /\ g \in DspState /\ g.wide = d.wide /\ g.auto = d.auto /\ g.blockLen = d.blockLen
        /\ g.cmd = d.cmd /\ g.params = d.params /\ g.e2 = d.e2
        /\ g.active /\ g.remaining = len /\ g.dreq = d.dreq
    BY <2>0, <2>3, ZenonT(60) DEF DspState
  <2> HIDE DEF g
  <2> QED BY <1>1, <1>5, <2>1, <2>4 DEF left, len
<1>6. CASE d.active /\ left = 0 /\ ~d.auto
  <2> DEFINE p8 == d.pending8 \/ ~d.wide  s8 == d.status8 \/ ~d.wide
             p16 == d.pending16 \/ d.wide  s16 == d.status16 \/ d.wide
             len == 0
             e == [d EXCEPT !.remaining = len, !.active = FALSE, !.dreq = "release"]
             f == [e EXCEPT !.pending8 = p8, !.status8 = s8]
             g == [f EXCEPT !.pending16 = p16, !.status16 = s16]
  <2>0. p8 \in BOOLEAN /\ s8 \in BOOLEAN /\ p16 \in BOOLEAN /\ s16 \in BOOLEAN /\ len \in Words
    BY <1>1, LimitIs
  <2>1. ReceiveByte(d) = g
    BY <1>2, <1>6 DEF ReceiveByte, DspState
  <2> HIDE DEF p8, s8, p16, s16, len
  <2>2. /\ e \in DspState /\ e.wide = d.wide /\ e.auto = d.auto /\ e.blockLen = d.blockLen
        /\ e.cmd = d.cmd /\ e.params = d.params /\ e.e2 = d.e2
        /\ ~e.active /\ e.remaining = len /\ e.dreq = "release"
    BY <2>0, <1>6 DEF DspState
  <2> HIDE DEF e
  <2>3. /\ f \in DspState /\ f.wide = d.wide /\ f.auto = d.auto /\ f.blockLen = d.blockLen
        /\ f.cmd = d.cmd /\ f.params = d.params /\ f.e2 = d.e2
        /\ ~f.active /\ f.remaining = len /\ f.dreq = "release"
    BY <2>0, <2>2, ZenonT(60) DEF DspState
  <2> HIDE DEF f
  <2>4. /\ g \in DspState /\ g.wide = d.wide /\ g.auto = d.auto /\ g.blockLen = d.blockLen
        /\ g.cmd = d.cmd /\ g.params = d.params /\ g.e2 = d.e2
        /\ ~g.active /\ g.remaining = len /\ g.dreq = "release"
    BY <2>0, <2>3 DEF DspState
  <2> HIDE DEF g
  <2> QED BY <1>1, <1>6, <2>1, <2>4 DEF left, len
<1> QED BY <1>3, <1>4, <1>5, <1>6 DEF left

\* The byte that identifies the card, or a byte of the block.
LEMMA SupplyByteIs ==
  ASSUME NEW d \in DspState
  PROVE  LET g == SupplyByte(d) IN
         /\ g \in DspState /\ g.cmd = d.cmd /\ g.params = d.params
         /\ d.e2 => /\ ~g.e2 /\ g.dreq = "release" /\ g.active = d.active
                    /\ g.wide = d.wide /\ g.auto = d.auto /\ g.remaining = d.remaining
                    /\ g.blockLen = d.blockLen
         /\ ~d.e2 => g = ReceiveByte(d)
<1>1. CASE d.e2
  <2> DEFINE g == [d EXCEPT !.e2 = FALSE, !.pending8 = TRUE, !.status8 = TRUE,
                            !.dreq = "release"]
  <2>1. SupplyByte(d) = g
    BY <1>1 DEF SupplyByte
  <2>2. /\ g \in DspState /\ g.cmd = d.cmd /\ g.params = d.params
        /\ ~g.e2 /\ g.dreq = "release" /\ g.active = d.active
        /\ g.wide = d.wide /\ g.auto = d.auto /\ g.remaining = d.remaining
        /\ g.blockLen = d.blockLen
    BY DEF DspState
  <2> HIDE DEF g
  <2> QED BY <1>1, <2>1, <2>2
<1>2. CASE ~d.e2
  <2>1. SupplyByte(d) = ReceiveByte(d)
    BY <1>2 DEF SupplyByte
  <2> QED BY <1>2, <2>1, ReceiveByteIs
<1> QED BY <1>1, <1>2

-----------------------------------------------------------------------------
(* The CD-ROM interface. *)

\* The sectors still to be read are ones the models count.
Ahead(c) == \E s \in Sectors \cup {0}, i \in 0..MaxCount :
              c.lba = s + i /\ i + c.remaining <= MaxCount

\* A state of the interface: when a result can be read, there is one.
CdFits(c) ==
  /\ c \in CdState
  /\ c.state = "result" => c.result > 0
  /\ Ahead(c)

\* Where a sector number comes from.
LEMMA SectorNumberIs ==
  /\ \A s \in Sectors \cup {0}, i \in 0..MaxCount : s + i \in SectorNumbers
  /\ \A s \in Sectors \cup {0} : s \in Nat /\ s \in SectorNumbers
  /\ MaxCount \in Nat /\ SectorBytes \in Nat \ {0}
<1>1. MaxCount \in Nat /\ SectorBytes \in Nat \ {0} /\ Sectors \subseteq Nat
  BY CdAssumption
<1>2. \A s \in Sectors \cup {0}, i \in 0..MaxCount : s + i \in SectorNumbers
  BY DEF SectorNumbers
<1>3. ASSUME NEW s \in Sectors \cup {0} PROVE s \in Nat /\ s \in SectorNumbers
  <2>1. s \in Nat /\ 0 \in 0..MaxCount /\ s + 0 = s
    BY <1>1
  <2>2. s + 0 \in SectorNumbers
    BY <1>2, <2>1
  <2> QED BY <2>1, <2>2
<1> QED BY <1>1, <1>2, <1>3

\* A change that keeps the place keeps what is ahead; a new place has it too.
LEMMA AheadIs ==
  ASSUME NEW c \in CdState, NEW g \in CdState
  PROVE  /\ g.lba = c.lba /\ g.remaining = c.remaining /\ Ahead(c) => Ahead(g)
         /\ g.lba = c.lba /\ g.remaining = 0 /\ Ahead(c) => Ahead(g)
         /\ g.lba \in Sectors \cup {0} => Ahead(g)
<1>1. MaxCount \in Nat /\ g.remaining \in 0..MaxCount
  BY SectorNumberIs DEF CdState
<1>2. g.lba = c.lba /\ g.remaining = c.remaining /\ Ahead(c) => Ahead(g)
  BY DEF Ahead
<1>3. g.lba = c.lba /\ g.remaining = 0 /\ Ahead(c) => Ahead(g)
  BY <1>1 DEF Ahead
<1>4. ASSUME g.lba \in Sectors \cup {0} PROVE Ahead(g)
  <2>1. g.lba \in Nat
    BY <1>4, SectorNumberIs
  <2>2. g.lba = g.lba + 0 /\ 0 + g.remaining <= MaxCount /\ 0 \in 0..MaxCount
    BY <1>1, <2>1
  <2> QED BY <1>4, <2>2 DEF Ahead
<1> QED BY <1>2, <1>3, <1>4

\* A result.
LEMMA ResultFits ==
  ASSUME NEW c \in CdState, Ahead(c), NEW n \in 1..2
  PROVE  CdFits(Result(c, n)) /\ CdFits([Result(c, n) EXCEPT !.error = TRUE])
<1> DEFINE g == Result(c, n)
           h == [g EXCEPT !.error = TRUE]
<1>0. n \in 0..2 /\ n > 0
  OBVIOUS
<1>1. /\ g \in CdState /\ g.lba = c.lba /\ g.remaining = c.remaining /\ g.result = n
  BY <1>0 DEF Result, CdState
<1> HIDE DEF g
<1>2. /\ h \in CdState /\ h.lba = g.lba /\ h.remaining = g.remaining /\ h.result = g.result
  BY <1>1 DEF CdState
<1> HIDE DEF h
<1>3. Ahead(g) /\ Ahead(h)
  BY <1>1, <1>2, AheadIs
<1>4. CdFits(g) /\ CdFits(h)
  BY <1>0, <1>1, <1>2, <1>3 DEF CdFits
<1> QED BY <1>4 DEF g, h

\* A read is prepared.
LEMMA StreamsFits ==
  ASSUME NEW c \in CdState, NEW lba \in Sectors \cup {0}, NEW count \in 0..MaxCount
  PROVE  LET g == Streams(c, lba, count) IN
         /\ g \in CdState /\ g.lba \in Sectors \cup {0} /\ g.remaining = count
         /\ g.viaBase0 = c.viaBase0
<1> DEFINE size == SectorBytes
<1>1. lba \in SectorNumbers /\ size \in 0..SectorBytes
  BY SectorNumberIs
<1> HIDE DEF size
<1>2. LET g == [c EXCEPT !.lba = lba, !.remaining = count, !.pos = size] IN
      g \in CdState /\ g.lba \in Sectors \cup {0} /\ g.remaining = count
      /\ g.viaBase0 = c.viaBase0
  BY <1>1 DEF CdState
<1> QED BY <1>2 DEF Streams, size

\* A command with its parameters.
LEMMA CdExecuteFits ==
  ASSUME NEW d, CdFits(d), NEW cmd \in CdCommands,
         NEW lba \in Sectors \cup {0}, NEW count \in 0..MaxCount
  PROVE  CdFits(CdExecute(d, cmd, lba, count))
<1> DEFINE c == [d EXCEPT !.error = FALSE, !.result = 0]
           s == Streams(c, lba, count)
<1>1. d \in CdState /\ Ahead(d)
  BY DEF CdFits
<1>2. c \in CdState /\ c.lba = d.lba /\ c.remaining = d.remaining
  <2> DEFINE none == 0  g == [d EXCEPT !.error = FALSE, !.result = none]
  <2>1. none \in 0..2
    OBVIOUS
  <2> HIDE DEF none
  <2>2. g \in CdState /\ g.lba = d.lba /\ g.remaining = d.remaining
    BY <1>1, <2>1 DEF CdState
  <2> QED BY <2>2 DEF none
<1>3. CdExecute(d, cmd, lba, count) =
        IF cmd \in NeedDisc /\ c.disc = NoDisc THEN Fail(c) ELSE
        CASE cmd \in {"info", "discInfo", "toc"} -> Result(c, 2)
        [] cmd = "mode" -> Result(c, 1)
        [] cmd = "seek" -> Result([c EXCEPT !.lba = lba], 1)
        [] cmd = "bad"  -> Fail(c)
        [] cmd = "read" ->
             [s EXCEPT !.result = 1, !.state = IF count > 0 THEN "stream" ELSE "result",
                       !.pendingIrq = @ \/ count = 0 \/ ~c.viaBase0]
        [] cmd = "readBcd" ->
             [s EXCEPT !.viaBase0 = TRUE, !.state = IF count > 0 THEN "stream" ELSE "idle"]
        [] cmd = "sleep" -> [c EXCEPT !.state = "idle"]
  BY DEF CdExecute
<1> HIDE DEF c
<1>4. Ahead(c)
  BY <1>1, <1>2, AheadIs
<1>5. CdFits(Fail(c)) /\ CdFits(Result(c, 1)) /\ CdFits(Result(c, 2))
  <2>1. 1 \in 1..2 /\ 2 \in 1..2
    OBVIOUS
  <2> QED BY <1>2, <1>4, <2>1, ResultFits DEF Fail
<1>6. CdFits(Result([c EXCEPT !.lba = lba], 1))
  <2> DEFINE g == [c EXCEPT !.lba = lba]
  <2>1. g \in CdState /\ g.lba \in Sectors \cup {0}
    BY <1>2, SectorNumberIs DEF CdState
  <2> HIDE DEF g
  <2>2. Ahead(g)
    BY <2>1, AheadIs
  <2>3. CdFits(Result(g, 1))
    <3>1. 1 \in 1..2
      OBVIOUS
    <3> QED BY <2>1, <2>2, <3>1, ResultFits
  <2> QED BY <2>3 DEF g
<1>7. s \in CdState /\ s.lba \in Sectors \cup {0}
  BY <1>2, StreamsFits
<1> HIDE DEF s
<1>8. CdFits([s EXCEPT !.result = 1, !.state = IF count > 0 THEN "stream" ELSE "result",
                       !.pendingIrq = @ \/ count = 0 \/ ~c.viaBase0])
  <2> DEFINE irq == s.pendingIrq \/ count = 0 \/ ~c.viaBase0
             state == IF count > 0 THEN "stream" ELSE "result"
             one == 1
             g == [s EXCEPT !.result = one, !.state = state, !.pendingIrq = irq]
  <2>1. irq \in BOOLEAN /\ state \in {"stream", "result"} /\ one \in 0..2 /\ one > 0
    OBVIOUS
  <2> HIDE DEF irq, state, one
  <2>2. g \in CdState /\ g.lba \in Sectors \cup {0} /\ g.result = one
    BY <1>7, <2>1 DEF CdState
  <2> HIDE DEF g
  <2>3. CdFits(g)
    BY <2>1, <2>2, AheadIs DEF CdFits
  <2> QED BY <2>3 DEF g, irq, state, one
<1>9. CdFits([s EXCEPT !.viaBase0 = TRUE, !.state = IF count > 0 THEN "stream" ELSE "idle"])
  <2> DEFINE state == IF count > 0 THEN "stream" ELSE "idle"
             g == [s EXCEPT !.viaBase0 = TRUE, !.state = state]
  <2>1. state \in {"stream", "idle"}
    OBVIOUS
  <2> HIDE DEF state
  <2>2. g \in CdState /\ g.lba \in Sectors \cup {0} /\ g.state \in {"stream", "idle"}
    BY <1>7, <2>1 DEF CdState
  <2> HIDE DEF g
  <2>3. CdFits(g)
    BY <2>2, AheadIs DEF CdFits
  <2> QED BY <2>3 DEF g, state
<1>10. CdFits([c EXCEPT !.state = "idle"])
  <2> DEFINE g == [c EXCEPT !.state = "idle"]
  <2>1. g \in CdState /\ g.lba = c.lba /\ g.remaining = c.remaining /\ g.state = "idle"
    BY <1>2 DEF CdState
  <2> HIDE DEF g
  <2>2. CdFits(g)
    BY <1>2, <1>4, <2>1, AheadIs DEF CdFits
  <2> QED BY <2>2 DEF g
<1> HIDE DEF CdFits
<1> QED
  <2>1. cmd \in {"info", "mode", "discInfo", "toc", "seek", "read", "readBcd", "sleep", "bad"}
    BY DEF CdCommands
  <2> DEFINE bcd  == [s EXCEPT !.viaBase0 = TRUE,
                               !.state = IF count > 0 THEN "stream" ELSE "idle"]
             read == [s EXCEPT !.result = 1, !.state = IF count > 0 THEN "stream" ELSE "result",
                               !.pendingIrq = @ \/ count = 0 \/ ~c.viaBase0]
             idle == [c EXCEPT !.state = "idle"]
             seek == Result([c EXCEPT !.lba = lba], 1)
  <2>2. CdExecute(d, cmd, lba, count) =
        IF cmd \in NeedDisc /\ c.disc = NoDisc THEN Fail(c) ELSE
        CASE cmd \in {"info", "discInfo", "toc"} -> Result(c, 2)
        [] cmd = "mode" -> Result(c, 1)
        [] cmd = "seek" -> seek
        [] cmd = "bad"  -> Fail(c)
        [] cmd = "read" -> read
        [] cmd = "readBcd" -> bcd
        [] cmd = "sleep" -> idle
    BY <1>3
  <2>3. CdFits(seek) /\ CdFits(read) /\ CdFits(bcd) /\ CdFits(idle)
    BY <1>6, <1>8, <1>9, <1>10
  <2> HIDE DEF bcd, read, idle, seek
  <2>4. CdExecute(d, cmd, lba, count) \in {Fail(c), Result(c, 1), Result(c, 2), seek, read, bcd, idle}
    BY <2>1, <2>2
  <2> QED BY <1>5, <2>3, <2>4

\* A command written to the interface, and its parameters.
LEMMA WriteCdFits ==
  ASSUME NEW c, CdFits(c), NEW cmd \in CdCommands,
         NEW lba \in Sectors \cup {0}, NEW count \in 0..MaxCount
  PROVE  CdFits(WriteCdCommand(c, cmd)) /\ CdFits(WriteCdParams(c, lba, count))
<1>1. c \in CdState /\ Ahead(c)
  BY DEF CdFits
<1>2. CdFits([c EXCEPT !.command = cmd, !.state = "params"])
  <2> DEFINE g == [c EXCEPT !.command = cmd, !.state = "params"]
  <2>1. g \in CdState /\ g.lba = c.lba /\ g.remaining = c.remaining /\ g.state = "params"
    BY <1>1 DEF CdState
  <2> HIDE DEF g
  <2>2. CdFits(g)
    BY <1>1, <2>1, AheadIs DEF CdFits
  <2> QED BY <2>2 DEF g
<1>3. CdFits(CdExecute([c EXCEPT !.command = cmd], cmd, 0, 0))
  <2> DEFINE g == [c EXCEPT !.command = cmd]
  <2>1. g \in CdState /\ g.lba = c.lba /\ g.remaining = c.remaining /\ g.state = c.state
        /\ g.result = c.result
    BY <1>1 DEF CdState
  <2> HIDE DEF g
  <2>2. CdFits(g)
    BY <1>1, <2>1, AheadIs DEF CdFits
  <2>3. 0 \in Sectors \cup {0} /\ 0 \in 0..MaxCount
    BY SectorNumberIs
  <2>4. CdFits(CdExecute(g, cmd, 0, 0))
    BY <2>2, <2>3, CdExecuteFits
  <2> QED BY <2>4 DEF g
<1>4. CdFits(CdExecute(c, c.command, lba, count))
  <2>1. c.command \in CdCommands
    BY <1>1 DEF CdState
  <2> QED BY <2>1, CdExecuteFits
<1> QED BY <1>2, <1>3, <1>4 DEF WriteCdCommand, WriteCdParams

\* A sector comes into the buffer.
LEMMA LoadIs ==
  ASSUME NEW c, CdFits(c), c.remaining # 0
  PROVE  LET g == Load(c) IN
         /\ g \in CdState /\ Ahead(g) /\ g.pos = 0 /\ g.lba = c.lba + 1
         /\ g.remaining = c.remaining - 1
         /\ g.state = IF c.remaining = 1 /\ ~c.viaBase0 THEN "idle" ELSE c.state
         /\ g.buffer = [disc |-> c.disc, lba |-> c.lba]
         /\ g.disc = c.disc /\ g.viaBase0 = c.viaBase0 /\ g.result = c.result
         /\ g.error = c.error
<1> DEFINE buffer == [disc |-> c.disc, lba |-> c.lba]
           lba == c.lba + 1  left == c.remaining - 1
           state == IF c.remaining = 1 /\ ~c.viaBase0 THEN "idle" ELSE c.state
           zero == 0
           g == [c EXCEPT !.buffer = buffer, !.lba = lba, !.remaining = left,
                          !.pos = zero, !.state = state]
<1>1. c \in CdState
  BY DEF CdFits
<1>2. MaxCount \in Nat /\ SectorBytes \in Nat /\ c.remaining \in 0..MaxCount
  BY <1>1, SectorNumberIs DEF CdState
<1>3. PICK s \in Sectors \cup {0} : \E i \in 0..MaxCount :
        c.lba = s + i /\ i + c.remaining <= MaxCount
  BY DEF CdFits, Ahead
<1>4. PICK i \in 0..MaxCount : c.lba = s + i /\ i + c.remaining <= MaxCount
  BY <1>3
<1>5. s \in Nat /\ i + 1 \in 0..MaxCount /\ lba = s + (i + 1) /\ (i + 1) + left <= MaxCount
  BY <1>2, <1>4, SectorNumberIs
<1>6. lba \in SectorNumbers
  BY <1>5, SectorNumberIs
<1>7. left \in 0..MaxCount /\ zero \in 0..SectorBytes
  BY <1>2
<1>8. state \in {"idle", "params", "result", "stream"}
  BY <1>1 DEF CdState
<1>9. buffer \in Buffered
  BY <1>1 DEF CdState, Buffered
<1>10. Load(c) = g
  BY DEF Load
<1> HIDE DEF buffer, lba, left, state, zero
<1>11. /\ g \in CdState /\ g.pos = zero /\ g.lba = lba /\ g.remaining = left
       /\ g.state = state /\ g.buffer = buffer
       /\ g.disc = c.disc /\ g.viaBase0 = c.viaBase0 /\ g.result = c.result
       /\ g.error = c.error
  BY <1>1, <1>6, <1>7, <1>8, <1>9 DEF CdState
<1> HIDE DEF g
<1>12. Ahead(g)
  BY <1>5, <1>11 DEF Ahead
<1>13. /\ g \in CdState /\ Ahead(g) /\ g.pos = 0 /\ g.lba = c.lba + 1
       /\ g.remaining = c.remaining - 1 /\ g.buffer = [disc |-> c.disc, lba |-> c.lba]
       /\ g.state = (IF c.remaining = 1 /\ ~c.viaBase0 THEN "idle" ELSE c.state)
       /\ g.disc = c.disc /\ g.viaBase0 = c.viaBase0 /\ g.result = c.result
       /\ g.error = c.error
  BY <1>11, <1>12 DEF zero, lba, left, state, buffer
<1> QED BY <1>10, <1>13

\* The interface is idle.
LEMMA IdleFits ==
  ASSUME NEW c, CdFits(c)
  PROVE  /\ CdFits([c EXCEPT !.state = "idle"])
         /\ CdFits([c EXCEPT !.error = TRUE, !.state = "idle"])
         /\ CdFits([c EXCEPT !.state = "idle", !.viaBase0 = FALSE])
         /\ CdFits([c EXCEPT !.attention = FALSE])
         /\ CdFits([c EXCEPT !.pendingIrq = FALSE])
<1> DEFINE g1 == [c EXCEPT !.state = "idle"]
           g2 == [c EXCEPT !.error = TRUE, !.state = "idle"]
           g3 == [c EXCEPT !.state = "idle", !.viaBase0 = FALSE]
           g4 == [c EXCEPT !.attention = FALSE]
           g5 == [c EXCEPT !.pendingIrq = FALSE]
<1>0. c \in CdState /\ Ahead(c) /\ (c.state = "result" => c.result > 0)
  BY DEF CdFits
<1>1. g1 \in CdState /\ g1.lba = c.lba /\ g1.remaining = c.remaining /\ g1.state = "idle"
  BY <1>0 DEF CdState
<1>2. g2 \in CdState /\ g2.lba = c.lba /\ g2.remaining = c.remaining /\ g2.state = "idle"
  BY <1>0 DEF CdState
<1>3. g3 \in CdState /\ g3.lba = c.lba /\ g3.remaining = c.remaining /\ g3.state = "idle"
  BY <1>0 DEF CdState
<1>4. g4 \in CdState /\ g4.lba = c.lba /\ g4.remaining = c.remaining /\ g4.state = c.state
      /\ g4.result = c.result
  BY <1>0 DEF CdState
<1>5. g5 \in CdState /\ g5.lba = c.lba /\ g5.remaining = c.remaining /\ g5.state = c.state
      /\ g5.result = c.result
  BY <1>0 DEF CdState
<1> HIDE DEF g1, g2, g3, g4, g5
<1>6. CdFits(g1) /\ CdFits(g2) /\ CdFits(g3)
  BY <1>0, <1>1, <1>2, <1>3, AheadIs DEF CdFits
<1>7. CdFits(g4) /\ CdFits(g5)
  BY <1>0, <1>4, <1>5, AheadIs DEF CdFits
<1> QED BY <1>6, <1>7 DEF g1, g2, g3, g4, g5

\* The next byte of a stream.
LEMMA StreamReadFits ==
  ASSUME NEW c, CdFits(c), c.state # "result", NEW readable \in BOOLEAN
  PROVE  CdFits(StreamRead(c, readable))
<1>0. c \in CdState /\ Ahead(c) /\ SectorBytes \in Nat \ {0} /\ c.pos \in 0..SectorBytes
  BY SectorNumberIs, SMTT(30) DEF CdFits, CdState
<1>1. CASE NeedsSector(c) /\ c.remaining = 0
  BY <1>1, IdleFits DEF StreamRead
<1>2. CASE NeedsSector(c) /\ c.remaining # 0 /\ (c.disc = NoDisc \/ ~readable)
  BY <1>2, IdleFits DEF StreamRead
<1>3. CASE NeedsSector(c) /\ c.remaining # 0 /\ ~(c.disc = NoDisc \/ ~readable)
  <2> DEFINE l == Load(c)  pos == l.pos + 1  g == [l EXCEPT !.pos = pos]
  <2>1. StreamRead(c, readable) = g
    BY <1>3 DEF StreamRead
  <2>2. l \in CdState /\ Ahead(l) /\ l.pos = 0 /\ (l.state = "idle" \/ l.state = c.state)
    BY <1>3, LoadIs
  <2>3. pos \in 0..SectorBytes
    BY <1>0, <2>2
  <2> HIDE DEF l, pos
  <2>4. g \in CdState /\ g.lba = l.lba /\ g.remaining = l.remaining /\ g.state = l.state
    BY <2>2, <2>3 DEF CdState
  <2> HIDE DEF g
  <2>5. g.state # "result"
    BY <2>2, <2>4
  <2>6. CdFits(g)
    BY <2>2, <2>4, <2>5, AheadIs DEF CdFits
  <2> QED BY <2>1, <2>6
<1>4. CASE ~NeedsSector(c)
  <2> DEFINE pos == c.pos + 1  g == [c EXCEPT !.pos = pos]
  <2>1. StreamRead(c, readable) = g
    BY <1>4 DEF StreamRead
  <2>3. pos \in 0..SectorBytes
    BY <1>0, <1>4 DEF NeedsSector
  <2> HIDE DEF pos
  <2>4. g \in CdState /\ g.lba = c.lba /\ g.remaining = c.remaining /\ g.state = c.state
    BY <1>0, <2>3 DEF CdState
  <2> HIDE DEF g
  <2>5. CdFits(g)
    BY <1>0, <2>4, AheadIs DEF CdFits
  <2> QED BY <2>1, <2>5
<1> QED BY <1>1, <1>2, <1>3, <1>4

\* The two ports that are read.
LEMMA ReadBaseFits ==
  ASSUME NEW c, CdFits(c), NEW readable \in BOOLEAN
  PROVE  CdFits(ReadBase0(c, readable)) /\ CdFits(ReadBase1(c, readable))
<1>0. c \in CdState /\ Ahead(c) /\ c.result \in 0..2
  BY DEF CdFits, CdState
<1>1. CASE c.state = "result"
  <2> DEFINE left == c.result - 1  state == IF c.result = 1 THEN "idle" ELSE c.state
             g == [c EXCEPT !.result = left, !.state = state]
  <2>0. c.result > 0
    BY <1>1 DEF CdFits
  <2>1. left \in 0..2 /\ state \in {"idle", "result"} /\ (state = "result" => left > 0)
    BY <1>0, <1>1, <2>0
  <2>2. ReadBase0(c, readable) = g
    BY <1>1 DEF ReadBase0
  <2> HIDE DEF left, state
  <2>3. g \in CdState /\ g.lba = c.lba /\ g.remaining = c.remaining /\ g.state = state
        /\ g.result = left
    BY <1>0, <2>1 DEF CdState
  <2> HIDE DEF g
  <2>4. CdFits(g)
    BY <1>0, <2>1, <2>3, AheadIs DEF CdFits
  <2>5. ReadBase1(c, readable) = c
    BY <1>1 DEF ReadBase1, StreamOver
  <2> QED BY <2>2, <2>4, <2>5
<1>2. CASE c.state = "stream" /\ c.result > 0
  <2> DEFINE left == c.result - 1  g == [c EXCEPT !.result = left]
  <2>1. left \in 0..2
    BY <1>0, <1>2
  <2>2. ReadBase0(c, readable) = g
    BY <1>2 DEF ReadBase0
  <2> HIDE DEF left
  <2>3. g \in CdState /\ g.lba = c.lba /\ g.remaining = c.remaining /\ g.state = c.state
    BY <1>0, <2>1 DEF CdState
  <2> HIDE DEF g
  <2>4. CdFits(g)
    BY <1>0, <1>2, <2>3, AheadIs DEF CdFits
  <2>5. c.result # 0
    BY <1>0, <1>2
  <2>6. ReadBase1(c, readable) \in {[c EXCEPT !.state = "idle", !.viaBase0 = FALSE], c}
    BY <1>2, <2>5 DEF ReadBase1
  <2> QED BY <2>2, <2>4, <2>6, IdleFits
<1>3. CASE c.state \notin {"result", "stream"}
  <2>1. ReadBase0(c, readable) = c
    BY <1>3 DEF ReadBase0
  <2>2. ReadBase1(c, readable) \in {[c EXCEPT !.attention = FALSE], c}
    BY <1>3, SMTT(30) DEF ReadBase1, StreamOver
  <2> QED BY <2>1, <2>2, IdleFits
<1>4. CASE c.state = "stream" /\ c.result = 0
  <2>1. CdFits(StreamRead(c, readable))
    BY <1>4, StreamReadFits
  <2>2. ReadBase0(c, readable) \in {StreamRead(c, readable), c}
    BY <1>4 DEF ReadBase0
  <2>3. ReadBase1(c, readable)
          \in {StreamRead(c, readable), [c EXCEPT !.state = "idle", !.viaBase0 = FALSE], c}
    BY <1>4 DEF ReadBase1
  <2> QED BY <2>1, <2>2, <2>3, IdleFits
<1> QED BY <1>0, <1>1, <1>2, <1>3, <1>4

\* Zero is everywhere.
LEMMA Zero ==
  /\ 0 \in Sectors \cup {0} /\ 0 \in SectorNumbers /\ 0 \in 0..MaxCount
  /\ 0 \in 0..SectorBytes /\ SectorBytes \in 0..SectorBytes /\ 0 \in 0..2
BY SectorNumberIs

\* A new interface.
LEMMA CdNewFits ==
  ASSUME NEW disc \in Discs \cup {NoDisc}
  PROVE  CdFits(CdNew(disc))
<1> DEFINE buffer == [disc |-> NoDisc, lba |-> 0]  full == disc # NoDisc
           g == CdNew(disc)
<1>1. buffer \in Buffered /\ full \in BOOLEAN
  BY Zero DEF Buffered
<1>2. g = [disc |-> disc, doorOpen |-> FALSE, state |-> "idle", command |-> "info",
           result |-> 0, lba |-> 0, remaining |-> 0, pos |-> 0, buffer |-> buffer,
           error |-> FALSE, pendingIrq |-> FALSE, attention |-> full, viaBase0 |-> FALSE]
  BY DEF CdNew
<1> HIDE DEF buffer, full, g
<1>3. g \in CdState /\ g.lba = 0 /\ g.state = "idle"
  BY Zero, <1>1, <1>2 DEF CdState, CdCommands
<1>4. CdFits(g)
  BY Zero, <1>3, AheadIs DEF CdFits
<1> QED BY <1>4 DEF g

\* A reset, the host's changes, and the interrupt taken.
LEMMA CdPortsFit ==
  ASSUME NEW c, CdFits(c)
  PROVE  /\ CdFits(CdReset(c)) /\ CdFits(EjectDisc(c)) /\ CdFits(TakeCdIrq(c))
         /\ \A disc \in Discs : CdFits(LoadDisc(c, disc))
<1>0. c \in CdState /\ Ahead(c)
  BY DEF CdFits
<1> DEFINE zero == 0  size == SectorBytes  left == 0
<1>1. zero \in 0..2 /\ size \in 0..SectorBytes /\ left \in 0..MaxCount /\ left = 0
      /\ "info" \in CdCommands /\ NoDisc \in Discs \cup {NoDisc}
  BY Zero, SMTT(30) DEF CdCommands
<1>2. CdFits(TakeCdIrq(c))
  BY IdleFits DEF TakeCdIrq
<1>3. CdFits(CdReset(c))
  <2> DEFINE e == [c EXCEPT !.state = "idle", !.command = "info", !.result = zero,
                            !.remaining = left, !.pos = size]
             g == [e EXCEPT !.error = FALSE,
                            !.pendingIrq = FALSE, !.attention = FALSE, !.viaBase0 = FALSE]
  <2>1. CdReset(c) = g
    BY DEF CdReset
  <2> HIDE DEF zero, size, left
  <2>2. e \in CdState /\ e.lba = c.lba /\ e.remaining = left /\ e.state = "idle"
    BY <1>0, <1>1 DEF CdState
  <2> HIDE DEF e
  <2>3. g \in CdState /\ g.lba = e.lba /\ g.remaining = e.remaining /\ g.state = e.state
    BY <2>2 DEF CdState
  <2> HIDE DEF g
  <2>4. CdFits(g)
    BY <1>0, <1>1, <2>2, <2>3, AheadIs DEF CdFits
  <2> QED BY <2>1, <2>4
<1>4. CdFits(EjectDisc(c))
  <2> DEFINE g == [c EXCEPT !.disc = NoDisc, !.doorOpen = TRUE, !.state = "idle",
                            !.result = zero, !.remaining = left, !.attention = FALSE]
  <2>1. EjectDisc(c) = g
    BY DEF EjectDisc
  <2> HIDE DEF zero, left
  <2>2. g \in CdState /\ g.lba = c.lba /\ g.remaining = left /\ g.state = "idle"
    BY <1>0, <1>1 DEF CdState
  <2> HIDE DEF g
  <2>3. CdFits(g)
    BY <1>0, <1>1, <2>2, AheadIs DEF CdFits
  <2> QED BY <2>1, <2>3
<1>5. ASSUME NEW disc \in Discs PROVE CdFits(LoadDisc(c, disc))
  <2> DEFINE g == [c EXCEPT !.disc = disc, !.doorOpen = FALSE, !.error = FALSE,
                            !.state = "idle", !.result = zero, !.attention = TRUE]
  <2>1. LoadDisc(c, disc) = g
    BY DEF LoadDisc
  <2> HIDE DEF zero
  <2>2. g \in CdState /\ g.lba = c.lba /\ g.remaining = c.remaining /\ g.state = "idle"
    BY <1>0, <1>1 DEF CdState
  <2> HIDE DEF g
  <2>3. CdFits(g)
    BY <1>0, <2>2, AheadIs DEF CdFits
  <2> QED BY <2>1, <2>3
<1> QED BY <1>2, <1>3, <1>4, <1>5

-----------------------------------------------------------------------------
(* The bus. *)

Controllers == [1..2 -> DmaState]

\* The bus passes the request line on, and leaves all else alone.
LEMMA DrainIs ==
  ASSUME NEW d \in DspState, NEW m \in Controllers
  PROVE  LET D == TakeDspDreq(d)
             M == Drained(d, m)
             s == Side(d.wide)
         IN
         /\ D \in DspState /\ D.dreq = "none" /\ M \in Controllers /\ s \in 1..2
         /\ \A i \in 1..2 : M[i].ch = m[i].ch /\ M[i].mask = m[i].mask
         /\ \A i \in 1..2 : i # s \/ d.dreq = "none" => M[i].dreq = m[i].dreq
         /\ d.dreq = "assert" => 1 \in M[s].dreq
         /\ d.dreq = "release" => 1 \notin M[s].dreq
<1> DEFINE D == TakeDspDreq(d)  M == Drained(d, m)  s == Side(d.wide)
           on == d.dreq = "assert"  g == SetDreq(m[s], 1, on)
<1>1. D \in DspState /\ D.dreq = "none"
  BY DEF TakeDspDreq, DspState
<1>2. s \in 1..2
  BY DEF Side
<1>3. m[s] \in DmaState
  BY <1>2 DEF Controllers
<1> HIDE DEF D, s
<1>4. /\ g \in DmaState /\ g.ch = m[s].ch /\ g.mask = m[s].mask /\ (1 \in g.dreq <=> on)
  <2> DEFINE requests == IF on THEN m[s].dreq \cup {1} ELSE m[s].dreq \ {1}
  <2>1. g = [m[s] EXCEPT !.dreq = requests]
    BY SoundAssumption DEF SetDreq, Refresh
  <2>2. requests \in SUBSET Channels /\ (1 \in requests <=> on)
    BY <1>3, ChannelIs
  <2> HIDE DEF requests, g
  <2> QED BY <1>3, <2>1, <2>2 DEF DmaState
<1>5. M = IF d.dreq = "none" THEN m ELSE [m EXCEPT ![s] = g]
  BY DEF Drained, s
<1> HIDE DEF g, M
<1>6. /\ M \in Controllers
      /\ \A i \in 1..2 : M[i].ch = m[i].ch /\ M[i].mask = m[i].mask
      /\ \A i \in 1..2 : i # s \/ d.dreq = "none" => M[i].dreq = m[i].dreq
      /\ d.dreq # "none" => M[s] = g
  BY <1>2, <1>3, <1>4, <1>5 DEF Controllers
<1>7. /\ d.dreq = "assert" => 1 \in M[s].dreq
      /\ d.dreq = "release" => 1 \notin M[s].dreq
  BY <1>4, <1>6
<1> QED BY <1>1, <1>2, <1>6, <1>7 DEF D, M, s

\* It leaves the registers of the DSP alone.
LEMMA DrainKeeps ==
  ASSUME NEW d \in DspState
  PROVE  LET D == TakeDspDreq(d) IN
         /\ D.cmd = d.cmd /\ D.params = d.params /\ D.out = d.out
         /\ D.status8 = d.status8 /\ D.status16 = d.status16
         /\ D.blockLen = d.blockLen /\ D.remaining = d.remaining
         /\ D.active = d.active /\ D.wide = d.wide /\ D.auto = d.auto /\ D.e2 = d.e2
BY DEF TakeDspDreq, DspState

\* The driver masks its channel on both controllers.
LEMMA MaskAllIs ==
  ASSUME NEW m \in Controllers
  PROVE  /\ MaskAll(m) \in Controllers
         /\ \A i \in 1..2 : /\ MaskAll(m)[i].ch = m[i].ch /\ MaskAll(m)[i].dreq = m[i].dreq
                            /\ 1 \in MaskAll(m)[i].mask
<1>1. ASSUME NEW i \in 1..2
      PROVE  /\ MaskAll(m)[i] \in DmaState
             /\ MaskAll(m)[i].ch = m[i].ch /\ MaskAll(m)[i].dreq = m[i].dreq
             /\ 1 \in MaskAll(m)[i].mask
  <2>1. MaskAll(m)[i] = WriteMask(m[i], 1, TRUE)
    BY DEF MaskAll
  <2>2. m[i] \in DmaState
    BY DEF Controllers
  <2> QED BY <2>1, <2>2, WriteMaskIs
<1>2. MaskAll(m) = [k \in 1..2 |-> MaskAll(m)[k]]
  BY DEF MaskAll
<1> QED BY <1>1, <1>2 DEF Controllers

-----------------------------------------------------------------------------
(* The types. *)

\* The DSP, the DMA controllers and the tick are of their types.
CardInv == dsp \in DspState /\ dma \in Controllers /\ todo \in [1..2 -> 0..MaxBurst]

\* So is the sound driver, and the parameters of a command it is sending are
\* the ones the command needs.
SoundInv ==
  /\ sound \in SoundState
  /\ sound.op # "none" => sound.len \in 1..Limit
  /\ sound.at = "send" =>
       \/ /\ sound.cmd = sound.op /\ sound.op # "none"
          /\ sound.params = Operands(sound.op, sound.len)
       \/ /\ sound.cmd \in {"halt", "exitAuto", "continue8", "continue16", "resume16"}
          /\ sound.params = <<>>
       \/ /\ sound.cmd = "none" /\ sound.params # <<>> /\ sound.op # "none"
          /\ dsp.cmd = sound.op
          /\ dsp.params \o sound.params = Operands(sound.op, sound.len)

\* So are the CD-ROM interface and the CD driver, which reads as many bytes as
\* it has asked for.
ReaderInv ==
  /\ CdFits(cd)
  /\ reader \in ReaderState
  /\ reader.lba \in Sectors \cup {0}
  /\ reader.at # "ready" => reader.count \in Counts
  /\ reader.at \in {"command", "params", "await", "result"} => reader.got = 0
  /\ reader.at = "data" => reader.got < reader.count * SectorBytes

HandlerPlaces == {"none", "source", "ack8", "ack16", "ackBoth"}

TInv ==
  /\ program \in Programs /\ handler \in HandlerPlaces
  /\ CardInv /\ SoundInv /\ ReaderInv

\* A command's parameters.
LEMMA OperandsIs ==
  ASSUME NEW op \in Plays \cup {"identify"}, NEW len \in 1..Limit
  PROVE  /\ op \in DspCommands /\ Operands(op, len) \in Seq(Bytes)
         /\ Len(Operands(op, len)) = Params[op]
<1> DEFINE lo == (len - 1) % Radix  hi == (len - 1) \div Radix  zero == 0
<1>1. lo \in Bytes /\ hi \in Bytes /\ zero \in Bytes
  <2>1. zero \in Bytes
    BY LimitIs DEF Bytes
  <2> QED BY <2>1, LengthIs
<1>2. LengthBytes(len) = <<lo, hi>>
  BY DEF LengthBytes
<1> HIDE DEF lo, hi, zero
<1>3. <<lo, hi>> \in Seq(Bytes) /\ Len(<<lo, hi>>) = 2
  BY <1>1
<1>4. <<zero>> \o <<lo, hi>> \in Seq(Bytes) /\ Len(<<zero>> \o <<lo, hi>>) = 3
  BY <1>1
<1>5. <<zero>> \in Seq(Bytes) /\ Len(<<zero>>) = 1
  BY <1>1
<1>6. <<>> \in Seq(Bytes) /\ Len(<<>>) = 0
  OBVIOUS
<1>7. op \in {"play8", "record8", "play8x", "play16", "loop8", "loop16", "continue8", "identify"}
  BY DEF Plays, Singles, Loops
<1>8. op \in DspCommands
  BY <1>7 DEF DspCommands, Params
<1>9. CASE op \in {"play8", "record8"}
  <2>1. Operands(op, len) = <<lo, hi>>
    BY <1>2, <1>9 DEF Operands
  <2>2. Params[op] = 2
    BY <1>9 DEF Params
  <2> QED BY <1>3, <1>8, <2>1, <2>2
<1>10. CASE op \in {"play8x", "loop8", "play16", "loop16"}
  <2>1. Operands(op, len) = <<zero>> \o <<lo, hi>>
    BY <1>2, <1>10 DEF Operands, zero
  <2>2. Params[op] = 3
    BY <1>10 DEF Params
  <2> QED BY <1>4, <1>8, <2>1, <2>2
<1>11. CASE op = "identify"
  <2>1. Operands(op, len) = <<zero>>
    BY <1>11 DEF Operands, zero
  <2>2. Params[op] = 1
    BY <1>11 DEF Params
  <2> QED BY <1>5, <1>8, <2>1, <2>2
<1>12. CASE op = "continue8"
  <2>1. Operands(op, len) = <<>>
    BY <1>12 DEF Operands
  <2>2. Params[op] = 0
    BY <1>12 DEF Params
  <2> QED BY <1>6, <1>8, <2>1, <2>2
<1> QED BY <1>7, <1>9, <1>10, <1>11, <1>12

\* The other commands the driver sends have none.
LEMMA NoOperands ==
  ASSUME NEW cmd \in {"halt", "exitAuto", "continue8", "continue16", "resume16"}, NEW len
  PROVE  /\ Operands(cmd, len) = <<>> /\ cmd \in DspCommands /\ Params[cmd] = 0
         /\ <<>> \in Seq(Bytes)
<1>1. Operands(cmd, len) = <<>> /\ <<>> \in Seq(Bytes)
  BY DEF Operands
<1>2. cmd \in DspCommands /\ Params[cmd] = 0
  BY DEF DspCommands, Params
<1> QED BY <1>1, <1>2

\* Nothing is changed that the drivers' invariants are about.
LEMMA SoundFrame ==
  ASSUME SoundInv, UNCHANGED sound, dsp'.cmd = dsp.cmd, dsp'.params = dsp.params
  PROVE  SoundInv'
BY DEF SoundInv

\* A step that leaves the CD-ROM interface and its driver alone.
LEMMA ReaderFrame ==
  ASSUME ReaderInv, UNCHANGED <<cd, reader>>
  PROVE  ReaderInv'
BY DEF ReaderInv

\* The DSP and the DMA controllers after a port write.
LEMMA WrittenIs ==
  ASSUME NEW d \in DspState, NEW m \in Controllers, Written(d, m)
  PROVE  /\ dsp' \in DspState /\ dma' \in Controllers
         /\ dsp'.cmd = d.cmd /\ dsp'.params = d.params
BY DrainIs, DrainKeeps DEF Written

-----------------------------------------------------------------------------
(* The steps. *)

\* A tick, and a bus cycle.
LEMMA BusKeepsTypes ==
  ASSUME TInv, Bus
  PROVE  CardInv' /\ SoundInv' /\ ReaderInv' /\ handler' \in HandlerPlaces
<1>0. dsp \in DspState /\ dma \in Controllers /\ todo \in [1..2 -> 0..MaxBurst]
  BY DEF TInv, CardInv
<1>1. CASE Tick
  <2>1. MaxBurst \in Nat \ {0}
    BY SoundAssumption
  <2>2. PICK n \in 1..MaxBurst : todo' = [k \in 1..2 |-> IF Active(dma[k]) # {} THEN n ELSE 0]
    BY <1>1 DEF Tick
  <2>3. todo' \in [1..2 -> 0..MaxBurst]
    BY <2>1, <2>2
  <2>4. UNCHANGED <<dsp, cd, dma, handler, sound, reader>>
    BY <1>1 DEF Tick
  <2>5. CardInv'
    BY <1>0, <2>3, <2>4 DEF CardInv
  <2>6. SoundInv' /\ ReaderInv' /\ handler' \in HandlerPlaces
    BY <2>4, SoundFrame, ReaderFrame DEF TInv
  <2> QED BY <2>5, <2>6
<1>2. ASSUME NEW k \in 1..2, BusCycle(k)
      PROVE  CardInv' /\ SoundInv' /\ ReaderInv' /\ handler' \in HandlerPlaces
  <2> DEFINE m == Cycle(dma[k], 1)
  <2>1. m \in DmaState
    BY <1>0, CycleIs DEF Controllers
  <2> HIDE DEF m
  <2>2. /\ dma' = [dma EXCEPT ![k] = m]
        /\ dsp' = IF dma[k].ch[1].type = "write" THEN SupplyByte(dsp) ELSE ReceiveByte(dsp)
        /\ todo' = [todo EXCEPT ![k] = IF 1 \in m.mask THEN 0 ELSE @ - 1]
        /\ todo[k] > 0 /\ UNCHANGED <<cd, handler, sound, reader>>
    BY <1>2 DEF BusCycle, m
  <2>3. dsp' \in DspState /\ dsp'.cmd = dsp.cmd /\ dsp'.params = dsp.params
    <3>1. SupplyByte(dsp) \in DspState /\ SupplyByte(dsp).cmd = dsp.cmd
          /\ SupplyByte(dsp).params = dsp.params
      BY <1>0, SupplyByteIs
    <3>2. ReceiveByte(dsp) \in DspState /\ ReceiveByte(dsp).cmd = dsp.cmd
          /\ ReceiveByte(dsp).params = dsp.params
      BY <1>0, ReceiveByteIs
    <3> QED BY <2>2, <3>1, <3>2
  <2>4. dma' \in Controllers
    BY <1>0, <2>1, <2>2 DEF Controllers
  <2>5. todo' \in [1..2 -> 0..MaxBurst]
    <3>1. MaxBurst \in Nat /\ todo[k] \in 0..MaxBurst
      BY <1>0, SoundAssumption
    <3>2. todo[k] - 1 \in 0..MaxBurst /\ 0 \in 0..MaxBurst
      BY <2>2, <3>1
    <3> DEFINE left == IF 1 \in m.mask THEN 0 ELSE todo[k] - 1
    <3>3. left \in 0..MaxBurst /\ todo' = [todo EXCEPT ![k] = left]
      BY <2>2, <3>2
    <3> HIDE DEF left
    <3> QED BY <1>0, <3>3
  <2>6. CardInv'
    BY <2>3, <2>4, <2>5 DEF CardInv
  <2>7. SoundInv' /\ ReaderInv' /\ handler' \in HandlerPlaces
    BY <2>2, <2>3, SoundFrame, ReaderFrame DEF TInv
  <2> QED BY <2>6, <2>7
<1> QED BY <1>1, <1>2 DEF Bus

\* An interrupt is taken.
LEMMA TakeIrqKeepsTypes ==
  ASSUME TInv, TakeIrq
  PROVE  CardInv' /\ SoundInv' /\ ReaderInv' /\ handler' \in HandlerPlaces
<1>0. dsp \in DspState /\ CdFits(cd)
  BY DEF TInv, CardInv, ReaderInv
<1>1. handler' \in HandlerPlaces /\ UNCHANGED <<dma, todo, sound, reader>>
  BY DEF TakeIrq, HandlerPlaces
<1>2. dsp' \in DspState /\ dsp'.cmd = dsp.cmd /\ dsp'.params = dsp.params
  <2>1. TakeDspIrq(dsp) \in DspState
    BY <1>0, PortsType
  <2>2. TakeDspIrq(dsp).cmd = dsp.cmd /\ TakeDspIrq(dsp).params = dsp.params
    BY <1>0 DEF TakeDspIrq, DspState
  <2>3. dsp' = TakeDspIrq(dsp) \/ dsp' = dsp
    BY DEF TakeIrq
  <2> QED BY <1>0, <2>1, <2>2, <2>3
<1>3. CdFits(cd)'
  <2>1. cd' = TakeCdIrq(cd) \/ cd' = cd
    BY DEF TakeIrq
  <2> QED BY <1>0, <2>1, CdPortsFit
<1>4. CardInv'
  BY <1>1, <1>2 DEF TInv, CardInv
<1>5. SoundInv'
  BY <1>1, <1>2, SoundFrame DEF TInv
<1>6. ReaderInv'
  BY <1>1, <1>3 DEF TInv, ReaderInv
<1> QED BY <1>1, <1>4, <1>5, <1>6

\* What the interrupt handler does before it ends.
LEMMA ChainKeepsTypes ==
  ASSUME TInv, NEW d \in DspState, d.cmd = dsp.cmd, d.params = dsp.params, Chain(d),
         UNCHANGED <<cd, todo>>
  PROVE  /\ CardInv' /\ ReaderInv' /\ handler' \in HandlerPlaces
         /\ dsp'.cmd = dsp.cmd /\ dsp'.params = dsp.params
<1>1. dma \in Controllers /\ Written(d, dma)
  BY DEF TInv, CardInv, Chain
<1>2. dsp' \in DspState /\ dma' \in Controllers /\ dsp'.cmd = dsp.cmd /\ dsp'.params = dsp.params
  BY <1>1, WrittenIs
<1>3. CardInv'
  BY <1>2 DEF TInv, CardInv
<1>4. handler' \in HandlerPlaces
  BY DEF Chain, HandlerPlaces
<1>5. ReaderInv'
  <2> DEFINE told == reader.told \/ ResultAvailable(cd)
  <2>1. reader' = [reader EXCEPT !.told = told] /\ reader \in ReaderState
    BY DEF Chain, TInv, ReaderInv
  <2>2. told \in BOOLEAN
    BY <2>1 DEF ReaderState, ResultAvailable
  <2> HIDE DEF told
  <2>3. /\ reader' \in ReaderState /\ reader'.lba = reader.lba /\ reader'.at = reader.at
        /\ reader'.count = reader.count /\ reader'.got = reader.got
    BY <2>1, <2>2 DEF ReaderState
  <2> QED BY <2>3 DEF TInv, ReaderInv
<1> QED BY <1>2, <1>3, <1>4, <1>5

\* The interrupt handler.
LEMMA HandlerKeepsTypes ==
  ASSUME TInv, Handler
  PROVE  CardInv' /\ SoundInv' /\ ReaderInv' /\ handler' \in HandlerPlaces
<1>0. dsp \in DspState
  BY DEF TInv, CardInv
<1>1. CASE Source
  <2>1. CASE dsp.status8 \/ dsp.status16
    <3>1. UNCHANGED <<dsp, dma, reader, cd, todo, sound>>
      BY <1>1, <2>1 DEF Source
    <3>2. handler' = CASE dsp.status8 /\ dsp.status16 -> "ackBoth"
                       [] ~dsp.status16              -> "ack8"
                       [] ~dsp.status8               -> "ack16"
      BY <1>1, <2>1 DEF Source
    <3>3. handler' \in HandlerPlaces
      BY <2>1, <3>2 DEF HandlerPlaces
    <3>4. CardInv'
      BY <3>1 DEF TInv, CardInv
    <3> QED BY <3>1, <3>3, <3>4, SoundFrame, ReaderFrame DEF TInv
  <2>2. CASE ~dsp.status8 /\ ~dsp.status16
    <3>1. Chain(dsp) /\ UNCHANGED <<cd, todo, sound>>
      BY <1>1, <2>2 DEF Source
    <3> QED BY <1>0, <3>1, ChainKeepsTypes, SoundFrame DEF TInv
  <2> QED BY <2>1, <2>2
<1>2. CASE Acknowledge
  <2> DEFINE d == CASE handler = "ack8"    -> ReadStatus(dsp)
                    [] handler = "ack16"   -> ReadAck16(dsp)
                    [] handler = "ackBoth" -> ReadAck16(ReadStatus(dsp))
  <2>1. handler \in {"ack8", "ack16", "ackBoth"}
    BY <1>2 DEF Acknowledge
  <2>2. /\ ReadStatus(dsp) \in DspState /\ ReadStatus(dsp).cmd = dsp.cmd
        /\ ReadStatus(dsp).params = dsp.params
    BY <1>0 DEF ReadStatus, DspState
  <2>3. \A e \in DspState : /\ ReadAck16(e) \in DspState /\ ReadAck16(e).cmd = e.cmd
                            /\ ReadAck16(e).params = e.params
    BY DEF ReadAck16, DspState
  <2>4. d \in DspState /\ d.cmd = dsp.cmd /\ d.params = dsp.params
    BY <1>0, <2>1, <2>2, <2>3
  <2>5. Chain(d) /\ UNCHANGED <<cd, todo>> /\ sound' = [sound EXCEPT !.told = TRUE]
    BY <1>2 DEF Acknowledge
  <2> HIDE DEF d
  <2>6. /\ CardInv' /\ ReaderInv' /\ handler' \in HandlerPlaces
        /\ dsp'.cmd = dsp.cmd /\ dsp'.params = dsp.params
    BY <2>4, <2>5, ChainKeepsTypes
  <2>7. SoundInv'
    <3>1. sound \in SoundState
      BY DEF TInv, SoundInv
    <3>2. /\ sound' \in SoundState /\ sound'.op = sound.op /\ sound'.len = sound.len
          /\ sound'.at = sound.at /\ sound'.cmd = sound.cmd /\ sound'.params = sound.params
      BY <2>5, <3>1 DEF SoundState
    <3> QED BY <2>6, <3>2 DEF TInv, SoundInv
  <2> QED BY <2>6, <2>7
<1> QED BY <1>1, <1>2 DEF Handler

\* The driver is about to send a command.
LEMMA SendsIs ==
  ASSUME NEW s \in SoundState, NEW cmd \in DspCommands, NEW len,
         Operands(cmd, len) \in Seq(Bytes), NEW next \in {"wait", "paused", "unmask"}
  PROVE  LET g == Sends(s, cmd, len, next) IN
         /\ g \in SoundState /\ g.at = "send" /\ g.cmd = cmd /\ g.params = Operands(cmd, len)
         /\ g.next = next /\ g.op = s.op /\ g.len = s.len /\ g.last = s.last /\ g.told = s.told
<1> DEFINE params == Operands(cmd, len)
           g == [s EXCEPT !.at = "send", !.cmd = cmd, !.params = params, !.next = next]
<1>1. params \in Seq(Bytes)
  OBVIOUS
<1>2. Sends(s, cmd, len, next) = g
  BY DEF Sends
<1> HIDE DEF params
<1>3. /\ g \in SoundState /\ g.at = "send" /\ g.cmd = cmd /\ g.params = params
      /\ g.next = next /\ g.op = s.op /\ g.len = s.len /\ g.last = s.last /\ g.told = s.told
  BY <1>1 DEF SoundState
<1> HIDE DEF g
<1> QED BY <1>2, <1>3 DEF params

\* What the driver's steps have in common: a port write, and the CD untouched.
LEMMA DriverKeepsTypes ==
  ASSUME TInv, NEW d \in DspState, NEW m \in Controllers, Written(d, m),
         UNCHANGED <<cd, todo, handler, reader>>
  PROVE  /\ CardInv' /\ ReaderInv' /\ handler' \in HandlerPlaces
         /\ dsp'.cmd = d.cmd /\ dsp'.params = d.params
<1>1. dsp' \in DspState /\ dma' \in Controllers /\ dsp'.cmd = d.cmd /\ dsp'.params = d.params
  BY WrittenIs
<1>2. CardInv'
  BY <1>1 DEF TInv, CardInv
<1> QED BY <1>1, <1>2, ReaderFrame DEF TInv

\* The driver resets the DSP.
LEMMA ResetKeepsTypes ==
  ASSUME TInv, ResetDsp
  PROVE  CardInv' /\ SoundInv' /\ ReaderInv' /\ handler' \in HandlerPlaces
<1> DEFINE d == WriteReset(WriteReset(dsp, TRUE), FALSE)  m == MaskAll(Drained(dsp, dma))
<1>0. dsp \in DspState /\ dma \in Controllers /\ sound \in SoundState
  BY DEF TInv, CardInv, SoundInv
<1>1. d \in DspState
  <2>1. WriteReset(dsp, TRUE) \in DspState
    BY <1>0, PortsType
  <2> QED BY <2>1, PortsType
<1>2. m \in Controllers
  <2>1. Drained(dsp, dma) \in Controllers
    BY <1>0, DrainIs
  <2> QED BY <2>1, MaskAllIs
<1>3. Written(d, m) /\ UNCHANGED <<cd, todo, handler, reader>>
      /\ sound' = [sound EXCEPT !.at = "reset", !.op = "none", !.len = 0,
                                !.last = FALSE, !.told = FALSE]
  BY DEF ResetDsp
<1> HIDE DEF d, m
<1>4. CardInv' /\ ReaderInv' /\ handler' \in HandlerPlaces
  BY <1>1, <1>2, <1>3, DriverKeepsTypes
<1>5. SoundInv'
  <2> DEFINE zero == 0
  <2>1. zero \in 0..(Radix * Radix)
    BY LimitIs DEF Limit
  <2>2. sound' = [sound EXCEPT !.at = "reset", !.op = "none", !.len = zero,
                               !.last = FALSE, !.told = FALSE]
    BY <1>3
  <2> HIDE DEF zero
  <2>3. sound' \in SoundState /\ sound'.at = "reset" /\ sound'.op = "none"
    BY <1>0, <2>1, <2>2 DEF SoundState
  <2> QED BY <2>3 DEF SoundInv
<1> QED BY <1>4, <1>5

\* The driver has the card identify itself.
LEMMA IdentifyKeepsTypes ==
  ASSUME TInv, Identify
  PROVE  CardInv' /\ SoundInv' /\ ReaderInv' /\ handler' \in HandlerPlaces
<1> DEFINE g == Program(dma[1], 1, 0, 0, "write", FALSE, FALSE)
           m == [dma EXCEPT ![1] = g]
           s == Sends(sound, "identify", 1, "wait")  one == 1
<1>0. dsp \in DspState /\ dma \in Controllers /\ sound \in SoundState /\ 1 \in 1..2
  BY DEF TInv, CardInv, SoundInv
<1>1. g \in DmaState
  <2>1. dma[1] \in DmaState /\ 0 \in Words /\ "write" \in Types
    BY <1>0, LimitIs DEF Controllers, Types
  <2> QED BY <2>1, ProgramIs
<1>2. Written(dsp, m) /\ UNCHANGED <<cd, todo, handler, reader>>
      /\ sound' = [s EXCEPT !.op = "identify", !.len = one]
  BY DEF Identify
<1> HIDE DEF g
<1>3. m \in Controllers
  BY <1>0, <1>1 DEF Controllers
<1> HIDE DEF m
<1>4. CardInv' /\ ReaderInv' /\ handler' \in HandlerPlaces
  BY <1>0, <1>2, <1>3, DriverKeepsTypes
<1>5. one \in 1..Limit /\ one \in 0..(Radix * Radix)
  BY LimitIs DEF Limit
<1>6. /\ s \in SoundState /\ s.at = "send" /\ s.cmd = "identify"
      /\ s.params = Operands("identify", one)
  <2>1. "identify" \in DspCommands /\ Operands("identify", 1) \in Seq(Bytes)
    BY <1>5, OperandsIs
  <2> QED BY <1>0, <2>1, SendsIs
<1> HIDE DEF s, one
<1>7. /\ sound' \in SoundState /\ sound'.at = "send" /\ sound'.cmd = "identify"
      /\ sound'.params = Operands("identify", one) /\ sound'.op = "identify" /\ sound'.len = one
  BY <1>2, <1>5, <1>6 DEF SoundState
<1>8. SoundInv'
  BY <1>5, <1>7 DEF SoundInv
<1> QED BY <1>4, <1>8

\* A block's last byte is a word.
LEMMA SizeIs ==
  ASSUME NEW op, NEW len \in 1..Limit,
         (IF op \in Loops THEN 2 * len ELSE len) <= Radix * Radix
  PROVE  LET size == IF op \in Loops THEN 2 * len ELSE len IN
         size - 1 \in Words /\ size \in 1..Limit
BY LimitIs DEF Limit

\* The driver begins a block or a loop.
LEMMA PlayKeepsTypes ==
  ASSUME TInv, Play
  PROVE  CardInv' /\ SoundInv' /\ ReaderInv' /\ handler' \in HandlerPlaces
<1>0. dsp \in DspState /\ dma \in Controllers /\ sound \in SoundState
  BY DEF TInv, CardInv, SoundInv
<1>1. PICK op \in program.play, len \in Lens :
       LET size == IF op \in Loops THEN 2 * len ELSE len
           k    == Side(op \in Wides)
           type == IF op = "record8" THEN "write" ELSE "read"
       IN  /\ size <= Radix * Radix
           /\ Written(dsp, [dma EXCEPT ![k] =
                              Program(@, 1, 0, size - 1, type, FALSE, op \in Loops)])
           /\ sound' = [Sends(sound, op, len, "wait") EXCEPT
                          !.op = op, !.len = len, !.last = FALSE, !.told = FALSE]
  BY DEF Play
<1> DEFINE size == IF op \in Loops THEN 2 * len ELSE len
           k    == Side(op \in Wides)
           type == IF op = "record8" THEN "write" ELSE "read"
           auto == op \in Loops
           g    == Program(dma[k], 1, 0, size - 1, type, FALSE, auto)
           m    == [dma EXCEPT ![k] = g]
           s    == Sends(sound, op, len, "wait")
<1>2. op \in Plays /\ len \in 1..Limit
  BY SoundAssumption DEF TInv, Limit
<1>3. size - 1 \in Words
  BY <1>1, <1>2, SizeIs
<1>4. k \in 1..2 /\ type \in Types /\ auto \in BOOLEAN
  BY DEF Side, Types
<1>5. Written(dsp, m) /\ sound' = [s EXCEPT !.op = op, !.len = len, !.last = FALSE, !.told = FALSE]
  BY <1>1
<1>6. g \in DmaState
  <2> DEFINE count == size - 1
  <2>1. count \in Words /\ dma[k] \in DmaState
    BY <1>0, <1>3, <1>4 DEF Controllers
  <2> HIDE DEF count, type, auto, k
  <2>2. Program(dma[k], 1, 0, count, type, FALSE, auto) \in DmaState
    BY <1>4, <2>1, ProgramIs
  <2> QED BY <2>2 DEF count
<1> HIDE DEF g, k
<1>7. m \in Controllers
  BY <1>0, <1>4, <1>6 DEF Controllers
<1> HIDE DEF m
<1>8. UNCHANGED <<cd, todo, handler, reader>>
  BY DEF Play
<1>9. CardInv' /\ ReaderInv' /\ handler' \in HandlerPlaces
  BY <1>0, <1>5, <1>7, <1>8, DriverKeepsTypes
<1>10. /\ s \in SoundState /\ s.at = "send" /\ s.cmd = op /\ s.params = Operands(op, len)
  <2>1. op \in DspCommands /\ Operands(op, len) \in Seq(Bytes)
    BY <1>2, OperandsIs
  <2> QED BY <1>0, <2>1, SendsIs
<1>11. len \in 0..(Radix * Radix) /\ op \in Plays \cup {"none", "identify"} /\ op # "none"
  BY <1>2, LimitIs DEF Limit, Plays, Singles, Loops
<1> HIDE DEF s
<1>12. /\ sound' \in SoundState /\ sound'.at = "send" /\ sound'.cmd = op
       /\ sound'.params = Operands(op, len) /\ sound'.op = op /\ sound'.len = len
  BY <1>5, <1>10, <1>11 DEF SoundState
<1>13. SoundInv'
  BY <1>2, <1>11, <1>12 DEF SoundInv
<1> QED BY <1>9, <1>13

\* The commands that stop a transfer or let it go on.
LEMMA SteeringKeepsTypes ==
  ASSUME TInv, EndLoop \/ Pause \/ Continue
  PROVE  CardInv' /\ SoundInv' /\ ReaderInv' /\ handler' \in HandlerPlaces
<1>0. dsp \in DspState /\ dma \in Controllers /\ sound \in SoundState
      /\ (sound.op # "none" => sound.len \in 1..Limit)
  BY DEF TInv, CardInv, SoundInv
<1>1. MaskAll(dma) \in Controllers
  BY <1>0, MaskAllIs
<1>2. ASSUME NEW cmd \in {"halt", "exitAuto", "continue8", "continue16", "resume16"},
             NEW next \in {"wait", "paused", "unmask"},
             LET s == Sends(sound, cmd, 0, next) IN
             \/ sound' = [s EXCEPT !.last = TRUE]
             \/ sound' = s
      PROVE  SoundInv'
  <2> DEFINE s == Sends(sound, cmd, 0, next)
  <2>1. /\ s \in SoundState /\ s.cmd = cmd /\ s.params = <<>>
        /\ s.op = sound.op /\ s.len = sound.len
    <3>1. cmd \in DspCommands /\ Operands(cmd, 0) = <<>> /\ Operands(cmd, 0) \in Seq(Bytes)
      BY NoOperands
    <3> QED BY <1>0, <3>1, SendsIs
  <2>2. sound' = [s EXCEPT !.last = TRUE] \/ sound' = s
    BY <1>2
  <2> HIDE DEF s
  <2>3. /\ sound' \in SoundState /\ sound'.cmd = cmd /\ sound'.params = <<>>
        /\ sound'.op = sound.op /\ sound'.len = sound.len
    <3>1. CASE sound' = s
      BY <2>1, <3>1
    <3>2. CASE sound' = [s EXCEPT !.last = TRUE]
      BY <2>1, <3>2 DEF SoundState
    <3> QED BY <2>2, <3>1, <3>2
  <2> QED BY <1>0, <2>3 DEF SoundInv
<1>3. CASE EndLoop
  <2>1. /\ Written(dsp, MaskAll(dma)) /\ UNCHANGED <<cd, todo, handler, reader>>
        /\ sound' = [Sends(sound, "exitAuto", 0, "unmask") EXCEPT !.last = TRUE]
    BY <1>3 DEF EndLoop
  <2>2. CardInv' /\ ReaderInv' /\ handler' \in HandlerPlaces
    BY <1>0, <1>1, <2>1, DriverKeepsTypes
  <2> QED BY <1>2, <2>1, <2>2
<1>4. CASE Pause
  <2>1. /\ Written(dsp, MaskAll(dma)) /\ UNCHANGED <<cd, todo, handler, reader>>
        /\ sound' = Sends(sound, "halt", 0, "paused")
    BY <1>4 DEF Pause
  <2>2. CardInv' /\ ReaderInv' /\ handler' \in HandlerPlaces
    BY <1>0, <1>1, <2>1, DriverKeepsTypes
  <2> QED BY <1>2, <2>1, <2>2
<1>5. CASE Continue
  <2>1. PICK c \in {"continue16", "resume16", "continue8"} :
          sound' = Sends(sound, c, 0, "unmask")
    BY <1>5 DEF Continue
  <2>2. UNCHANGED <<dsp, cd, dma, todo, handler, reader>>
    BY <1>5 DEF Continue
  <2>3. CardInv' /\ ReaderInv' /\ handler' \in HandlerPlaces
    BY <2>2, ReaderFrame DEF TInv, CardInv
  <2> QED BY <1>2, <2>1, <2>3
<1> QED BY <1>3, <1>4, <1>5

\* The first of the bytes that are left joins those that have been taken.
LEMMA NextByte ==
  ASSUME NEW p \in Seq(Bytes), NEW q \in Seq(Bytes), q # <<>>
  PROVE  LET g == Append(p, Head(q)) IN
         /\ g \in Seq(Bytes) /\ g \o Tail(q) = p \o q
         /\ Tail(q) # <<>> => Len(g) # Len(p \o q)
<1>1. Head(q) \in Bytes /\ Tail(q) \in Seq(Bytes) /\ Len(q) > 0 /\ Len(Tail(q)) = Len(q) - 1
  OBVIOUS
<1> DEFINE b == Head(q)  r == Tail(q)
<1>2. q = <<b>> \o r
  BY <1>1
<1>3. \A j \in 1..Len(r) : r[j] = q[j + 1]
  BY <1>1
<1>4. q[1] = b
  BY <1>1
<1> HIDE DEF b, r
<1> DEFINE g == Append(p, b)
<1>5. g \in Seq(Bytes) /\ Len(g) = Len(p) + 1
  BY <1>1 DEF b
<1>6. \A j \in 1..Len(g) : g[j] = IF j <= Len(p) THEN p[j] ELSE b
  BY <1>1 DEF b
<1> HIDE DEF g
<1>7. Len(r) \in Nat /\ Len(q) = Len(r) + 1 /\ r \in Seq(Bytes) /\ Len(p) \in Nat
  BY <1>1 DEF r
<1>8. /\ g \o r \in Seq(Bytes) /\ p \o q \in Seq(Bytes)
      /\ Len(g \o r) = Len(g) + Len(r) /\ Len(p \o q) = Len(p) + Len(q)
  <2>1. g \o r \in Seq(Bytes) /\ Len(g \o r) = Len(g) + Len(r)
    BY <1>5, <1>7, ConcatProperties
  <2>2. p \o q \in Seq(Bytes) /\ Len(p \o q) = Len(p) + Len(q)
    BY ConcatProperties
  <2> QED BY <2>1, <2>2
<1>9. ASSUME NEW j \in 1..Len(p \o q) PROVE (g \o r)[j] = (p \o q)[j]
  <2>1. j \in Nat /\ j >= 1 /\ j <= Len(p) + Len(q)
    BY <1>7, <1>8
  <2>2. (p \o q)[j] = IF j <= Len(p) THEN p[j] ELSE q[j - Len(p)]
    BY <1>7, <2>1
  <2>3. (g \o r)[j] = IF j <= Len(g) THEN g[j] ELSE r[j - Len(g)]
    BY <1>5, <1>7, <2>1
  <2>4. CASE j <= Len(p)
    BY <1>5, <1>6, <1>7, <2>1, <2>2, <2>3, <2>4
  <2>5. CASE j = Len(p) + 1
    BY <1>4, <1>5, <1>6, <1>7, <2>1, <2>2, <2>3, <2>5
  <2>6. CASE j > Len(p) + 1
    <3>1. j - Len(g) \in 1..Len(r) /\ (j - Len(g)) + 1 = j - Len(p)
      BY <1>5, <1>7, <2>1, <2>6
    <3>2. r[j - Len(g)] = q[j - Len(p)]
      BY <1>3, <3>1
    <3> QED BY <1>5, <1>7, <2>1, <2>2, <2>3, <2>6, <3>2
  <2>7. j <= Len(p) \/ j = Len(p) + 1 \/ j > Len(p) + 1
    BY <1>7, <2>1
  <2> QED BY <2>4, <2>5, <2>6, <2>7
<1>10. g \o r = p \o q
  BY <1>5, <1>7, <1>8, <1>9, SeqEqual, SMTT(30)
<1>11. r # <<>> => Len(g) # Len(p \o q)
  <2>1. r # <<>> => Len(r) # 0
    BY <1>7
  <2> QED BY <1>5, <1>7, <1>8, <2>1
<1> QED BY <1>5, <1>10, <1>11 DEF g, b, r

\* A byte to the DSP: a command, or a parameter of the one that is collected.
LEMMA SendKeepsTypes ==
  ASSUME TInv, SendByte
  PROVE  CardInv' /\ SoundInv' /\ ReaderInv' /\ handler' \in HandlerPlaces
<1> DEFINE rest == IF sound.cmd # "none" THEN sound.params ELSE Tail(sound.params)
           d == IF sound.cmd # "none" THEN WriteCommand(dsp, sound.cmd)
                ELSE WriteParam(dsp, Head(sound.params))
           sent == [sound EXCEPT !.cmd = "none", !.params = rest]
           over == [sent EXCEPT !.at = sound.next, !.next = "wait"]
           all == Operands(sound.op, sound.len)
<1>0. /\ dsp \in DspState /\ dma \in Controllers /\ sound \in SoundState /\ sound.at = "send"
      /\ sound.params \in Seq(Bytes) /\ sound.cmd \in DspCommands \cup {"none"}
      /\ sound.next \in {"wait", "paused", "unmask"}
      /\ (sound.op # "none" => sound.len \in 1..Limit)
  BY DEF TInv, CardInv, SoundInv, SoundState, SendByte, SoundAt
<1>1. /\ Written(d, dma) /\ UNCHANGED <<cd, todo, handler, reader>>
      /\ sound' = IF rest = <<>> THEN over ELSE sent
  BY DEF SendByte
<1>2. /\ rest \in Seq(Bytes) /\ d \in DspState
      /\ rest # <<>> => /\ sound.op # "none" /\ d.cmd = sound.op
                        /\ d.params \o rest = all
  <2>1. CASE sound.cmd = "none"
    <3>0. /\ sound.params # <<>> /\ sound.op # "none" /\ dsp.cmd = sound.op
          /\ dsp.params \o sound.params = all
      BY <1>0, <2>1, NoOperands DEF TInv, SoundInv, DspCommands, Params
    <3> DEFINE byte == Head(sound.params)  p == Append(dsp.params, byte)
    <3>1. byte \in Bytes /\ Tail(sound.params) \in Seq(Bytes) /\ dsp.params \in Seq(Bytes)
      BY <1>0, <3>0 DEF DspState
    <3>2. WriteParam(dsp, byte) \in DspState
      BY <1>0, <3>0, <3>1, WriteParamType
    <3>3. /\ p \o Tail(sound.params) = all /\ p \in Seq(Bytes)
          /\ Tail(sound.params) # <<>> => Len(p) # Len(all)
      BY <1>0, <3>0, <3>1, NextByte
    <3>4. ASSUME Tail(sound.params) # <<>>
          PROVE  WriteParam(dsp, byte) = [dsp EXCEPT !.params = p]
      <4>1. sound.op \in Plays \cup {"identify"} /\ Len(all) = Params[sound.op]
        <5>1. sound.op \in Plays \cup {"identify"}
          BY <1>0, <3>0 DEF SoundState
        <5> QED BY <1>0, <3>0, <5>1, OperandsIs
      <4>3. Len(p) # Params[dsp.cmd]
        BY <3>0, <3>3, <3>4, <4>1
      <4> QED BY <4>3 DEF WriteParam
    <3>5. Tail(sound.params) # <<>> =>
            WriteParam(dsp, byte).cmd = sound.op /\ WriteParam(dsp, byte).params = p
      BY <1>0, <3>0, <3>4 DEF DspState
    <3>6. rest = Tail(sound.params) /\ d = WriteParam(dsp, byte)
      BY <2>1
    <3> HIDE DEF rest, d, p, byte, all
    <3> QED BY <3>0, <3>1, <3>2, <3>3, <3>5, <3>6
  <2>2. CASE sound.cmd # "none"
    <3>1. sound.cmd \in DspCommands /\ d = WriteCommand(dsp, sound.cmd) /\ rest = sound.params
      BY <1>0, <2>2
    <3>2. d \in DspState
      BY <1>0, <3>1, WriteCommandType
    <3>3. ASSUME rest # <<>>
          PROVE  sound.op # "none" /\ d.cmd = sound.op /\ d.params \o rest = all
      <4>1. sound.cmd = sound.op /\ sound.op # "none" /\ sound.params = all
        BY <1>0, <2>2, <3>1, <3>3 DEF TInv, SoundInv
      <4>2. Len(all) = Params[sound.cmd] /\ Len(all) # 0
        <5>1. sound.op \in Plays \cup {"identify"}
          BY <1>0, <4>1 DEF SoundState
        <5>2. Len(all) = Params[sound.op] /\ all \in Seq(Bytes)
          BY <1>0, <4>1, <5>1, OperandsIs
        <5> HIDE DEF all
        <5> QED BY <3>1, <3>3, <4>1, <5>2
      <4>3. d = [dsp EXCEPT !.cmd = sound.cmd, !.params = <<>>]
        BY <3>1, <4>2 DEF WriteCommand
      <4>4. d.cmd = sound.cmd /\ d.params = <<>>
        <5> HIDE DEF d
        <5> QED BY <1>0, <4>3 DEF DspState
      <4>5. <<>> \o rest = rest
        BY <1>0, <3>1
      <4> HIDE DEF d, rest, all
      <4> QED BY <3>1, <4>1, <4>4, <4>5
    <3> HIDE DEF d, rest
    <3> QED BY <1>0, <3>1, <3>2, <3>3
  <2> QED BY <2>1, <2>2
<1> HIDE DEF d, rest, all
<1>3. /\ CardInv' /\ ReaderInv' /\ handler' \in HandlerPlaces
      /\ dsp'.cmd = d.cmd /\ dsp'.params = d.params
  BY <1>0, <1>1, <1>2, DriverKeepsTypes
<1>4. /\ sent \in SoundState /\ sent.at = "send" /\ sent.cmd = "none" /\ sent.params = rest
      /\ sent.op = sound.op /\ sent.len = sound.len
  BY <1>0, <1>2 DEF SoundState
<1> HIDE DEF sent
<1>5. over \in SoundState /\ over.at # "send" /\ over.op = sound.op /\ over.len = sound.len
  BY <1>0, <1>4 DEF SoundState
<1> HIDE DEF over
<1>6. CASE rest = <<>>
  BY <1>0, <1>1, <1>3, <1>5, <1>6 DEF SoundInv
<1>7. CASE rest # <<>>
  <2>1. SoundInv'
    BY <1>0, <1>1, <1>2, <1>3, <1>4, <1>7 DEF SoundInv, all
  <2> QED BY <1>3, <2>1
<1> QED BY <1>6, <1>7

\* A step of the driver that leaves its command alone.
LEMMA SoundSame ==
  ASSUME SoundInv, sound' \in SoundState, sound'.at # "send",
         sound'.op = sound.op, sound'.len = sound.len
  PROVE  SoundInv'
BY DEF SoundInv

\* The DSP has answered the reset.
LEMMA AwaitResetKeepsTypes ==
  ASSUME TInv, AwaitReset
  PROVE  CardInv' /\ SoundInv' /\ ReaderInv' /\ handler' \in HandlerPlaces
<1>0. dsp \in DspState /\ sound \in SoundState
  BY DEF TInv, CardInv, SoundInv
<1>1. /\ dsp' = ReadData(ReadStatus(dsp)) /\ sound' = [sound EXCEPT !.at = "fresh"]
      /\ UNCHANGED <<cd, dma, todo, handler, reader>>
  BY DEF AwaitReset, SoundTo
<1>2. dsp' \in DspState
  <2>1. ReadStatus(dsp) \in DspState
    BY <1>0, PortsType
  <2> QED BY <1>1, <2>1, PortsType
<1>3. sound' \in SoundState /\ sound'.at = "fresh" /\ sound'.op = sound.op
      /\ sound'.len = sound.len
  BY <1>0, <1>1 DEF SoundState
<1>4. SoundInv'
  BY <1>3, SoundSame DEF TInv
<1>5. CardInv'
  BY <1>1, <1>2 DEF TInv, CardInv
<1> QED BY <1>1, <1>4, <1>5, ReaderFrame DEF TInv

\* The driver has been told of a block, or lets its channel run again.
LEMMA ToldKeepsTypes ==
  ASSUME TInv, Told \/ Unmask
  PROVE  CardInv' /\ SoundInv' /\ ReaderInv' /\ handler' \in HandlerPlaces
<1>0. dsp \in DspState /\ dma \in Controllers /\ sound \in SoundState
  BY DEF TInv, CardInv, SoundInv
<1>1. CASE Told
  <2>1. UNCHANGED <<cd, todo, handler, reader>> /\ sound.at = "wait"
    BY <1>1 DEF Told, SoundAt
  <2>2. CASE Written(dsp, MaskAll(dma))
             /\ sound' = [sound EXCEPT !.at = "ready", !.told = FALSE, !.last = FALSE]
    <3>1. MaskAll(dma) \in Controllers
      BY <1>0, MaskAllIs
    <3>2. CardInv' /\ ReaderInv' /\ handler' \in HandlerPlaces
      BY <1>0, <2>1, <2>2, <3>1, DriverKeepsTypes
    <3>3. sound' \in SoundState /\ sound'.at = "ready" /\ sound'.op = sound.op
          /\ sound'.len = sound.len
      BY <1>0, <2>2 DEF SoundState
    <3>4. SoundInv'
      BY <3>3, SoundSame DEF TInv
    <3> QED BY <3>2, <3>4
  <2>3. CASE sound' = [sound EXCEPT !.told = FALSE] /\ UNCHANGED <<dsp, dma>>
    <3>1. sound' \in SoundState /\ sound'.at = sound.at /\ sound'.op = sound.op
          /\ sound'.len = sound.len
      BY <1>0, <2>3 DEF SoundState
    <3>2. SoundInv'
      BY <2>1, <3>1, SoundSame DEF TInv
    <3>3. CardInv'
      BY <2>1, <2>3 DEF TInv, CardInv
    <3> QED BY <2>1, <3>2, <3>3, ReaderFrame DEF TInv
  <2> QED BY <1>1, <2>2, <2>3 DEF Told
<1>2. CASE Unmask
  <2> DEFINE k == Side(sound.op \in Wides)  g == WriteMask(dma[k], 1, FALSE)
             m == [dma EXCEPT ![k] = g]
  <2>1. k \in 1..2
    BY DEF Side
  <2>2. g \in DmaState
    <3>1. dma[k] \in DmaState
      BY <1>0, <2>1 DEF Controllers
    <3> QED BY <3>1, WriteMaskIs
  <2>3. Written(dsp, m) /\ sound' = [sound EXCEPT !.at = "wait"]
        /\ UNCHANGED <<cd, todo, handler, reader>>
    BY <1>2 DEF Unmask, SoundTo
  <2> HIDE DEF g, k
  <2>4. m \in Controllers
    BY <1>0, <2>1, <2>2 DEF Controllers
  <2> HIDE DEF m
  <2>5. CardInv' /\ ReaderInv' /\ handler' \in HandlerPlaces
    BY <1>0, <2>3, <2>4, DriverKeepsTypes
  <2>6. sound' \in SoundState /\ sound'.at = "wait" /\ sound'.op = sound.op
        /\ sound'.len = sound.len
    BY <1>0, <2>3 DEF SoundState
  <2>7. SoundInv'
    BY <2>6, SoundSame DEF TInv
  <2> QED BY <2>5, <2>7
<1> QED BY <1>1, <1>2

-----------------------------------------------------------------------------
(* The steps of the CD driver. *)

\* The steps of the CD driver leave the sound driver alone; some write a port.
LEMMA CdStepKeepsTypes ==
  ASSUME TInv, UNCHANGED <<todo, handler, sound>>,
         UNCHANGED <<dsp, dma>> \/ Written(dsp, dma)
  PROVE  CardInv' /\ SoundInv' /\ handler' \in HandlerPlaces
<1>0. dsp \in DspState /\ dma \in Controllers
  BY DEF TInv, CardInv
<1>1. /\ dsp' \in DspState /\ dma' \in Controllers
      /\ dsp'.cmd = dsp.cmd /\ dsp'.params = dsp.params
  BY <1>0, WrittenIs
<1>2. CardInv'
  BY <1>1 DEF TInv, CardInv
<1> QED BY <1>1, <1>2, SoundFrame DEF TInv

\* The driver when it is at rest.
LEMMA IdleIs ==
  /\ Idle \in ReaderState /\ Idle.at = "ready" /\ Idle.lba = 0 /\ Idle.got = 0
  /\ \A c : CdFits(c) /\ cd' = c /\ reader' = Idle => ReaderInv'
<1>1. 0 \in SectorNumbers /\ 0 \in 0..MaxCount /\ 0 \in 0..(MaxCount * SectorBytes)
      /\ 0 \in Sectors \cup {0} /\ "info" \in CdCommands
  <2>1. MaxCount * SectorBytes \in Nat
    BY SectorNumberIs
  <2> QED BY <2>1, Zero DEF CdCommands
<1>2. Idle \in ReaderState /\ Idle.at = "ready" /\ Idle.lba = 0 /\ Idle.got = 0
  BY <1>1 DEF Idle, ReaderState
<1>3. ASSUME NEW c, CdFits(c), cd' = c, reader' = Idle PROVE ReaderInv'
  <2>1. CdFits(cd)'
    BY <1>3 DEF CdFits, Ahead
  <2> QED BY <1>1, <1>2, <1>3, <2>1 DEF ReaderInv
<1> QED BY <1>2, <1>3

\* How far a read goes.
LEMMA CountIs ==
  ASSUME NEW count \in Counts
  PROVE  /\ count \in 1..MaxCount /\ count \in 0..MaxCount
         /\ count * SectorBytes \in Nat /\ count * SectorBytes > 0
         /\ MaxCount * SectorBytes \in Nat
         /\ count * SectorBytes <= MaxCount * SectorBytes
<1>1. count \in Nat \ {0} /\ count <= MaxCount /\ MaxCount \in Nat /\ SectorBytes \in Nat \ {0}
  BY SoundAssumption, SectorNumberIs
<1>2. count * SectorBytes \in Nat \ {0} /\ MaxCount * SectorBytes \in Nat
  BY <1>1, PositiveProduct
<1>3. count = MaxCount \/ (count * SectorBytes) + SectorBytes <= MaxCount * SectorBytes
  BY <1>1, Products
<1> QED BY <1>1, <1>2, <1>3

\* The CD driver goes to another place, having read nothing yet.
LEMMA ReaderGoes ==
  ASSUME ReaderInv, CdFits(cd)', NEW loc \in {"params", "await", "result", "data"},
         reader.at \in {"command", "params", "await", "result"},
         reader' = [reader EXCEPT !.at = loc]
  PROVE  ReaderInv'
<1>1. reader \in ReaderState /\ reader.got = 0 /\ reader.count \in Counts
  BY DEF ReaderInv
<1>2. /\ reader' \in ReaderState /\ reader'.at = loc /\ reader'.lba = reader.lba
      /\ reader'.count = reader.count /\ reader'.got = reader.got
  BY <1>1 DEF ReaderState
<1>3. reader.count * SectorBytes > 0
  BY <1>1, CountIs
<1> QED BY <1>1, <1>2, <1>3 DEF ReaderInv

\* A CD command is begun.
LEMMA BeginCdKeepsTypes ==
  ASSUME TInv, BeginCd
  PROVE  CardInv' /\ SoundInv' /\ ReaderInv' /\ handler' \in HandlerPlaces
<1>1. UNCHANGED <<dsp, cd, dma, todo, handler, sound>>
  BY DEF BeginCd
<1>2. PICK op \in program.read, lba \in Sectors, count \in Counts :
       reader' = [Idle EXCEPT !.at = "command", !.op = op, !.lba = lba, !.count = count]
  BY DEF BeginCd
<1>3. op \in CdCommands /\ lba \in SectorNumbers /\ count \in 0..MaxCount
      /\ lba \in Sectors \cup {0}
  <2>1. op \in CdCommands
    BY SoundAssumption DEF TInv
  <2> QED BY <2>1, SectorNumberIs, CountIs
<1> DEFINE idle == Idle
<1>4. idle \in ReaderState /\ idle.got = 0
  BY IdleIs
<1>5. reader' = [idle EXCEPT !.at = "command", !.op = op, !.lba = lba, !.count = count]
  BY <1>2
<1> HIDE DEF idle
<1>6. /\ reader' \in ReaderState /\ reader'.at = "command" /\ reader'.lba = lba
      /\ reader'.count = count /\ reader'.got = idle.got
  BY <1>3, <1>4, <1>5 DEF ReaderState
<1>7. CdFits(cd)'
  BY <1>1 DEF TInv, ReaderInv, CdFits, Ahead
<1>8. ReaderInv'
  BY <1>3, <1>4, <1>6, <1>7 DEF ReaderInv
<1> QED BY <1>1, <1>8, CdStepKeepsTypes

\* A CD command or its parameters are written.
LEMMA SendCdKeepsTypes ==
  ASSUME TInv, SendCd
  PROVE  CardInv' /\ SoundInv' /\ ReaderInv' /\ handler' \in HandlerPlaces
<1>0. CdFits(cd) /\ reader \in ReaderState /\ reader.op \in CdCommands
      /\ reader.lba \in Sectors \cup {0}
  BY DEF TInv, ReaderInv, ReaderState
<1>1. UNCHANGED <<todo, handler, sound>>
  BY DEF SendCd
<1>2. CASE ReaderAt("command") /\ CdWritten(WriteCdCommand(cd, reader.op))
           /\ ReaderTo(IF reader.op \in TakesParams THEN "params" ELSE "await")
  <2>1. cd' = WriteCdCommand(cd, reader.op) /\ Written(dsp, dma)
    BY <1>2 DEF CdWritten
  <2>2. CdFits(cd)'
    <3>1. CdFits(WriteCdCommand(cd, reader.op))
      BY <1>0, Zero, WriteCdFits
    <3> QED BY <2>1, <3>1
  <2>3. PICK loc \in {"params", "await"} : reader' = [reader EXCEPT !.at = loc]
    BY <1>2 DEF ReaderTo
  <2>4. reader.at = "command"
    BY <1>2 DEF ReaderAt
  <2>5. ReaderInv'
    BY <2>2, <2>3, <2>4, ReaderGoes DEF TInv
  <2> QED BY <1>1, <2>1, <2>5, CdStepKeepsTypes
<1>3. CASE ReaderAt("params") /\ CdWritten(WriteCdParams(cd, reader.lba, reader.count))
           /\ ReaderTo("await")
  <2>1. cd' = WriteCdParams(cd, reader.lba, reader.count) /\ Written(dsp, dma)
    BY <1>3 DEF CdWritten
  <2>4. reader.at = "params"
    BY <1>3 DEF ReaderAt
  <2>2. CdFits(cd)'
    <3>0. reader.count \in 0..MaxCount /\ "info" \in CdCommands
      BY <2>4, CountIs DEF TInv, ReaderInv, CdCommands
    <3>1. CdFits(WriteCdParams(cd, reader.lba, reader.count))
      BY <1>0, <3>0, WriteCdFits
    <3> QED BY <2>1, <3>1
  <2>3. reader' = [reader EXCEPT !.at = "await"]
    BY <1>3 DEF ReaderTo
  <2>5. ReaderInv'
    BY <2>2, <2>3, <2>4, ReaderGoes DEF TInv
  <2> QED BY <1>1, <2>1, <2>5, CdStepKeepsTypes
<1> QED BY <1>2, <1>3 DEF SendCd

\* The CD driver waits for the interrupt.
LEMMA AwaitKeepsTypes ==
  ASSUME TInv, Await
  PROVE  CardInv' /\ SoundInv' /\ ReaderInv' /\ handler' \in HandlerPlaces
<1>1. UNCHANGED <<dsp, cd, dma, todo, handler, sound>> /\ reader.at = "await"
  BY DEF Await, ReaderAt
<1>2. PICK loc \in {"result", "data"} : reader' = [reader EXCEPT !.at = loc]
  BY DEF Await, ReaderTo
<1>3. CdFits(cd)'
  BY <1>1 DEF TInv, ReaderInv, CdFits, Ahead
<1>4. ReaderInv'
  BY <1>1, <1>2, <1>3, ReaderGoes DEF TInv
<1> QED BY <1>1, <1>4, CdStepKeepsTypes

\* The steps after which the driver is at rest.
LEMMA EndCdKeepsTypes ==
  ASSUME TInv, GiveUp \/ Finish
  PROVE  CardInv' /\ SoundInv' /\ ReaderInv' /\ handler' \in HandlerPlaces
<1>0. CdFits(cd)
  BY DEF TInv, ReaderInv
<1>1. UNCHANGED <<todo, handler, sound>> /\ reader' = Idle
  BY DEF GiveUp, Finish
<1>2. UNCHANGED <<dsp, dma>> \/ Written(dsp, dma)
  BY DEF GiveUp, Finish, CdWritten
<1>3. \E c : CdFits(c) /\ cd' = c
  <2>1. CdFits(CdReset(cd)) /\ CdFits(ReadBase1(cd, TRUE))
    BY <1>0, CdPortsFit, ReadBaseFits
  <2>2. cd' = CdReset(cd) \/ cd' = ReadBase1(cd, TRUE) \/ cd' = cd
    BY DEF GiveUp, Finish, CdWritten
  <2> QED BY <1>0, <2>1, <2>2
<1>4. ReaderInv'
  BY <1>1, <1>3, IdleIs
<1> QED BY <1>1, <1>2, <1>4, CdStepKeepsTypes

\* A byte of a result or of the data is read.
LEMMA ReadKeepsTypes ==
  ASSUME TInv, ReadResult \/ ReadSectorByte
  PROVE  CardInv' /\ SoundInv' /\ ReaderInv' /\ handler' \in HandlerPlaces
<1>0. CdFits(cd) /\ reader \in ReaderState
  BY DEF TInv, ReaderInv
<1>1. UNCHANGED <<dsp, dma, todo, handler, sound>>
  BY DEF ReadResult, ReadSectorByte
<1>2. CASE ReadResult
  <2>1. CdFits(cd)'
    <3>1. CdFits(ReadBase0(cd, TRUE))
      BY <1>0, ReadBaseFits
    <3>2. cd' = ReadBase0(cd, TRUE)
      BY <1>2 DEF ReadResult
    <3> QED BY <3>1, <3>2
  <2>2. reader.at = "result"
    BY <1>2 DEF ReadResult, ReaderAt
  <2>3. reader' = [reader EXCEPT !.at = "data"] \/ reader' = Idle \/ reader' = reader
    BY <1>2 DEF ReadResult
  <2>4. CASE reader' = [reader EXCEPT !.at = "data"]
    BY <1>1, <2>1, <2>2, <2>4, ReaderGoes, CdStepKeepsTypes DEF TInv
  <2>5. CASE reader' = Idle
    <3>1. \E c : CdFits(c) /\ cd' = c
      BY <2>1
    <3> QED BY <1>1, <2>5, <3>1, IdleIs, CdStepKeepsTypes
  <2>6. CASE reader' = reader
    <3>1. ReaderInv'
      BY <2>1, <2>6 DEF TInv, ReaderInv
    <3> QED BY <1>1, <3>1, CdStepKeepsTypes
  <2> QED BY <2>3, <2>4, <2>5, <2>6
<1>3. CASE ReadSectorByte
  <2>0. reader.at = "data" /\ reader.count \in Counts /\ reader.got < reader.count * SectorBytes
    BY <1>3 DEF ReadSectorByte, ReaderAt, TInv, ReaderInv
  <2>1. PICK readable \in BOOLEAN :
       LET byte == IF reader.op = "read" THEN Base1Byte(cd, readable)
                   ELSE Base0Byte(cd, readable)
       IN  /\ cd' = IF reader.op = "read" THEN ReadBase1(cd, readable)
                    ELSE ReadBase0(cd, readable)
           /\ reader' = [reader EXCEPT !.got = @ + 1, !.wrong = @ \/ (reader.got < Reachable /\ byte # Wanted),
                           !.at = IF reader.got + 1 = reader.count * SectorBytes
                                  THEN "finish" ELSE "data"]
    BY <1>3 DEF ReadSectorByte
  <2> DEFINE byte  == IF reader.op = "read" THEN Base1Byte(cd, readable)
                      ELSE Base0Byte(cd, readable)
             got   == reader.got + 1
             wrong == reader.wrong \/ (reader.got < Reachable /\ byte # Wanted)
             at    == IF reader.got + 1 = reader.count * SectorBytes THEN "finish" ELSE "data"
  <2>2. CdFits(cd)'
    <3>1. CdFits(ReadBase1(cd, readable)) /\ CdFits(ReadBase0(cd, readable))
      BY <1>0, ReadBaseFits
    <3>2. cd' = ReadBase1(cd, readable) \/ cd' = ReadBase0(cd, readable)
      BY <2>1
    <3> QED BY <3>1, <3>2
  <2>3. reader' = [reader EXCEPT !.got = got, !.wrong = wrong, !.at = at]
    BY <2>1
  <2>4. got \in 0..(MaxCount * SectorBytes)
    BY <1>0, <2>0, CountIs DEF ReaderState
  <2>5. wrong \in BOOLEAN /\ at \in {"finish", "data"}
    <3>1. reader.wrong \in BOOLEAN
      BY <1>0 DEF ReaderState
    <3> HIDE DEF byte
    <3> QED BY <3>1
  <2>6. at = "data" => got < reader.count * SectorBytes
    <3>1. reader.got \in Nat /\ reader.count * SectorBytes \in Nat
      BY <1>0, <2>0, CountIs DEF ReaderState
    <3> QED BY <2>0, <3>1
  <2> HIDE DEF byte, got, wrong, at
  <2>7. /\ reader' \in ReaderState /\ reader'.at = at /\ reader'.lba = reader.lba
        /\ reader'.count = reader.count /\ reader'.got = got
    BY <1>0, <2>3, <2>4, <2>5 DEF ReaderState
  <2>8. ReaderInv'
    BY <2>0, <2>2, <2>5, <2>6, <2>7 DEF TInv, ReaderInv
  <2> QED BY <1>1, <2>8, CdStepKeepsTypes
<1> QED BY <1>2, <1>3

\* The host changes the disc.
LEMMA ChangeDiscKeepsTypes ==
  ASSUME TInv, ChangeDisc
  PROVE  CardInv' /\ SoundInv' /\ ReaderInv' /\ handler' \in HandlerPlaces
<1>0. CdFits(cd) /\ reader \in ReaderState
  BY DEF TInv, ReaderInv
<1>1. UNCHANGED <<dsp, dma, todo, handler, sound>>
      /\ reader' = [reader EXCEPT !.changed = TRUE]
  BY DEF ChangeDisc
<1>2. CdFits(cd)'
  <2>1. (\E disc \in Discs : cd' = LoadDisc(cd, disc)) \/ cd' = EjectDisc(cd)
    BY DEF ChangeDisc
  <2> QED BY <1>0, <2>1, CdPortsFit
<1>3. /\ reader' \in ReaderState /\ reader'.at = reader.at /\ reader'.lba = reader.lba
      /\ reader'.count = reader.count /\ reader'.got = reader.got
  BY <1>0, <1>1 DEF ReaderState
<1>4. ReaderInv'
  BY <1>2, <1>3 DEF TInv, ReaderInv
<1> QED BY <1>1, <1>4, CdStepKeepsTypes

-----------------------------------------------------------------------------

\* The initial states.
LEMMA InitTypes == Init => TInv
<1> SUFFICES ASSUME Init PROVE TInv
  OBVIOUS
<1>1. dsp \in DspState
  BY PortsType, LimitIs DEF Init, DspNew, DspState
<1>2. dma \in Controllers /\ todo \in [1..2 -> 0..MaxBurst]
  <2>1. DmaReset \in DmaState
    <3>1. 0 \in Words /\ Refresh \in SUBSET Channels
      BY LimitIs, SoundAssumption DEF Refresh
    <3> QED BY <3>1 DEF DmaReset, DmaState, ChannelState
  <2>2. MaxBurst \in Nat
    BY SoundAssumption
  <2> QED BY <2>1, <2>2 DEF Init, Controllers
<1>3. SoundInv
  <2>1. 0 \in 0..(Radix * Radix) /\ <<>> \in Seq(Bytes)
    BY LimitIs DEF Limit
  <2>2. sound \in SoundState /\ sound.op = "none" /\ sound.at = "off"
    BY <2>1 DEF Init, SoundState
  <2> QED BY <2>2 DEF SoundInv
<1>4. ReaderInv
  <2>1. CdFits(cd)
    BY CdNewFits DEF Init
  <2> QED BY <2>1, IdleIs, Zero DEF Init, ReaderInv
<1>5. program \in Programs /\ handler \in HandlerPlaces
  BY DEF Init, HandlerPlaces
<1> QED BY <1>1, <1>2, <1>3, <1>4, <1>5 DEF TInv, CardInv

\* Every step keeps the types.
LEMMA NextTypes == TInv /\ [Next]_vars => TInv'
<1> SUFFICES ASSUME TInv, [Next]_vars PROVE TInv'
  OBVIOUS
<1>1. ASSUME program' = program, CardInv', SoundInv', ReaderInv', handler' \in HandlerPlaces
      PROVE  TInv'
  BY <1>1 DEF TInv
<1>2. CASE UNCHANGED vars
  BY <1>2 DEF vars, TInv, CardInv, SoundInv, ReaderInv, CdFits, Ahead
<1>3. CASE Next
  <2>1. program' = program
    BY <1>3 DEF Next
  <2>2. \/ Bus \/ TakeIrq \/ Handler
        \/ ResetDsp \/ Identify \/ Play \/ (EndLoop \/ Pause \/ Continue)
        \/ AwaitReset \/ SendByte \/ (Told \/ Unmask)
        \/ BeginCd \/ SendCd \/ Await \/ (GiveUp \/ Finish)
        \/ (ReadResult \/ ReadSectorByte) \/ ChangeDisc
    BY <1>3 DEF Next, Sound, Reader
  <2> QED BY <1>1, <2>1, <2>2, BusKeepsTypes, TakeIrqKeepsTypes, HandlerKeepsTypes,
             ResetKeepsTypes, IdentifyKeepsTypes, PlayKeepsTypes, SteeringKeepsTypes,
             AwaitResetKeepsTypes, SendKeepsTypes, ToldKeepsTypes, BeginCdKeepsTypes,
             SendCdKeepsTypes, AwaitKeepsTypes, EndCdKeepsTypes, ReadKeepsTypes,
             ChangeDiscKeepsTypes
<1> QED BY <1>2, <1>3

\* Every variable is of its type: with whatever programs, lengths and bursts,
\* the 16-bit counts of the card and of the DMA controller wrap within their
\* width, no parameter is sent to a DSP that is not collecting a command, the
\* CD driver never asks for more sectors than it counts, and a result that can
\* be read is there.
THEOREM TypeCorrect == Spec => []TypeOK
<1>1. TInv => TypeOK
  BY DEF TInv, TypeOK, CardInv, SoundInv, ReaderInv, CdFits, Controllers, HandlerPlaces
<1> QED BY <1>1, InitTypes, NextTypes, PTL DEF Spec

-----------------------------------------------------------------------------
(* The DMA channel and the DSP in step. *)

\* The controller of the transfer the driver is about, and its channel.
Way     == Side(sound.op \in Wides)
Channel == dma[Way].ch[1]

Masked(i)    == 1 \in dma[i].mask
Requested(i) == 1 \in dma[i].dreq

\* The command by which the driver begins a block is for the other width.
Deaf == sound.op = "continue8" /\ dsp.wide

\* Nobody is about to be told of a block.
Clean == /\ ~dsp.status8 /\ ~dsp.status16 /\ ~sound.told
         /\ handler \notin {"ack8", "ack16", "ackBoth"}

\* The one interrupt of a block that is over is the last.
Settled == /\ sound.told => /\ ~dsp.status8 /\ ~dsp.status16
                            /\ handler \notin {"ack8", "ack16", "ackBoth"}
           /\ handler = "ack8" => ~dsp.status16
           /\ handler = "ack16" => ~dsp.status8

Silent      == ~dsp.active /\ ~dsp.auto /\ ~dsp.e2
Unrequested == dsp.dreq = "none" /\ \A i \in 1..2 : ~Requested(i)
AllMasked   == \A i \in 1..2 : Masked(i)
AtRest      == Silent /\ AllMasked /\ Clean /\ Unrequested

\* The driver has begun what the DSP does not hear.
Unheard == Deaf /\ Silent /\ Clean /\ Unrequested

Size == IF sound.op \in Loops THEN 2 * sound.len ELSE sound.len

\* The channel will count as many bytes as the driver has in its buffer.
Programmed ==
  /\ (Channel.autoInit <=> sound.op \in Loops)
  /\ Channel.baseCount = Size - 1 /\ Size \in 1..Limit

\* The channel's count goes with the DSP's: of a single block both say what is
\* left, of a loop the channel is in the same block or in the other one.
Aligned ==
  IF sound.op \in Loops
  THEN /\ dsp.remaining \in 1..sound.len
       /\ Channel.count + 1 \in {dsp.remaining, dsp.remaining + sound.len}
  ELSE Channel.count < sound.len /\ dsp.remaining = (Channel.count + 1) % Limit

\* A transfer in course, going on or halted.
InCourse ==
  /\ sound.op \notin {"identify", "none"} /\ ~dsp.e2 /\ (dsp.wide <=> sound.op \in Wides)
  /\ dsp.blockLen = sound.len % Limit
  /\ (dsp.auto <=> sound.op \in Loops /\ (sound.last => sound.cmd = "exitAuto"))
  /\ Aligned /\ dsp.dreq = "none"
  /\ sound.op \notin Loops \/ sound.last => Clean

\* A transfer that is over.
Over ==
  /\ Silent /\ Settled
  /\ sound.op # "identify" => dsp.remaining = 0 /\ dsp.blockLen = sound.len % Limit
  /\ sound.op \in Loops => sound.last
  /\ sound.op \notin Loops /\ sound.op # "identify" => Masked(Way)
  /\ \A i \in 1..2 : Requested(i) => dsp.dreq = "release"

\* The card is to identify itself.
Identifying == /\ sound.op = "identify" /\ ~dsp.active /\ ~dsp.auto /\ dsp.e2
               /\ Clean /\ dsp.dreq = "none"

\* The driver masks a channel only between two ticks, and the DSP's requests
\* are those of its own width.
Lines ==
  /\ \A i \in 1..2 : todo[i] > 0 => Requested(i) /\ ~Masked(i)
  /\ \A i \in 1..2 : i # Way => Masked(i)
  /\ \A i \in 1..2 : Requested(i) => i = Side(dsp.wide)
  /\ dsp.dreq \in {"none", "release"}
  /\ dsp.wide => program.play \cap Wides # {}
  /\ sound.op \in program.play \cup {"none", "identify"}
  /\ sound.last => sound.op \in Loops

\* Before the driver has played anything, and between two blocks.
BeforeBlocks ==
  /\ sound.at \in {"off", "reset", "fresh"} =>
       AtRest /\ ~dsp.wide /\ sound.len = 0 /\ sound.op = "none"
  /\ sound.at = "ready" =>
       /\ AtRest /\ sound.op # "none" /\ ~sound.last
       /\ sound.op # "identify" => dsp.remaining = 0 /\ dsp.blockLen = sound.len % Limit

\* A block is begun.
Beginning ==
  sound.at = "send" /\ sound.next = "wait" =>
    /\ Silent /\ Clean /\ Unrequested /\ ~sound.last /\ ~Masked(Way)
    /\ Channel.count = Size - 1 /\ sound.cmd \in {sound.op, "none"}
    /\ sound.op = "continue8" =>
         dsp.remaining = 0 /\ dsp.blockLen = sound.len /\ sound.len < Limit
    /\ sound.op = "identify" => ~dsp.wide

\* A transfer is halted, or it is told to go on, or to end with its block.
Steering ==
  /\ sound.at = "send" /\ sound.next = "paused" =>
       /\ AllMasked /\ sound.cmd = "halt" /\ ~sound.last /\ sound.len < Limit
       /\ Unheard \/ (InCourse /\ dsp.active)
  /\ sound.at = "paused" =>
       /\ AllMasked /\ ~sound.last /\ sound.len < Limit
       /\ Unheard \/ (InCourse /\ ~dsp.active)
  /\ sound.at = "send" /\ sound.next = "unmask" =>
       /\ AllMasked
       /\ \/ /\ sound.cmd = "exitAuto" /\ sound.op \in Loops /\ sound.last
             /\ InCourse /\ dsp.active
          \/ /\ ~sound.last /\ sound.len < Limit
             /\ sound.cmd \in IF sound.op \in Wides THEN {"continue16", "resume16"}
                              ELSE {"continue8"}
             /\ Unheard \/ (InCourse /\ ~dsp.active)
  /\ sound.at = "unmask" =>
       /\ AllMasked /\ sound.cmd = "none"
       /\ Unheard \/ (InCourse /\ dsp.active)

\* The driver waits for a block.
Waiting ==
  sound.at = "wait" =>
    /\ sound.cmd = "none"
    /\ \/ Unheard
       \/ Identifying
       \/ Over
       \/ InCourse /\ dsp.active /\ (sound.op \notin Loops => ~Masked(Way))

AInv ==
  /\ Lines
  /\ sound.at \notin {"off", "reset", "fresh", "ready"} => sound.op # "none" /\ Programmed
  /\ BeforeBlocks /\ Beginning /\ Steering /\ Waiting


-----------------------------------------------------------------------------
(* Steps that do not disturb the transfer. *)

\* The operation's channel is on one of the two controllers.
LEMMA WayIs ==
  /\ Way \in 1..2 /\ (Way = 2 <=> sound.op \in Wides)
  /\ \A b \in BOOLEAN : Side(b) \in 1..2 /\ (Side(b) = 2 <=> b)
BY DEF Way, Side

\* What the invariant says of the DSP's registers, the channels' and the
\* driver's outlives a step that only ends requests, ends what the handler does,
\* or begins a tick.
LEMMA Undisturbed ==
  ASSUME AInv, UNCHANGED <<program, sound>>,
         dsp'.active = dsp.active, dsp'.auto = dsp.auto, dsp'.e2 = dsp.e2,
         dsp'.wide = dsp.wide, dsp'.remaining = dsp.remaining, dsp'.blockLen = dsp.blockLen,
         dsp'.status8 = dsp.status8, dsp'.status16 = dsp.status16,
         \A i \in 1..2 : dma'[i].ch[1] = dma[i].ch[1] /\ (Masked(i)' <=> Masked(i)),
         handler' \in {handler, "none", "source"},
         \/ dsp'.dreq = dsp.dreq /\ \A i \in 1..2 : Requested(i)' <=> Requested(i)
         \/ dsp'.dreq = "none"
            /\ \A i \in 1..2 : Requested(i)' => Requested(i) /\ dsp.dreq # "release",
         \A i \in 1..2 : todo'[i] > 0 => Requested(i)' /\ ~Masked(i)'
  PROVE  AInv'
<1>1. /\ Way' = Way /\ Way \in 1..2 /\ Channel' = Channel /\ Size' = Size
      /\ (Masked(Way)' <=> Masked(Way)) /\ (AllMasked' <=> AllMasked)
  <2>1. Way' = Way /\ Way \in 1..2 /\ Size' = Size
    BY DEF Way, Side, Size
  <2>2. Channel' = Channel
    BY <2>1 DEF Channel
  <2>3. Masked(Way)' <=> Masked(Way)
    BY <2>1 DEF Masked
  <2>4. AllMasked' <=> AllMasked
    BY DEF AllMasked
  <2> QED BY <2>1, <2>2, <2>3, <2>4
<1>2. (Clean => Clean') /\ (Settled => Settled')
  BY DEF Clean, Settled
<1>3. (Unrequested => Unrequested') /\ (Silent => Silent') /\ (Deaf => Deaf')
  BY DEF Unrequested, Silent, Deaf
<1>4. Programmed => Programmed'
  BY <1>1 DEF Programmed
<1>5. Aligned => Aligned'
  BY <1>1 DEF Aligned
<1>6. InCourse => InCourse'
  BY <1>2, <1>5 DEF InCourse
<1>7. Over => Over'
  BY <1>1, <1>2, <1>3 DEF Over
<1>8. Identifying => Identifying'
  BY <1>2 DEF Identifying
<1>9. (AtRest => AtRest') /\ (Unheard => Unheard')
  BY <1>1, <1>2, <1>3 DEF AtRest, Unheard
<1>10. Lines'
  BY <1>1 DEF AInv, Lines
<1>11. BeforeBlocks'
  BY <1>9 DEF AInv, BeforeBlocks
<1>12. Beginning'
  BY <1>1, <1>2, <1>3 DEF AInv, Beginning
<1>13. Steering'
  BY <1>1, <1>6, <1>9 DEF AInv, Steering
<1>14. Waiting'
  BY <1>1, <1>6, <1>7, <1>8, <1>9 DEF AInv, Waiting
<1> QED BY <1>4, <1>10, <1>11, <1>12, <1>13, <1>14 DEF AInv

\* The driver writes a port, without a word to the DSP.
LEMMA PortWrite ==
  ASSUME TInv, AInv, NEW d \in DspState, NEW m \in Controllers, Written(d, m),
         d.dreq = dsp.dreq, d.wide = dsp.wide,
         \A i \in 1..2 : m[i].dreq = dma[i].dreq
  PROVE  /\ dsp'.active = d.active /\ dsp'.auto = d.auto /\ dsp'.e2 = d.e2
         /\ dsp'.wide = d.wide /\ dsp'.remaining = d.remaining /\ dsp'.blockLen = d.blockLen
         /\ dsp'.status8 = d.status8 /\ dsp'.status16 = d.status16
         /\ dsp'.dreq = "none"
         /\ \A i \in 1..2 : dma'[i].ch = m[i].ch /\ dma'[i].mask = m[i].mask
         /\ \A i \in 1..2 : Requested(i)' => Requested(i) /\ dsp.dreq # "release"
<1>1. dsp' = TakeDspDreq(d) /\ dma' = Drained(d, m)
  BY DEF Written
<1>2. d.wide \in BOOLEAN /\ d.dreq \in {"none", "release"}
  BY DEF AInv, Lines, DspState
<1>3. \A i \in 1..2 : Requested(i)' => Requested(i) /\ dsp.dreq # "release"
  <2> SUFFICES ASSUME NEW i \in 1..2, Requested(i)'
               PROVE  Requested(i) /\ dsp.dreq # "release"
    OBVIOUS
  <2>1. Side(d.wide) \in 1..2
    BY DEF Side
  <2>2. 1 \in dma'[i].dreq
    BY DEF Requested
  <2>3. i # Side(d.wide) \/ d.dreq = "none" => dma'[i].dreq = m[i].dreq
    BY <1>1, DrainIs
  <2>4. d.dreq = "release" => 1 \notin dma'[Side(d.wide)].dreq
    BY <1>1, DrainIs
  <2>5. Requested(i)
    BY <1>2, <2>1, <2>2, <2>3, <2>4 DEF Requested
  <2>6. dsp.dreq # "release"
    BY <1>2, <2>2, <2>4, <2>5 DEF AInv, Lines
  <2> QED BY <2>5, <2>6
<1>4. \A i \in 1..2 : dma'[i].ch = m[i].ch /\ dma'[i].mask = m[i].mask
  BY <1>1, DrainIs
<1>5. dsp'.dreq = "none"
  BY <1>1, DrainIs
<1>6. /\ dsp'.active = d.active /\ dsp'.auto = d.auto /\ dsp'.e2 = d.e2
      /\ dsp'.wide = d.wide /\ dsp'.remaining = d.remaining /\ dsp'.blockLen = d.blockLen
      /\ dsp'.status8 = d.status8 /\ dsp'.status16 = d.status16
  BY <1>1, DrainKeeps
<1> QED BY <1>3, <1>4, <1>5, <1>6

\* No tick is going on.
LEMMA QuietIs == Quiet => \A i \in 1..2 : ~(todo[i] > 0)
BY DEF Quiet

\* A port write that is about something else.
LEMMA OtherPort ==
  ASSUME TInv, AInv, Quiet, Written(dsp, dma), UNCHANGED <<program, todo, sound>>,
         handler' \in {handler, "none", "source"}
  PROVE  AInv'
<1>1. dsp \in DspState /\ dma \in Controllers
  BY DEF TInv, CardInv
<1>2. /\ dsp'.active = dsp.active /\ dsp'.auto = dsp.auto /\ dsp'.e2 = dsp.e2
      /\ dsp'.wide = dsp.wide /\ dsp'.remaining = dsp.remaining /\ dsp'.blockLen = dsp.blockLen
      /\ dsp'.status8 = dsp.status8 /\ dsp'.status16 = dsp.status16
      /\ dsp'.dreq = "none"
      /\ \A i \in 1..2 : dma'[i].ch = dma[i].ch /\ dma'[i].mask = dma[i].mask
      /\ \A i \in 1..2 : Requested(i)' => Requested(i) /\ dsp.dreq # "release"
  BY <1>1, PortWrite
<1>3. \A i \in 1..2 : dma'[i].ch[1] = dma[i].ch[1] /\ (Masked(i)' <=> Masked(i))
  BY <1>2 DEF Masked
<1>4. \A i \in 1..2 : ~(todo'[i] > 0)
  BY QuietIs
<1> QED BY <1>2, <1>3, <1>4, Undisturbed

\* A step that touches neither the card nor the controllers.
LEMMA OtherStep ==
  ASSUME AInv, UNCHANGED <<program, dsp, dma, todo, handler, sound>>
  PROVE  AInv'
<1>1. \A i \in 1..2 : (Masked(i)' <=> Masked(i)) /\ (Requested(i)' <=> Requested(i))
  BY DEF Masked, Requested
<1>2. \A i \in 1..2 : todo'[i] > 0 => Requested(i)' /\ ~Masked(i)'
  BY <1>1 DEF AInv, Lines
<1> QED BY <1>1, <1>2, Undisturbed

\* The CD driver, the host, the beginning of a tick and of an interrupt, and
\* the end of one the DSP has nothing to do with.
LEMMA OthersKeepStep ==
  ASSUME TInv, AInv, UNCHANGED program,
         \/ BeginCd \/ Reader \/ ChangeDisc \/ Tick \/ TakeIrq
         \/ Source /\ ~dsp.status8 /\ ~dsp.status16
  PROVE  AInv'
<1>0. dsp \in DspState /\ dma \in Controllers
  BY DEF TInv, CardInv
<1>1. CASE BeginCd \/ Await \/ ReadResult \/ ReadSectorByte \/ Finish \/ ChangeDisc
  BY <1>1, OtherStep DEF BeginCd, Await, ReadResult, ReadSectorByte, Finish, ChangeDisc
<1>2. CASE SendCd \/ GiveUp
  BY <1>2, OtherPort DEF SendCd, GiveUp, CdWritten, ReaderAt
<1>3. CASE Source /\ ~dsp.status8 /\ ~dsp.status16
  BY <1>3, OtherPort DEF Source, Chain
<1>4. CASE Tick
  <2>1. /\ UNCHANGED <<dsp, dma, handler, sound>>
        /\ \E n \in 1..MaxBurst :
             todo' = [k \in 1..2 |-> IF Active(dma[k]) # {} THEN n ELSE 0]
    BY <1>4 DEF Tick
  <2>2. \A i \in 1..2 : (Masked(i)' <=> Masked(i)) /\ (Requested(i)' <=> Requested(i))
    BY <2>1 DEF Masked, Requested
  <2>3. ASSUME NEW i \in 1..2, todo'[i] > 0 PROVE Requested(i) /\ ~Masked(i)
    <3>1. Active(dma[i]) # {}
      BY <2>1, <2>3
    <3>2. dma[i] \in DmaState
      BY <1>0 DEF Controllers
    <3>3. dma[i].dreq \in SUBSET {1}
      BY <3>2, SoundAssumption DEF DmaState
    <3> QED BY <3>1, <3>3 DEF Active, Requested, Masked
  <2> QED BY <2>1, <2>2, <2>3, Undisturbed
<1>5. CASE TakeIrq
  <2>1. /\ UNCHANGED <<dma, todo, sound>> /\ handler' = "source"
        /\ dsp' = TakeDspIrq(dsp) \/ dsp' = dsp
    BY <1>5 DEF TakeIrq
  <2>2. /\ dsp'.active = dsp.active /\ dsp'.auto = dsp.auto /\ dsp'.e2 = dsp.e2
        /\ dsp'.wide = dsp.wide /\ dsp'.remaining = dsp.remaining /\ dsp'.blockLen = dsp.blockLen
        /\ dsp'.status8 = dsp.status8 /\ dsp'.status16 = dsp.status16 /\ dsp'.dreq = dsp.dreq
    BY <1>0, <2>1 DEF TakeDspIrq, DspState
  <2>3. \A i \in 1..2 : (Masked(i)' <=> Masked(i)) /\ (Requested(i)' <=> Requested(i))
    BY <2>1 DEF Masked, Requested
  <2>4. \A i \in 1..2 : todo'[i] > 0 => Requested(i)' /\ ~Masked(i)'
    BY <2>1, <2>3 DEF AInv, Lines
  <2> QED BY <2>1, <2>2, <2>3, <2>4, Undisturbed
<1> QED BY <1>1, <1>2, <1>3, <1>4, <1>5 DEF Reader

-----------------------------------------------------------------------------
(* The interrupt handler. *)

\* When the handler is about to be told of a block, the driver waits for it, or
\* has stopped in the middle of a loop.
LEMMA WhileTelling ==
  ASSUME AInv, TInv, ~Clean
  PROVE  \/ sound.at = "wait" /\ Over /\ sound.cmd = "none"
         \/ /\ InCourse /\ sound.op \in Loops /\ ~sound.last
            /\ \/ sound.at = "send" /\ sound.next \in {"paused", "unmask"}
               \/ sound.at \in {"paused", "unmask", "wait"}
<1>1. sound.at \in {"off", "reset", "fresh", "ready", "send", "wait", "paused", "unmask"}
      /\ sound.next \in {"wait", "paused", "unmask"}
  BY DEF TInv, SoundInv, SoundState
<1>2. ~AtRest /\ ~Unheard /\ ~Identifying
  BY DEF AtRest, Unheard, Identifying
<1>3. InCourse => sound.op \in Loops /\ ~sound.last
  BY DEF InCourse
<1>4. sound.at \notin {"off", "reset", "fresh", "ready"}
  BY <1>2 DEF AInv, BeforeBlocks
<1>5. CASE sound.at = "wait"
  BY <1>2, <1>3, <1>5 DEF AInv, Waiting
<1>6. CASE sound.at = "send"
  BY <1>1, <1>2, <1>3, <1>6 DEF AInv, Beginning, Steering
<1>7. CASE sound.at \in {"paused", "unmask"}
  BY <1>2, <1>3, <1>7 DEF AInv, Steering
<1> QED BY <1>1, <1>4, <1>5, <1>6, <1>7

\* The handler learns what the DSP has to tell, or tells it.
LEMMA TellingKeepsStep ==
  ASSUME TInv, AInv, UNCHANGED program,
         \/ Source /\ (dsp.status8 \/ dsp.status16)
         \/ Acknowledge
  PROVE  AInv'
<1>0. /\ dsp \in DspState /\ dma \in Controllers /\ sound \in SoundState
  BY DEF TInv, CardInv, SoundInv
<1> DEFINE Same == /\ sound'.at = sound.at /\ sound'.op = sound.op /\ sound'.len = sound.len
                   /\ sound'.cmd = sound.cmd /\ sound'.next = sound.next
                   /\ sound'.last = sound.last
           Registers == /\ dsp'.active = dsp.active /\ dsp'.auto = dsp.auto /\ dsp'.e2 = dsp.e2
                        /\ dsp'.wide = dsp.wide /\ dsp'.remaining = dsp.remaining
                        /\ dsp'.blockLen = dsp.blockLen
           Channels1 == \A i \in 1..2 :
                          dma'[i].ch[1] = dma[i].ch[1] /\ (Masked(i)' <=> Masked(i))
           Requests == \/ dsp'.dreq = dsp.dreq /\ \A i \in 1..2 : Requested(i)' <=> Requested(i)
                       \/ dsp'.dreq = "none"
                          /\ \A i \in 1..2 : Requested(i)' => Requested(i) /\ dsp.dreq # "release"
<1>1. ASSUME Same, Registers, Channels1, Requests, ~Clean,
             \A i \in 1..2 : ~(todo'[i] > 0), Over => Settled'
      PROVE  AInv'
  <2>1. /\ Way' = Way /\ Way \in 1..2 /\ Channel' = Channel /\ Size' = Size
        /\ (Masked(Way)' <=> Masked(Way)) /\ (AllMasked' <=> AllMasked)
    <3>1. Way' = Way /\ Way \in 1..2 /\ Size' = Size
      BY <1>1 DEF Way, Side, Size
    <3>2. Channel' = Channel
      BY <1>1, <3>1 DEF Channel
    <3>3. Masked(Way)' <=> Masked(Way)
      BY <1>1, <3>1 DEF Masked
    <3>4. AllMasked' <=> AllMasked
      BY <1>1 DEF AllMasked
    <3> QED BY <3>1, <3>2, <3>3, <3>4
  <2>2. Programmed => Programmed'
    BY <1>1, <2>1 DEF Programmed
  <2>3. Aligned => Aligned'
    BY <1>1, <2>1 DEF Aligned
  <2>4. InCourse /\ sound.op \in Loops /\ ~sound.last => InCourse'
    BY <1>1, <2>3 DEF InCourse
  <2>5. Over => Over'
    BY <1>1, <2>1 DEF Over, Silent
  <2>6. Lines'
    BY <1>1, <2>1 DEF AInv, Lines
  <2>7. \/ sound.at = "wait" /\ Over /\ sound.cmd = "none"
        \/ /\ InCourse /\ sound.op \in Loops /\ ~sound.last
           /\ \/ sound.at = "send" /\ sound.next \in {"paused", "unmask"}
              \/ sound.at \in {"paused", "unmask", "wait"}
    BY <1>1, WhileTelling
  <2>8. BeforeBlocks' /\ Beginning'
    BY <1>1, <2>7 DEF BeforeBlocks, Beginning
  <2>9. Steering'
    <3>1. ~Unheard
      BY <1>1 DEF Unheard
    <3> QED BY <1>1, <2>1, <2>4, <2>7, <3>1 DEF AInv, Steering
  <2>10. Waiting'
    <3>1. ~Unheard /\ ~Identifying
      BY <1>1 DEF Unheard, Identifying
    <3> QED BY <1>1, <2>1, <2>4, <2>5, <2>7, <3>1 DEF AInv, Waiting
  <2>11. sound'.at \notin {"off", "reset", "fresh", "ready"} =>
           sound'.op # "none" /\ Programmed'
    BY <1>1, <2>2 DEF AInv
  <2> QED BY <2>6, <2>8, <2>9, <2>10, <2>11 DEF AInv
<1>2. CASE Source /\ (dsp.status8 \/ dsp.status16)
  <2>1. /\ UNCHANGED <<dsp, dma, todo, sound>> /\ Quiet
        /\ handler' = CASE dsp.status8 /\ dsp.status16 -> "ackBoth"
                        [] ~dsp.status16              -> "ack8"
                        [] ~dsp.status8               -> "ack16"
    BY <1>2 DEF Source
  <2>2. Same /\ Registers /\ Channels1 /\ Requests
    BY <2>1 DEF Masked, Requested
  <2>3. ~Clean
    BY <1>2 DEF Clean
  <2>4. \A i \in 1..2 : ~(todo'[i] > 0)
    BY <2>1, QuietIs
  <2>5. Over => Settled'
    <3>1. Over => ~sound.told
      BY <1>2 DEF Over, Settled
    <3>2. handler' = "ack8" => ~dsp.status16
      BY <1>2, <2>1
    <3>3. handler' = "ack16" => ~dsp.status8
      BY <1>2, <2>1
    <3> QED BY <2>1, <3>1, <3>2, <3>3 DEF Settled
  <2> QED BY <1>1, <2>2, <2>3, <2>4, <2>5
<1>3. CASE Acknowledge
  <2> DEFINE d == CASE handler = "ack8"    -> ReadStatus(dsp)
                    [] handler = "ack16"   -> ReadAck16(dsp)
                    [] handler = "ackBoth" -> ReadAck16(ReadStatus(dsp))
  <2>1. /\ handler \in {"ack8", "ack16", "ackBoth"} /\ Quiet
        /\ handler' = "none" /\ Written(d, dma) /\ UNCHANGED todo
        /\ sound' = [sound EXCEPT !.told = TRUE]
    BY <1>3 DEF Acknowledge, Chain
  <2>2. Same
    BY <1>0, <2>1 DEF SoundState
  <2>3. /\ d \in DspState /\ d.dreq = dsp.dreq
        /\ d.active = dsp.active /\ d.auto = dsp.auto /\ d.e2 = dsp.e2
        /\ d.wide = dsp.wide /\ d.remaining = dsp.remaining /\ d.blockLen = dsp.blockLen
        /\ d.status8 = (dsp.status8 /\ handler = "ack16")
        /\ d.status16 = (dsp.status16 /\ handler = "ack8")
    <3>1. CASE handler = "ack8"
      <4>1. d = [dsp EXCEPT !.pending8 = FALSE, !.status8 = FALSE]
        BY <3>1 DEF ReadStatus
      <4> HIDE DEF d
      <4> QED BY <1>0, <3>1, <4>1 DEF DspState
    <3>2. CASE handler = "ack16"
      <4>1. d = [dsp EXCEPT !.pending16 = FALSE, !.status16 = FALSE]
        BY <3>2 DEF ReadAck16
      <4> HIDE DEF d
      <4> QED BY <1>0, <3>2, <4>1 DEF DspState
    <3>3. CASE handler = "ackBoth"
      <4> DEFINE e == ReadStatus(dsp)
      <4>1. e = [dsp EXCEPT !.pending8 = FALSE, !.status8 = FALSE]
        BY DEF ReadStatus
      <4>2. d = [e EXCEPT !.pending16 = FALSE, !.status16 = FALSE]
        BY <3>3 DEF ReadAck16
      <4> HIDE DEF d, e
      <4>3. /\ e \in DspState /\ e.dreq = dsp.dreq
            /\ e.active = dsp.active /\ e.auto = dsp.auto /\ e.e2 = dsp.e2
            /\ e.wide = dsp.wide /\ e.remaining = dsp.remaining
            /\ e.blockLen = dsp.blockLen /\ e.status8 = FALSE
        BY <1>0, <4>1 DEF DspState
      <4> QED BY <3>3, <4>2, <4>3 DEF DspState
    <3> QED BY <2>1, <3>1, <3>2, <3>3
  <2> HIDE DEF d
  <2>4. /\ dsp'.active = d.active /\ dsp'.auto = d.auto /\ dsp'.e2 = d.e2
        /\ dsp'.wide = d.wide /\ dsp'.remaining = d.remaining /\ dsp'.blockLen = d.blockLen
        /\ dsp'.status8 = d.status8 /\ dsp'.status16 = d.status16
        /\ dsp'.dreq = "none"
        /\ \A i \in 1..2 : dma'[i].ch = dma[i].ch /\ dma'[i].mask = dma[i].mask
        /\ \A i \in 1..2 : Requested(i)' => Requested(i) /\ dsp.dreq # "release"
    BY <1>0, <2>1, <2>3, PortWrite
  <2>5. Registers /\ Requests
    BY <2>3, <2>4
  <2>6. Channels1
    BY <2>4 DEF Masked
  <2>7. ~Clean
    BY <2>1 DEF Clean
  <2>8. \A i \in 1..2 : ~(todo'[i] > 0)
    BY <2>1, QuietIs
  <2>9. Over => Settled'
    <3>1. Over => (handler = "ack8" => ~dsp.status16) /\ (handler = "ack16" => ~dsp.status8)
      BY DEF Over, Settled
    <3> QED BY <2>1, <2>3, <2>4, <3>1 DEF Settled
  <2> QED BY <1>1, <2>2, <2>5, <2>6, <2>7, <2>8, <2>9
<1> QED BY <1>2, <1>3

-----------------------------------------------------------------------------
(* A bus cycle. *)

\* What the bytes moved make of the two counts: in the middle of a block both
\* go down by one; at its end the channel is masked, or is at a block's end.
LEMMA CountDown ==
  ASSUME NEW left \in Nat, NEW count \in Words, NEW len \in 1..Limit, NEW loop \in BOOLEAN,
         IF loop THEN left \in 1..len /\ count + 1 \in {left, left + len} /\ 2 * len <= Limit
         ELSE count < len /\ left = (count + 1) % Limit
  PROVE  LET next == (left + Limit - 1) % Limit IN
         /\ ~loop => next = count
         /\ loop => next = left - 1 /\ len % Limit = len
<1>0. Limit \in Nat \ {0} /\ count \in 0..(Limit - 1) /\ len \in Nat
  BY LimitIs
<1> HIDE DEF Limit
<1>1. \A x \in 0..(Limit - 1) : (x + Limit) % Limit = x
  <2> SUFFICES ASSUME NEW x \in 0..(Limit - 1) PROVE (x + Limit) % Limit = x
    OBVIOUS
  <2>1. ((1 * Limit) + x) % Limit = x
    BY <1>0, DivisionOfSum
  <2>2. (1 * Limit) + x = x + Limit
    BY <1>0
  <2> QED BY <2>1, <2>2
<1>2. \A x \in 0..(Limit - 1) : x % Limit = x
  BY <1>0, BelowDivisor
<1>3. CASE loop
  <2>1. left - 1 \in 0..(Limit - 1) /\ len \in 0..(Limit - 1)
    BY <1>0, <1>3
  <2>2. left + Limit - 1 = (left - 1) + Limit
    BY <1>0, <1>3
  <2>3. ((left - 1) + Limit) % Limit = left - 1 /\ len % Limit = len
    BY <1>1, <1>2, <2>1
  <2> QED BY <1>3, <2>2, <2>3
<1>4. CASE ~loop /\ count + 1 < Limit
  <2>1. left = count + 1
    BY <1>0, <1>2, <1>4
  <2>2. left + Limit - 1 = count + Limit
    BY <1>0, <2>1
  <2>3. (count + Limit) % Limit = count
    BY <1>0, <1>1
  <2> QED BY <1>4, <2>2, <2>3
<1>5. CASE ~loop /\ count + 1 = Limit
  <2>1. left = 0
    BY <1>0, <1>5, ModuloIs
  <2>2. left + Limit - 1 = count
    BY <1>0, <1>5, <2>1
  <2>3. count % Limit = count
    BY <1>0, <1>2
  <2> QED BY <1>5, <2>2, <2>3
<1> QED BY <1>0, <1>3, <1>4, <1>5

\* A tick moves bytes only for the operation the driver waits for.
LEMMA CycleIsAwaited ==
  ASSUME TInv, AInv, NEW k \in 1..2, todo[k] > 0
  PROVE  /\ k = Way /\ k = Side(dsp.wide) /\ Requested(k) /\ ~Masked(k)
         /\ sound.at = "wait" /\ Programmed /\ sound.op # "none" /\ sound.cmd = "none"
         /\ Identifying \/ Over \/ (InCourse /\ dsp.active)
<1>1. k = Way /\ k = Side(dsp.wide) /\ Requested(k) /\ ~Masked(k)
  BY DEF AInv, Lines
<1>2. sound.at \in {"off", "reset", "fresh", "ready", "send", "wait", "paused", "unmask"}
      /\ sound.next \in {"wait", "paused", "unmask"}
  BY DEF TInv, SoundInv, SoundState
<1>3. ~AllMasked /\ ~Unrequested
  BY <1>1 DEF AllMasked, Unrequested
<1>4. ~AtRest /\ ~Unheard
  BY <1>3 DEF AtRest, Unheard
<1>5. sound.at = "wait"
  BY <1>2, <1>3, <1>4 DEF AInv, BeforeBlocks, Beginning, Steering
<1> QED BY <1>1, <1>4, <1>5 DEF AInv, Waiting

\* A byte is moved: in the middle of a block the counts stay together, and its
\* end is one for both.
LEMMA CycleKeepsStep ==
  ASSUME TInv, AInv, UNCHANGED program, NEW k \in 1..2, BusCycle(k)
  PROVE  AInv'
<1>0. /\ dsp \in DspState /\ dma \in Controllers /\ sound \in SoundState /\ dma[k] \in DmaState
      /\ todo \in [1..2 -> 0..MaxBurst]
  BY DEF TInv, CardInv, SoundInv, Controllers
<1> DEFINE m == Cycle(dma[k], 1)
<1>1. /\ k = Way /\ k = Side(dsp.wide) /\ Requested(k) /\ ~Masked(k)
      /\ sound.at = "wait" /\ Programmed /\ sound.op # "none" /\ sound.cmd = "none"
      /\ Identifying \/ Over \/ (InCourse /\ dsp.active)
  BY CycleIsAwaited DEF BusCycle
<1>2. /\ dma' = [dma EXCEPT ![k] = m] /\ todo[k] > 0
      /\ dsp' = IF dma[k].ch[1].type = "write" THEN SupplyByte(dsp) ELSE ReceiveByte(dsp)
      /\ todo' = [todo EXCEPT ![k] = IF 1 \in m.mask THEN 0 ELSE @ - 1]
      /\ UNCHANGED <<handler, sound>>
  BY DEF BusCycle
<1>3. /\ m \in DmaState /\ m.dreq = dma[k].dreq /\ m.ch[1].autoInit = dma[k].ch[1].autoInit
      /\ m.ch[1].baseCount = dma[k].ch[1].baseCount
      /\ dma[k].ch[1].count > 0 => m.ch[1].count = dma[k].ch[1].count - 1 /\ m.mask = dma[k].mask
      /\ dma[k].ch[1].count = 0 /\ dma[k].ch[1].autoInit =>
           m.ch[1].count = dma[k].ch[1].baseCount /\ m.mask = dma[k].mask
      /\ dma[k].ch[1].count = 0 /\ ~dma[k].ch[1].autoInit =>
           m.ch[1].count = 0 /\ m.mask = dma[k].mask \cup {1}
  BY <1>0, CycleIs
<1> HIDE DEF m
<1>4. /\ Way' = Way /\ Channel = dma[k].ch[1] /\ Channel' = m.ch[1] /\ Size' = Size
      /\ \A i \in 1..2 : Requested(i)' <=> Requested(i)
      /\ (Masked(k)' <=> 1 \in m.mask) /\ \A i \in 1..2 : i # k => (Masked(i)' <=> Masked(i))
  <2>1. Way' = Way /\ Size' = Size
    BY <1>2 DEF Way, Side, Size
  <2>2. dma'[k] = m /\ \A i \in 1..2 : i # k => dma'[i] = dma[i]
    BY <1>0, <1>2 DEF Controllers
  <2>3. Channel = dma[k].ch[1] /\ Channel' = m.ch[1]
    BY <1>1, <2>1, <2>2 DEF Channel
  <2>4. \A i \in 1..2 : Requested(i)' <=> Requested(i)
    BY <1>3, <2>2 DEF Requested
  <2> QED BY <2>1, <2>2, <2>3, <2>4 DEF Masked
<1>5. \A i \in 1..2 : todo'[i] > 0 => Requested(i)' /\ ~Masked(i)'
  <2> SUFFICES ASSUME NEW i \in 1..2, todo'[i] > 0 PROVE Requested(i)' /\ ~Masked(i)'
    OBVIOUS
  <2>1. CASE i = k
    BY <1>0, <1>1, <1>2, <1>4, <2>1
  <2>2. CASE i # k
    <3>1. todo[i] > 0
      BY <1>0, <1>2, <2>2
    <3> QED BY <1>1, <2>2, <3>1 DEF AInv, Lines
  <2> QED BY <2>1, <2>2
<1>6. Programmed'
  BY <1>1, <1>2, <1>3, <1>4 DEF Programmed
<1>7. ASSUME dsp'.wide = dsp.wide, dsp'.dreq \in {"none", "release"},
             Identifying' \/ Over' \/ (InCourse' /\ dsp'.active /\ (sound.op \notin Loops => ~Masked(Way)'))
      PROVE  AInv'
  <2>1. Lines'
    BY <1>1, <1>2, <1>4, <1>5, <1>7 DEF AInv, Lines
  <2>2. BeforeBlocks' /\ Beginning' /\ Steering'
    BY <1>1, <1>2 DEF BeforeBlocks, Beginning, Steering
  <2>3. Waiting'
    BY <1>1, <1>2, <1>7 DEF Waiting
  <2> QED BY <1>1, <1>2, <1>6, <2>1, <2>2, <2>3 DEF AInv
<1>8. CASE Identifying
  <2>1. CASE dma[k].ch[1].type = "write"
    <3>1. /\ ~dsp'.e2 /\ dsp'.dreq = "release" /\ dsp'.active = dsp.active
          /\ dsp'.wide = dsp.wide /\ dsp'.auto = dsp.auto
      BY <1>0, <1>2, <1>8, <2>1, SupplyByteIs DEF Identifying
    <3>2. Over'
      BY <1>2, <1>8, <3>1 DEF Over, Identifying, Silent, Settled, Clean, Loops
    <3> QED BY <1>7, <3>1, <3>2
  <2>2. CASE dma[k].ch[1].type # "write"
    <3>1. dsp' = dsp
      BY <1>0, <1>2, <1>8, <2>2, ReceiveByteIs DEF Identifying
    <3>2. Identifying'
      BY <1>2, <1>8, <3>1 DEF Identifying, Clean
    <3> QED BY <1>1, <1>7, <1>8, <3>1, <3>2 DEF Identifying
  <2> QED BY <2>1, <2>2
<1>9. CASE Over
  <2>1. dsp' = dsp
    <3>1. ReceiveByte(dsp) = dsp
      BY <1>0, <1>9, ReceiveByteIs DEF Over, Silent
    <3>2. SupplyByte(dsp) = dsp
      BY <1>0, <1>9, <3>1, SupplyByteIs DEF Over, Silent
    <3> QED BY <1>2, <3>1, <3>2
  <2>2. Over'
    BY <1>1, <1>2, <1>4, <1>9, <2>1 DEF Over, Silent, Settled
  <2>3. dsp.dreq \in {"none", "release"}
    BY DEF AInv, Lines
  <2> QED BY <1>7, <2>1, <2>2, <2>3
<1>10. CASE InCourse /\ dsp.active
  <2> DEFINE count == dma[k].ch[1].count  left == dsp.remaining  loop == sound.op \in Loops
             next == (left + Limit - 1) % Limit
  <2>0. /\ left \in Nat /\ count \in Words /\ sound.len \in 1..Limit /\ loop \in BOOLEAN
        /\ IF loop THEN /\ left \in 1..sound.len /\ count + 1 \in {left, left + sound.len}
                        /\ 2 * sound.len <= Limit
           ELSE count < sound.len /\ left = (count + 1) % Limit
    <3>1. left \in Nat /\ count \in Words
      BY <1>0, ChannelIs, LimitIs DEF DspState, ChannelState
    <3>2. sound.len \in 1..Limit
      BY <1>1 DEF TInv, SoundInv
    <3> QED BY <1>1, <1>4, <1>10, <3>1, <3>2 DEF InCourse, Aligned, Programmed, Size
  <2>1. /\ ~loop => next = count
        /\ loop => next = left - 1 /\ sound.len % Limit = sound.len
    <3> HIDE DEF count, left, loop
    <3> QED BY <2>0, CountDown
  <2>2. dsp' = ReceiveByte(dsp)
    BY <1>0, <1>2, <1>10, SupplyByteIs DEF InCourse
  <2>3. /\ dsp'.wide = dsp.wide /\ dsp'.auto = dsp.auto /\ dsp'.blockLen = dsp.blockLen
        /\ dsp'.e2 = dsp.e2
        /\ next # 0 => /\ dsp'.active /\ dsp'.remaining = next /\ dsp'.dreq = dsp.dreq
                       /\ dsp'.status8 = dsp.status8 /\ dsp'.status16 = dsp.status16
        /\ next = 0 /\ dsp.auto =>
             dsp'.active /\ dsp'.remaining = dsp.blockLen /\ dsp'.dreq = dsp.dreq
        /\ next = 0 /\ ~dsp.auto => ~dsp'.active /\ dsp'.remaining = 0 /\ dsp'.dreq = "release"
    BY <1>0, <1>10, <2>2, ReceiveByteIs
  <2> HIDE DEF next
  <2>4. CASE next # 0
    <3>0. count \in Nat
      BY <2>0, LimitIs
    <3>1. count > 0 /\ count \in Nat
      <4>1. CASE loop
        <5>1. left \in Nat /\ left - 1 # 0 /\ left >= 1
              /\ (count + 1 = left \/ count + 1 = left + sound.len) /\ sound.len \in Nat
          <6>1. /\ left \in 1..sound.len /\ sound.len \in Nat
                /\ (count + 1 = left \/ count + 1 = left + sound.len)
            BY <2>0, <4>1, LimitIs
          <6>2. left - 1 # 0
            BY <2>1, <2>4, <4>1
          <6> HIDE DEF count, left
          <6> QED BY <2>0, <6>1, <6>2
        <5> HIDE DEF count, left
        <5> QED BY <3>0, <5>1
      <4>2. CASE ~loop
        BY <2>1, <2>4, <3>0, <4>2
      <4> QED BY <4>1, <4>2
    <3>2. Aligned'
      <4>1. Channel'.count = count - 1
        BY <1>3, <1>4, <3>1
      <4>2. CASE loop
        BY <1>2, <2>0, <2>1, <2>3, <2>4, <3>1, <4>1, <4>2 DEF Aligned
      <4>3. CASE ~loop
        <5>1. (count - 1) + 1 = count /\ count - 1 < sound.len
          BY <2>0, <3>1, <4>3
        <5>2. count % Limit = count
          BY <2>0, ModuloIs
        <5> QED BY <1>2, <2>1, <2>3, <2>4, <4>1, <4>3, <5>1, <5>2 DEF Aligned
      <4> QED BY <4>2, <4>3
    <3>3. Clean => Clean'
      BY <1>2, <2>3, <2>4 DEF Clean
    <3>4. InCourse'
      BY <1>2, <1>10, <2>3, <2>4, <3>2, <3>3 DEF InCourse
    <3>5. ~Masked(Way)'
      BY <1>1, <1>3, <1>4, <3>1 DEF Masked
    <3> QED BY <1>7, <1>10, <2>3, <2>4, <3>4, <3>5 DEF InCourse
  <2>5. CASE next = 0 /\ dsp.auto
    <3>1. loop /\ (sound.last => sound.cmd = "exitAuto")
      BY <1>10, <2>5 DEF InCourse
    <3>2. ~sound.last
      BY <1>1, <3>1
    <3>3. left = 1 /\ dsp.blockLen = sound.len
      BY <1>10, <2>0, <2>1, <2>5, <3>1 DEF InCourse
    <3>4. Aligned'
      <4>1. CASE count > 0
        <5>1. Channel'.count = count - 1
          BY <1>3, <1>4, <4>1
        <5>2. /\ count + 1 = 1 + sound.len /\ sound.len \in Nat /\ sound.len >= 1
              /\ count \in Nat
          BY <2>0, <3>1, <3>3, <4>1, LimitIs
        <5>3. dsp'.remaining = sound.len
          BY <2>3, <2>5, <3>3
        <5> HIDE DEF count, left
        <5>4. Channel'.count + 1 = sound.len /\ sound.len \in 1..sound.len
          BY <5>1, <5>2
        <5> QED BY <1>2, <3>1, <5>3, <5>4 DEF Aligned
      <4>2. CASE count = 0
        <5>1. Channel'.count = (2 * sound.len) - 1
          BY <1>1, <1>3, <1>4, <3>1, <4>2 DEF Programmed, Size
        <5> QED BY <1>2, <2>0, <2>3, <2>5, <3>1, <3>3, <4>2, <5>1, LimitIs DEF Aligned
      <4> QED BY <2>0, <4>1, <4>2, LimitIs
    <3>5. InCourse'
      BY <1>2, <1>10, <2>3, <2>5, <3>1, <3>2, <3>4 DEF InCourse
    <3> QED BY <1>7, <1>10, <2>3, <2>5, <3>1, <3>5 DEF InCourse
  <2>6. CASE next = 0 /\ ~dsp.auto
    <3>1. loop => sound.last
      BY <1>10, <2>6 DEF InCourse
    <3>2. Clean
      BY <1>10, <3>1 DEF InCourse
    <3>3. Settled'
      BY <1>2, <3>2 DEF Clean, Settled
    <3>4. ~loop => Masked(Way)'
      <4>1. ~loop => count = 0 /\ ~dma[k].ch[1].autoInit
        BY <1>1, <1>4, <2>1, <2>6 DEF Programmed
      <4> QED BY <1>1, <1>3, <1>4, <4>1
    <3>5. Over'
      BY <1>2, <1>10, <2>3, <2>6, <3>1, <3>3, <3>4 DEF Over, Silent, InCourse
    <3> QED BY <1>7, <2>3, <2>6, <3>5
  <2> QED BY <2>4, <2>5, <2>6
<1> QED BY <1>1, <1>8, <1>9, <1>10

-----------------------------------------------------------------------------
(* The sound driver's steps. *)

\* What a step of the driver leaves as it was.
LEMMA DriverLines ==
  ASSUME AInv, TInv, SoundAt(sound.at), UNCHANGED <<program, todo, handler>>
  PROVE  /\ program' = program /\ handler' = "none" /\ handler = "none"
         /\ \A i \in 1..2 : ~(todo'[i] > 0) /\ ~(todo[i] > 0)
BY QuietIs DEF SoundAt

\* Once the DSP has been reset nothing is left of the transfer.
LEMMA ResetKeepsStep ==
  ASSUME TInv, AInv, UNCHANGED program, ResetDsp
  PROVE  AInv'
<1> DEFINE d == WriteReset(WriteReset(dsp, TRUE), FALSE)
           drained == Drained(dsp, dma)
           m == MaskAll(drained)
<1>0. /\ dsp \in DspState /\ dma \in Controllers /\ sound \in SoundState
  BY DEF TInv, CardInv, SoundInv
<1>1. /\ Written(d, m) /\ UNCHANGED <<todo, handler>>
      /\ sound.at \in {"off", "ready", "wait", "paused"} /\ SoundAt(sound.at)
      /\ (sound.at \in {"wait", "paused"} => ~dsp.wide)
      /\ sound' = [sound EXCEPT !.at = "reset", !.op = "none", !.len = 0,
                                !.last = FALSE, !.told = FALSE]
  BY DEF ResetDsp, SoundAt
<1>2. handler' = "none" /\ program' = program /\ \A i \in 1..2 : ~(todo'[i] > 0)
  BY <1>1, DriverLines
<1>3. /\ d \in DspState /\ d.dreq = "release"
      /\ ~d.active /\ ~d.auto /\ ~d.e2 /\ ~d.wide /\ ~d.status8 /\ ~d.status16
  <2> DEFINE e == [dsp EXCEPT !.resetting = TRUE]
  <2>1. d = WriteReset(e, FALSE)
    BY DEF WriteReset
  <2>2. e \in DspState /\ e.resetting
    BY <1>0 DEF DspState
  <2> HIDE DEF e
  <2>3. d = SoftwareReset(e)
    BY <2>1, <2>2 DEF WriteReset
  <2>4. SoftwareReset(e) \in DspState
    BY <2>2, PortsType
  <2>5. SoftwareReset(e) = [DspNew EXCEPT !.out = 1, !.dreq = "release",
                              !.blockLen = e.blockLen, !.remaining = e.remaining]
    BY DEF SoftwareReset
  <2> DEFINE g == SoftwareReset(e)
  <2>6. /\ g.dreq = "release" /\ ~g.active /\ ~g.auto /\ ~g.e2 /\ ~g.wide
        /\ ~g.status8 /\ ~g.status16
    BY <2>5 DEF DspNew
  <2> HIDE DEF g
  <2> QED BY <2>3, <2>4, <2>6 DEF g
<1>4. /\ drained \in Controllers
      /\ \A i \in 1..2 : 1 \in drained[i].dreq => Requested(i)
  <2>1. dsp.dreq \in {"none", "release"} /\ dsp.wide \in BOOLEAN
    BY <1>0 DEF AInv, Lines, DspState
  <2>2. /\ drained \in Controllers
        /\ \A i \in 1..2 : i # Side(dsp.wide) \/ dsp.dreq = "none" => drained[i].dreq = dma[i].dreq
        /\ dsp.dreq = "release" => 1 \notin drained[Side(dsp.wide)].dreq
    BY <1>0, DrainIs
  <2> HIDE DEF drained
  <2> QED BY <2>1, <2>2 DEF Requested
<1> HIDE DEF drained, d
<1>5. /\ m \in Controllers
      /\ \A i \in 1..2 : m[i].dreq = drained[i].dreq /\ 1 \in m[i].mask
  BY <1>4, MaskAllIs
<1> HIDE DEF m
<1>6. ~Requested(2)
  <2>1. sound.at \in {"off", "ready"} => ~Requested(2)
    BY DEF AInv, BeforeBlocks, AtRest, Unrequested
  <2>2. ~dsp.wide => ~Requested(2)
    BY DEF AInv, Lines, Side
  <2> QED BY <1>1, <2>1, <2>2
<1>7. /\ \A i \in 1..2 : ~Requested(i)'
      /\ \A i \in 1..2 : Masked(i)'
      /\ dsp'.dreq = "none" /\ ~dsp'.active /\ ~dsp'.auto /\ ~dsp'.e2 /\ ~dsp'.wide
      /\ ~dsp'.status8 /\ ~dsp'.status16
  <2>1. dsp' = TakeDspDreq(d) /\ dma' = Drained(d, m)
    BY <1>1 DEF Written
  <2>2. /\ dsp'.dreq = "none" /\ ~dsp'.active /\ ~dsp'.auto /\ ~dsp'.e2 /\ ~dsp'.wide
        /\ ~dsp'.status8 /\ ~dsp'.status16
    BY <1>3, <1>5, <2>1, DrainIs, DrainKeeps
  <2>3. Side(d.wide) = 1
    BY <1>3 DEF Side
  <2>4. /\ dma'[2].dreq = m[2].dreq /\ 1 \notin dma'[1].dreq
        /\ \A i \in 1..2 : dma'[i].mask = m[i].mask
    BY <1>3, <1>5, <2>1, <2>3, DrainIs
  <2>5. ~Requested(1)' /\ ~Requested(2)'
    BY <1>4, <1>5, <1>6, <2>4 DEF Requested
  <2>6. \A i \in 1..2 : Masked(i)'
    BY <1>5, <2>4 DEF Masked
  <2> QED BY <2>2, <2>5, <2>6
<1>8. /\ sound'.at = "reset" /\ sound'.op = "none" /\ sound'.len = 0 /\ ~sound'.last
      /\ ~sound'.told
  BY <1>0, <1>1 DEF SoundState
<1>9. AtRest'
  BY <1>2, <1>7, <1>8 DEF AtRest, Silent, AllMasked, Clean, Unrequested
<1>10. Lines'
  BY <1>2, <1>7, <1>8 DEF Lines
<1> QED BY <1>7, <1>8, <1>9, <1>10 DEF AInv, BeforeBlocks, Beginning, Steering, Waiting

\* The answer of the DSP that has been reset changes nothing of it.
LEMMA AwaitResetKeepsStep ==
  ASSUME TInv, AInv, UNCHANGED program, AwaitReset
  PROVE  AInv'
<1>0. /\ dsp \in DspState /\ dma \in Controllers /\ sound \in SoundState
  BY DEF TInv, CardInv, SoundInv
<1>1. /\ dsp' = ReadData(ReadStatus(dsp)) /\ sound.at = "reset" /\ SoundAt(sound.at)
      /\ sound' = [sound EXCEPT !.at = "fresh"] /\ UNCHANGED <<dma, todo, handler>>
  BY DEF AwaitReset, SoundTo, SoundAt
<1>2. handler' = "none" /\ program' = program /\ \A i \in 1..2 : ~(todo'[i] > 0)
  BY <1>1, DriverLines
<1>3. /\ AtRest /\ ~dsp.wide /\ sound.len = 0 /\ sound.op = "none" /\ ~sound.last
  <2>1. AtRest /\ ~dsp.wide /\ sound.len = 0 /\ sound.op = "none"
    BY <1>1 DEF AInv, BeforeBlocks
  <2> QED BY <2>1 DEF AInv, Lines, Loops
<1>4. /\ dsp'.dreq = dsp.dreq /\ dsp'.active = dsp.active /\ dsp'.auto = dsp.auto
      /\ dsp'.e2 = dsp.e2 /\ dsp'.wide = dsp.wide /\ ~dsp'.status8 /\ dsp'.status16 = dsp.status16
  <2> DEFINE e == ReadStatus(dsp)
  <2>1. /\ e \in DspState /\ e.dreq = dsp.dreq /\ e.active = dsp.active /\ e.auto = dsp.auto
        /\ e.e2 = dsp.e2 /\ e.wide = dsp.wide /\ ~e.status8 /\ e.status16 = dsp.status16
    BY <1>0 DEF ReadStatus, DspState
  <2> HIDE DEF e
  <2> DEFINE n == IF e.out = 0 THEN 0 ELSE e.out - 1
  <2>2. dsp' = [e EXCEPT !.out = n]
    BY <1>1 DEF ReadData, e
  <2> HIDE DEF n
  <2> QED BY <2>1, <2>2 DEF DspState
<1>5. /\ sound'.at = "fresh" /\ sound'.op = "none" /\ sound'.len = 0 /\ ~sound'.last
      /\ sound'.told = sound.told
  BY <1>0, <1>1, <1>3 DEF SoundState
<1>6. /\ \A i \in 1..2 : (Masked(i)' <=> Masked(i)) /\ (Requested(i)' <=> Requested(i))
  BY <1>1 DEF Masked, Requested
<1>7. AtRest'
  BY <1>2, <1>3, <1>4, <1>5, <1>6 DEF AtRest, Silent, AllMasked, Clean, Unrequested
<1>8. Lines'
  BY <1>2, <1>3, <1>4, <1>5, <1>6, <1>7 DEF Lines, AtRest, Unrequested, AllMasked
<1> QED BY <1>3, <1>4, <1>5, <1>7, <1>8 DEF AInv, BeforeBlocks, Beginning, Steering, Waiting

\* The channel as it is programmed, whatever it was before.
Upwards(old, n, dir, loops) == Program(old, 1, 0, n, dir, FALSE, loops)

\* It counts what the driver says.
LEMMA ProgramGives ==
  \A old \in DmaState, n \in Words, dir \in Types, loops \in BOOLEAN :
    LET new == Upwards(old, n, dir, loops) IN
    /\ new \in DmaState /\ new.dreq = old.dreq /\ 1 \notin new.mask
    /\ new.ch[1].count = n /\ new.ch[1].baseCount = n /\ (new.ch[1].autoInit <=> loops)
BY ProgramIs DEF Upwards

\* A block is begun while the DSP is silent.
LEMMA BeginKeepsStep ==
  ASSUME TInv, AInv, UNCHANGED program, Identify \/ Play
  PROVE  AInv'
<1>0. /\ dsp \in DspState /\ dma \in Controllers /\ sound \in SoundState
  BY DEF TInv, CardInv, SoundInv
<1>1. PICK op \in program.play \cup {"identify"}, len \in 1..Limit, type \in Types :
        LET size == IF op \in Loops THEN 2 * len ELSE len
            k    == Side(op \in Wides)
        IN  /\ size <= Limit /\ (op = "identify" => len = 1 /\ sound.at = "fresh")
            /\ op = "continue8" => sound.len = len /\ len < Limit /\ sound.op # "identify"
            /\ Written(dsp, [dma EXCEPT ![k] = Program(@, 1, 0, size - 1, type, FALSE, op \in Loops)])
            /\ sound'.op = op /\ sound'.len = len /\ ~sound'.last /\ ~sound'.told
            /\ sound'.at = "send" /\ sound'.next = "wait" /\ sound'.cmd = op
  <2>1. CASE Identify
    <3> DEFINE s == Sends(sound, "identify", 1, "wait")
    <3>1. /\ sound' = [s EXCEPT !.op = "identify", !.len = 1] /\ sound.at = "fresh"
          /\ Written(dsp, [dma EXCEPT ![1] = Program(@, 1, 0, 0, "write", FALSE, FALSE)])
      BY <2>1 DEF Identify, SoundAt
    <3>2. /\ s \in SoundState /\ s.at = "send" /\ s.next = "wait" /\ s.cmd = "identify"
          /\ s.last = sound.last /\ s.told = sound.told
      <4>1. 1 \in 1..Limit
        BY LimitIs
      <4>2. "identify" \in DspCommands /\ Operands("identify", 1) \in Seq(Bytes)
        BY <4>1, OperandsIs
      <4> DEFINE p == Operands("identify", 1)
      <4> HIDE DEF p
      <4>3. s = [sound EXCEPT !.at = "send", !.cmd = "identify", !.params = p, !.next = "wait"]
        BY DEF Sends, p
      <4>4. p \in Seq(Bytes)
        BY <4>2 DEF p
      <4> HIDE DEF s
      <4> QED BY <1>0, <4>2, <4>3, <4>4 DEF SoundState
    <3> HIDE DEF s
    <3>3. /\ sound'.op = "identify" /\ sound'.len = 1 /\ sound'.last = s.last
          /\ sound'.told = s.told /\ sound'.at = "send" /\ sound'.next = "wait"
          /\ sound'.cmd = "identify"
      BY <3>1, <3>2 DEF SoundState
    <3>4. ~sound.last /\ ~sound.told
      <4>1. Clean /\ sound.op = "none"
        BY <3>1 DEF AInv, BeforeBlocks, AtRest
      <4> QED BY <4>1 DEF AInv, Lines, Clean, Loops
    <3>5. /\ "identify" \notin Loops /\ "identify" \notin Wides /\ 1 \in 1..Limit /\ 1 <= Limit
          /\ "write" \in Types /\ 1 - 1 = 0
      BY LimitIs DEF Loops, Wides, Types
    <3>6. Side("identify" \in Wides) = 1
      BY <3>5 DEF Side
    <3>7. Written(dsp, [dma EXCEPT ![Side("identify" \in Wides)] =
                          Program(@, 1, 0, 1 - 1, "write", FALSE, "identify" \in Loops)])
      <4>1. ("identify" \in Loops) = FALSE
        BY <3>5
      <4> QED BY <3>1, <3>5, <3>6, <4>1
    <3> QED BY <3>1, <3>2, <3>3, <3>4, <3>5, <3>7
  <2>2. CASE Play
    <3>1. PICK op \in program.play, len \in Lens :
            LET size == IF op \in Loops THEN 2 * len ELSE len
                k    == Side(op \in Wides)
                type == IF op = "record8" THEN "write" ELSE "read"
            IN  /\ size <= Radix * Radix
                /\ op = "continue8" =>
                     sound.len = len /\ len < Radix * Radix /\ sound.op # "identify"
                /\ Written(dsp, [dma EXCEPT ![k] =
                                   Program(@, 1, 0, size - 1, type, FALSE, op \in Loops)])
                /\ sound' = [Sends(sound, op, len, "wait") EXCEPT
                               !.op = op, !.len = len, !.last = FALSE, !.told = FALSE]
      BY <2>2 DEF Play
    <3> DEFINE type == IF op = "record8" THEN "write" ELSE "read"
               s == Sends(sound, op, len, "wait")
    <3>2. op \in Plays /\ len \in 1..Limit /\ op # "identify" /\ type \in Types
      BY SoundAssumption DEF TInv, Limit, Plays, Singles, Loops, Types
    <3>3. op \in DspCommands /\ Operands(op, len) \in Seq(Bytes)
      BY <3>2, OperandsIs
    <3>4. /\ s \in SoundState /\ s.at = "send" /\ s.next = "wait" /\ s.cmd = op
      <4> DEFINE p == Operands(op, len)
      <4> HIDE DEF p
      <4>1. s = [sound EXCEPT !.at = "send", !.cmd = op, !.params = p, !.next = "wait"]
        BY DEF Sends, p
      <4>2. p \in Seq(Bytes)
        BY <3>3 DEF p
      <4> HIDE DEF s
      <4> QED BY <1>0, <3>3, <4>1, <4>2 DEF SoundState
    <3>5. sound' = [s EXCEPT !.op = op, !.len = len, !.last = FALSE, !.told = FALSE]
      BY <3>1
    <3> HIDE DEF s
    <3>6. /\ sound'.op = op /\ sound'.len = len /\ ~sound'.last /\ ~sound'.told
          /\ sound'.at = "send" /\ sound'.next = "wait" /\ sound'.cmd = op
      BY <3>4, <3>5 DEF SoundState
    <3>7. Written(dsp, [dma EXCEPT ![Side(op \in Wides)] =
                          Program(@, 1, 0, (IF op \in Loops THEN 2 * len ELSE len) - 1,
                                  type, FALSE, op \in Loops)])
      BY <3>1
    <3>8. /\ (IF op \in Loops THEN 2 * len ELSE len) <= Limit
          /\ op = "continue8" => sound.len = len /\ len < Limit /\ sound.op # "identify"
      BY <3>1 DEF Limit
    <3> HIDE DEF type
    <3> QED BY <3>2, <3>6, <3>7, <3>8
  <2> QED BY <2>1, <2>2
<1> DEFINE size == IF op \in Loops THEN 2 * len ELSE len
           k    == Side(op \in Wides)
           loop == op \in Loops
           count == size - 1
           g    == Program(dma[k], 1, 0, count, type, FALSE, loop)
           m    == [dma EXCEPT ![k] = g]
<1>2. /\ size \in 1..Limit /\ count \in Words /\ loop \in BOOLEAN /\ k \in 1..2
  <2>1. k \in 1..2
    BY DEF Side
  <2>2. len \in Nat /\ len >= 1 /\ Limit \in Nat /\ Words = 0..(Limit - 1)
    BY LimitIs
  <2>3. size <= Limit
    BY <1>1
  <2> HIDE DEF k
  <2> QED BY <2>1, <2>2, <2>3
<1>3. /\ Written(dsp, m) /\ UNCHANGED <<todo, handler>> /\ SoundAt(sound.at)
      /\ sound.at \in {"fresh", "ready"}
      /\ sound'.op = op /\ sound'.len = len /\ ~sound'.last /\ ~sound'.told
      /\ sound'.at = "send" /\ sound'.next = "wait" /\ sound'.cmd = op
  BY <1>1 DEF Identify, Play, SoundAt
<1>4. handler' = "none" /\ program' = program /\ \A i \in 1..2 : ~(todo'[i] > 0)
  BY <1>3, DriverLines
<1>5. dma[k] \in DmaState
  BY <1>0, <1>2 DEF Controllers
<1> HIDE DEF k, loop, count
<1>6. /\ g \in DmaState /\ g.dreq = dma[k].dreq /\ 1 \notin g.mask
      /\ g.ch[1].count = count /\ g.ch[1].baseCount = count
      /\ (g.ch[1].autoInit <=> loop)
  <2> DEFINE from == dma[k]  to == Upwards(from, count, type, loop)
  <2>1. from \in DmaState /\ count \in Words /\ loop \in BOOLEAN /\ type \in Types
    BY <1>2, <1>5
  <2> HIDE DEF from
  <2>2. /\ to \in DmaState /\ to.dreq = from.dreq /\ 1 \notin to.mask
        /\ to.ch[1].count = count /\ to.ch[1].baseCount = count
        /\ (to.ch[1].autoInit <=> loop)
    BY <2>1, ProgramGives
  <2>3. g = to
    BY DEF g, from, Upwards
  <2> HIDE DEF to, g
  <2> QED BY <2>2, <2>3 DEF from
<1> HIDE DEF g
<1>8. /\ m \in Controllers /\ m[k] = g /\ \A i \in 1..2 : i # k => m[i] = dma[i]
      /\ \A i \in 1..2 : m[i].dreq = dma[i].dreq
  BY <1>0, <1>2, <1>6 DEF Controllers
<1> HIDE DEF m
<1>9. /\ AtRest /\ ~sound.last
      /\ sound.at = "ready" => sound.op # "none"
             /\ (sound.op # "identify" => dsp.remaining = 0 /\ dsp.blockLen = sound.len % Limit)
      /\ sound.at = "fresh" => ~dsp.wide /\ sound.len = 0
  <2>1. sound.at = "fresh" => AtRest /\ ~dsp.wide /\ sound.len = 0 /\ sound.op = "none"
    BY DEF AInv, BeforeBlocks
  <2>2. sound.at = "fresh" => ~sound.last
    BY <2>1 DEF AInv, Lines, Loops
  <2>3. sound.at = "ready" =>
          /\ AtRest /\ sound.op # "none" /\ ~sound.last
          /\ sound.op # "identify" => dsp.remaining = 0 /\ dsp.blockLen = sound.len % Limit
    BY DEF AInv, BeforeBlocks
  <2> QED BY <1>3, <2>1, <2>2, <2>3
<1>10. /\ dsp'.active = dsp.active /\ dsp'.auto = dsp.auto /\ dsp'.e2 = dsp.e2
       /\ dsp'.wide = dsp.wide /\ dsp'.remaining = dsp.remaining
       /\ dsp'.blockLen = dsp.blockLen
       /\ dsp'.status8 = dsp.status8 /\ dsp'.status16 = dsp.status16
       /\ dsp'.dreq = "none"
       /\ \A i \in 1..2 : dma'[i].ch = m[i].ch /\ dma'[i].mask = m[i].mask
       /\ \A i \in 1..2 : Requested(i)' => Requested(i) /\ dsp.dreq # "release"
  BY <1>0, <1>3, <1>8, PortWrite
<1>11. /\ Way' = k /\ Channel' = g.ch[1] /\ Size' = size
       /\ ~Masked(Way)' /\ \A i \in 1..2 : i # k => Masked(i)'
  <2>1. Way' = k
    BY <1>3 DEF Way, k
  <2>2. Channel' = g.ch[1]
    BY <1>2, <1>8, <1>10, <2>1 DEF Channel
  <2>3. Size' = size
    BY <1>3 DEF Size
  <2>4. ~Masked(Way)'
    BY <1>2, <1>6, <1>8, <1>10, <2>1 DEF Masked
  <2>5. \A i \in 1..2 : i # k => Masked(i)'
    BY <1>8, <1>9, <1>10 DEF Masked, AtRest, AllMasked
  <2> QED BY <2>1, <2>2, <2>3, <2>4, <2>5
<1>12. Programmed'
  BY <1>2, <1>3, <1>6, <1>11 DEF Programmed, loop, count
<1>13. Silent' /\ Clean' /\ Unrequested'
  <2>1. Silent /\ Clean /\ Unrequested
    BY <1>9 DEF AtRest
  <2> QED BY <1>3, <1>4, <1>10, <2>1 DEF Silent, Clean, Unrequested
<1>14. Lines'
  BY <1>3, <1>4, <1>9, <1>10, <1>11, <1>13 DEF Lines, AtRest, Unrequested, AInv
<1>15. op = "continue8" =>
         dsp'.remaining = 0 /\ dsp'.blockLen = len /\ len < Limit
  <2> SUFFICES ASSUME op = "continue8"
               PROVE  dsp'.remaining = 0 /\ dsp'.blockLen = len /\ len < Limit
    OBVIOUS
  <2>1. sound.len = len /\ len < Limit /\ sound.op # "identify"
    BY <1>1
  <2>2. sound.at = "ready"
    BY <1>3, <1>9, <2>1
  <2>3. len % Limit = len
    <3>1. len \in Words
      BY <2>1, LimitIs
    <3> QED BY <3>1, ModuloIs
  <2> QED BY <1>9, <1>10, <2>1, <2>2, <2>3
<1>16. op = "identify" => ~dsp'.wide
  BY <1>1, <1>9, <1>10
<1>17. op # "none"
  BY SoundAssumption DEF TInv, Plays, Singles, Loops
<1>18. Beginning'
  BY <1>3, <1>6, <1>11, <1>13, <1>15, <1>16 DEF Beginning, count
<1>19. BeforeBlocks' /\ Steering' /\ Waiting'
  BY <1>3 DEF BeforeBlocks, Steering, Waiting
<1> QED BY <1>3, <1>12, <1>14, <1>17, <1>18, <1>19 DEF AInv

\* The driver masks its channel; the transfer is still where it was.
LEMMA MaskedIs ==
  ASSUME TInv, AInv, Written(dsp, MaskAll(dma)), sound'.op = sound.op, sound'.len = sound.len
  PROVE  /\ dsp'.active = dsp.active /\ dsp'.auto = dsp.auto /\ dsp'.e2 = dsp.e2
         /\ dsp'.wide = dsp.wide /\ dsp'.remaining = dsp.remaining
         /\ dsp'.blockLen = dsp.blockLen
         /\ dsp'.status8 = dsp.status8 /\ dsp'.status16 = dsp.status16
         /\ dsp'.dreq = "none" /\ AllMasked'
         /\ \A i \in 1..2 : Requested(i)' => Requested(i) /\ dsp.dreq # "release"
         /\ Way' = Way /\ Channel' = Channel /\ Size' = Size
<1>1. dsp \in DspState /\ dma \in Controllers
  BY DEF TInv, CardInv
<1> DEFINE m == MaskAll(dma)
<1>2. /\ m \in Controllers
      /\ \A i \in 1..2 : m[i].ch = dma[i].ch /\ m[i].dreq = dma[i].dreq /\ 1 \in m[i].mask
  BY <1>1, MaskAllIs
<1>3. Written(dsp, m)
  OBVIOUS
<1> HIDE DEF m
<1>4. /\ dsp'.active = dsp.active /\ dsp'.auto = dsp.auto /\ dsp'.e2 = dsp.e2
      /\ dsp'.wide = dsp.wide /\ dsp'.remaining = dsp.remaining
      /\ dsp'.blockLen = dsp.blockLen
      /\ dsp'.status8 = dsp.status8 /\ dsp'.status16 = dsp.status16
      /\ dsp'.dreq = "none"
      /\ \A i \in 1..2 : dma'[i].ch = m[i].ch /\ dma'[i].mask = m[i].mask
      /\ \A i \in 1..2 : Requested(i)' => Requested(i) /\ dsp.dreq # "release"
  BY <1>1, <1>2, <1>3, PortWrite
<1>5. AllMasked'
  BY <1>2, <1>4 DEF AllMasked, Masked
<1>6. Way' = Way /\ Size' = Size /\ Way \in 1..2
  BY DEF Way, Size, Side
<1>7. Channel' = Channel
  BY <1>2, <1>4, <1>6 DEF Channel
<1> QED BY <1>4, <1>5, <1>6, <1>7

\* A block is over, or the next one of the loop is waited for.
LEMMA ToldKeepsStep ==
  ASSUME TInv, AInv, UNCHANGED program, Told
  PROVE  AInv'
<1>0. sound \in SoundState
  BY DEF TInv, SoundInv
<1>1. sound.at = "wait" /\ sound.told /\ UNCHANGED <<todo, handler>> /\ SoundAt(sound.at)
  BY DEF Told, SoundAt
<1>2. handler' = "none" /\ program' = program /\ \A i \in 1..2 : ~(todo'[i] > 0)
  BY <1>1, DriverLines
<1>3. /\ Over \/ (InCourse /\ dsp.active)
      /\ sound.op # "none" /\ Programmed
      /\ sound.cmd = "none"
  <2>1. ~Clean
    BY <1>1 DEF Clean
  <2> QED BY <1>1, <2>1 DEF AInv, Waiting, Unheard, Identifying
<1>4. CASE /\ sound.op \notin Loops \/ sound.last
           /\ Written(dsp, MaskAll(dma))
           /\ sound' = [sound EXCEPT !.at = "ready", !.told = FALSE, !.last = FALSE]
  <2>1. /\ sound'.at = "ready" /\ ~sound'.told /\ ~sound'.last /\ sound'.op = sound.op
        /\ sound'.len = sound.len
    BY <1>0, <1>4 DEF SoundState
  <2>2. /\ dsp'.active = dsp.active /\ dsp'.auto = dsp.auto /\ dsp'.e2 = dsp.e2
        /\ dsp'.wide = dsp.wide /\ dsp'.remaining = dsp.remaining
        /\ dsp'.blockLen = dsp.blockLen
        /\ dsp'.status8 = dsp.status8 /\ dsp'.status16 = dsp.status16
        /\ dsp'.dreq = "none" /\ AllMasked'
        /\ \A i \in 1..2 : Requested(i)' => Requested(i) /\ dsp.dreq # "release"
    BY <1>4, <2>1, MaskedIs
  <2>3. Over
    BY <1>1, <1>3, <1>4 DEF InCourse, Clean
  <2>4. AtRest'
    <3>1. \A i \in 1..2 : ~Requested(i)'
      BY <2>2, <2>3 DEF Over
    <3>2. ~dsp'.status8 /\ ~dsp'.status16
      BY <1>1, <2>2, <2>3 DEF Over, Settled
    <3> QED BY <1>2, <2>1, <2>2, <2>3, <3>1, <3>2
            DEF AtRest, Over, Silent, Clean, Unrequested
  <2>5. Lines'
    BY <1>2, <2>1, <2>2, <2>4 DEF Lines, AInv, AtRest, Unrequested, AllMasked
  <2>6. BeforeBlocks'
    BY <1>3, <2>1, <2>2, <2>3, <2>4 DEF BeforeBlocks, Over
  <2> QED BY <2>1, <2>5, <2>6 DEF AInv, Beginning, Steering, Waiting
<1>5. CASE /\ sound.op \in Loops /\ ~sound.last
           /\ sound' = [sound EXCEPT !.told = FALSE]
           /\ UNCHANGED <<dsp, dma>>
  <2>1. /\ sound'.at = sound.at /\ sound'.last = sound.last /\ sound'.op = sound.op
        /\ sound'.len = sound.len /\ sound'.cmd = sound.cmd
    BY <1>0, <1>5 DEF SoundState
  <2>2. InCourse /\ dsp.active
    BY <1>3, <1>5 DEF Over
  <2>3. /\ Way' = Way /\ Size' = Size /\ Channel' = Channel
        /\ \A i \in 1..2 : (Masked(i)' <=> Masked(i)) /\ (Requested(i)' <=> Requested(i))
    BY <1>5, <2>1 DEF Way, Size, Channel, Masked, Requested
  <2>4. InCourse'
    <3>1. Aligned'
      BY <1>5, <2>1, <2>2, <2>3 DEF InCourse, Aligned
    <3> QED BY <1>5, <2>1, <2>2, <3>1 DEF InCourse
  <2>5. Lines'
    BY <1>2, <1>5, <2>1, <2>3 DEF AInv, Lines
  <2>6. Programmed'
    BY <1>3, <2>1, <2>3 DEF Programmed
  <2>7. Waiting'
    BY <1>3, <1>5, <2>1, <2>2, <2>4 DEF Waiting
  <2> QED BY <1>1, <1>3, <2>1, <2>5, <2>6, <2>7
          DEF AInv, BeforeBlocks, Beginning, Steering
<1> QED BY <1>4, <1>5 DEF Told

\* The driver stops the transfer, tells it to end, or tells it to go on.
LEMMA SteerKeepsStep ==
  ASSUME TInv, AInv, UNCHANGED program, EndLoop \/ Pause \/ Continue
  PROVE  AInv'
<1>0. sound \in SoundState /\ dsp \in DspState
  BY DEF TInv, SoundInv, CardInv
<1>1. UNCHANGED <<todo, handler>> /\ SoundAt(sound.at) /\ sound.at \in {"wait", "paused"}
  BY DEF EndLoop, Pause, Continue, SoundAt
<1>2. /\ handler' = "none" /\ handler = "none" /\ program' = program
      /\ \A i \in 1..2 : ~(todo'[i] > 0)
  BY <1>1, DriverLines
<1>3. sound.op # "none" /\ Programmed
  BY <1>1 DEF AInv
<1>4. ASSUME NEW cmd \in {"halt", "exitAuto", "continue8", "continue16", "resume16"},
             NEW next \in {"wait", "paused", "unmask"}
      PROVE  LET s == Sends(sound, cmd, 0, next) IN
             /\ s \in SoundState /\ s.at = "send" /\ s.cmd = cmd /\ s.next = next
             /\ s.op = sound.op /\ s.len = sound.len /\ s.last = sound.last
             /\ s.told = sound.told
  <2> DEFINE p == Operands(cmd, 0)  s == Sends(sound, cmd, 0, next)
  <2>1. p \in Seq(Bytes) /\ cmd \in DspCommands
    BY NoOperands
  <2>2. s = [sound EXCEPT !.at = "send", !.cmd = cmd, !.params = p, !.next = next]
    BY DEF Sends
  <2> HIDE DEF p, s
  <2>3. /\ s \in SoundState /\ s.at = "send" /\ s.cmd = cmd /\ s.next = next
        /\ s.op = sound.op /\ s.len = sound.len /\ s.last = sound.last /\ s.told = sound.told
    BY <1>0, <2>1, <2>2 DEF SoundState
  <2> QED BY <2>3 DEF s
<1>5. ASSUME Written(dsp, MaskAll(dma)), sound'.op = sound.op, sound'.len = sound.len,
             sound'.at = "send", sound'.last => sound.op \in Loops
      PROVE  Lines' /\ Programmed'
  <2>1. /\ dsp'.wide = dsp.wide /\ dsp'.dreq = "none" /\ AllMasked'
        /\ \A i \in 1..2 : Requested(i)' => Requested(i)
        /\ Way' = Way /\ Channel' = Channel /\ Size' = Size
    BY <1>5, MaskedIs
  <2>2. Lines'
    BY <1>2, <1>5, <2>1 DEF AInv, Lines, AllMasked
  <2>3. Programmed'
    BY <1>3, <1>5, <2>1 DEF Programmed
  <2> QED BY <2>2, <2>3
<1>6. CASE EndLoop
  <2>1. /\ sound.op \in Loops /\ ~sound.last /\ ~sound.told /\ ~dsp.status8 /\ ~dsp.status16
        /\ sound.at = "wait" /\ Written(dsp, MaskAll(dma))
        /\ sound' = [Sends(sound, "exitAuto", 0, "unmask") EXCEPT !.last = TRUE]
    BY <1>6 DEF EndLoop, SoundAt
  <2>2. /\ sound'.at = "send" /\ sound'.cmd = "exitAuto" /\ sound'.next = "unmask"
        /\ sound'.op = sound.op /\ sound'.len = sound.len /\ sound'.last
        /\ sound'.told = sound.told
    <3> DEFINE s == Sends(sound, "exitAuto", 0, "unmask")
    <3>1. /\ s \in SoundState /\ s.at = "send" /\ s.cmd = "exitAuto" /\ s.next = "unmask"
          /\ s.op = sound.op /\ s.len = sound.len /\ s.last = sound.last
          /\ s.told = sound.told
      BY <1>4
    <3>2. sound' = [s EXCEPT !.last = TRUE]
      BY <2>1
    <3> HIDE DEF s
    <3> QED BY <3>1, <3>2 DEF SoundState
  <2>3. /\ dsp'.active = dsp.active /\ dsp'.auto = dsp.auto /\ dsp'.e2 = dsp.e2
        /\ dsp'.wide = dsp.wide /\ dsp'.remaining = dsp.remaining
        /\ dsp'.blockLen = dsp.blockLen
        /\ dsp'.status8 = dsp.status8 /\ dsp'.status16 = dsp.status16
        /\ dsp'.dreq = "none" /\ AllMasked'
        /\ Way' = Way /\ Channel' = Channel
    BY <2>1, <2>2, MaskedIs
  <2>4. InCourse /\ dsp.active
    BY <2>1 DEF AInv, Waiting, Unheard, Deaf, Identifying, Over, Loops
  <2>5. InCourse'
    <3>1. Aligned'
      BY <2>2, <2>3, <2>4 DEF InCourse, Aligned
    <3>2. Clean'
      BY <1>2, <2>1, <2>2, <2>3 DEF Clean
    <3> QED BY <2>1, <2>2, <2>3, <2>4, <3>1, <3>2 DEF InCourse
  <2>6. Lines' /\ Programmed'
    BY <1>5, <2>1, <2>2
  <2>7. Steering'
    BY <2>1, <2>2, <2>3, <2>4, <2>5 DEF Steering
  <2> QED BY <1>3, <2>2, <2>6, <2>7 DEF AInv, BeforeBlocks, Beginning, Waiting
<1>7. CASE Pause
  <2>1. /\ ~sound.told /\ ~sound.last /\ sound.op # "identify" /\ sound.len < Limit
        /\ (sound.op \notin Loops => ~Masked(Way))
        /\ sound.at = "wait" /\ Written(dsp, MaskAll(dma))
        /\ sound' = Sends(sound, "halt", 0, "paused")
    BY <1>7 DEF Pause, SoundAt, Limit, Masked, Way
  <2>2. /\ sound'.at = "send" /\ sound'.cmd = "halt" /\ sound'.next = "paused"
        /\ sound'.op = sound.op /\ sound'.len = sound.len /\ sound'.last = sound.last
        /\ sound'.told = sound.told
    BY <1>4, <2>1
  <2>3. /\ dsp'.active = dsp.active /\ dsp'.auto = dsp.auto /\ dsp'.e2 = dsp.e2
        /\ dsp'.wide = dsp.wide /\ dsp'.remaining = dsp.remaining
        /\ dsp'.blockLen = dsp.blockLen
        /\ dsp'.status8 = dsp.status8 /\ dsp'.status16 = dsp.status16
        /\ dsp'.dreq = "none" /\ AllMasked'
        /\ \A i \in 1..2 : Requested(i)' => Requested(i)
        /\ Way' = Way /\ Channel' = Channel
    BY <2>1, <2>2, MaskedIs
  <2>4. Unheard \/ (InCourse /\ dsp.active)
    BY <2>1 DEF AInv, Waiting, Identifying, Over
  <2>5. Clean => Clean'
    BY <1>2, <2>2, <2>3 DEF Clean
  <2>6. Unheard => Unheard'
    BY <2>2, <2>3, <2>5 DEF Unheard, Deaf, Silent, Unrequested
  <2>7. InCourse => InCourse'
    <3>1. Aligned => Aligned'
      BY <2>2, <2>3 DEF Aligned
    <3> QED BY <2>1, <2>2, <2>3, <2>5, <3>1 DEF InCourse
  <2>8. Lines' /\ Programmed'
    BY <1>5, <2>1, <2>2
  <2>9. Steering'
    BY <2>1, <2>2, <2>3, <2>4, <2>6, <2>7 DEF Steering
  <2> QED BY <1>3, <2>2, <2>8, <2>9 DEF AInv, BeforeBlocks, Beginning, Waiting
<1>8. CASE Continue
  <2>1. PICK c \in {"continue16", "resume16", "continue8"} :
          /\ c \in IF sound.op \in Wides THEN {"continue16", "resume16"} ELSE {"continue8"}
          /\ sound' = Sends(sound, c, 0, "unmask")
    BY <1>8 DEF Continue
  <2>2. UNCHANGED <<dsp, dma>> /\ sound.at = "paused"
    BY <1>8 DEF Continue, SoundAt
  <2>3. /\ sound'.at = "send" /\ sound'.cmd = c /\ sound'.next = "unmask"
        /\ sound'.op = sound.op /\ sound'.len = sound.len /\ sound'.last = sound.last
        /\ sound'.told = sound.told
    BY <1>4, <2>1
  <2>4. /\ AllMasked /\ ~sound.last /\ sound.len < Limit
        /\ Unheard \/ (InCourse /\ ~dsp.active)
    BY <2>2 DEF AInv, Steering
  <2>5. /\ Way' = Way /\ Size' = Size /\ Channel' = Channel
        /\ \A i \in 1..2 : (Masked(i)' <=> Masked(i)) /\ (Requested(i)' <=> Requested(i))
    BY <2>2, <2>3 DEF Way, Size, Channel, Masked, Requested
  <2>6. Clean => Clean'
    BY <1>2, <2>2, <2>3 DEF Clean
  <2>7. Unheard => Unheard'
    BY <2>2, <2>3, <2>5, <2>6 DEF Unheard, Deaf, Silent, Unrequested
  <2>8. InCourse => InCourse'
    <3>1. Aligned => Aligned'
      BY <2>2, <2>3, <2>5 DEF Aligned
    <3> QED BY <2>2, <2>3, <2>4, <2>6, <3>1 DEF InCourse
  <2>9. Lines'
    BY <1>2, <2>2, <2>3, <2>5 DEF AInv, Lines
  <2>10. Programmed'
    BY <1>3, <2>3, <2>5 DEF Programmed
  <2>11. Steering'
    BY <2>1, <2>2, <2>3, <2>4, <2>5, <2>7, <2>8 DEF Steering, AllMasked
  <2> QED BY <1>3, <2>3, <2>9, <2>10, <2>11 DEF AInv, BeforeBlocks, Beginning, Waiting
<1> QED BY <1>6, <1>7, <1>8

\* The channel runs again.
LEMMA UnmaskKeepsStep ==
  ASSUME TInv, AInv, UNCHANGED program, Unmask
  PROVE  AInv'
<1> DEFINE k == Side(sound.op \in Wides)  g == WriteMask(dma[k], 1, FALSE)
           m == [dma EXCEPT ![k] = g]
<1>0. sound \in SoundState /\ dsp \in DspState /\ dma \in Controllers
  BY DEF TInv, SoundInv, CardInv
<1>1. /\ UNCHANGED <<todo, handler>> /\ SoundAt(sound.at) /\ sound.at = "unmask"
      /\ Written(dsp, m) /\ sound' = [sound EXCEPT !.at = "wait"]
  BY DEF Unmask, SoundAt, SoundTo
<1>2. /\ handler' = "none" /\ handler = "none" /\ program' = program
      /\ \A i \in 1..2 : ~(todo'[i] > 0)
  BY <1>1, DriverLines
<1>3. sound.op # "none" /\ Programmed /\ AllMasked /\ sound.cmd = "none"
      /\ (Unheard \/ (InCourse /\ dsp.active))
  BY <1>1 DEF AInv, Steering
<1>4. k \in 1..2 /\ k = Way
  BY DEF Side, Way
<1> HIDE DEF k
<1>5. g \in DmaState /\ g.dreq = dma[k].dreq /\ g.ch = dma[k].ch /\ 1 \notin g.mask
  <2>1. dma[k] \in DmaState
    BY <1>0, <1>4 DEF Controllers
  <2> QED BY <2>1, WriteMaskIs
<1> HIDE DEF g
<1>6. /\ m \in Controllers /\ m[k] = g /\ \A i \in 1..2 : i # k => m[i] = dma[i]
      /\ \A i \in 1..2 : m[i].dreq = dma[i].dreq /\ m[i].ch = dma[i].ch
  BY <1>0, <1>4, <1>5 DEF Controllers
<1> HIDE DEF m
<1>7. /\ dsp'.active = dsp.active /\ dsp'.auto = dsp.auto /\ dsp'.e2 = dsp.e2
      /\ dsp'.wide = dsp.wide /\ dsp'.remaining = dsp.remaining
      /\ dsp'.blockLen = dsp.blockLen
      /\ dsp'.status8 = dsp.status8 /\ dsp'.status16 = dsp.status16
      /\ dsp'.dreq = "none"
      /\ \A i \in 1..2 : dma'[i].ch = m[i].ch /\ dma'[i].mask = m[i].mask
      /\ \A i \in 1..2 : Requested(i)' => Requested(i) /\ dsp.dreq # "release"
  BY <1>0, <1>1, <1>6, PortWrite
<1>8. /\ sound'.at = "wait" /\ sound'.cmd = sound.cmd
      /\ sound'.op = sound.op /\ sound'.len = sound.len /\ sound'.last = sound.last
      /\ sound'.told = sound.told
  BY <1>0, <1>1 DEF SoundState
<1>9. /\ Way' = Way /\ Size' = Size /\ Channel' = Channel
      /\ ~Masked(Way)' /\ \A i \in 1..2 : i # Way => Masked(i)'
  <2>1. Way' = Way /\ Size' = Size
    BY <1>8 DEF Way, Size
  <2>2. Channel' = Channel
    BY <1>4, <1>6, <1>7, <2>1 DEF Channel
  <2>3. ~Masked(Way)'
    BY <1>4, <1>5, <1>6, <1>7, <2>1 DEF Masked
  <2>4. \A i \in 1..2 : i # Way => Masked(i)'
    BY <1>3, <1>4, <1>6, <1>7 DEF Masked, AllMasked
  <2> QED BY <2>1, <2>2, <2>3, <2>4
<1>10. Clean => Clean'
  BY <1>2, <1>7, <1>8 DEF Clean
<1>11. Unheard => Unheard'
  BY <1>7, <1>8, <1>10 DEF Unheard, Deaf, Silent, Unrequested
<1>12. InCourse => InCourse'
  <2>1. Aligned => Aligned'
    BY <1>7, <1>8, <1>9 DEF Aligned
  <2> QED BY <1>7, <1>8, <1>10, <2>1 DEF InCourse
<1>13. Lines'
  BY <1>2, <1>7, <1>8, <1>9 DEF AInv, Lines
<1>14. Programmed'
  BY <1>3, <1>8, <1>9 DEF Programmed
<1>15. Waiting'
  BY <1>3, <1>7, <1>8, <1>9, <1>11, <1>12 DEF Waiting
<1> QED BY <1>3, <1>8, <1>13, <1>14, <1>15 DEF AInv, BeforeBlocks, Beginning, Steering

-----------------------------------------------------------------------------
(* A command to the DSP. *)

\* A command that starts a transfer, once its parameters are there.
LEMMA StartedIs ==
  ASSUME NEW d \in DspState, ~d.auto, NEW op \in Singles \cup Loops, NEW len \in 1..Limit,
         op = "play8" => ~d.wide
  PROVE  LET g == Execute(d, op, Operands(op, len)) IN
         /\ g \in DspState /\ g.active /\ g.dreq = "assert"
         /\ g.remaining = len % Limit /\ g.blockLen = len % Limit
         /\ (g.wide <=> op \in Wides) /\ (g.auto <=> op \in Loops) /\ (g.e2 <=> d.e2)
         /\ (g.status8 <=> d.status8) /\ (g.status16 <=> d.status16)
<1> DEFINE lo == (len - 1) % Radix  hi == (len - 1) \div Radix
           length == len % Limit  e == Start(d, length)
           g == Execute(d, op, Operands(op, len))
<1>1. Length(lo, hi) = length /\ length \in Words
  <2>1. len \in Nat
    BY LimitIs
  <2>2. len % Limit \in Words
    BY <2>1, ModuloIs
  <2> QED BY <2>2, LengthIs
<1>2. LengthBytes(len) = <<lo, hi>>
  BY DEF LengthBytes
<1> HIDE DEF lo, hi, length
<1>3. /\ e \in DspState /\ e.blockLen = length /\ e.remaining = length /\ e.active
      /\ e.dreq = "assert" /\ e.wide = d.wide /\ e.auto = d.auto /\ e.e2 = d.e2
      /\ e.status8 = d.status8 /\ e.status16 = d.status16
  BY <1>1, StartIs
<1>4. op \in {"play8", "record8", "play8x", "play16", "loop8", "loop16"}
  BY DEF Singles, Loops
<1>5. CASE op = "play8"
  <2>1. g = Start(d, Length(<<lo, hi>>[1], <<lo, hi>>[2]))
    BY <1>2, <1>5 DEF Execute, Operands
  <2>2. <<lo, hi>>[1] = lo /\ <<lo, hi>>[2] = hi
    OBVIOUS
  <2>3. g = e
    BY <1>1, <2>1, <2>2
  <2>4. op \notin Wides /\ op \notin Loops
    BY <1>5 DEF Wides, Loops
  <2> HIDE DEF g, e
  <2> QED BY <1>3, <1>5, <2>3, <2>4 DEF g, length
<1>6. CASE op = "record8"
  <2>1. g = [Start(d, Length(<<lo, hi>>[1], <<lo, hi>>[2])) EXCEPT !.wide = FALSE]
    BY <1>2, <1>6 DEF Execute, Operands
  <2>2. <<lo, hi>>[1] = lo /\ <<lo, hi>>[2] = hi
    OBVIOUS
  <2>3. g = [e EXCEPT !.wide = FALSE]
    BY <1>1, <2>1, <2>2
  <2>4. op \notin Wides /\ op \notin Loops
    BY <1>6 DEF Wides, Loops
  <2> HIDE DEF e
  <2>5. /\ g \in DspState /\ g.active /\ g.dreq = "assert"
        /\ g.remaining = length /\ g.blockLen = length
        /\ ~g.wide /\ g.auto = d.auto /\ g.e2 = d.e2
        /\ g.status8 = d.status8 /\ g.status16 = d.status16
    <3> HIDE DEF g
    <3> QED BY <1>3, <2>3 DEF DspState
  <2> HIDE DEF g
  <2> QED BY <2>4, <2>5 DEF g, length
<1>7. CASE op \in {"play8x", "loop8", "play16", "loop16"}
  <2> DEFINE wide == op \in {"play16", "loop16"}  auto == op \in {"loop8", "loop16"}
             p == <<0>> \o <<lo, hi>>
  <2>1. g = [Start(d, Length(p[2], p[3])) EXCEPT !.wide = wide, !.auto = auto]
    BY <1>2, <1>7 DEF Execute, Operands
  <2>2. p[2] = lo /\ p[3] = hi
    OBVIOUS
  <2>3. g = [e EXCEPT !.wide = wide, !.auto = auto]
    BY <1>1, <2>1, <2>2
  <2>4. (wide <=> op \in Wides) /\ (auto <=> op \in Loops) /\ wide \in BOOLEAN /\ auto \in BOOLEAN
    BY <1>7 DEF Wides, Loops
  <2> HIDE DEF e, wide, auto
  <2>5. /\ g \in DspState /\ g.active /\ g.dreq = "assert"
        /\ g.remaining = length /\ g.blockLen = length
        /\ (g.wide <=> wide) /\ (g.auto <=> auto) /\ g.e2 = d.e2
        /\ g.status8 = d.status8 /\ g.status16 = d.status16
    <3> HIDE DEF g
    <3> QED BY <1>3, <2>3, <2>4, ZenonT(60) DEF DspState
  <2> HIDE DEF g
  <2> QED BY <2>4, <2>5 DEF g, length
<1> QED BY <1>4, <1>5, <1>6, <1>7

\* The commands that resume a transfer are heard for their own width.
LEMMA ResumedIs ==
  ASSUME NEW d \in DspState, NEW c \in {"continue8", "continue16", "resume16"}
  PROVE  LET g == Execute(d, c, <<>>) IN
         /\ (d.wide <=> c # "continue8") /\ d.blockLen > 0 /\ (c = "resume16" => d.remaining > 0)
              => g = Resume(d)
         /\ c = "continue8" /\ d.wide => g = [d EXCEPT !.out = @ + Answers(c)]
BY DEF Execute

\* Resume goes on where the transfer was, or begins the block again.
LEMMA ResumeIs ==
  ASSUME NEW d \in DspState
  PROVE  LET g == Resume(d) IN
         /\ g \in DspState /\ g.active /\ g.dreq = "assert"
         /\ g.remaining = (IF d.remaining = 0 THEN d.blockLen ELSE d.remaining)
         /\ g.blockLen = d.blockLen /\ g.wide = d.wide /\ g.auto = d.auto /\ g.e2 = d.e2
         /\ g.status8 = d.status8 /\ g.status16 = d.status16
<1> DEFINE left == IF d.remaining = 0 THEN d.blockLen ELSE d.remaining
<1>1. left \in Words
  BY DEF DspState
<1>2. Resume(d) = [d EXCEPT !.remaining = left, !.active = TRUE, !.dreq = "assert"]
  BY DEF Resume
<1> HIDE DEF left
<1> QED BY <1>1, <1>2 DEF DspState, left

\* A transfer begins or goes on: the card requests service of its controller.
LEMMA Asserted ==
  ASSUME TInv, AInv, NEW d \in DspState, Written(d, dma), d.dreq = "assert",
         \A i \in 1..2 : i # Side(d.wide) => ~Requested(i)
  PROVE  /\ dsp'.active = d.active /\ dsp'.auto = d.auto /\ dsp'.e2 = d.e2
         /\ dsp'.wide = d.wide /\ dsp'.remaining = d.remaining /\ dsp'.blockLen = d.blockLen
         /\ dsp'.status8 = d.status8 /\ dsp'.status16 = d.status16
         /\ dsp'.dreq = "none"
         /\ \A i \in 1..2 : dma'[i].ch = dma[i].ch /\ dma'[i].mask = dma[i].mask
         /\ \A i \in 1..2 : Requested(i)' => i = Side(dsp'.wide)
<1>0. dma \in Controllers
  BY DEF TInv, CardInv
<1>1. dsp' = TakeDspDreq(d) /\ dma' = Drained(d, dma)
  BY DEF Written
<1>2. /\ dsp'.active = d.active /\ dsp'.auto = d.auto /\ dsp'.e2 = d.e2
      /\ dsp'.wide = d.wide /\ dsp'.remaining = d.remaining /\ dsp'.blockLen = d.blockLen
      /\ dsp'.status8 = d.status8 /\ dsp'.status16 = d.status16
  BY <1>1, DrainKeeps
<1>3. /\ dsp'.dreq = "none"
      /\ \A i \in 1..2 : dma'[i].ch = dma[i].ch /\ dma'[i].mask = dma[i].mask
      /\ \A i \in 1..2 : i # Side(d.wide) => dma'[i].dreq = dma[i].dreq
  BY <1>0, <1>1, DrainIs
<1>4. \A i \in 1..2 : Requested(i)' => i = Side(dsp'.wide)
  BY <1>2, <1>3 DEF Requested
<1> QED BY <1>2, <1>3, <1>4

\* What the driver's state is once it has sent a byte of a command and the
\* whole of it is sent.
SentAll ==
  /\ sound'.at = sound.next /\ sound'.cmd = "none" /\ sound'.op = sound.op
  /\ sound'.len = sound.len /\ sound'.last = sound.last /\ sound'.told = sound.told

\* A byte is sent: it is not the last one, and only collected, or the DSP
\* executes the command.
LEMMA SentIs ==
  ASSUME TInv, SendByte
  PROVE  \/ /\ sound.cmd \in {sound.op, "none"} /\ sound.op # "none"
            /\ sound.cmd \notin {"halt", "exitAuto", "continue8", "continue16", "resume16"}
            /\ sound'.at = "send" /\ sound'.next = sound.next
            /\ sound'.cmd = "none" /\ sound'.op = sound.op
            /\ sound'.len = sound.len /\ sound'.last = sound.last /\ sound'.told = sound.told
            /\ \E d \in DspState :
                 /\ Written(d, dma) /\ d.dreq = dsp.dreq
                 /\ d.active = dsp.active /\ d.auto = dsp.auto /\ d.e2 = dsp.e2
                 /\ d.wide = dsp.wide /\ d.remaining = dsp.remaining
                 /\ d.blockLen = dsp.blockLen
                 /\ d.status8 = dsp.status8 /\ d.status16 = dsp.status16
         \/ /\ sound.cmd = "none" /\ sound.op # "none" /\ SentAll
            /\ sound.op \in Singles \cup Loops \cup {"identify"}
            /\ LET g == Execute(dsp, sound.op, Operands(sound.op, sound.len)) IN
               g \in DspState => \E d \in DspState :
                 /\ Written(d, dma) /\ d.dreq = g.dreq
                 /\ d.active = g.active /\ d.auto = g.auto /\ d.e2 = g.e2
                 /\ d.wide = g.wide /\ d.remaining = g.remaining
                 /\ d.blockLen = g.blockLen
                 /\ d.status8 = g.status8 /\ d.status16 = g.status16
         \/ /\ SentAll
            /\ sound.cmd \in {"halt", "exitAuto", "continue8", "continue16", "resume16"}
            /\ Written(Execute(dsp, sound.cmd, <<>>), dma)
<1> DEFINE rest == IF sound.cmd # "none" THEN sound.params ELSE Tail(sound.params)
           d == IF sound.cmd # "none" THEN WriteCommand(dsp, sound.cmd)
                ELSE WriteParam(dsp, Head(sound.params))
           sent == [sound EXCEPT !.cmd = "none", !.params = rest]
           over == [sent EXCEPT !.at = sound.next, !.next = "wait"]
           all == Operands(sound.op, sound.len)
<1>0. /\ dsp \in DspState /\ dma \in Controllers /\ sound \in SoundState /\ sound.at = "send"
      /\ sound.params \in Seq(Bytes) /\ sound.cmd \in DspCommands \cup {"none"}
      /\ sound.next \in {"wait", "paused", "unmask"}
      /\ sound.op \in Plays \cup {"none", "identify"}
      /\ (sound.op # "none" => sound.len \in 1..Limit)
  BY DEF TInv, CardInv, SoundInv, SoundState, SendByte, SoundAt
<1>1. /\ Written(d, dma)
      /\ sound' = IF rest = <<>> THEN over ELSE sent
  BY DEF SendByte
<1>2. rest \in Seq(Bytes)
  <2>1. sound.cmd = "none" => sound.params # <<>>
    BY <1>0, NoOperands DEF TInv, SoundInv, DspCommands, Params
  <2> QED BY <1>0, <2>1
<1> HIDE DEF rest
<1>3. /\ sent \in SoundState /\ sent.at = "send" /\ sent.cmd = "none" /\ sent.params = rest
      /\ sent.op = sound.op /\ sent.len = sound.len /\ sent.next = sound.next
      /\ sent.last = sound.last /\ sent.told = sound.told
  BY <1>0, <1>2 DEF SoundState
<1> HIDE DEF sent
<1>4. /\ over.at = sound.next /\ over.cmd = "none" /\ over.op = sound.op /\ over.len = sound.len
      /\ over.last = sound.last /\ over.told = sound.told
  BY <1>0, <1>3 DEF SoundState
<1> HIDE DEF over
<1>5. rest = <<>> => SentAll
  BY <1>1, <1>4 DEF SentAll
<1>6. rest # <<>> =>
        /\ sound'.at = "send" /\ sound'.next = sound.next
        /\ sound'.cmd = "none" /\ sound'.op = sound.op
        /\ sound'.len = sound.len /\ sound'.last = sound.last /\ sound'.told = sound.told
  BY <1>1, <1>3
<1>7. CASE sound.cmd = "none"
  <2>0. /\ sound.params # <<>> /\ sound.op # "none" /\ dsp.cmd = sound.op
        /\ dsp.params \o sound.params = all /\ dsp.params \in Seq(Bytes)
    BY <1>0, <1>7, NoOperands DEF TInv, SoundInv, DspCommands, Params, DspState
  <2> DEFINE byte == Head(sound.params)  p == Append(dsp.params, byte)
  <2>1. d = WriteParam(dsp, byte) /\ rest = Tail(sound.params)
    BY <1>7 DEF rest
  <2>2. /\ p \o rest = all /\ p \in Seq(Bytes)
        /\ rest # <<>> => Len(p) # Len(all)
    BY <1>0, <2>0, <2>1, NextByte
  <2>3. Len(all) = Params[sound.op] /\ sound.op \in Plays \cup {"identify"}
        /\ all \in Seq(Bytes)
    BY <1>0, <2>0, OperandsIs
  <2>4. byte \in Bytes /\ d \in DspState
    <3>1. byte \in Bytes
      BY <1>0, <2>0
    <3>2. sound.op # "none" /\ dsp.cmd # "none"
      BY <2>0
    <3> QED BY <1>0, <2>1, <3>1, <3>2, WriteParamType
  <2>5. CASE rest # <<>>
    <3>1. d = [dsp EXCEPT !.params = p]
      BY <2>0, <2>1, <2>2, <2>3, <2>5 DEF WriteParam
    <3> HIDE DEF d, p
    <3>2. /\ d.dreq = dsp.dreq
          /\ d.active = dsp.active /\ d.auto = dsp.auto /\ d.e2 = dsp.e2
          /\ d.wide = dsp.wide /\ d.remaining = dsp.remaining
          /\ d.blockLen = dsp.blockLen
          /\ d.status8 = dsp.status8 /\ d.status16 = dsp.status16
      BY <1>0, <3>1 DEF DspState
    <3> QED BY <1>1, <1>6, <1>7, <2>0, <2>4, <2>5, <3>2
  <2>6. CASE rest = <<>>
    <3>1. p = all
      <4> HIDE DEF p, all
      <4> QED BY <2>2, <2>6
    <3> DEFINE g == Execute(dsp, sound.op, all)  none == <<>>
    <3>2. d = [g EXCEPT !.cmd = "none", !.params = none]
      BY <2>0, <2>1, <2>3, <3>1 DEF WriteParam
    <3>3. sound.op \in Singles \cup Loops \cup {"identify"}
      <4>1. all # <<>>
        <5>1. Len(p) = Len(dsp.params) + 1
          BY <2>0
        <5>2. Len(dsp.params) \in Nat
          BY <2>0
        <5> HIDE DEF p, all
        <5> QED BY <3>1, <5>1, <5>2
      <4>2. sound.op # "continue8"
        BY <4>1 DEF Operands
      <4> QED BY <2>3, <4>2 DEF Plays
    <3>4. g \in DspState =>
            /\ d.dreq = g.dreq
            /\ d.active = g.active /\ d.auto = g.auto /\ d.e2 = g.e2
            /\ d.wide = g.wide /\ d.remaining = g.remaining
            /\ d.blockLen = g.blockLen
            /\ d.status8 = g.status8 /\ d.status16 = g.status16
      <4> HIDE DEF d, g, none
      <4> QED BY <3>2 DEF DspState
    <3>5. SentAll
      BY <1>5, <2>6
    <3> HIDE DEF d
    <3> QED BY <1>1, <1>7, <2>0, <2>4, <3>3, <3>4, <3>5 DEF all
  <2> QED BY <2>5, <2>6
<1>8. CASE sound.cmd # "none"
  <2>1. d = WriteCommand(dsp, sound.cmd) /\ rest = sound.params /\ sound.cmd \in DspCommands
    BY <1>0, <1>8 DEF rest
  <2>2. \/ sound.cmd = sound.op /\ sound.op # "none" /\ sound.params = all
        \/ /\ sound.cmd \in {"halt", "exitAuto", "continue8", "continue16", "resume16"}
           /\ sound.params = <<>>
    BY <1>0, <1>8 DEF TInv, SoundInv
  <2>3. CASE rest # <<>>
    <3>1. sound.cmd = sound.op /\ sound.op # "none" /\ sound.params = all
      BY <2>1, <2>2, <2>3
    <3>2. Len(all) = Params[sound.op] /\ all \in Seq(Bytes)
      BY <1>0, <3>1, OperandsIs
    <3>3. Params[sound.cmd] # 0
      <4> HIDE DEF all
      <4> QED BY <2>1, <2>3, <3>1, <3>2
    <3>7. sound.cmd \notin {"halt", "exitAuto", "continue8", "continue16", "resume16"}
      BY <3>3 DEF Params
    <3> DEFINE none == <<>>
    <3>4. d = [dsp EXCEPT !.cmd = sound.cmd, !.params = none]
      BY <2>1, <3>3 DEF WriteCommand
    <3>5. d \in DspState
      BY <1>0, <2>1, WriteCommandType
    <3> HIDE DEF d, none
    <3>6. /\ d.dreq = dsp.dreq
          /\ d.active = dsp.active /\ d.auto = dsp.auto /\ d.e2 = dsp.e2
          /\ d.wide = dsp.wide /\ d.remaining = dsp.remaining
          /\ d.blockLen = dsp.blockLen
          /\ d.status8 = dsp.status8 /\ d.status16 = dsp.status16
      BY <1>0, <3>4 DEF DspState
    <3> QED BY <1>1, <1>6, <2>3, <3>1, <3>5, <3>6, <3>7
  <2>4. CASE rest = <<>>
    <3>1. sound.cmd \in {"halt", "exitAuto", "continue8", "continue16", "resume16"}
      <4> SUFFICES ASSUME sound.cmd = sound.op, sound.op # "none", all = <<>>
                   PROVE  sound.cmd = "continue8"
        BY <2>1, <2>2, <2>4
      <4>1. Len(all) = Params[sound.op] /\ sound.op \in Plays \cup {"identify"}
        BY <1>0, OperandsIs
      <4>2. Params[sound.op] = 0
        BY <4>1
      <4> QED BY <4>1, <4>2 DEF Params, Plays, Singles, Loops
    <3>2. d = Execute(dsp, sound.cmd, <<>>)
      BY <2>1, <3>1 DEF WriteCommand, Params
    <3> QED BY <1>1, <1>5, <2>4, <3>1, <3>2
  <2> QED BY <2>3, <2>4
<1> QED BY <1>7, <1>8

\* "play8" is the one command that starts a transfer without setting its width,
\* so that after a 16-bit command it would be one.  Programs that use it leave
\* the 16-bit commands alone.
Own == \A p \in Programs : "play8" \in p.play => p.play \cap Wides = {}

\* The registers of the DSP are left alone by a byte that is not a command's
\* last, by one for the other width, and, but for one, by what steers.
Same(d) ==
  /\ d.dreq = dsp.dreq /\ d.auto = dsp.auto /\ d.e2 = dsp.e2
  /\ d.wide = dsp.wide /\ d.remaining = dsp.remaining /\ d.blockLen = dsp.blockLen
  /\ d.status8 = dsp.status8 /\ d.status16 = dsp.status16

\* Every byte the driver sends keeps the two in step.
LEMMA SendKeepsStep ==
  ASSUME TInv, AInv, UNCHANGED program, SendByte, Own
  PROVE  AInv'
<1>0. /\ dsp \in DspState /\ dma \in Controllers /\ sound \in SoundState
      /\ sound.next \in {"wait", "paused", "unmask"}
      /\ (sound.op # "none" => sound.len \in 1..Limit)
  BY DEF TInv, CardInv, SoundInv, SoundState
<1>1. UNCHANGED <<todo, handler>> /\ SoundAt(sound.at) /\ sound.at = "send"
  BY DEF SendByte, SoundAt
<1>2. /\ handler' = "none" /\ handler = "none" /\ program' = program
      /\ \A i \in 1..2 : ~(todo'[i] > 0)
  BY <1>1, DriverLines
<1>3. sound.op # "none" /\ Programmed /\ sound.len \in 1..Limit
      /\ sound.op \in program.play \cup {"identify"}
  BY <1>0, <1>1 DEF AInv, Lines
\* The frame: the driver is still about the same operation.
<1>4. ASSUME sound'.op = sound.op, sound'.len = sound.len,
             \A i \in 1..2 : dma'[i].ch = dma[i].ch /\ dma'[i].mask = dma[i].mask
      PROVE  /\ Way' = Way /\ Channel' = Channel /\ Size' = Size /\ Programmed'
             /\ \A i \in 1..2 : Masked(i)' <=> Masked(i)
             /\ (Masked(Way)' <=> Masked(Way)) /\ (AllMasked' <=> AllMasked)
  <2>1. Way' = Way /\ Way \in 1..2 /\ Size' = Size
    BY <1>4 DEF Way, Side, Size
  <2>2. Channel' = Channel
    BY <1>4, <2>1 DEF Channel
  <2>3. \A i \in 1..2 : Masked(i)' <=> Masked(i)
    BY <1>4 DEF Masked
  <2>4. Masked(Way)' <=> Masked(Way)
    BY <2>1, <2>3
  <2>5. AllMasked' <=> AllMasked
    BY <2>3 DEF AllMasked
  <2>6. Programmed'
    BY <1>3, <1>4, <2>1, <2>2 DEF Programmed
  <2> QED BY <2>1, <2>2, <2>3, <2>4, <2>5, <2>6
<1>5. ASSUME sound'.op = sound.op, sound'.len = sound.len, sound'.last = sound.last,
             \A i \in 1..2 : dma'[i].ch = dma[i].ch /\ dma'[i].mask = dma[i].mask,
             dsp'.wide => program.play \cap Wides # {}, dsp'.dreq = "none",
             \A i \in 1..2 : Requested(i)' => i = Side(dsp'.wide)
      PROVE  Lines'
  <2>1. Way' = Way /\ \A i \in 1..2 : Masked(i)' <=> Masked(i)
    BY <1>4, <1>5
  <2> QED BY <1>2, <1>5, <2>1 DEF AInv, Lines
\* A byte that starts nothing.
<1>6. ASSUME NEW d \in DspState, Written(d, dma), Same(d)
      PROVE  /\ dsp'.active = d.active /\ dsp'.auto = dsp.auto /\ dsp'.e2 = dsp.e2
             /\ dsp'.wide = dsp.wide /\ dsp'.remaining = dsp.remaining
             /\ dsp'.blockLen = dsp.blockLen
             /\ dsp'.status8 = dsp.status8 /\ dsp'.status16 = dsp.status16
             /\ dsp'.dreq = "none"
             /\ \A i \in 1..2 : dma'[i].ch = dma[i].ch /\ dma'[i].mask = dma[i].mask
             /\ \A i \in 1..2 : Requested(i)' => Requested(i) /\ dsp.dreq # "release"
             /\ (dsp'.wide => program.play \cap Wides # {})
             /\ \A i \in 1..2 : Requested(i)' => i = Side(dsp'.wide)
  <2>1. /\ dsp'.active = d.active /\ dsp'.auto = d.auto /\ dsp'.e2 = d.e2
        /\ dsp'.wide = d.wide /\ dsp'.remaining = d.remaining
        /\ dsp'.blockLen = d.blockLen
        /\ dsp'.status8 = d.status8 /\ dsp'.status16 = d.status16
        /\ dsp'.dreq = "none"
        /\ \A i \in 1..2 : dma'[i].ch = dma[i].ch /\ dma'[i].mask = dma[i].mask
        /\ \A i \in 1..2 : Requested(i)' => Requested(i) /\ dsp.dreq # "release"
    BY <1>0, <1>6, PortWrite DEF Same
  <2> QED BY <1>6, <2>1 DEF Same, AInv, Lines
\* A transfer that begins or goes on.
<1>7. ASSUME NEW d \in DspState, Written(d, dma), d.dreq = "assert",
             d.wide => program.play \cap Wides # {},
             (d.wide <=> dsp.wide) \/ Unrequested
      PROVE  /\ dsp'.active = d.active /\ dsp'.auto = d.auto /\ dsp'.e2 = d.e2
             /\ dsp'.wide = d.wide /\ dsp'.remaining = d.remaining
             /\ dsp'.blockLen = d.blockLen
             /\ dsp'.status8 = d.status8 /\ dsp'.status16 = d.status16
             /\ dsp'.dreq = "none"
             /\ \A i \in 1..2 : dma'[i].ch = dma[i].ch /\ dma'[i].mask = dma[i].mask
             /\ \A i \in 1..2 : Requested(i)' => i = Side(dsp'.wide)
             /\ (dsp'.wide => program.play \cap Wides # {})
  <2>1. \A i \in 1..2 : i # Side(d.wide) => ~Requested(i)
    BY <1>7 DEF AInv, Lines, Unrequested, Side
  <2>2. /\ dsp'.active = d.active /\ dsp'.auto = d.auto /\ dsp'.e2 = d.e2
        /\ dsp'.wide = d.wide /\ dsp'.remaining = d.remaining
        /\ dsp'.blockLen = d.blockLen
        /\ dsp'.status8 = d.status8 /\ dsp'.status16 = d.status16
        /\ dsp'.dreq = "none"
        /\ \A i \in 1..2 : dma'[i].ch = dma[i].ch /\ dma'[i].mask = dma[i].mask
        /\ \A i \in 1..2 : Requested(i)' => i = Side(dsp'.wide)
    BY <1>7, <2>1, Asserted
  <2> QED BY <1>7, <2>2
\* A command is being collected.
<1>8. CASE /\ sound.cmd \in {sound.op, "none"} /\ sound.op # "none"
           /\ sound.cmd \notin {"halt", "exitAuto", "continue8", "continue16", "resume16"}
           /\ sound'.at = "send" /\ sound'.next = sound.next
           /\ sound'.cmd = "none" /\ sound'.op = sound.op
           /\ sound'.len = sound.len /\ sound'.last = sound.last /\ sound'.told = sound.told
           /\ \E d \in DspState :
                /\ Written(d, dma) /\ d.dreq = dsp.dreq
                /\ d.active = dsp.active /\ d.auto = dsp.auto /\ d.e2 = dsp.e2
                /\ d.wide = dsp.wide /\ d.remaining = dsp.remaining
                /\ d.blockLen = dsp.blockLen
                /\ d.status8 = dsp.status8 /\ d.status16 = dsp.status16
  <2>1. PICK d \in DspState : Written(d, dma) /\ Same(d) /\ d.active = dsp.active
    BY <1>8 DEF Same
  <2>2. /\ dsp'.active = dsp.active /\ dsp'.auto = dsp.auto /\ dsp'.e2 = dsp.e2
        /\ dsp'.wide = dsp.wide /\ dsp'.remaining = dsp.remaining
        /\ dsp'.blockLen = dsp.blockLen
        /\ dsp'.status8 = dsp.status8 /\ dsp'.status16 = dsp.status16
        /\ dsp'.dreq = "none"
        /\ \A i \in 1..2 : dma'[i].ch = dma[i].ch /\ dma'[i].mask = dma[i].mask
        /\ \A i \in 1..2 : Requested(i)' => Requested(i) /\ dsp.dreq # "release"
        /\ (dsp'.wide => program.play \cap Wides # {})
        /\ \A i \in 1..2 : Requested(i)' => i = Side(dsp'.wide)
    BY <1>6, <2>1
  <2>3. Lines'
    BY <1>5, <1>8, <2>2
  <2>4. /\ Way' = Way /\ Channel' = Channel /\ Size' = Size /\ Programmed'
        /\ (Masked(Way)' <=> Masked(Way))
    BY <1>4, <1>8, <2>2
  <2>5. sound.next = "wait"
    BY <1>0, <1>1, <1>8 DEF AInv, Steering
  <2>6. /\ Silent /\ Clean /\ Unrequested /\ ~sound.last /\ ~Masked(Way)
        /\ Channel.count = Size - 1
        /\ sound.op = "continue8" =>
             dsp.remaining = 0 /\ dsp.blockLen = sound.len /\ sound.len < Limit
        /\ sound.op = "identify" => ~dsp.wide
    BY <1>1, <2>5 DEF AInv, Beginning
  <2>7. Silent' /\ Clean' /\ Unrequested'
    BY <1>2, <1>8, <2>2, <2>6 DEF Silent, Clean, Unrequested
  <2>8. Beginning'
    BY <1>8, <2>2, <2>4, <2>6, <2>7 DEF Beginning
  <2>9. BeforeBlocks' /\ Steering' /\ Waiting'
    BY <1>8, <2>5 DEF BeforeBlocks, Steering, Waiting
  <2> QED BY <1>3, <1>8, <2>3, <2>4, <2>8, <2>9 DEF AInv
\* A command is complete that begins a block.
<1>9. CASE /\ sound.cmd = "none" /\ sound.op # "none" /\ SentAll
           /\ sound.op \in Singles \cup Loops \cup {"identify"}
           /\ LET g == Execute(dsp, sound.op, Operands(sound.op, sound.len)) IN
              g \in DspState => \E d \in DspState :
                /\ Written(d, dma) /\ d.dreq = g.dreq
                /\ d.active = g.active /\ d.auto = g.auto /\ d.e2 = g.e2
                /\ d.wide = g.wide /\ d.remaining = g.remaining
                /\ d.blockLen = g.blockLen
                /\ d.status8 = g.status8 /\ d.status16 = g.status16
  <2> DEFINE g == Execute(dsp, sound.op, Operands(sound.op, sound.len))
  <2>1. sound.next = "wait"
    BY <1>0, <1>1, <1>9 DEF AInv, Steering
  <2>2. /\ Silent /\ Clean /\ Unrequested /\ ~sound.last /\ ~Masked(Way)
        /\ Channel.count = Size - 1
        /\ sound.op = "identify" => ~dsp.wide
    BY <1>1, <2>1 DEF AInv, Beginning
  <2>3. /\ sound'.at = "wait" /\ sound'.cmd = "none" /\ sound'.op = sound.op
        /\ sound'.len = sound.len /\ sound'.last = sound.last /\ sound'.told = sound.told
    BY <1>9, <2>1 DEF SentAll
  <2>4. CASE sound.op = "identify"
    <3>1. g = [dsp EXCEPT !.e2 = TRUE, !.dreq = "assert"]
      BY <2>4 DEF Execute
    <3>2. /\ g \in DspState /\ g.dreq = "assert" /\ g.active = dsp.active /\ g.auto = dsp.auto
          /\ g.e2 /\ g.wide = dsp.wide /\ g.status8 = dsp.status8 /\ g.status16 = dsp.status16
      <4> HIDE DEF g
      <4> QED BY <1>0, <3>1 DEF DspState
    <3> HIDE DEF g
    <3>3. PICK d \in DspState :
            /\ Written(d, dma) /\ d.dreq = g.dreq
            /\ d.active = g.active /\ d.auto = g.auto /\ d.e2 = g.e2
            /\ d.wide = g.wide /\ d.status8 = g.status8 /\ d.status16 = g.status16
      BY <1>9, <3>2 DEF g
    <3>4. /\ dsp'.active = d.active /\ dsp'.auto = d.auto /\ dsp'.e2 = d.e2
          /\ dsp'.wide = d.wide
          /\ dsp'.status8 = d.status8 /\ dsp'.status16 = d.status16
          /\ dsp'.dreq = "none"
          /\ \A i \in 1..2 : dma'[i].ch = dma[i].ch /\ dma'[i].mask = dma[i].mask
          /\ \A i \in 1..2 : Requested(i)' => i = Side(dsp'.wide)
          /\ (dsp'.wide => program.play \cap Wides # {})
      BY <1>7, <2>2, <2>4, <3>2, <3>3
    <3>5. Lines' /\ Programmed'
      BY <1>4, <1>5, <2>3, <3>4
    <3>6. Clean'
      BY <1>2, <2>2, <2>3, <3>2, <3>3, <3>4 DEF Clean
    <3>7. Identifying'
      BY <2>2, <2>3, <2>4, <3>2, <3>3, <3>4, <3>6 DEF Identifying, Silent
    <3>8. Waiting'
      BY <2>3, <3>7 DEF Waiting
    <3> QED BY <1>3, <2>3, <3>5, <3>8 DEF AInv, BeforeBlocks, Beginning, Steering
  <2>5. CASE sound.op \in Singles \cup Loops
    <3>0. sound.op # "identify" /\ sound.op \in program.play
      BY <1>3, <2>5 DEF Singles, Loops
    <3>1. ~dsp.auto /\ (sound.op = "play8" => ~dsp.wide)
      <4>1. sound.op = "play8" => program.play \cap Wides = {}
        BY <3>0 DEF TInv, Own
      <4> QED BY <2>2, <4>1 DEF Silent, AInv, Lines
    <3>2. /\ g \in DspState /\ g.active /\ g.dreq = "assert"
          /\ g.remaining = sound.len % Limit /\ g.blockLen = sound.len % Limit
          /\ (g.wide <=> sound.op \in Wides) /\ (g.auto <=> sound.op \in Loops)
          /\ (g.e2 <=> dsp.e2)
          /\ (g.status8 <=> dsp.status8) /\ (g.status16 <=> dsp.status16)
      BY <1>0, <1>3, <2>5, <3>1, StartedIs
    <3> HIDE DEF g
    <3>3. PICK d \in DspState :
            /\ Written(d, dma) /\ d.dreq = g.dreq
            /\ d.active = g.active /\ d.auto = g.auto /\ d.e2 = g.e2
            /\ d.wide = g.wide /\ d.remaining = g.remaining
            /\ d.blockLen = g.blockLen
            /\ d.status8 = g.status8 /\ d.status16 = g.status16
      BY <1>9, <3>2 DEF g
    <3>4. g.wide => program.play \cap Wides # {}
      BY <3>0, <3>2
    <3>5. /\ dsp'.active = d.active /\ dsp'.auto = d.auto /\ dsp'.e2 = d.e2
          /\ dsp'.wide = d.wide /\ dsp'.remaining = d.remaining
          /\ dsp'.blockLen = d.blockLen
          /\ dsp'.status8 = d.status8 /\ dsp'.status16 = d.status16
          /\ dsp'.dreq = "none"
          /\ \A i \in 1..2 : dma'[i].ch = dma[i].ch /\ dma'[i].mask = dma[i].mask
          /\ \A i \in 1..2 : Requested(i)' => i = Side(dsp'.wide)
          /\ (dsp'.wide => program.play \cap Wides # {})
      BY <1>7, <2>2, <3>2, <3>3, <3>4
    <3>6. Lines'
      BY <1>5, <2>3, <3>5
    <3>7. /\ Channel' = Channel /\ Programmed' /\ (Masked(Way)' <=> Masked(Way))
      BY <1>4, <2>3, <3>5
    <3>8. Clean'
      BY <1>2, <2>2, <2>3, <3>2, <3>3, <3>5 DEF Clean
    <3>9. Aligned'
      <4>1. dsp'.remaining = sound.len % Limit
        BY <3>2, <3>3, <3>5
      <4>2. sound.len \in Nat /\ sound.len >= 1 /\ Limit \in Nat
        BY <1>3, LimitIs
      <4>3. CASE sound.op \in Loops
        <5>1. Channel.count = (2 * sound.len) - 1 /\ 2 * sound.len <= Limit
          BY <1>3, <2>2, <4>3, LimitIs DEF Size, Programmed
        <5>2. sound.len \in Words
          BY <4>2, <5>1, LimitIs
        <5>3. dsp'.remaining = sound.len
          BY <4>1, <5>2, ModuloIs
        <5>4. Channel.count + 1 = dsp'.remaining + sound.len
          BY <4>2, <5>1, <5>3
        <5> QED BY <2>3, <3>7, <4>2, <4>3, <5>3, <5>4 DEF Aligned
      <4>4. CASE sound.op \notin Loops
        <5>1. Channel.count = sound.len - 1
          BY <2>2, <4>4 DEF Size
        <5>2. Channel.count < sound.len /\ Channel.count + 1 = sound.len
          BY <4>2, <5>1
        <5> QED BY <2>3, <3>7, <4>1, <4>4, <5>2 DEF Aligned
      <4> QED BY <4>3, <4>4
    <3>10. InCourse' /\ dsp'.active
      BY <2>2, <2>3, <3>0, <3>2, <3>3, <3>5, <3>8, <3>9, <1>3 DEF InCourse, Silent
    <3>11. Waiting'
      BY <2>2, <2>3, <3>7, <3>10 DEF Waiting
    <3> QED BY <1>3, <2>3, <3>6, <3>7, <3>11 DEF AInv, BeforeBlocks, Beginning, Steering
  <2> QED BY <1>9, <2>4, <2>5
<1>10. CASE /\ SentAll
            /\ sound.cmd \in {"halt", "exitAuto", "continue8", "continue16", "resume16"}
            /\ Written(Execute(dsp, sound.cmd, <<>>), dma)
  <2> DEFINE none == <<>>  d == Execute(dsp, sound.cmd, none)
  <2>1. /\ sound'.at = sound.next /\ sound'.cmd = "none" /\ sound'.op = sound.op
        /\ sound'.len = sound.len /\ sound'.last = sound.last /\ sound'.told = sound.told
    BY <1>10 DEF SentAll
  <2>2. Written(d, dma)
    BY <1>10
  <2> HIDE DEF none
  \* A byte that leaves the registers as they are.
  <2>3. ASSUME d \in DspState, Same(d)
        PROVE  /\ dsp'.active = d.active /\ Lines' /\ Programmed'
               /\ (Masked(Way)' <=> Masked(Way)) /\ (AllMasked' <=> AllMasked)
               /\ (Unheard /\ ~d.active => Unheard')
               /\ (InCourse /\ ~sound.last => InCourse')
    <3> HIDE DEF d
    <3>1. /\ dsp'.active = d.active /\ dsp'.auto = dsp.auto /\ dsp'.e2 = dsp.e2
          /\ dsp'.wide = dsp.wide /\ dsp'.remaining = dsp.remaining
          /\ dsp'.blockLen = dsp.blockLen
          /\ dsp'.status8 = dsp.status8 /\ dsp'.status16 = dsp.status16
          /\ dsp'.dreq = "none"
          /\ \A i \in 1..2 : dma'[i].ch = dma[i].ch /\ dma'[i].mask = dma[i].mask
          /\ \A i \in 1..2 : Requested(i)' => Requested(i) /\ dsp.dreq # "release"
          /\ (dsp'.wide => program.play \cap Wides # {})
          /\ \A i \in 1..2 : Requested(i)' => i = Side(dsp'.wide)
      BY <1>6, <2>2, <2>3
    <3>2. Lines'
      BY <1>5, <2>1, <3>1
    <3>3. /\ Way' = Way /\ Channel' = Channel /\ Programmed'
          /\ (Masked(Way)' <=> Masked(Way)) /\ (AllMasked' <=> AllMasked)
      BY <1>4, <2>1, <3>1
    <3>4. Clean => Clean'
      BY <1>2, <2>1, <3>1 DEF Clean
    <3>5. Unheard /\ ~d.active => Unheard'
      BY <2>1, <3>1, <3>4 DEF Unheard, Deaf, Silent, Unrequested
    <3>6. Aligned => Aligned'
      BY <2>1, <3>1, <3>3 DEF Aligned
    <3>7. InCourse /\ ~sound.last => InCourse'
      BY <2>1, <3>1, <3>4, <3>6 DEF InCourse
    <3> QED BY <3>1, <3>2, <3>3, <3>5, <3>7
  \* The transfer goes on, or the block of the same length is begun again.
  <2>4. ASSUME NEW left \in Words, d = Resume(dsp), ~sound.last,
               sound.op \notin Loops => Clean,
               sound.op \notin {"identify", "none"}, ~dsp.e2,
               dsp.wide <=> sound.op \in Wides,
               dsp.auto <=> sound.op \in Loops, dsp.blockLen = sound.len % Limit,
               left = (IF dsp.remaining = 0 THEN dsp.blockLen ELSE dsp.remaining),
               IF sound.op \in Loops
               THEN /\ left \in 1..sound.len
                    /\ Channel.count + 1 \in {left, left + sound.len}
               ELSE Channel.count < sound.len /\ left = (Channel.count + 1) % Limit
        PROVE  /\ InCourse' /\ dsp'.active /\ Lines' /\ Programmed'
               /\ (Masked(Way)' <=> Masked(Way)) /\ (AllMasked' <=> AllMasked)
    <3>1. /\ d \in DspState /\ d.active /\ d.dreq = "assert" /\ d.remaining = left
          /\ d.blockLen = dsp.blockLen /\ d.wide = dsp.wide /\ d.auto = dsp.auto
          /\ d.e2 = dsp.e2 /\ d.status8 = dsp.status8 /\ d.status16 = dsp.status16
      <4> HIDE DEF d
      <4> QED BY <1>0, <2>4, ResumeIs
    <3> HIDE DEF d
    <3>2. d.wide => program.play \cap Wides # {}
      BY <3>1 DEF AInv, Lines
    <3>3. /\ dsp'.active = d.active /\ dsp'.auto = d.auto /\ dsp'.e2 = d.e2
          /\ dsp'.wide = d.wide /\ dsp'.remaining = d.remaining
          /\ dsp'.blockLen = d.blockLen
          /\ dsp'.status8 = d.status8 /\ dsp'.status16 = d.status16
          /\ dsp'.dreq = "none"
          /\ \A i \in 1..2 : dma'[i].ch = dma[i].ch /\ dma'[i].mask = dma[i].mask
          /\ \A i \in 1..2 : Requested(i)' => i = Side(dsp'.wide)
          /\ (dsp'.wide => program.play \cap Wides # {})
      BY <1>7, <2>2, <3>1, <3>2
    <3>4. Lines'
      BY <1>5, <2>1, <3>3
    <3>5. /\ Channel' = Channel /\ Programmed'
          /\ (Masked(Way)' <=> Masked(Way)) /\ (AllMasked' <=> AllMasked)
      BY <1>4, <2>1, <3>3
    <3>6. Clean => Clean'
      BY <1>2, <2>1, <3>1, <3>3 DEF Clean
    <3>7. Aligned'
      <4>1. dsp'.remaining = left
        BY <3>1, <3>3
      <4> QED BY <2>1, <2>4, <3>5, <4>1 DEF Aligned
    <3>8. InCourse'
      BY <2>1, <2>4, <3>1, <3>3, <3>6, <3>7 DEF InCourse
    <3> QED BY <3>1, <3>3, <3>4, <3>5, <3>8
  \* The command is for the other width.
  <2>5. ASSUME sound.cmd = "continue8", dsp.wide
        PROVE  d \in DspState /\ Same(d) /\ d.active = dsp.active
    <3>1. d = [dsp EXCEPT !.out = @ + Answers(sound.cmd)] /\ Answers(sound.cmd) = 0
      BY <1>0, <2>5, ResumedIs DEF none, Answers
    <3> HIDE DEF d
    <3> QED BY <1>0, <3>1 DEF DspState, Same
  \* A block of the same length is begun.
  <2>6. CASE sound.next = "wait"
    <3>1. /\ Silent /\ Clean /\ Unrequested /\ ~sound.last /\ ~Masked(Way)
          /\ Channel.count = Size - 1 /\ sound.cmd \in {sound.op, "none"}
          /\ sound.op = "continue8" =>
               dsp.remaining = 0 /\ dsp.blockLen = sound.len /\ sound.len < Limit
      BY <1>1, <2>6 DEF AInv, Beginning
    <3>2. sound.op = "continue8" /\ sound.cmd = "continue8"
      BY <1>3, <1>10, <3>1 DEF TInv, SoundInv, SoundState, Plays, Singles, Loops
    <3>3. sound.op \notin Loops /\ sound.op \notin Wides
      BY <3>2 DEF Loops, Wides
    <3>4. (Unheard' \/ (InCourse' /\ dsp'.active)) /\ Lines' /\ Programmed' /\ ~Masked(Way)'
      <4>1. CASE dsp.wide
        <5>1. Unheard /\ ~dsp.active
          BY <3>1, <3>2, <4>1 DEF Unheard, Deaf, Silent
        <5> HIDE DEF d
        <5> QED BY <2>3, <2>5, <3>1, <3>2, <4>1, <5>1
      <4>2. CASE ~dsp.wide
        <5>1. sound.len \in Nat /\ sound.len > 0 /\ sound.len < Limit /\ Limit \in Nat
          BY <1>3, <3>1, <3>2, LimitIs
        <5>2. sound.len \in Words /\ sound.len % Limit = sound.len
          <6> DEFINE n == sound.len
          <6>1. n \in Nat /\ n < Limit /\ Limit \in Nat
            BY <5>1
          <6> HIDE DEF n
          <6>2. n \in Words
            BY <6>1, LimitIs
          <6>3. n % Limit = n
            BY <6>2, ModuloIs
          <6> QED BY <6>2, <6>3 DEF n
        <5>3. d = Resume(dsp)
          BY <1>0, <3>1, <3>2, <4>2, <5>1, ResumedIs DEF none
        <5>4. Channel.count = sound.len - 1
          BY <3>1, <3>3 DEF Size
        <5>5. Channel.count < sound.len /\ Channel.count + 1 = sound.len
          BY <5>1, <5>4
        <5> DEFINE left == sound.len
        <5>6. left = (IF dsp.remaining = 0 THEN dsp.blockLen ELSE dsp.remaining)
          BY <3>1, <3>2
        <5>7. /\ ~dsp.e2 /\ (dsp.wide <=> sound.op \in Wides) /\ (dsp.auto <=> sound.op \in Loops)
              /\ dsp.blockLen = sound.len % Limit
          BY <3>1, <3>2, <3>3, <4>2, <5>2 DEF Silent
        <5> HIDE DEF d
        <5> QED BY <2>4, <3>1, <3>2, <3>3, <5>2, <5>3, <5>5, <5>6, <5>7
      <4> QED BY <4>1, <4>2
    <3>5. Waiting'
      BY <2>1, <3>4 DEF Waiting
    <3> QED BY <1>3, <2>1, <2>6, <3>4, <3>5 DEF AInv, BeforeBlocks, Beginning, Steering
  \* The transfer is halted.
  <2>7. CASE sound.next = "paused"
    <3>1. /\ AllMasked /\ sound.cmd = "halt" /\ ~sound.last /\ sound.len < Limit
          /\ Unheard \/ (InCourse /\ dsp.active)
      BY <1>1, <2>7 DEF AInv, Steering
    <3>2. d = [dsp EXCEPT !.active = FALSE]
      BY <3>1 DEF Execute
    <3>3. d \in DspState /\ Same(d) /\ ~d.active
      <4> HIDE DEF d
      <4> QED BY <1>0, <3>2 DEF DspState, Same
    <3> HIDE DEF d
    <3>4. /\ Lines' /\ Programmed' /\ AllMasked'
          /\ Unheard' \/ (InCourse' /\ ~dsp'.active)
      BY <2>3, <3>1, <3>3
    <3>5. Steering'
      BY <2>1, <2>7, <3>1, <3>4 DEF Steering
    <3> QED BY <1>3, <2>1, <2>7, <3>4, <3>5 DEF AInv, BeforeBlocks, Beginning, Waiting
  <2>8. CASE sound.next = "unmask"
    <3>1. /\ AllMasked
          /\ \/ /\ sound.cmd = "exitAuto" /\ sound.op \in Loops /\ sound.last
                /\ InCourse /\ dsp.active
             \/ /\ ~sound.last /\ sound.len < Limit
                /\ sound.cmd \in IF sound.op \in Wides THEN {"continue16", "resume16"}
                                 ELSE {"continue8"}
                /\ Unheard \/ (InCourse /\ ~dsp.active)
      BY <1>1, <2>8 DEF AInv, Steering
    <3>2. /\ Lines' /\ Programmed' /\ AllMasked'
          /\ Unheard' \/ (InCourse' /\ dsp'.active)
      \* The loop shall end with its block.
      <4>1. CASE /\ sound.cmd = "exitAuto" /\ sound.op \in Loops /\ sound.last
                 /\ InCourse /\ dsp.active
        <5>1. d = [dsp EXCEPT !.auto = FALSE]
          BY <4>1 DEF Execute
        <5> HIDE DEF d
        <5>2. /\ d \in DspState /\ d.dreq = dsp.dreq /\ ~d.auto /\ d.active = dsp.active
              /\ d.e2 = dsp.e2
              /\ d.wide = dsp.wide /\ d.remaining = dsp.remaining /\ d.blockLen = dsp.blockLen
              /\ d.status8 = dsp.status8 /\ d.status16 = dsp.status16
          BY <1>0, <5>1 DEF DspState
        <5>3. /\ dsp'.active = d.active /\ dsp'.auto = d.auto /\ dsp'.e2 = d.e2
              /\ dsp'.wide = d.wide /\ dsp'.remaining = d.remaining
              /\ dsp'.blockLen = d.blockLen
              /\ dsp'.status8 = d.status8 /\ dsp'.status16 = d.status16
              /\ dsp'.dreq = "none"
              /\ \A i \in 1..2 : dma'[i].ch = dma[i].ch /\ dma'[i].mask = dma[i].mask
              /\ \A i \in 1..2 : Requested(i)' => Requested(i) /\ dsp.dreq # "release"
          BY <1>0, <2>2, <5>2, PortWrite
        <5>4. /\ (dsp'.wide => program.play \cap Wides # {})
              /\ \A i \in 1..2 : Requested(i)' => i = Side(dsp'.wide)
          BY <5>2, <5>3 DEF AInv, Lines
        <5>5. Lines'
          BY <1>5, <2>1, <5>3, <5>4
        <5>6. /\ Way' = Way /\ Channel' = Channel /\ Programmed' /\ (AllMasked' <=> AllMasked)
          BY <1>4, <2>1, <5>3
        <5>7. Clean'
          BY <1>2, <2>1, <4>1, <5>2, <5>3 DEF Clean, InCourse
        <5>8. Aligned'
          BY <2>1, <4>1, <5>2, <5>3, <5>6 DEF Aligned, InCourse
        <5>9. InCourse'
          BY <2>1, <4>1, <5>2, <5>3, <5>7, <5>8 DEF InCourse
        <5> QED BY <3>1, <4>1, <5>2, <5>3, <5>5, <5>6, <5>9
      \* It shall go on, but the DSP does not hear.
      <4>2. CASE ~sound.last /\ Unheard
        <5>1. sound.op = "continue8" /\ dsp.wide /\ ~dsp.active
          BY <4>2 DEF Unheard, Deaf, Silent
        <5>2. sound.cmd = "continue8"
          BY <3>1, <4>2, <5>1 DEF Wides
        <5> HIDE DEF d
        <5> QED BY <2>3, <2>5, <3>1, <4>2, <5>1, <5>2
      \* It goes on where it was.
      <4>3. CASE /\ ~sound.last /\ sound.len < Limit
                 /\ sound.cmd \in IF sound.op \in Wides THEN {"continue16", "resume16"}
                                  ELSE {"continue8"}
                 /\ InCourse /\ ~dsp.active
        <5>1. sound.len \in Nat /\ sound.len > 0 /\ sound.len < Limit /\ Limit \in Nat
          BY <1>3, <4>3, LimitIs
        <5>2. sound.len \in Words /\ sound.len % Limit = sound.len
          <6> DEFINE n == sound.len
          <6>1. n \in Nat /\ n < Limit /\ Limit \in Nat
            BY <5>1
          <6> HIDE DEF n
          <6>2. n \in Words
            BY <6>1, LimitIs
          <6>3. n % Limit = n
            BY <6>2, ModuloIs
          <6> QED BY <6>2, <6>3 DEF n
        <5>3. dsp.blockLen > 0
          BY <4>3, <5>1, <5>2 DEF InCourse
        <5>4. Aligned /\ Channel.count \in Words
          BY <4>3, WayIs, SoundAssumption
             DEF InCourse, Channel, TInv, CardInv, Controllers, DmaState, ChannelState
        <5>5. dsp.remaining \in Nat /\ dsp.remaining > 0
          <6>1. CASE sound.op \in Loops
            BY <5>1, <5>4, <6>1 DEF Aligned
          <6>2. CASE sound.op \notin Loops
            <7>1. Channel.count + 1 <= sound.len /\ Channel.count \in Nat
              BY <5>1, <5>4, <6>2, LimitIs DEF Aligned
            <7>2. Channel.count + 1 \in Words
              BY <5>1, <7>1, LimitIs
            <7>3. dsp.remaining = Channel.count + 1
              BY <5>4, <6>2, <7>2, ModuloIs DEF Aligned
            <7> QED BY <7>1, <7>3
          <6> QED BY <6>1, <6>2
        <5>6. (dsp.wide <=> sound.cmd # "continue8")
              /\ sound.cmd \in {"continue8", "continue16", "resume16"}
          BY <4>3 DEF InCourse
        <5>7. d = Resume(dsp)
          BY <1>0, <5>3, <5>5, <5>6, ResumedIs DEF none
        <5> DEFINE left == dsp.remaining
        <5>8. left \in Words /\ left = (IF dsp.remaining = 0 THEN dsp.blockLen ELSE dsp.remaining)
          BY <1>0, <5>5 DEF DspState
        <5>9. IF sound.op \in Loops
              THEN /\ left \in 1..sound.len
                   /\ Channel.count + 1 \in {left, left + sound.len}
              ELSE Channel.count < sound.len /\ left = (Channel.count + 1) % Limit
          BY <5>4 DEF Aligned
        <5> HIDE DEF d, left
        <5>10. /\ (sound.op \notin Loops => Clean) /\ sound.op \notin {"identify", "none"} /\ ~dsp.e2
               /\ (dsp.wide <=> sound.op \in Wides)
               /\ (dsp.auto <=> sound.op \in Loops) /\ dsp.blockLen = sound.len % Limit
          BY <4>3 DEF InCourse
        <5> QED BY <2>4, <3>1, <4>3, <5>7, <5>8, <5>9, <5>10
      <4> QED BY <3>1, <4>1, <4>2, <4>3
    <3>3. Steering'
      BY <2>1, <2>8, <3>1, <3>2 DEF Steering
    <3> QED BY <1>3, <2>1, <2>8, <3>2, <3>3 DEF AInv, BeforeBlocks, Beginning, Waiting
  <2> QED BY <1>0, <2>6, <2>7, <2>8
<1> QED BY <1>8, <1>9, <1>10, SentIs

\* No channel has been programmed yet.
LEMMA InitKeepsStep == Init => AInv
<1> SUFFICES ASSUME Init PROVE AInv
  OBVIOUS
<1>1. /\ \A i \in 1..2 : Masked(i) /\ ~Requested(i) /\ ~(todo[i] > 0)
      /\ dsp = DspNew /\ handler = "none"
  BY SoundAssumption DEF Init, Masked, Requested, DmaReset, Refresh
<1>2. /\ ~dsp.active /\ ~dsp.auto /\ ~dsp.e2 /\ ~dsp.wide /\ dsp.dreq = "none"
      /\ ~dsp.status8 /\ ~dsp.status16
  BY <1>1 DEF DspNew
<1>3. /\ sound.at = "off" /\ sound.op = "none" /\ sound.len = 0 /\ ~sound.last /\ ~sound.told
  BY DEF Init
<1>4. AtRest
  BY <1>1, <1>2, <1>3 DEF AtRest, Silent, AllMasked, Clean, Unrequested
<1>5. Lines
  BY <1>1, <1>2, <1>3 DEF Lines
<1> QED BY <1>2, <1>3, <1>4, <1>5 DEF AInv, BeforeBlocks, Beginning, Steering, Waiting

\* Every step keeps the two in step.
LEMMA NextKeepsStep ==
  ASSUME Own, TInv, AInv, [Next]_vars
  PROVE  AInv'
<1>1. CASE UNCHANGED vars
  BY <1>1, OtherStep DEF vars
<1>2. CASE Next
  <2>0. UNCHANGED program
    BY <1>2 DEF Next
  <2>1. CASE Tick \/ TakeIrq \/ BeginCd \/ Reader \/ ChangeDisc
    BY <2>0, <2>1, OthersKeepStep
  <2>2. CASE \E k \in 1..2 : BusCycle(k)
    BY <2>0, <2>2, CycleKeepsStep
  <2>3. CASE Source
    BY <2>0, <2>3, OthersKeepStep, TellingKeepsStep
  <2>4. CASE Acknowledge
    BY <2>0, <2>4, TellingKeepsStep
  <2>5. CASE ResetDsp
    BY <2>0, <2>5, ResetKeepsStep
  <2>6. CASE Identify \/ Play
    BY <2>0, <2>6, BeginKeepsStep
  <2>7. CASE EndLoop \/ Pause \/ Continue
    BY <2>0, <2>7, SteerKeepsStep
  <2>8. CASE AwaitReset
    BY <2>0, <2>8, AwaitResetKeepsStep
  <2>9. CASE SendByte
    BY <2>0, <2>9, SendKeepsStep
  <2>10. CASE Told
    BY <2>0, <2>10, ToldKeepsStep
  <2>11. CASE Unmask
    BY <2>0, <2>11, UnmaskKeepsStep
  <2> QED
    BY <1>2, <2>1, <2>2, <2>3, <2>4, <2>5, <2>6, <2>7, <2>8, <2>9, <2>10, <2>11
       DEF Next, Bus, Handler, Sound
<1> QED BY <1>1, <1>2

\* A DSP that is active is in the course of a transfer.
LEMMA ActiveIs ==
  ASSUME TInv, AInv, dsp.active
  PROVE  InCourse /\ Programmed /\ sound.op # "none"
<1>1. sound.at \in {"off", "reset", "fresh", "ready", "send", "wait", "paused", "unmask"}
      /\ sound.next \in {"wait", "paused", "unmask"}
  BY DEF TInv, SoundInv, SoundState
<1>2. ~Silent /\ ~Unheard /\ ~AtRest
  BY DEF Silent, Unheard, AtRest
<1>3. InCourse
  <2>1. CASE sound.at \in {"off", "reset", "fresh", "ready"}
    BY <1>2, <2>1 DEF AInv, BeforeBlocks
  <2>2. CASE sound.at = "send" /\ sound.next = "wait"
    BY <1>2, <2>2 DEF AInv, Beginning
  <2>3. CASE sound.at = "send" /\ sound.next \in {"paused", "unmask"}
    BY <1>2, <2>3 DEF AInv, Steering
  <2>4. CASE sound.at \in {"paused", "unmask"}
    BY <1>2, <2>4 DEF AInv, Steering
  <2>5. CASE sound.at = "wait"
    <3>1. ~Identifying /\ ~Over
      BY <1>2 DEF Identifying, Over
    <3> QED BY <1>2, <2>5, <3>1 DEF AInv, Waiting
  <2> QED BY <1>1, <2>1, <2>2, <2>3, <2>4, <2>5
<1>4. sound.at \notin {"off", "reset", "fresh", "ready"}
  BY <1>2 DEF AInv, BeforeBlocks
<1> QED BY <1>3, <1>4 DEF AInv

\* The arithmetic of it: what is left in the channel's buffer is what is left of
\* the block, give or take a block.
LEMMA SameLeft ==
  ASSUME NEW len \in Nat \ {0}, NEW left \in 1..len, NEW all \in {left, left + len}
  PROVE  all % len = left % len
<1>1. left \in Nat /\ left >= 1 /\ left <= len
  OBVIOUS
<1>2. CASE all = left
  BY <1>2
<1>3. CASE all = left + len /\ left = len
  <2>1. all = (2 * len) + 0 /\ left = (1 * len) + 0
    BY <1>1, <1>3
  <2>2. 0 \in 0..(len - 1)
    OBVIOUS
  <2>3. ((2 * len) + 0) % len = 0 /\ ((1 * len) + 0) % len = 0
    BY <2>2, DivisionOfSum
  <2> QED BY <2>1, <2>3
<1>4. CASE all = left + len /\ left < len
  <2>1. all = (1 * len) + left /\ left = (0 * len) + left
    BY <1>1, <1>4
  <2>2. left \in 0..(len - 1)
    BY <1>1, <1>4
  <2>3. ((1 * len) + left) % len = left /\ ((0 * len) + left) % len = left
    BY <2>2, DivisionOfSum
  <2> QED BY <2>1, <2>3
<1> QED BY <1>1, <1>2, <1>3, <1>4

\* The counts of a transfer in course agree.
LEMMA AInvIsInStep ==
  ASSUME TInv, AInv
  PROVE  InStep
<1> SUFFICES ASSUME dsp.active
             PROVE  (dma[Side(dsp.wide)].ch[1].count + 1) % sound.len = dsp.remaining % sound.len
  BY DEF InStep
<1>1. InCourse /\ sound.op # "none"
  BY ActiveIs
<1>2. sound.len \in 1..Limit
  BY <1>1 DEF TInv, SoundInv
<1>3. dma[Side(dsp.wide)].ch[1] = Channel
  BY <1>1 DEF InCourse, Channel, Way, TInv, CardInv, DspState
<1>4. Channel.count \in Words
  BY WayIs, SoundAssumption DEF Channel, TInv, CardInv, Controllers, DmaState, ChannelState
<1>5. Aligned
  BY <1>1 DEF InCourse
<1> DEFINE len == sound.len  left == dsp.remaining  count == Channel.count  loop == sound.op \in Loops
<1>6. IF loop THEN left \in 1..len /\ count + 1 \in {left, left + len}
      ELSE count < len /\ left = (count + 1) % Limit
  BY <1>5 DEF Aligned
<1>7. len \in Nat \ {0} /\ len <= Limit /\ count \in Nat /\ count < Limit /\ Limit \in Nat \ {0}
  BY <1>2, <1>4, LimitIs
<1> HIDE DEF len, left, count, loop
<1>8. (count + 1) % len = left % len
  <2>1. CASE loop
    BY <1>6, <1>7, <2>1, SameLeft
  <2>2. CASE ~loop /\ count + 1 < Limit
    <3>1. count + 1 \in Words
      BY <1>7, <2>2, LimitIs
    <3>2. left = count + 1
      BY <1>6, <2>2, <3>1, ModuloIs
    <3> QED BY <3>2
  <2>3. CASE ~loop /\ count + 1 = Limit
    <3>0. count < len /\ left = Limit % Limit
      BY <1>6, <2>3
    <3>1. len = Limit /\ left = 0
      <4>1. len = Limit
        BY <1>7, <2>3, <3>0
      <4>2. left = 0
        BY <3>0, ModuloIs
      <4> QED BY <4>1, <4>2
    <3>2. 0 % Limit = 0
      BY LimitIs, ModuloIs
    <3> QED BY <2>3, <3>1, <3>2, ModuloIs
  <2>4. count + 1 < Limit \/ count + 1 = Limit
    BY <1>7
  <2> QED BY <2>1, <2>2, <2>3, <2>4
<1> QED BY <1>3, <1>8 DEF len, left, count

\* While the DSP plays or records, its count and the channel's agree on what is
\* left of the block, whatever the lengths of the blocks, the bursts and the
\* pauses: the interrupt comes when DMA is at a block's end.
THEOREM StaysInStep ==
  ASSUME Own
  PROVE  Spec => []InStep
<1>1. Init => TInv /\ AInv
  BY InitTypes, InitKeepsStep
<1>2. TInv /\ AInv /\ [Next]_vars => (TInv /\ AInv)'
  BY NextTypes, NextKeepsStep
<1>3. TInv /\ AInv => InStep
  BY AInvIsInStep
<1> QED BY <1>1, <1>2, <1>3, PTL DEF Spec

-----------------------------------------------------------------------------
(* The sectors of a read. *)

Reads == {"read", "readBcd"}

\* The interface is in the middle of a read of count sectors from lba: k of them
\* have been loaded, and got bytes have been had.
Placed(c, op, lba, count, got) ==
  /\ c.state = "stream" /\ ~c.error
  /\ c.viaBase0 = (op = "readBcd")
  /\ \E k \in 0..count :
       /\ c.lba = lba + k /\ c.remaining = count - k
       /\ got + SectorBytes = (k * SectorBytes) + c.pos
       /\ k > 0 => c.buffer = [disc |-> c.disc, lba |-> lba + (k - 1)]
       /\ op = "read" => k < count

Reading(c, r) == Placed(c, r.op, r.lba, r.count, r.got) /\ ~r.wrong

\* Or it is over: with an error, or with all that can be had of it.
Reached(r) == r.op = "read" /\ ~r.wrong /\ r.got >= ((r.count - 1) * SectorBytes) + 1

Ended(c, r) == c.state = "idle" /\ (c.error \/ r.changed \/ Reached(r))

\* Where the interface is when the CD driver is where it is.
Together(c, r) ==
  /\ r.at \in {"ready", "command"} => c.state = "idle"
  /\ r.at = "params" => c.state = "idle" \/ (c.state = "params" /\ c.command = r.op)
  /\ r.at \in {"await", "result"} /\ r.op \in Reads =>
       \/ c.state = "idle"
       \/ c.state = "result" /\ c.error
       \/ Reading(c, r) /\ IF r.op = "read" THEN c.result = 1 ELSE c.result = 0 /\ r.at = "await"
  /\ r.at \in {"data", "finish"} =>
       r.op \in Reads /\ (Ended(c, r) \/ (Reading(c, r) /\ c.result = 0))
  /\ r.at = "finish" => r.got = r.count * SectorBytes
  /\ r.at \in {"command", "params"} => ~r.wrong

\* A program reads by one port only; the interface forgets a read through
\* base+0 that has failed only when it is reset.
OnePort == \A p \in Programs : ~(Reads \subseteq p.read)

PortInv(p, c, r) ==
  /\ r.at # "ready" => r.op \in p.read
  /\ "readBcd" \notin p.read => ~c.viaBase0

SInv == PortInv(program, cd, reader) /\ Together(cd, reader)

\* The place of a byte: in the sector after those that have been had whole, or
\* further on in the sector in the buffer.
LEMMA PlaceIs ==
  ASSUME NEW k \in Nat, NEW pos \in 0..SectorBytes, NEW got \in Nat,
         got + SectorBytes = (k * SectorBytes) + pos
  PROVE  /\ pos = SectorBytes =>
              /\ got = k * SectorBytes
              /\ got \div SectorBytes = k /\ got % SectorBytes = 0
              /\ (got + 1) + SectorBytes = ((k + 1) * SectorBytes) + 1
         /\ pos # SectorBytes =>
              /\ k > 0
              /\ got \div SectorBytes = k - 1 /\ got % SectorBytes = pos
<1> DEFINE b == SectorBytes
<1>0. b \in Nat \ {0} /\ pos \in 0..b /\ got + b = (k * b) + pos
  BY SectorNumberIs
<1> HIDE DEF b
<1>1. k * b \in Nat /\ (k + 1) * b = (k * b) + b
  BY <1>0
<1>2. CASE pos = b
  <2>1. got = (k * b) + 0 /\ 0 \in 0..(b - 1)
    BY <1>0, <1>1, <1>2
  <2>2. ((k * b) + 0) \div b = k /\ ((k * b) + 0) % b = 0
    BY <1>0, <2>1, DivisionOfSum
  <2>3. got = k * b /\ got \div b = k /\ got % b = 0
    BY <1>1, <2>1, <2>2
  <2>4. (got + 1) + b = ((k + 1) * b) + 1
    BY <1>0, <1>1, <2>3
  <2> QED BY <1>2, <2>3, <2>4 DEF b
<1>3. CASE pos # b
  <2>1. k # 0
    BY <1>0, <1>3
  <2>2. k - 1 \in Nat /\ (k - 1) * b \in Nat /\ k * b = ((k - 1) * b) + b
    BY <1>0, <2>1
  <2>3. got = ((k - 1) * b) + pos /\ pos \in 0..(b - 1)
    BY <1>0, <1>3, <2>2
  <2>4. (((k - 1) * b) + pos) \div b = k - 1 /\ (((k - 1) * b) + pos) % b = pos
    BY <1>0, <2>2, <2>3, DivisionOfSum
  <2>5. k > 0 /\ got \div b = k - 1 /\ got % b = pos
    BY <2>1, <2>3, <2>4
  <2> QED BY <1>3, <2>5 DEF b
<1> QED BY <1>2, <1>3 DEF b

\* The next byte of a read is the one that is wanted, and the interface stays in
\* its place, unless the disc cannot be read or the last sector has been loaded.
LEMMA StreamGoesOn ==
  ASSUME NEW c, CdFits(c), NEW op \in Reads, NEW lba \in Nat, NEW count \in Counts,
         NEW got \in Nat, got < count * SectorBytes,
         Placed(c, op, lba, count, got), NEW readable \in BOOLEAN
  PROVE  LET g == StreamRead(c, readable) IN
         \/ g.state = "idle" /\ g.error
         \/ /\ StreamByte(c, readable) =
                 [sector |-> [disc |-> c.disc, lba |-> lba + (got \div SectorBytes)],
                  at |-> (got % SectorBytes) + 1]
            /\ \/ Placed(g, op, lba, count, got + 1) /\ g.result = c.result
               \/ /\ g.state = "idle" /\ op = "read"
                  /\ got + 1 >= ((count - 1) * SectorBytes) + 1
<1>0. /\ c \in CdState /\ c.pos \in 0..SectorBytes /\ SectorBytes \in Nat \ {0}
      /\ count \in Nat \ {0} /\ count * SectorBytes \in Nat
  <2>1. c \in CdState /\ c.pos \in 0..SectorBytes
    BY DEF CdFits, CdState
  <2>2. count \in 1..MaxCount /\ count * SectorBytes \in Nat
    BY CountIs
  <2> QED BY <2>1, <2>2, SectorNumberIs
<1>1. PICK k \in 0..count :
        /\ c.lba = lba + k /\ c.remaining = count - k
        /\ got + SectorBytes = (k * SectorBytes) + c.pos
        /\ k > 0 => c.buffer = [disc |-> c.disc, lba |-> lba + (k - 1)]
        /\ op = "read" => k < count
  BY DEF Placed
<1>2. c.state = "stream" /\ ~c.error /\ c.viaBase0 = (op = "readBcd")
  BY DEF Placed
<1>3. k \in Nat
  BY <1>0, <1>1
<1> DEFINE g == StreamRead(c, readable)  byte == StreamByte(c, readable)  b == SectorBytes
<1>4. CASE c.pos = SectorBytes
  <2>1. NeedsSector(c)
    BY <1>4 DEF NeedsSector
  <2>2. /\ got = k * SectorBytes
        /\ got \div SectorBytes = k /\ got % SectorBytes = 0
        /\ (got + 1) + SectorBytes = ((k + 1) * SectorBytes) + 1
    BY <1>0, <1>1, <1>3, <1>4, PlaceIs
  <2>3. k # count
    BY <1>0, <2>2
  <2>4. k < count /\ c.remaining # 0
    <3>1. c.remaining = count - k
      BY <1>1
    <3>2. count \in Nat
      BY <1>0
    <3> QED BY <1>3, <2>3, <3>1, <3>2
  <2>5. CASE c.disc = NoDisc \/ ~readable
    <3>1. g = [c EXCEPT !.error = TRUE, !.state = "idle"]
      BY <2>1, <2>4, <2>5 DEF StreamRead
    <3>2. g.state = "idle" /\ g.error
      BY <1>0, <3>1 DEF CdState
    <3> QED BY <3>2
  <2>6. CASE ~(c.disc = NoDisc \/ ~readable)
    <3> DEFINE l == Load(c)  pos == l.pos + 1
    <3>1. g = [l EXCEPT !.pos = pos] /\ byte = [sector |-> l.buffer, at |-> pos]
      BY <2>1, <2>4, <2>6 DEF StreamRead, StreamByte
    <3>2. /\ l \in CdState /\ l.pos = 0 /\ l.lba = c.lba + 1
          /\ l.remaining = c.remaining - 1
          /\ l.state = (IF c.remaining = 1 /\ ~c.viaBase0 THEN "idle" ELSE c.state)
          /\ l.buffer = [disc |-> c.disc, lba |-> c.lba]
          /\ l.disc = c.disc /\ l.viaBase0 = c.viaBase0 /\ l.result = c.result
          /\ l.error = c.error
      BY <2>4, LoadIs
    <3>3. pos = 1
      BY <3>2
    <3> HIDE DEF l, pos, g
    <3>4. /\ g.pos = 1 /\ g.lba = l.lba /\ g.remaining = l.remaining /\ g.state = l.state
          /\ g.buffer = l.buffer /\ g.disc = l.disc /\ g.viaBase0 = l.viaBase0
          /\ g.result = l.result /\ g.error = l.error
      BY <3>1, <3>2, <3>3 DEF CdState
    <3>5. byte = [sector |-> [disc |-> c.disc, lba |-> lba + (got \div SectorBytes)],
                  at |-> (got % SectorBytes) + 1]
      BY <1>1, <2>2, <3>1, <3>2, <3>3
    <3>6. /\ k + 1 \in 0..count /\ k + 1 > 0 /\ (k + 1) - 1 = k
          /\ g.lba = lba + (k + 1) /\ g.remaining = count - (k + 1)
      BY <1>0, <1>1, <1>3, <2>4, <3>2, <3>4
    <3>7. CASE c.remaining = 1 /\ ~c.viaBase0
      <4>1. g.state = "idle" /\ op = "read"
        BY <1>2, <3>2, <3>4, <3>7 DEF Reads
      <4>2. k = count - 1
        BY <1>0, <1>1, <1>3, <3>7
      <4>3. got + 1 = ((count - 1) * SectorBytes) + 1 /\ got + 1 \in Nat
        BY <2>2, <4>2
      <4> QED BY <3>5, <4>1, <4>3 DEF g
    <3>8. CASE ~(c.remaining = 1 /\ ~c.viaBase0)
      <4>1. g.state = "stream" /\ ~g.error /\ g.viaBase0 = (op = "readBcd")
        BY <1>2, <3>2, <3>4, <3>8
      <4>2. op = "read" => k + 1 < count
        <5>1. op = "read" => c.remaining # 1
          BY <1>2, <3>8
        <5> QED BY <1>0, <1>1, <1>3, <2>4, <5>1
      <4>3. g.buffer = [disc |-> g.disc, lba |-> lba + k]
        BY <1>1, <3>2, <3>4
      <4>4. (got + 1) + SectorBytes = ((k + 1) * SectorBytes) + g.pos
        BY <2>2, <3>4
      <4>5. Placed(g, op, lba, count, got + 1)
        BY <3>6, <4>1, <4>2, <4>3, <4>4 DEF Placed
      <4>6. g.result = c.result
        BY <3>2, <3>4
      <4> QED BY <3>5, <4>5, <4>6 DEF g
    <3> QED BY <3>7, <3>8
  <2> QED BY <2>5, <2>6
<1>5. CASE c.pos # SectorBytes
  <2>1. ~NeedsSector(c)
    BY <1>5 DEF NeedsSector
  <2>2. k > 0 /\ got \div SectorBytes = k - 1 /\ got % SectorBytes = c.pos
    BY <1>0, <1>1, <1>3, <1>5, PlaceIs
  <2> DEFINE pos == c.pos + 1
  <2>3. g = [c EXCEPT !.pos = pos] /\ byte = [sector |-> c.buffer, at |-> pos]
    BY <2>1 DEF StreamRead, StreamByte
  <2>4. byte = [sector |-> [disc |-> c.disc, lba |-> lba + (got \div SectorBytes)],
                at |-> (got % SectorBytes) + 1]
    BY <1>1, <2>2, <2>3
  <2> HIDE DEF g, pos
  <2>5. /\ g.pos = pos /\ g.lba = c.lba /\ g.remaining = c.remaining /\ g.state = c.state
        /\ g.buffer = c.buffer /\ g.disc = c.disc /\ g.viaBase0 = c.viaBase0
        /\ g.result = c.result /\ g.error = c.error
    BY <1>0, <2>3 DEF CdState
  <2>6. (got + 1) + SectorBytes = (k * SectorBytes) + g.pos
    <3>1. k * b \in Nat
      BY <1>0, <1>3
    <3> QED BY <1>0, <1>1, <2>5, <3>1 DEF pos
  <2>7. Placed(g, op, lba, count, got + 1)
    BY <1>1, <1>2, <2>5, <2>6 DEF Placed
  <2> QED BY <2>4, <2>5, <2>7 DEF g
<1> QED BY <1>4, <1>5

\* A command to read, with its parameters, fails or puts the interface at the
\* beginning of the first sector.
LEMMA ReadStarts ==
  ASSUME NEW c, CdFits(c), NEW op \in Reads, op = "read" => ~c.viaBase0,
         NEW lba \in Sectors \cup {0}, NEW count \in Counts
  PROVE  LET g == CdExecute(c, op, lba, count) IN
         \/ g.state = "result" /\ g.error
         \/ /\ Placed(g, op, lba, count, 0)
            /\ IF op = "read" THEN g.result = 1 ELSE g.result = 0
<1> DEFINE d == [c EXCEPT !.error = FALSE, !.result = 0]
           s == Streams(d, lba, count)
           irq == s.pendingIrq \/ count = 0 \/ ~d.viaBase0
           one == 1
           g == CdExecute(c, op, lba, count)
<1>0. /\ c \in CdState /\ lba \in Nat /\ count \in Nat \ {0} /\ count > 0
      /\ 0 * SectorBytes = 0 /\ SectorBytes \in Nat
  <2>1. c \in CdState
    BY DEF CdFits
  <2>2. count \in 1..MaxCount
    BY CountIs
  <2> QED BY <2>1, <2>2, SectorNumberIs
<1>1. /\ d.viaBase0 = c.viaBase0 /\ d.disc = c.disc /\ ~d.error /\ d.result = 0
      /\ d \in CdState
  <2> DEFINE none == 0  e == [c EXCEPT !.error = FALSE, !.result = none]
  <2>1. none \in 0..2
    OBVIOUS
  <2> HIDE DEF none
  <2>2. /\ e.viaBase0 = c.viaBase0 /\ e.disc = c.disc /\ ~e.error /\ e.result = none
        /\ e \in CdState
    BY <1>0, <2>1 DEF CdState
  <2> QED BY <2>2 DEF none
<1>2. op \in {"read", "readBcd"} /\ op \in NeedDisc
  BY DEF Reads, NeedDisc
<1>3. g = IF d.disc = NoDisc THEN Fail(d)
          ELSE IF op = "read" THEN [s EXCEPT !.result = one, !.state = "stream", !.pendingIrq = irq]
          ELSE [s EXCEPT !.viaBase0 = TRUE, !.state = "stream"]
  <2>1. g = IF op \in NeedDisc /\ d.disc = NoDisc THEN Fail(d) ELSE
            CASE op \in {"info", "discInfo", "toc"} -> Result(d, 2)
            [] op = "mode" -> Result(d, 1)
            [] op = "seek" -> Result([d EXCEPT !.lba = lba], 1)
            [] op = "bad"  -> Fail(d)
            [] op = "read" ->
                 [s EXCEPT !.result = one, !.state = IF count > 0 THEN "stream" ELSE "result",
                           !.pendingIrq = irq]
            [] op = "readBcd" ->
                 [s EXCEPT !.viaBase0 = TRUE, !.state = IF count > 0 THEN "stream" ELSE "idle"]
            [] op = "sleep" -> [d EXCEPT !.state = "idle"]
    BY DEF CdExecute
  <2> HIDE DEF g, d, s, irq, one
  <2>2. CASE d.disc = NoDisc
    BY <1>2, <2>1, <2>2
  <2>3. CASE d.disc # NoDisc /\ op = "read"
    BY <1>0, <2>1, <2>3
  <2>4. CASE d.disc # NoDisc /\ op = "readBcd"
    BY <1>0, <2>1, <2>4
  <2> QED BY <1>2, <2>2, <2>3, <2>4
<1> HIDE DEF d, g
<1>4. CASE d.disc = NoDisc
  <2>1. g.state = "result" /\ g.error
    BY <1>1, <1>3, <1>4 DEF Fail, Result, CdState
  <2> QED BY <2>1 DEF g
<1>5. CASE d.disc # NoDisc
  <2>1. /\ s.lba = lba /\ s.remaining = count /\ s.pos = SectorBytes /\ s.viaBase0 = d.viaBase0
        /\ s.error = d.error /\ s.result = d.result /\ s \in CdState
    <3>1. /\ s.lba = lba /\ s.remaining = count /\ s.pos = SectorBytes /\ s.viaBase0 = d.viaBase0
          /\ s.error = d.error /\ s.result = d.result
      BY <1>1 DEF Streams, CdState
    <3>2. s \in CdState
      <4>1. count \in 0..MaxCount
        BY CountIs
      <4> QED BY <1>1, <4>1, StreamsFits
    <3> QED BY <3>1, <3>2
  <2> HIDE DEF s, irq, one
  <2>2. /\ g.lba = lba /\ g.remaining = count /\ g.pos = SectorBytes /\ ~g.error
        /\ g.state = "stream" /\ g.viaBase0 = (op = "readBcd")
        /\ g.result = IF op = "read" THEN one ELSE 0
    <3>1. CASE op = "read"
      <4>1. g = [s EXCEPT !.result = one, !.state = "stream", !.pendingIrq = irq]
        BY <1>3, <1>5, <3>1
      <4>2. /\ g.lba = s.lba /\ g.remaining = s.remaining /\ g.pos = s.pos
            /\ g.error = s.error /\ g.viaBase0 = s.viaBase0 /\ g.result = one
            /\ g.state = "stream"
        BY <2>1, <4>1 DEF CdState
      <4>3. g.viaBase0 = FALSE
        <5>1. c.viaBase0 = FALSE
          BY <1>0, <3>1 DEF CdState
        <5> QED BY <1>1, <2>1, <4>2, <5>1
      <4> QED BY <1>1, <2>1, <3>1, <4>2, <4>3
    <3>2. CASE op = "readBcd"
      <4>1. g = [s EXCEPT !.viaBase0 = TRUE, !.state = "stream"]
        BY <1>3, <1>5, <3>2
      <4>2. /\ g.lba = s.lba /\ g.remaining = s.remaining /\ g.pos = s.pos
            /\ g.error = s.error /\ g.viaBase0 = TRUE /\ g.result = s.result
            /\ g.state = "stream"
        BY <2>1, <4>1 DEF CdState
      <4> QED BY <1>1, <2>1, <3>2, <4>2
    <3> QED BY <1>2, <3>1, <3>2
  <2>3. Placed(g, op, lba, count, 0)
    <3>1. 0 \in 0..count /\ g.lba = lba + 0 /\ g.remaining = count - 0 /\ 0 < count
          /\ 0 + SectorBytes = (0 * SectorBytes) + g.pos
      BY <1>0, <2>2
    <3> QED BY <2>2, <3>1 DEF Placed
  <2>4. IF op = "read" THEN g.result = 1 ELSE g.result = 0
    BY <2>2 DEF one
  <2> QED BY <2>3, <2>4 DEF g
<1> QED BY <1>4, <1>5

\* An interface that is not read through base+0 stays so, as long as no such
\* read is ordered.
LEMMA WayKept ==
  ASSUME NEW c, CdFits(c), ~c.viaBase0, NEW readable \in BOOLEAN
  PROVE  /\ ~ReadBase0(c, readable).viaBase0 /\ ~ReadBase1(c, readable).viaBase0
         /\ \A cmd \in CdCommands \ {"readBcd"} : \A lba, count :
              ~CdExecute(c, cmd, lba, count).viaBase0
<1>0. c \in CdState
  BY DEF CdFits
<1>1. ~ReadBase0(c, readable).viaBase0
  BY <1>0 DEF ReadBase0, CdState
<1>2. ~StreamRead(c, readable).viaBase0
  <2>1. CASE NeedsSector(c) /\ c.remaining # 0
    <3> DEFINE l == Load(c)
    <3>1. l.viaBase0 = c.viaBase0 /\ l \in CdState
      BY <2>1, LoadIs
    <3>2. StreamRead(c, readable) \in {[l EXCEPT !.pos = @ + 1],
                                       [c EXCEPT !.error = TRUE, !.state = "idle"]}
      BY <2>1 DEF StreamRead
    <3> HIDE DEF l
    <3> QED BY <1>0, <3>1, <3>2 DEF CdState
  <2>2. CASE ~(NeedsSector(c) /\ c.remaining # 0)
    <3>1. StreamRead(c, readable) \in {[c EXCEPT !.pos = @ + 1], [c EXCEPT !.state = "idle"]}
      BY <2>2 DEF StreamRead
    <3> QED BY <1>0, <3>1 DEF CdState
  <2> QED BY <2>1, <2>2
<1>3. ~ReadBase1(c, readable).viaBase0
  <2>1. ReadBase1(c, readable) \in {StreamRead(c, readable), [c EXCEPT !.attention = FALSE], c}
    BY DEF ReadBase1, StreamOver
  <2> QED BY <1>0, <1>2, <2>1 DEF CdState
<1>4. ASSUME NEW cmd \in CdCommands \ {"readBcd"}, NEW lba, NEW count
      PROVE  ~CdExecute(c, cmd, lba, count).viaBase0
  <2> DEFINE d == [c EXCEPT !.error = FALSE, !.result = 0]
             s == [d EXCEPT !.lba = lba, !.remaining = count, !.pos = SectorBytes]
             x == [d EXCEPT !.lba = lba]
             state == IF count > 0 THEN "stream" ELSE "result"
             irq == s.pendingIrq \/ count = 0 \/ ~d.viaBase0
             y == [s EXCEPT !.result = 1, !.state = state, !.pendingIrq = irq]
  <2>0. CdExecute(c, cmd, lba, count)
          \in {Fail(d), Result(d, 2), Result(d, 1), Result(x, 1), y, [d EXCEPT !.state = "idle"]}
    <3>1. cmd \in {"info", "mode", "discInfo", "toc", "seek", "read", "sleep", "bad"}
      BY DEF CdCommands
    <3> QED BY <3>1 DEF CdExecute, Streams
  <2>1. DOMAIN d = DOMAIN c /\ "viaBase0" \in DOMAIN d /\ d.viaBase0 = c.viaBase0
    BY <1>0 DEF CdState
  <2> HIDE DEF d
  <2>2. /\ DOMAIN s = DOMAIN d /\ s.viaBase0 = d.viaBase0
        /\ DOMAIN x = DOMAIN d /\ x.viaBase0 = d.viaBase0
    BY <2>1
  <2> HIDE DEF s, x, irq, state
  <2>3. ~y.viaBase0 /\ ~Result(d, 1).viaBase0 /\ ~Result(d, 2).viaBase0
        /\ ~Result(x, 1).viaBase0 /\ ~[d EXCEPT !.state = "idle"].viaBase0
    BY <2>1, <2>2 DEF Result
  <2>4. ~Fail(d).viaBase0
    BY <2>1 DEF Result, Fail
  <2> HIDE DEF y
  <2> QED BY <2>0, <2>3, <2>4
<1> QED BY <1>1, <1>3, <1>4

\* What is told apart of the interface and of the CD driver.
LEMMA SameTogether ==
  ASSUME NEW p, NEW c, NEW g, NEW r, NEW s,
         g.state = c.state, g.error = c.error, g.viaBase0 = c.viaBase0, g.lba = c.lba,
         g.remaining = c.remaining, g.pos = c.pos, g.buffer = c.buffer, g.disc = c.disc,
         g.result = c.result, g.command = c.command,
         s.at = r.at, s.op = r.op, s.lba = r.lba, s.count = r.count, s.got = r.got,
         s.wrong = r.wrong, s.changed = r.changed,
         PortInv(p, c, r), Together(c, r)
  PROVE  PortInv(p, g, s) /\ Together(g, s)
<1>1. Reading(c, r) => Reading(g, s)
  BY DEF Reading, Placed
<1>2. Ended(c, r) => Ended(g, s)
  BY DEF Ended, Reached
<1>3. Together(g, s)
  <2> HIDE DEF Reading, Ended
  <2> QED BY <1>1, <1>2 DEF Together
<1> QED BY <1>3 DEF PortInv

\* The CD driver is at rest with an idle interface.
LEMMA RestTogether ==
  ASSUME NEW p, NEW c, c.state = "idle", "readBcd" \notin p.read => ~c.viaBase0
  PROVE  PortInv(p, c, Idle) /\ Together(c, Idle)
<1>1. Idle.at = "ready"
  BY IdleIs
<1> QED BY <1>1 DEF PortInv, Together

\* What a program may do.
LEMMA ProgramReads ==
  ASSUME OnePort, TInv
  PROVE  /\ program.read \subseteq CdCommands
         /\ "read" \in program.read => "readBcd" \notin program.read
BY SoundAssumption DEF OnePort, Reads, TInv

\* The steps of the bus, the sound driver and the handler.
LEMMA OthersKeepSectors ==
  ASSUME TInv, SInv, UNCHANGED program,
         Bus \/ TakeIrq \/ Handler \/ ResetDsp \/ Identify \/ Play \/ EndLoop \/ Pause \/ Sound
  PROVE  SInv'
<1>0. cd \in CdState /\ reader \in ReaderState
  BY DEF TInv, ReaderInv, CdFits
<1>1. CASE UNCHANGED <<cd, reader>>
  BY <1>1 DEF SInv
<1>2. CASE TakeIrq
  <2>1. UNCHANGED reader /\ (cd' = TakeCdIrq(cd) \/ cd' = cd)
    BY <1>2 DEF TakeIrq
  <2>2. /\ cd'.state = cd.state /\ cd'.error = cd.error /\ cd'.viaBase0 = cd.viaBase0
        /\ cd'.lba = cd.lba /\ cd'.remaining = cd.remaining /\ cd'.pos = cd.pos
        /\ cd'.buffer = cd.buffer /\ cd'.disc = cd.disc /\ cd'.result = cd.result
        /\ cd'.command = cd.command
    BY <1>0, <2>1 DEF TakeCdIrq, CdState
  <2> QED BY <2>1, <2>2, SameTogether DEF SInv
<1>3. CASE Handler
  <2>1. UNCHANGED cd /\ (UNCHANGED reader \/ \E told : reader' = [reader EXCEPT !.told = told])
    BY <1>3 DEF Handler, Source, Acknowledge, Chain
  <2>2. /\ reader'.at = reader.at /\ reader'.op = reader.op /\ reader'.lba = reader.lba
        /\ reader'.count = reader.count /\ reader'.got = reader.got
        /\ reader'.wrong = reader.wrong /\ reader'.changed = reader.changed
    BY <1>0, <2>1, SMTT(60) DEF ReaderState
  <2> QED BY <2>1, <2>2, SameTogether DEF SInv
<1>4. Bus \/ ResetDsp \/ Identify \/ Play \/ EndLoop \/ Pause \/ Sound => UNCHANGED <<cd, reader>>
  BY DEF Bus, Tick, BusCycle, ResetDsp, Identify, Play, EndLoop, Pause, Sound, AwaitReset,
         SendByte, Told, Continue, Unmask
<1> QED BY <1>1, <1>2, <1>3, <1>4

\* A CD command is begun: the interface is idle.
LEMMA BeginCdKeepsSectors ==
  ASSUME TInv, SInv, UNCHANGED program, BeginCd
  PROVE  SInv'
<1>1. UNCHANGED cd /\ reader.at = "ready"
  BY DEF BeginCd, ReaderAt
<1>2. PICK op \in program.read, lba \in Sectors, count \in Counts :
       reader' = [Idle EXCEPT !.at = "command", !.op = op, !.lba = lba, !.count = count]
  BY DEF BeginCd
<1>3. reader'.at = "command" /\ reader'.op = op /\ ~reader'.wrong
  BY <1>2 DEF Idle
<1>4. cd.state = "idle" /\ ("readBcd" \notin program.read => ~cd.viaBase0)
  BY <1>1 DEF SInv, PortInv, Together
<1>5. PortInv(program, cd, reader') /\ Together(cd, reader')
  BY <1>3, <1>4 DEF PortInv, Together
<1> QED BY <1>1, <1>5 DEF SInv

\* A CD command, and its parameters.
LEMMA SendCdKeepsSectors ==
  ASSUME OnePort, TInv, SInv, UNCHANGED program, SendCd
  PROVE  SInv'
<1>0. /\ CdFits(cd) /\ cd \in CdState /\ reader \in ReaderState
      /\ reader.lba \in Sectors \cup {0} /\ reader.op \in CdCommands
  BY DEF TInv, ReaderInv, ReaderState, CdFits
<1>1. CASE ReaderAt("command") /\ CdWritten(WriteCdCommand(cd, reader.op))
           /\ ReaderTo(IF reader.op \in TakesParams THEN "params" ELSE "await")
  <2>1. /\ cd' = WriteCdCommand(cd, reader.op) /\ reader.at = "command"
        /\ reader' = [reader EXCEPT !.at = IF reader.op \in TakesParams THEN "params" ELSE "await"]
    BY <1>1 DEF ReaderAt, ReaderTo, CdWritten
  <2>2. cd.state = "idle" /\ reader.op \in program.read /\ ~reader.wrong
        /\ ("readBcd" \notin program.read => ~cd.viaBase0)
    BY <2>1 DEF SInv, PortInv, Together
  <2>3. CASE reader.op \in TakesParams
    <3>1. cd' = [cd EXCEPT !.command = reader.op, !.state = "params"]
      BY <2>1, <2>2, <2>3 DEF WriteCdCommand
    <3>2. cd'.state = "params" /\ cd'.command = reader.op /\ cd'.viaBase0 = cd.viaBase0
      BY <1>0, <3>1 DEF CdState
    <3>3. reader'.at = "params" /\ reader'.op = reader.op /\ reader'.wrong = reader.wrong
      BY <1>0, <2>1, <2>3 DEF ReaderState
    <3>4. PortInv(program, cd', reader') /\ Together(cd', reader')
      BY <2>2, <3>2, <3>3 DEF PortInv, Together
    <3> QED BY <3>4 DEF SInv
  <2>4. CASE reader.op \notin TakesParams
    <3> DEFINE d == [cd EXCEPT !.command = reader.op]
    <3>1. cd' = CdExecute(d, reader.op, 0, 0)
      BY <2>1, <2>2, <2>4 DEF WriteCdCommand
    <3>2. CdFits(d) /\ d.viaBase0 = cd.viaBase0
      <4>1. d \in CdState /\ d.lba = cd.lba /\ d.remaining = cd.remaining /\ d.state = cd.state
            /\ d.viaBase0 = cd.viaBase0
        BY <1>0 DEF CdState
      <4> HIDE DEF d
      <4> QED BY <1>0, <2>2, <4>1, AheadIs DEF CdFits
    <3> HIDE DEF d
    <3>3. reader.op \notin Reads /\ reader.op # "readBcd"
      BY <2>4 DEF TakesParams, Reads
    <3>4. "readBcd" \notin program.read => ~cd'.viaBase0
      BY <1>0, <2>2, <3>1, <3>2, <3>3, WayKept
    <3>5. reader'.at = "await" /\ reader'.op = reader.op
      BY <1>0, <2>1, <2>4 DEF ReaderState
    <3>6. PortInv(program, cd', reader') /\ Together(cd', reader')
      BY <2>2, <3>3, <3>4, <3>5 DEF PortInv, Together
    <3> QED BY <3>6 DEF SInv
  <2> QED BY <2>3, <2>4
<1>2. CASE ReaderAt("params") /\ CdWritten(WriteCdParams(cd, reader.lba, reader.count))
           /\ ReaderTo("await")
  <2>1. /\ cd' = WriteCdParams(cd, reader.lba, reader.count) /\ reader.at = "params"
        /\ reader' = [reader EXCEPT !.at = "await"]
    BY <1>2 DEF ReaderAt, ReaderTo, CdWritten
  <2>2. /\ reader.op \in program.read /\ ("readBcd" \notin program.read => ~cd.viaBase0)
        /\ cd.state = "idle" \/ (cd.state = "params" /\ cd.command = reader.op)
        /\ reader.count \in Counts /\ reader.got = 0
    <3>1. /\ reader.op \in program.read /\ ("readBcd" \notin program.read => ~cd.viaBase0)
          /\ cd.state = "idle" \/ (cd.state = "params" /\ cd.command = reader.op)
      BY <2>1 DEF SInv, PortInv, Together
    <3>2. reader.count \in Counts /\ reader.got = 0
      BY <2>1 DEF TInv, ReaderInv
    <3> QED BY <3>1, <3>2
  <2>3. /\ reader'.at = "await" /\ reader'.op = reader.op /\ reader'.lba = reader.lba
        /\ reader'.count = reader.count /\ reader'.got = reader.got /\ reader'.wrong = reader.wrong
    BY <1>0, <2>1 DEF ReaderState
  <2>4. CASE cd.state = "idle"
    <3>1. cd' = cd
      BY <2>1, <2>4 DEF WriteCdParams
    <3>2. PortInv(program, cd', reader') /\ Together(cd', reader')
      BY <2>2, <2>3, <2>4, <3>1 DEF PortInv, Together
    <3> QED BY <3>2 DEF SInv
  <2>5. CASE cd.state = "params" /\ cd.command = reader.op
    <3>1. cd' = CdExecute(cd, reader.op, reader.lba, reader.count)
      BY <2>1, <2>5 DEF WriteCdParams
    <3>2. "readBcd" \notin program.read => ~cd'.viaBase0
      BY <1>0, <2>2, <3>1, WayKept
    <3>3. CASE reader.op \notin Reads
      <4>1. PortInv(program, cd', reader') /\ Together(cd', reader')
        BY <2>2, <2>3, <3>2, <3>3 DEF PortInv, Together
      <4> QED BY <4>1 DEF SInv
    <3>4. CASE reader.op \in Reads
      <4>1. reader.op = "read" => ~cd.viaBase0
        BY <2>2, ProgramReads
      <4>2. \/ cd'.state = "result" /\ cd'.error
            \/ /\ Placed(cd', reader.op, reader.lba, reader.count, 0)
               /\ IF reader.op = "read" THEN cd'.result = 1 ELSE cd'.result = 0
        BY <1>0, <2>2, <3>1, <3>4, <4>1, ReadStarts
      <4>3. ~reader.wrong
        BY <2>1 DEF SInv, Together
      <4>4. PortInv(program, cd', reader') /\ Together(cd', reader')
        BY <2>2, <2>3, <3>2, <4>2, <4>3 DEF PortInv, Together, Reading
      <4> QED BY <4>4 DEF SInv
    <3> QED BY <3>3, <3>4
  <2> QED BY <2>2, <2>4, <2>5
<1> QED BY <1>1, <1>2 DEF SendCd

\* The driver goes on to the result or to the data of a read it has waited for.
LEMMA AwaitKeepsSectors ==
  ASSUME TInv, SInv, UNCHANGED program, Await
  PROVE  SInv'
<1>0. reader \in ReaderState
  BY DEF TInv, ReaderInv
<1>1. UNCHANGED cd /\ reader.at = "await"
  BY DEF Await, ReaderAt
<1>2. /\ reader.op \in program.read /\ ("readBcd" \notin program.read => ~cd.viaBase0)
      /\ reader.op \in Reads =>
           \/ cd.state = "idle"
           \/ cd.state = "result" /\ cd.error
           \/ Reading(cd, reader) /\ IF reader.op = "read" THEN cd.result = 1 ELSE cd.result = 0
  BY <1>1 DEF SInv, PortInv, Together
<1>3. \/ /\ reader' = [reader EXCEPT !.at = "result"]
         /\ reader.op = "readBcd" => cd.error
      \/ /\ reader' = [reader EXCEPT !.at = "data"]
         /\ reader.op = "readBcd" /\ ResultAvailable(cd) /\ ~cd.error
  BY DEF Await, ReaderTo
<1>4. /\ reader'.op = reader.op /\ reader'.lba = reader.lba /\ reader'.count = reader.count
      /\ reader'.got = reader.got /\ reader'.wrong = reader.wrong
  BY <1>0, <1>3 DEF ReaderState
<1>5. Reading(cd, reader) => Reading(cd, reader') /\ ~cd.error
  BY <1>4 DEF Reading, Placed
<1>6. CASE reader'.at = "result" /\ (reader.op = "readBcd" => cd.error)
  <2>1. reader.op \in Reads => reader.op = "read" \/ reader.op = "readBcd"
    BY DEF Reads
  <2>2. PortInv(program, cd, reader') /\ Together(cd, reader')
    BY <1>2, <1>4, <1>5, <1>6, <2>1 DEF PortInv, Together
  <2> QED BY <1>1, <2>2 DEF SInv
<1>7. CASE reader'.at = "data" /\ reader.op = "readBcd" /\ ResultAvailable(cd) /\ ~cd.error
  <2>1. cd.state # "idle" /\ reader.op \in Reads /\ reader.op # "read"
    BY <1>7 DEF ResultAvailable, Reads
  <2>2. PortInv(program, cd, reader') /\ Together(cd, reader')
    BY <1>2, <1>4, <1>5, <1>7, <2>1 DEF PortInv, Together
  <2> QED BY <1>1, <2>2 DEF SInv
<1>8. reader'.at = "result" \/ reader'.at = "data"
  BY <1>0, <1>3 DEF ReaderState
<1>9. /\ reader' = [reader EXCEPT !.at = "result"] => reader'.at = "result"
      /\ reader' = [reader EXCEPT !.at = "data"] => reader'.at = "data"
  BY <1>0 DEF ReaderState
<1> QED BY <1>3, <1>6, <1>7, <1>9

\* The driver gives up, and the interface is reset; or it confirms the end, and
\* the interface is idle.
LEMMA EndCdKeepsSectors ==
  ASSUME TInv, SInv, UNCHANGED program, GiveUp \/ Finish
  PROVE  SInv'
<1>0. /\ cd \in CdState /\ reader \in ReaderState
      /\ "readBcd" \notin program.read => ~cd.viaBase0
  BY DEF TInv, ReaderInv, CdFits, SInv, PortInv
<1>1. reader' = Idle
  BY DEF GiveUp, Finish
<1>2. cd'.state = "idle" /\ ("readBcd" \notin program.read => ~cd'.viaBase0)
  <2>1. CASE GiveUp
    <3>1. cd' = CdReset(cd)
      BY <2>1 DEF GiveUp, CdWritten
    <3> QED BY <1>0, <3>1 DEF CdReset, CdState
  <2>2. CASE Finish /\ reader.op = "readBcd"
    <3>1. cd' = ReadBase1(cd, TRUE) /\ Base1Flag(cd)
      BY <2>2 DEF Finish
    <3>2. cd' = [cd EXCEPT !.state = "idle", !.viaBase0 = FALSE]
          \/ (cd' = [cd EXCEPT !.attention = FALSE] /\ cd.state = "idle")
      BY <3>1 DEF ReadBase1, Base1Flag, StreamOver
    <3> QED BY <1>0, <3>2 DEF CdState
  <2>3. CASE Finish /\ reader.op # "readBcd"
    <3>1. UNCHANGED cd /\ reader.at = "finish"
      BY <2>3 DEF Finish, ReaderAt
    <3>2. /\ reader.op = "read" /\ reader.got = reader.count * SectorBytes
          /\ Ended(cd, reader) \/ Reading(cd, reader)
      BY <2>3, <3>1 DEF SInv, Together, Reads
    <3>3. ~Reading(cd, reader)
      <4> SUFFICES ASSUME Reading(cd, reader) PROVE FALSE
        OBVIOUS
      <4>1. PICK k \in 0..reader.count :
              /\ reader.got + SectorBytes = (k * SectorBytes) + cd.pos
              /\ k < reader.count
        BY <3>2 DEF Reading, Placed
      <4>2. /\ reader.count \in Nat /\ SectorBytes \in Nat \ {0} /\ cd.pos \in 0..SectorBytes
            /\ reader.count * SectorBytes \in Nat
        <5>1. reader.count \in Counts
          BY <3>1 DEF TInv, ReaderInv
        <5>2. reader.count \in 1..MaxCount /\ reader.count * SectorBytes \in Nat
          BY <5>1, CountIs
        <5>3. cd.pos \in 0..SectorBytes
          BY <1>0 DEF CdState
        <5> QED BY <5>2, <5>3, SectorNumberIs
      <4>3. k \in Nat /\ (k * SectorBytes) + SectorBytes <= reader.count * SectorBytes
        BY <4>1, <4>2, Products
      <4>4. k * SectorBytes \in Nat
        BY <4>2, <4>3
      <4> DEFINE a == k * SectorBytes  b == reader.count * SectorBytes
      <4>5. a \in Nat /\ b \in Nat /\ a + SectorBytes <= b /\ b + SectorBytes = a + cd.pos
        BY <3>2, <4>1, <4>2, <4>3, <4>4
      <4> HIDE DEF a, b
      <4> QED BY <4>2, <4>5
    <3> QED BY <1>0, <3>1, <3>2, <3>3 DEF Ended
  <2> QED BY <2>1, <2>2, <2>3
<1>3. PortInv(program, cd', Idle) /\ Together(cd', Idle)
  BY <1>2, RestTogether
<1> QED BY <1>1, <1>3 DEF SInv

\* A byte of the result.
LEMMA ResultKeepsSectors ==
  ASSUME TInv, SInv, UNCHANGED program, ReadResult
  PROVE  SInv'
<1>0. CdFits(cd) /\ cd \in CdState /\ reader \in ReaderState
  BY DEF TInv, ReaderInv, CdFits
<1>1. /\ reader.at = "result" /\ ResultAvailable(cd) /\ cd' = ReadBase0(cd, TRUE)
      /\ reader' = IF reader.op = "read" /\ ~cd.error THEN [reader EXCEPT !.at = "data"]
                   ELSE IF cd'.state = "idle" THEN Idle ELSE reader
  BY DEF ReadResult, ReaderAt
<1>2. /\ reader.op \in program.read /\ ("readBcd" \notin program.read => ~cd.viaBase0)
      /\ reader.op \in Reads =>
           \/ cd.state = "result" /\ cd.error
           \/ Reading(cd, reader) /\ reader.op = "read" /\ cd.result = 1
  <2>1. cd.state # "idle"
    BY <1>1 DEF ResultAvailable
  <2> QED BY <1>1, <2>1 DEF SInv, PortInv, Together
<1>3. "readBcd" \notin program.read => ~cd'.viaBase0
  BY <1>0, <1>1, <1>2, WayKept
<1>4. CASE reader.op = "read" /\ ~cd.error
  <2>1. Reading(cd, reader) /\ cd.result = 1
    BY <1>2, <1>4 DEF Reads
  <2> DEFINE left == cd.result - 1
  <2>2. cd' = [cd EXCEPT !.result = left]
    <3>1. cd.state = "stream" /\ cd.result > 0 /\ cd.result # 0
      BY <2>1 DEF Reading, Placed
    <3> QED BY <1>1, <3>1 DEF ReadBase0
  <2>3. left = 0
    BY <2>1
  <2> HIDE DEF left
  <2>4. /\ cd'.state = cd.state /\ cd'.error = cd.error /\ cd'.viaBase0 = cd.viaBase0
        /\ cd'.lba = cd.lba /\ cd'.remaining = cd.remaining /\ cd'.pos = cd.pos
        /\ cd'.buffer = cd.buffer /\ cd'.disc = cd.disc /\ cd'.result = 0
    BY <1>0, <2>2, <2>3 DEF CdState
  <2>5. reader' = [reader EXCEPT !.at = "data"]
    BY <1>1, <1>4
  <2>6. /\ reader'.at = "data" /\ reader'.op = reader.op /\ reader'.lba = reader.lba
        /\ reader'.count = reader.count /\ reader'.got = reader.got
        /\ reader'.wrong = reader.wrong
    BY <1>0, <2>5 DEF ReaderState
  <2>7. Reading(cd', reader')
    BY <2>1, <2>4, <2>6 DEF Reading, Placed
  <2>8. reader'.op \in Reads
    BY <1>4, <2>6 DEF Reads
  <2>9. PortInv(program, cd', reader') /\ Together(cd', reader')
    BY <1>2, <1>3, <2>4, <2>6, <2>7, <2>8 DEF PortInv, Together
  <2> QED BY <2>9 DEF SInv
<1>5. CASE ~(reader.op = "read" /\ ~cd.error) /\ cd'.state = "idle"
  <2>1. PortInv(program, cd', Idle) /\ Together(cd', Idle)
    BY <1>3, <1>5, RestTogether
  <2> QED BY <1>1, <1>5, <2>1 DEF SInv
<1>6. CASE ~(reader.op = "read" /\ ~cd.error) /\ cd'.state # "idle"
  <2>1. UNCHANGED reader
    BY <1>1, <1>6
  <2>2. reader.op \in Reads => cd'.state = "result" /\ cd'.error
    <3> SUFFICES ASSUME reader.op \in Reads PROVE cd'.state = "result" /\ cd'.error
      OBVIOUS
    <3>1. cd.state = "result" /\ cd.error
      BY <1>2, <1>6 DEF Reading, Placed
    <3> DEFINE left == cd.result - 1  state == IF cd.result = 1 THEN "idle" ELSE cd.state
    <3>2. cd' = [cd EXCEPT !.result = left, !.state = state]
      BY <1>1, <3>1 DEF ReadBase0
    <3>3. state = "idle" \/ state = "result"
      BY <3>1
    <3> HIDE DEF left, state
    <3>4. cd'.state = state /\ cd'.error = cd.error
      BY <1>0, <3>2 DEF CdState
    <3> QED BY <1>6, <3>1, <3>3, <3>4
  <2>3. PortInv(program, cd', reader) /\ Together(cd', reader)
    BY <1>1, <1>2, <1>3, <2>2 DEF PortInv, Together
  <2> QED BY <2>1, <2>3 DEF SInv
<1> QED BY <1>4, <1>5, <1>6

\* A byte of the data: while the read goes on it is the byte that is wanted.
LEMMA DataKeepSectors ==
  ASSUME TInv, SInv, UNCHANGED program, ReadSectorByte
  PROVE  SInv'
<1>0. CdFits(cd) /\ cd \in CdState /\ reader \in ReaderState
  BY DEF TInv, ReaderInv, CdFits
<1>1. PICK readable \in BOOLEAN :
       LET byte == IF reader.op = "read" THEN Base1Byte(cd, readable)
                   ELSE Base0Byte(cd, readable)
       IN  /\ cd' = IF reader.op = "read" THEN ReadBase1(cd, readable)
                    ELSE ReadBase0(cd, readable)
           /\ reader' = [reader EXCEPT !.got = @ + 1, !.wrong = @ \/ (reader.got < Reachable /\ byte # Wanted),
                           !.at = IF reader.got + 1 = reader.count * SectorBytes
                                  THEN "finish" ELSE "data"]
  BY DEF ReadSectorByte
<1> DEFINE byte  == IF reader.op = "read" THEN Base1Byte(cd, readable)
                    ELSE Base0Byte(cd, readable)
           got   == reader.got + 1
           wrong == reader.wrong \/ (reader.got < Reachable /\ byte # Wanted)
           at    == IF reader.got + 1 = reader.count * SectorBytes THEN "finish" ELSE "data"
<1>2. /\ cd' = IF reader.op = "read" THEN ReadBase1(cd, readable) ELSE ReadBase0(cd, readable)
      /\ reader' = [reader EXCEPT !.got = got, !.wrong = wrong, !.at = at]
  BY <1>1
<1>3. /\ reader.at = "data" /\ reader.count \in Counts /\ reader.lba \in Nat
      /\ reader.got \in Nat /\ reader.got < reader.count * SectorBytes
      /\ reader.count * SectorBytes \in Nat
  <2>1. /\ reader.at = "data" /\ reader.count \in Counts /\ reader.lba \in Sectors \cup {0}
        /\ reader.got < reader.count * SectorBytes
    BY DEF ReadSectorByte, ReaderAt, TInv, ReaderInv
  <2>2. reader.got \in 0..(MaxCount * SectorBytes) /\ MaxCount * SectorBytes \in Nat
    BY <1>0, <2>1, CountIs DEF ReaderState
  <2> QED BY <2>1, <2>2, SectorNumberIs, CountIs
<1>4. /\ reader.op \in program.read /\ ("readBcd" \notin program.read => ~cd.viaBase0)
      /\ reader.op \in Reads /\ (Ended(cd, reader) \/ (Reading(cd, reader) /\ cd.result = 0))
  BY <1>3 DEF SInv, PortInv, Together
<1>5. "readBcd" \notin program.read => ~cd'.viaBase0
  BY <1>0, <1>2, <1>4, WayKept
<1>6. at \in {"data", "finish"} /\ (at = "finish" => got = reader.count * SectorBytes)
  OBVIOUS
<1> HIDE DEF byte, wrong, at
<1>7. /\ reader'.at = at /\ reader'.op = reader.op /\ reader'.lba = reader.lba
      /\ reader'.count = reader.count /\ reader'.got = got /\ reader'.wrong = wrong
      /\ reader'.changed = reader.changed
  <2> HIDE DEF got
  <2> QED BY <1>0, <1>2 DEF ReaderState
<1>8. ASSUME Ended(cd', reader') \/ (Reading(cd', reader') /\ cd'.result = 0)
      PROVE  SInv'
  <2>1. PortInv(program, cd', reader')
    BY <1>4, <1>5, <1>7 DEF PortInv
  <2>2. Together(cd', reader')
    BY <1>4, <1>6, <1>7, <1>8 DEF Together
  <2> QED BY <2>1, <2>2 DEF SInv
<1>9. CASE Ended(cd, reader)
  <2>1. cd.state = "idle"
    BY <1>9 DEF Ended
  <2>2. cd' = [cd EXCEPT !.attention = FALSE] \/ cd' = cd
    BY <1>2, <2>1 DEF ReadBase1, ReadBase0, StreamOver
  <2>3. cd'.state = "idle" /\ cd'.error = cd.error
    BY <1>0, <2>1, <2>2 DEF CdState
  <2>4. Reached(reader) => Reached(reader')
    <3> SUFFICES ASSUME Reached(reader) PROVE Reached(reader')
      OBVIOUS
    <3> DEFINE all == ((reader.count - 1) * SectorBytes) + 1
    <3>1. reader.op = "read" /\ ~reader.wrong /\ reader.got >= all
      BY DEF Reached
    <3>2. Reachable = all
      BY <3>1 DEF Reachable
    <3>3. all \in Nat
      <4>1. reader.count - 1 \in Nat /\ SectorBytes \in Nat
        BY <1>3, CountIs, SectorNumberIs
      <4>2. (reader.count - 1) * SectorBytes \in Nat
        BY <4>1
      <4> QED BY <4>2
    <3> HIDE DEF all
    <3>4. ~(reader.got < Reachable) /\ got >= all
      BY <1>3, <3>1, <3>2, <3>3
    <3>5. ~wrong
      BY <3>1, <3>4 DEF wrong
    <3> QED BY <1>7, <3>1, <3>4, <3>5 DEF Reached, all
  <2>5. Ended(cd', reader')
    BY <1>7, <1>9, <2>3, <2>4 DEF Ended
  <2> QED BY <1>8, <2>5
<1>10. CASE Reading(cd, reader) /\ cd.result = 0
  <2> DEFINE g == StreamRead(cd, readable)
  <2>1. /\ Placed(cd, reader.op, reader.lba, reader.count, reader.got) /\ ~reader.wrong
        /\ cd.state = "stream" /\ (cd.viaBase0 = (reader.op = "readBcd"))
    BY <1>10 DEF Reading, Placed
  <2>2. cd' = g /\ byte = StreamByte(cd, readable)
    <3>1. CASE reader.op = "read"
      <4>1. ~cd.viaBase0
        BY <2>1, <3>1
      <4> QED BY <1>2, <1>10, <2>1, <3>1, <4>1 DEF ReadBase1, Base1Byte, StreamOver, byte
    <3>2. CASE reader.op = "readBcd"
      <4>1. cd.viaBase0
        BY <2>1, <3>2
      <4> QED BY <1>2, <1>10, <2>1, <3>2, <4>1 DEF ReadBase0, Base0Byte, byte
    <3> QED BY <1>4, <3>1, <3>2 DEF Reads
  <2>3. \/ g.state = "idle" /\ g.error
        \/ /\ StreamByte(cd, readable) =
                 [sector |-> [disc |-> cd.disc, lba |-> reader.lba + (reader.got \div SectorBytes)],
                  at |-> (reader.got % SectorBytes) + 1]
           /\ \/ Placed(g, reader.op, reader.lba, reader.count, reader.got + 1)
                 /\ g.result = cd.result
              \/ /\ g.state = "idle" /\ reader.op = "read"
                 /\ reader.got + 1 >= ((reader.count - 1) * SectorBytes) + 1
    BY <1>0, <1>3, <1>4, <2>1, StreamGoesOn
  <2> HIDE DEF g
  <2>4. CASE g.state = "idle" /\ g.error
    BY <1>8, <2>2, <2>4 DEF Ended
  <2>5. CASE StreamByte(cd, readable) = Wanted
    <3>1. ~wrong
      BY <2>1, <2>2, <2>5 DEF wrong
    <3>2. CASE Placed(g, reader.op, reader.lba, reader.count, reader.got + 1)
               /\ g.result = cd.result
      <4>1. Reading(cd', reader') /\ cd'.result = 0
        BY <1>7, <1>10, <2>2, <3>1, <3>2 DEF Reading
      <4> QED BY <1>8, <4>1
    <3>3. CASE /\ g.state = "idle" /\ reader.op = "read"
               /\ reader.got + 1 >= ((reader.count - 1) * SectorBytes) + 1
      <4>1. Ended(cd', reader')
        BY <1>7, <2>2, <3>1, <3>3 DEF Ended, Reached
      <4> QED BY <1>8, <4>1
    <3> QED BY <2>3, <2>4, <3>2, <3>3
  <2> QED BY <2>3, <2>4, <2>5 DEF Wanted
<1> QED BY <1>4, <1>9, <1>10

\* The host changes the disc: the interface is idle, and the driver's read is
\* no longer to be relied on.
LEMMA ChangeDiscKeepsSectors ==
  ASSUME TInv, SInv, UNCHANGED program, ChangeDisc
  PROVE  SInv'
<1>0. cd \in CdState /\ reader \in ReaderState
  BY DEF TInv, ReaderInv, CdFits
<1>1. /\ (\E disc \in Discs : cd' = LoadDisc(cd, disc)) \/ cd' = EjectDisc(cd)
      /\ reader' = [reader EXCEPT !.changed = TRUE]
  BY DEF ChangeDisc
<1>2. cd'.state = "idle" /\ cd'.viaBase0 = cd.viaBase0
  BY <1>0, <1>1 DEF LoadDisc, EjectDisc, CdState
<1>3. /\ reader'.at = reader.at /\ reader'.op = reader.op /\ reader'.lba = reader.lba
      /\ reader'.count = reader.count /\ reader'.got = reader.got
      /\ reader'.wrong = reader.wrong /\ reader'.changed
  BY <1>0, <1>1 DEF ReaderState
<1>4. Ended(cd', reader')
  BY <1>2, <1>3 DEF Ended
<1>5. PortInv(program, cd', reader')
  BY <1>2, <1>3 DEF SInv, PortInv
<1>6. Together(cd', reader')
  BY <1>2, <1>3, <1>4 DEF SInv, Together
<1> QED BY <1>5, <1>6 DEF SInv

\* The driver is at rest, and the interface new.
LEMMA InitKeepsSectors == Init => SInv
<1> SUFFICES ASSUME Init PROVE SInv
  OBVIOUS
<1>1. cd.state = "idle" /\ ~cd.viaBase0 /\ reader = Idle
  BY DEF Init, CdNew
<1> QED BY <1>1, RestTogether DEF SInv

\* Every step keeps the interface and the driver together.
LEMMA NextKeepsSectors ==
  ASSUME OnePort, TInv, SInv, [Next]_vars
  PROVE  SInv'
<1>1. CASE UNCHANGED vars
  BY <1>1 DEF vars, SInv
<1>2. CASE Next
  <2>1. UNCHANGED program
    BY <1>2 DEF Next
  <2>2. \/ Bus \/ TakeIrq \/ Handler \/ ResetDsp \/ Identify \/ Play \/ EndLoop \/ Pause \/ Sound
        \/ BeginCd \/ SendCd \/ Await \/ (GiveUp \/ Finish)
        \/ ReadResult \/ ReadSectorByte \/ ChangeDisc
    BY <1>2 DEF Next, Reader
  <2> QED BY <2>1, <2>2, OthersKeepSectors, BeginCdKeepsSectors, SendCdKeepsSectors,
             AwaitKeepsSectors, EndCdKeepsSectors, ResultKeepsSectors, DataKeepSectors,
             ChangeDiscKeepsSectors
<1> QED BY <1>1, <1>2

\* A read of the CD-ROM that reports success has delivered every byte that can be
\* had of the sectors asked for, in order and from one disc, unless the host has
\* changed the disc: whatever the counts, the size of a sector, and what the
\* sound driver does meanwhile on the interrupt line they share.
THEOREM SectorsArriveIntact ==
  ASSUME OnePort
  PROVE  Spec => []SectorIntact
<1>1. Init => TInv /\ SInv
  BY InitTypes, InitKeepsSectors
<1>2. TInv /\ SInv /\ [Next]_vars => (TInv /\ SInv)'
  BY NextTypes, NextKeepsSectors
<1>3. TInv /\ SInv => SectorIntact
  <2> SUFFICES ASSUME SInv, reader.at = "finish", ~reader.changed, ~cd.error
               PROVE  ~reader.wrong
    BY DEF SectorIntact
  <2>1. Ended(cd, reader) \/ Reading(cd, reader)
    BY DEF SInv, Together
  <2> QED BY <2>1 DEF Ended, Reached, Reading
<1> QED BY <1>1, <1>2, <1>3, PTL DEF Spec
=============================================================================
