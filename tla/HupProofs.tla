------------------------------ MODULE HupProofs ------------------------------
(***************************************************************************)
(* What hup_unpack reports, for bytes of any width up to eight bits, any   *)
(* tags, any line and a data_buf of any size, frames that are too long for *)
(* it included.                                                            *)
(***************************************************************************)
EXTENDS Hup, Induction, SequenceTheorems

-----------------------------------------------------------------------------
(* Bytes                                                                   *)

LEMMA ByteNat == Byte \subseteq Nat
BY HupAssumption DEF Byte

\* The places of a byte that are worth Radix or more are empty.
LEMMA BitProperties ==
  ASSUME NEW x \in Byte
  PROVE  /\ \A k \in {1, 2, 4, 8, 16, 32, 64, 128} : Bit(x, k) \in {0, 1}
         /\ \A k \in {1, 2, 4, 8, 16, 32, 64, 128} : k >= Radix => Bit(x, k) = 0
<1>1. \A r \in {2, 4, 8, 16, 32, 64, 128, 256} : x \in 0 .. r - 1 =>
         \A k \in {1, 2, 4, 8, 16, 32, 64, 128} : k >= r => x \div k = 0
  OBVIOUS
<1>2. x \in Nat /\ x \in 0 .. Radix - 1
  BY HupAssumption DEF Byte
<1>3. \A k \in {1, 2, 4, 8, 16, 32, 64, 128} : k >= Radix => x \div k = 0
  BY <1>1, <1>2, HupAssumption
<1>4. \A k \in {1, 2, 4, 8, 16, 32, 64, 128} : (x \div k) % 2 \in {0, 1}
  BY <1>2
<1>5. QED
  BY <1>3, <1>4 DEF Bit

\* The exclusive or of two bytes is a byte.
LEMMA BitXorByte ==
  ASSUME NEW x \in Byte, NEW y \in Byte
  PROVE  BitXor(x, y) \in Byte
<1> DEFINE B(k) == (Bit(x, k) + Bit(y, k)) % 2
<1>1. \A k \in {1, 2, 4, 8, 16, 32, 64, 128} : B(k) \in {0, 1} /\ (k >= Radix => B(k) = 0)
  <2> SUFFICES ASSUME NEW k \in {1, 2, 4, 8, 16, 32, 64, 128}
               PROVE  B(k) \in {0, 1} /\ (k >= Radix => B(k) = 0)
    OBVIOUS
  <2>1. Bit(x, k) \in {0, 1} /\ Bit(y, k) \in {0, 1}
        /\ (k >= Radix => Bit(x, k) = 0 /\ Bit(y, k) = 0)
    BY BitProperties
  <2>2. QED
    BY <2>1
<1>2. BitXor(x, y) = OfBits(B)
  BY DEF BitXor
<1> HIDE DEF B
<1>3. OfBits(B) \in 0 .. Radix - 1
  BY <1>1, HupAssumption DEF OfBits
<1>4. QED
  BY <1>2, <1>3 DEF Byte

\* The two bytes of a length make the length, and no other.
LEMMA HighLow ==
  ASSUME NEW hi \in Nat, NEW lo \in Byte
  PROVE  /\ hi * Radix + lo \in Nat
         /\ (hi * Radix + lo) \div Radix = hi
         /\ (hi * Radix + lo) % Radix = lo
<1>1. \A r \in {2, 4, 8, 16, 32, 64, 128, 256} : lo \in 0 .. r - 1 =>
         /\ hi * r + lo \in Nat
         /\ (hi * r + lo) \div r = hi
         /\ (hi * r + lo) % r = lo
  OBVIOUS
<1>2. QED
  BY <1>1, HupAssumption DEF Byte

LEMMA SameHighLow ==
  ASSUME NEW m \in Nat, NEW n \in Nat, m \div Radix = n \div Radix, m % Radix = n % Radix
  PROVE  m = n
<1>1. \A r \in {2, 4, 8, 16, 32, 64, 128, 256} :
         m \div r = n \div r /\ m % r = n % r => m = n
  OBVIOUS
<1>2. QED
  BY <1>1, HupAssumption

\* A byte is a length, and so are two.
LEMMA LengthRange ==
  ASSUME NEW hi \in Byte, NEW lo \in Byte
  PROVE  hi \in 0 .. Radix * Radix - 1 /\ hi * Radix + lo \in 0 .. Radix * Radix - 1
<1> DEFINE InRange(r) == hi \in 0 .. r * r - 1 /\ hi * r + lo \in 0 .. r * r - 1
<1>1. ASSUME NEW r \in {2, 4, 8, 16, 32, 64, 128, 256}, hi \in 0 .. r - 1, lo \in 0 .. r - 1
      PROVE  InRange(r)
  BY <1>1
<1> HIDE DEF InRange
<1>2. InRange(Radix)
  BY <1>1, HupAssumption DEF Byte
<1>3. QED
  BY <1>2 DEF InRange

LEMMA LowByte ==
  ASSUME NEW n \in Nat
  PROVE  n % Radix \in Byte /\ n \div Radix \in Nat
<1>1. \A r \in {2, 4, 8, 16, 32, 64, 128, 256} : n % r \in 0 .. r - 1 /\ n \div r \in Nat
  OBVIOUS
<1>2. QED
  BY <1>1, HupAssumption DEF Byte

-----------------------------------------------------------------------------
(* The checksum's loop                                                     *)

\* The recursion of Xored has a function that satisfies it.
Loops(f, base, bytes, n) ==
  f = [count \in 0 .. n |-> IF count = 0 THEN base ELSE BitXor(f[count - 1], bytes[count])]

LEMMA LoopExists ==
  ASSUME NEW base, NEW bytes
  PROVE  \A n \in Nat : \E f : Loops(f, base, bytes, n)
<1> DEFINE Loop(f, n) == Loops(f, base, bytes, n)
           S == {n \in Nat : \E f : Loop(f, n)}
<1>1. 0 \in S
  <2> DEFINE f == [count \in 0 .. 0 |-> base]
  <2>1. Loop(f, 0)
    BY DEF Loops
  <2>2. QED
    BY <2>1
<1>2. ASSUME NEW n \in Nat, n \in S PROVE n + 1 \in S
  <2>1. PICK f : Loop(f, n)
    BY <1>2
  <2> DEFINE g == [count \in 0 .. n + 1 |->
               IF count = n + 1 THEN BitXor(f[n], bytes[n + 1]) ELSE f[count]]
             h == [count \in 0 .. n + 1 |->
               IF count = 0 THEN base ELSE BitXor(g[count - 1], bytes[count])]
  <2>2. \A count \in 0 .. n + 1 : g[count] = h[count]
    <3> TAKE count \in 0 .. n + 1
    <3>1. CASE count = n + 1
      BY <3>1
    <3>2. CASE count = 0
      BY <2>1, <3>2 DEF Loops
    <3>3. CASE count \in 1 .. n
      <4>1. f[count] = BitXor(f[count - 1], bytes[count])
        BY <2>1, <3>3 DEF Loops
      <4>2. g[count] = f[count] /\ g[count - 1] = f[count - 1]
        BY <3>3
      <4>3. QED
        BY <4>1, <4>2, <3>3
    <3>4. QED
      BY <3>1, <3>2, <3>3
  <2>3. g = [count \in 0 .. n + 1 |-> g[count]] /\ h = [count \in 0 .. n + 1 |-> h[count]]
    OBVIOUS
  <2>4. g = h
    <3> HIDE DEF g, h
    <3> QED
      BY <2>2, <2>3
  <2>5. \E e : Loop(e, n + 1)
    <3> HIDE DEF g
    <3>1. Loop(g, n + 1)
      BY <2>4 DEF Loops
    <3>2. QED
      BY <3>1
  <2>6. QED
    BY <2>5
<1>3. \A n \in Nat : n \in S
  <2> HIDE DEF S
  <2> QED
    BY <1>1, <1>2, SetInduction
<1>4. QED
  BY <1>3

\* Xored is what the loop leaves in check_num.
LEMMA XoredLoop ==
  ASSUME NEW base, NEW bytes \in Seq(Byte)
  PROVE  \E f : /\ f[0] = base
                /\ \A count \in 1 .. Len(bytes) :
                      f[count] = BitXor(f[count - 1], bytes[count])
                /\ Xored(base, bytes) = f[Len(bytes)]
<1> DEFINE f == CHOOSE g : g = [count \in 0 .. Len(bytes) |->
                  IF count = 0 THEN base ELSE BitXor(g[count - 1], bytes[count])]
<1>1. Xored(base, bytes) = f[Len(bytes)]
  BY DEF Xored
<1>2. f = [count \in 0 .. Len(bytes) |->
             IF count = 0 THEN base ELSE BitXor(f[count - 1], bytes[count])]
  <2>1. Len(bytes) \in Nat
    OBVIOUS
  <2>2. PICK g : Loops(g, base, bytes, Len(bytes))
    BY <2>1, LoopExists
  <2>3. QED
    BY <2>2 DEF Loops
<1> HIDE DEF f
<1>3. Len(bytes) \in Nat
  OBVIOUS
<1>4. f[0] = base
  BY <1>2, <1>3
<1>5. \A count \in 1 .. Len(bytes) : f[count] = BitXor(f[count - 1], bytes[count])
  <2> TAKE count \in 1 .. Len(bytes)
  <2>1. count \in 0 .. Len(bytes) /\ count # 0
    OBVIOUS
  <2>2. QED
    BY <1>2, <2>1
<1>6. QED
  BY <1>1, <1>4, <1>5

LEMMA XoredEmpty ==
  ASSUME NEW base
  PROVE  Xored(base, <<>>) = base
<1> DEFINE none == <<>>
<1>1. none \in Seq(Byte) /\ Len(none) = 0
  OBVIOUS
<1> HIDE DEF none
<1>2. PICK f : /\ f[0] = base
               /\ \A count \in 1 .. Len(none) : f[count] = BitXor(f[count - 1], none[count])
               /\ Xored(base, none) = f[Len(none)]
  BY <1>1, XoredLoop
<1>3. QED
  BY <1>1, <1>2 DEF none

\* One byte more is one turn of the loop more.
LEMMA XoredAppend ==
  ASSUME NEW base, NEW bytes \in Seq(Byte), NEW b \in Byte
  PROVE  Xored(base, Append(bytes, b)) = BitXor(Xored(base, bytes), b)
<1> DEFINE longer == Append(bytes, b)
<1>1. /\ longer \in Seq(Byte) /\ Len(longer) = Len(bytes) + 1 /\ Len(bytes) \in Nat
      /\ longer[Len(bytes) + 1] = b
      /\ \A i \in 1 .. Len(bytes) : longer[i] = bytes[i]
  BY AppendProperties
<1> HIDE DEF longer
<1>2. PICK f : /\ f[0] = base
               /\ \A count \in 1 .. Len(bytes) : f[count] = BitXor(f[count - 1], bytes[count])
               /\ Xored(base, bytes) = f[Len(bytes)]
  BY XoredLoop
<1>3. PICK g : /\ g[0] = base
               /\ \A count \in 1 .. Len(longer) : g[count] = BitXor(g[count - 1], longer[count])
               /\ Xored(base, longer) = g[Len(longer)]
  BY <1>1, XoredLoop
<1> DEFINE S == {n \in Nat : n <= Len(bytes) => g[n] = f[n]}
<1>4. 0 \in S
  BY <1>2, <1>3
<1>5. ASSUME NEW n \in Nat, n \in S PROVE n + 1 \in S
  <2> SUFFICES ASSUME n + 1 <= Len(bytes) PROVE g[n + 1] = f[n + 1]
    OBVIOUS
  <2>1. g[n] = f[n]
    BY <1>1, <1>5
  <2>2. n + 1 \in 1 .. Len(bytes) /\ n + 1 \in 1 .. Len(longer) /\ (n + 1) - 1 = n
    BY <1>1
  <2>3. g[n + 1] = BitXor(g[n], bytes[n + 1])
    BY <1>1, <1>3, <2>2
  <2>4. f[n + 1] = BitXor(f[n], bytes[n + 1])
    BY <1>2, <2>2
  <2>5. QED
    BY <2>1, <2>3, <2>4
<1>6. \A n \in Nat : n \in S
  <2> HIDE DEF S
  <2> QED
    BY <1>4, <1>5, SetInduction
<1>7. g[Len(bytes)] = f[Len(bytes)]
  BY <1>1, <1>6
<1>8. Len(longer) \in 1 .. Len(longer) /\ Len(longer) - 1 = Len(bytes)
  BY <1>1
<1>9. g[Len(longer)] = BitXor(g[Len(bytes)], b)
  BY <1>1, <1>3, <1>8
<1>10. QED
  BY <1>2, <1>3, <1>7, <1>9 DEF longer

\* The checksum of bytes is a byte.
LEMMA XoredByte ==
  ASSUME NEW base \in Byte, NEW bytes \in Seq(Byte)
  PROVE  Xored(base, bytes) \in Byte
<1>1. PICK f : /\ f[0] = base
               /\ \A count \in 1 .. Len(bytes) : f[count] = BitXor(f[count - 1], bytes[count])
               /\ Xored(base, bytes) = f[Len(bytes)]
  BY XoredLoop
<1>2. Len(bytes) \in Nat /\ \A i \in 1 .. Len(bytes) : bytes[i] \in Byte
  BY LenProperties, ElementOfSeq
<1> DEFINE S == {n \in Nat : n <= Len(bytes) => f[n] \in Byte}
<1>3. 0 \in S
  BY <1>1
<1>4. ASSUME NEW n \in Nat, n \in S PROVE n + 1 \in S
  <2> SUFFICES ASSUME n + 1 <= Len(bytes) PROVE f[n + 1] \in Byte
    OBVIOUS
  <2>1. n + 1 \in 1 .. Len(bytes) /\ (n + 1) - 1 = n /\ f[n] \in Byte
    BY <1>2, <1>4
  <2>2. f[n + 1] = BitXor(f[n], bytes[n + 1])
    BY <1>1, <2>1
  <2>3. QED
    BY <1>2, <2>1, <2>2, BitXorByte
<1>5. \A n \in Nat : n \in S
  <2> HIDE DEF S
  <2> QED
    BY <1>3, <1>4, SetInduction
<1>6. QED
  BY <1>1, <1>2, <1>5

-----------------------------------------------------------------------------
(* The inductive invariant                                                 *)

States == {"TAG_ONE", "TAG_TWO", "CMD_ID", "LENGTH_H", "LENGTH_L", "DATA", "CHECK_SUM"}

\* The five bytes in front of the data.
Header(cmd, len) == <<HUP_TAG_HR, HUP_TAG_L, cmd, len \div Radix, len % Radix>>

\* The bytes are a frame that the other side's hup_pack builds.
Frame(bytes) ==
  /\ Len(bytes) > 5
  /\ bytes = Packed(HUP_TAG_HR, bytes[3], SubSeq(bytes, 6, Len(bytes) - 1))

\* What has come since the last tag is what the state says, and the checksum
\* covers it; between two frames there is nothing to say.
Tag(bytes, num) ==
  /\ seen = bytes
  /\ s_check_num = num
  /\ data = <<>>
Body ==
  /\ seen = Header(cmd_id, length) \o data
  /\ s_check_num = Xored(HeadNum(HUP_TAG_HR, cmd_id, length), data)
Place ==
  /\ s_state = "TAG_TWO" => Tag(<<HUP_TAG_HR>>, 0)
  /\ s_state = "CMD_ID" => Tag(<<HUP_TAG_HR, HUP_TAG_L>>, BitXor(HUP_TAG_HR, HUP_TAG_L))
  /\ s_state = "LENGTH_H" =>
       Tag(<<HUP_TAG_HR, HUP_TAG_L, cmd_id>>, BitXor(BitXor(HUP_TAG_HR, HUP_TAG_L), cmd_id))
  /\ s_state = "LENGTH_L" =>
       /\ Tag(<<HUP_TAG_HR, HUP_TAG_L, cmd_id, length>>,
              BitXor(BitXor(HUP_TAG_HR, HUP_TAG_L), cmd_id))
       /\ length \in Byte
  /\ s_state = "DATA" => Body /\ Len(data) < length
  /\ s_state = "CHECK_SUM" => Body /\ Len(data) = length

IInv == TypeOK /\ Place /\ FramesReported

LEMMA HeaderBytes ==
  ASSUME NEW cmd \in Byte, NEW len \in Nat
  PROVE  LET h == Header(cmd, len) IN
         /\ h \in Seq(Nat) /\ Len(h) = 5
         /\ h[3] = cmd /\ h[4] = len \div Radix /\ h[5] = len % Radix
<1> DEFINE h == Header(cmd, len)
           hi == len \div Radix
           lo == len % Radix
<1>1. HUP_TAG_HR \in Nat /\ HUP_TAG_L \in Nat /\ cmd \in Nat
  BY HupAssumption, ByteNat
<1>2. hi \in Nat /\ lo \in Nat
  BY LowByte, ByteNat
<1>3. h = <<HUP_TAG_HR, HUP_TAG_L, cmd, hi, lo>>
  BY DEF Header
<1> HIDE DEF h, hi, lo
<1>4. h \in Seq(Nat) /\ Len(h) = 5 /\ h[3] = cmd /\ h[4] = hi /\ h[5] = lo
  BY <1>1, <1>2, <1>3
<1>5. QED
  BY <1>4 DEF h, hi, lo

\* The layout: a header, data and one byte more.
Laid(cmd, len, bytes, b) == (Header(cmd, len) \o bytes) \o <<b>>
LaysOut(s, cmd, len, bytes, b) ==
  /\ Append(Header(cmd, len) \o bytes, b) = s
  /\ s \in Seq(Nat) /\ Len(s) = Len(bytes) + 6
  /\ s[3] = cmd /\ s[4] = len \div Radix /\ s[5] = len % Radix
  /\ \A i \in 1 .. Len(bytes) : s[5 + i] = bytes[i]
  /\ s[Len(bytes) + 6] = b

LEMMA Layout ==
  ASSUME NEW cmd \in Byte, NEW len \in Nat, NEW bytes \in Seq(Byte), NEW b \in Byte
  PROVE  LaysOut(Laid(cmd, len, bytes, b), cmd, len, bytes, b)
<1> DEFINE h == Header(cmd, len)
           t == h \o bytes
           s == Laid(cmd, len, bytes, b)
<1>1. /\ h \in Seq(Nat) /\ Len(h) = 5
      /\ h[3] = cmd /\ h[4] = len \div Radix /\ h[5] = len % Radix
  BY HeaderBytes
<1> HIDE DEF h
<1>2. bytes \in Seq(Nat) /\ Len(bytes) \in Nat /\ b \in Nat
  BY ByteNat, SeqMonotonic, LenProperties
<1>3. /\ t \in Seq(Nat) /\ Len(t) = 5 + Len(bytes)
      /\ \A i \in 1 .. 5 : t[i] = h[i]
      /\ \A i \in 1 .. Len(bytes) : t[5 + i] = bytes[i]
  <2>1. /\ t \in Seq(Nat) /\ Len(t) = Len(h) + Len(bytes)
        /\ \A i \in 1 .. Len(h) + Len(bytes) :
              t[i] = IF i <= Len(h) THEN h[i] ELSE bytes[i - Len(h)]
    BY <1>1, <1>2, ConcatProperties
  <2> HIDE DEF t
  <2>2. ASSUME NEW i \in 1 .. 5 PROVE t[i] = h[i]
    <3>1. i \in 1 .. Len(h) + Len(bytes) /\ i <= Len(h)
      BY <1>1, <1>2
    <3>2. QED
      BY <2>1, <3>1
  <2>3. ASSUME NEW i \in 1 .. Len(bytes) PROVE t[5 + i] = bytes[i]
    <3>1. 5 + i \in 1 .. Len(h) + Len(bytes) /\ ~(5 + i <= Len(h)) /\ 5 + i - Len(h) = i
      BY <1>1, <1>2
    <3>2. QED
      BY <2>1, <3>1
  <2>4. QED
    BY <1>1, <2>1, <2>2, <2>3
<1>4. s = t \o <<b>>
  BY DEF Laid, h
<1> HIDE DEF t, s
<1>5. <<b>> \in Seq(Nat) /\ Len(<<b>>) = 1 /\ <<b>>[1] = b
  BY <1>2
<1>6. /\ s \in Seq(Nat) /\ Len(s) = Len(t) + 1
      /\ \A i \in 1 .. Len(t) + 1 : s[i] = IF i <= Len(t) THEN t[i] ELSE <<b>>[i - Len(t)]
  BY <1>3, <1>5, <1>4, ConcatProperties
<1>7. Append(t, b) = s
  <2>1. Append(t, b) = t \o <<b>>
    BY <1>2, <1>3, AppendIsConcat
  <2>2. QED
    BY <1>4, <2>1
<1>8. s[3] = cmd /\ s[4] = len \div Radix /\ s[5] = len % Radix
  <2> SUFFICES ASSUME NEW i \in 1 .. 5 PROVE s[i] = h[i]
    BY <1>1
  <2>1. i \in 1 .. Len(t) + 1 /\ i <= Len(t)
    BY <1>2, <1>3
  <2>2. QED
    BY <1>3, <1>6, <2>1
<1>9. \A i \in 1 .. Len(bytes) : s[5 + i] = bytes[i]
  <2> TAKE i \in 1 .. Len(bytes)
  <2>1. 5 + i \in 1 .. Len(t) + 1 /\ 5 + i <= Len(t)
    BY <1>2, <1>3
  <2>2. QED
    BY <1>3, <1>6, <2>1
<1>10. s[Len(bytes) + 6] = b
  <2>1. Len(bytes) + 6 \in 1 .. Len(t) + 1 /\ ~(Len(bytes) + 6 <= Len(t))
        /\ Len(bytes) + 6 - Len(t) = 1
    BY <1>2, <1>3
  <2>2. QED
    BY <1>5, <1>6, <2>1
<1>11. QED
  BY <1>2, <1>3, <1>6, <1>7, <1>8, <1>9, <1>10 DEF LaysOut, s, t, h

\* A header, data and a byte are a frame exactly when the length is that of
\* the data and the byte is the checksum.
Says(s, cmd, len, bytes, b) ==
  /\ s[3] = cmd /\ SubSeq(s, 6, Len(s) - 1) = bytes
  /\ Frame(s) <=> len = Len(bytes) /\ b = Xored(HeadNum(HUP_TAG_HR, cmd, len), bytes)

LEMMA FrameOfBody ==
  ASSUME NEW cmd \in Byte, NEW len \in Nat, NEW bytes \in Seq(Byte), NEW b \in Byte
  PROVE  Says(Append(Header(cmd, len) \o bytes, b), cmd, len, bytes, b)
<1> DEFINE num == CheckNum(HUP_TAG_HR, cmd, bytes)
           s == Laid(cmd, len, bytes, b)
           p == Laid(cmd, Len(bytes), bytes, num)
<1>1. num \in Byte /\ Len(bytes) \in Nat
  <2>1. HeadNum(HUP_TAG_HR, cmd, Len(bytes)) \in Byte
    BY LowByte, BitXorByte, HupAssumption DEF HeadNum
  <2>2. QED
    BY <2>1, XoredByte DEF CheckNum
<1>2. p = Packed(HUP_TAG_HR, cmd, bytes)
  BY DEF Packed, Header, Laid
<1>3. num = Xored(HeadNum(HUP_TAG_HR, cmd, Len(bytes)), bytes)
  BY DEF CheckNum
<1> HIDE DEF num
<1>4. LaysOut(s, cmd, len, bytes, b) /\ LaysOut(p, cmd, Len(bytes), bytes, num)
  BY <1>1, Layout
<1> HIDE DEF s, p
<1>5. SubSeq(s, 6, Len(s) - 1) = bytes
  <2> DEFINE sub == SubSeq(s, 6, Len(s) - 1)
  <2>1. \A i \in 6 .. Len(s) - 1 : s[i] \in Nat
    <3> TAKE i \in 6 .. Len(s) - 1
    <3>1. i \in 1 .. Len(s)
      BY <1>1, <1>4 DEF LaysOut
    <3>2. QED
      BY <1>4, <3>1, ElementOfSeq DEF LaysOut
  <2>2. /\ sub \in Seq(Nat) /\ Len(sub) = Len(bytes)
        /\ \A i \in 1 .. Len(bytes) : sub[i] = s[6 + i - 1]
    <3>1. 6 \in Int /\ Len(s) - 1 \in Int
      BY <1>1, <1>4 DEF LaysOut
    <3>2. /\ sub \in Seq(Nat)
          /\ Len(sub) = IF 6 <= Len(s) - 1 THEN Len(s) - 1 - 6 + 1 ELSE 0
          /\ \A i \in 1 .. Len(s) - 1 - 6 + 1 : sub[i] = s[6 + i - 1]
      BY <2>1, <3>1, SubSeqProperties
    <3>3. QED
      BY <1>1, <1>4, <3>2 DEF LaysOut
  <2> HIDE DEF sub
  <2>3. \A i \in 1 .. Len(sub) : sub[i] = bytes[i]
    <3> TAKE i \in 1 .. Len(sub)
    <3>1. 6 + i - 1 = 5 + i /\ i \in 1 .. Len(bytes)
      BY <2>2
    <3>2. QED
      BY <1>4, <2>2, <3>1 DEF LaysOut
  <2>4. bytes \in Seq(Nat)
    BY ByteNat, SeqMonotonic
  <2>5. QED
    BY <2>2, <2>3, <2>4, SeqEqual DEF sub
<1>6. Len(s) > 5
  BY <1>1, <1>4 DEF LaysOut
<1>7. Frame(s) <=> s = p
  BY <1>2, <1>4, <1>5, <1>6 DEF Frame, LaysOut
<1>8. ASSUME s = p PROVE len = Len(bytes) /\ b = num
  <2>1. len \div Radix = Len(bytes) \div Radix /\ len % Radix = Len(bytes) % Radix /\ b = num
    BY <1>4, <1>8 DEF LaysOut
  <2>2. QED
    BY <1>1, <2>1, SameHighLow
<1>9. ASSUME len = Len(bytes), b = num PROVE s = p
  BY <1>9 DEF s, p
<1>10. QED
  BY <1>3, <1>4, <1>5, <1>7, <1>8, <1>9 DEF LaysOut, Says

\* Append on the first bytes of a frame.
LEMMA AppendIs ==
  ASSUME NEW u \in Seq(Byte), NEW v \in Seq(Byte), NEW x \in Byte,
         Len(v) = Len(u) + 1, \A i \in 1 .. Len(u) : v[i] = u[i], v[Len(u) + 1] = x
  PROVE  Append(u, x) = v
<1>1. /\ Append(u, x) \in Seq(Byte) /\ Len(Append(u, x)) = Len(u) + 1 /\ Len(u) \in Nat
      /\ \A i \in 1 .. Len(u) : Append(u, x)[i] = u[i]
      /\ Append(u, x)[Len(u) + 1] = x
  BY AppendProperties, LenProperties
<1>2. \A i \in 1 .. Len(v) : Append(u, x)[i] = v[i]
  <2> TAKE i \in 1 .. Len(v)
  <2>1. i \in 1 .. Len(u) \/ i = Len(u) + 1
    BY <1>1
  <2>2. QED
    BY <1>1, <2>1
<1>3. QED
  BY <1>1, <1>2, SeqEqual

LEMMA AppendToOne ==
  ASSUME NEW a \in Byte, NEW b \in Byte
  PROVE  Append(<<a>>, b) = <<a, b>>
<1> DEFINE u == <<a>>
           v == <<a, b>>
<1>1. u \in Seq(Byte) /\ Len(u) = 1 /\ u[1] = a
  OBVIOUS
<1>2. v \in Seq(Byte) /\ Len(v) = 2 /\ v[1] = a /\ v[2] = b
  OBVIOUS
<1> HIDE DEF u, v
<1>3. ASSUME NEW i \in 1 .. Len(u) PROVE v[i] = u[i]
  <2>1. i = 1
    BY <1>1
  <2>2. QED
    BY <1>1, <1>2, <2>1
<1>4. Len(v) = Len(u) + 1 /\ v[Len(u) + 1] = b
  BY <1>1, <1>2
<1>5. Append(u, b) = v
  BY <1>1, <1>2, <1>3, <1>4, AppendIs
<1>6. QED
  BY <1>5 DEF u, v

LEMMA AppendToTwo ==
  ASSUME NEW a \in Byte, NEW b \in Byte, NEW c \in Byte
  PROVE  Append(<<a, b>>, c) = <<a, b, c>>
<1> DEFINE u == <<a, b>>
           v == <<a, b, c>>
<1>1. u \in Seq(Byte) /\ Len(u) = 2 /\ u[1] = a /\ u[2] = b
  OBVIOUS
<1>2. v \in Seq(Byte) /\ Len(v) = 3 /\ v[1] = a /\ v[2] = b /\ v[3] = c
  OBVIOUS
<1> HIDE DEF u, v
<1>3. ASSUME NEW i \in 1 .. Len(u) PROVE v[i] = u[i]
  <2>1. i = 1 \/ i = 2
    BY <1>1
  <2>2. QED
    BY <1>1, <1>2, <2>1
<1>4. Len(v) = Len(u) + 1 /\ v[Len(u) + 1] = c
  BY <1>1, <1>2
<1>5. Append(u, c) = v
  BY <1>1, <1>2, <1>3, <1>4, AppendIs
<1>6. QED
  BY <1>5 DEF u, v

LEMMA AppendToThree ==
  ASSUME NEW a \in Byte, NEW b \in Byte, NEW c \in Byte, NEW d \in Byte
  PROVE  Append(<<a, b, c>>, d) = <<a, b, c, d>>
<1> DEFINE u == <<a, b, c>>
           v == <<a, b, c, d>>
<1>1. u \in Seq(Byte) /\ Len(u) = 3 /\ u[1] = a /\ u[2] = b /\ u[3] = c
  OBVIOUS
<1>2. v \in Seq(Byte) /\ Len(v) = 4 /\ v[1] = a /\ v[2] = b /\ v[3] = c /\ v[4] = d
  OBVIOUS
<1> HIDE DEF u, v
<1>3. ASSUME NEW i \in 1 .. Len(u) PROVE v[i] = u[i]
  <2>1. i = 1 \/ i = 2 \/ i = 3
    BY <1>1
  <2>2. QED
    BY <1>1, <1>2, <2>1
<1>4. Len(v) = Len(u) + 1 /\ v[Len(u) + 1] = d
  BY <1>1, <1>2
<1>5. Append(u, d) = v
  BY <1>1, <1>2, <1>3, <1>4, AppendIs
<1>6. QED
  BY <1>5 DEF u, v

LEMMA AppendToFour ==
  ASSUME NEW a \in Byte, NEW b \in Byte, NEW c \in Byte, NEW d \in Byte, NEW e \in Byte
  PROVE  Append(<<a, b, c, d>>, e) = <<a, b, c, d, e>>
<1> DEFINE u == <<a, b, c, d>>
           v == <<a, b, c, d, e>>
<1>1. u \in Seq(Byte) /\ Len(u) = 4 /\ u[1] = a /\ u[2] = b /\ u[3] = c /\ u[4] = d
  OBVIOUS
<1>2. v \in Seq(Byte) /\ Len(v) = 5 /\ v[1] = a /\ v[2] = b /\ v[3] = c /\ v[4] = d /\ v[5] = e
  OBVIOUS
<1> HIDE DEF u, v
<1>3. ASSUME NEW i \in 1 .. Len(u) PROVE v[i] = u[i]
  <2>1. i = 1 \/ i = 2 \/ i = 3 \/ i = 4
    BY <1>1
  <2>2. QED
    BY <1>1, <1>2, <2>1
<1>4. Len(v) = Len(u) + 1 /\ v[Len(u) + 1] = e
  BY <1>1, <1>2
<1>5. Append(u, e) = v
  BY <1>1, <1>2, <1>3, <1>4, AppendIs
<1>6. QED
  BY <1>5 DEF u, v

-----------------------------------------------------------------------------
(* The steps, one per state                                                *)

LEMMA InitInvariant == Init => IInv
<1> SUFFICES ASSUME Init PROVE IInv
  OBVIOUS
<1>1. seen \in Seq(Byte) /\ Len(seen) = 0 /\ data \in Seq(Byte)
  BY DEF Init
<1>2. 0 \in Byte /\ 0 \in 0 .. Radix * Radix - 1
  <2>1. 0 \in Byte
    BY HupAssumption DEF Byte
  <2>2. QED
    BY <2>1, LengthRange
<1>3. TypeOK
  <2>1. length \in 0 .. Radix * Radix - 1 /\ s_check_num \in Byte /\ cmd_id \in Byte
    BY <1>2 DEF Init
  <2>2. s_state = "TAG_ONE" /\ status \in BOOLEAN
    BY DEF Init
  <2>3. QED
    BY <1>1, <2>1, <2>2 DEF TypeOK
<1>4. Place
  BY DEF Init, Place
<1>5. FramesReported
  BY <1>1 DEF Init, FramesReported
<1>6. QED
  BY <1>3, <1>4, <1>5 DEF IInv

LEMMA TagOneStep ==
  ASSUME IInv, NEW b \in Byte, TagOne(b)
  PROVE  IInv'
<1>1. seen' \in Seq(Byte) /\ Len(seen') = 1 /\ status' = FALSE
  BY DEF TagOne
<1>2. 0 \in Byte
  BY HupAssumption DEF Byte
<1>3. TypeOK'
  <2>1. <<>> \in Seq(Byte)
    OBVIOUS
  <2>2. s_state' \in {"TAG_ONE", "TAG_TWO"} /\ s_check_num' \in Byte /\ data' \in Seq(Byte)
    BY <1>2, <2>1 DEF IInv, TypeOK, TagOne
  <2>3. QED
    BY <1>1, <2>2 DEF IInv, TypeOK, TagOne
<1>4. Place'
  BY DEF TagOne, Place, Tag
<1>5. FramesReported'
  BY <1>1 DEF FramesReported
<1>6. QED
  BY <1>3, <1>4, <1>5 DEF IInv

LEMMA TagTwoStep ==
  ASSUME IInv, NEW b \in Byte, TagTwo(b)
  PROVE  IInv'
<1>1. seen = <<HUP_TAG_HR>> /\ data = <<>>
  BY DEF IInv, Place, Tag, TagTwo
<1>2. HUP_TAG_HR \in Byte /\ HUP_TAG_L \in Byte
  BY HupAssumption
<1>3. seen' = <<HUP_TAG_HR, b>> /\ status' = FALSE
  BY <1>1, <1>2, AppendToOne DEF TagTwo, Follow
<1>4. seen' \in Seq(Byte) /\ Len(seen') = 2
  BY <1>3, <1>2
<1>5. s_check_num' \in Byte
  BY <1>2, BitXorByte DEF IInv, TypeOK, TagTwo
<1>6. TypeOK'
  BY <1>1, <1>4, <1>5 DEF IInv, TypeOK, TagTwo, Follow
<1>7. Place'
  BY <1>1, <1>3 DEF TagTwo, Follow, Place, Tag
<1>8. FramesReported'
  BY <1>3, <1>4 DEF FramesReported
<1>9. QED
  BY <1>6, <1>7, <1>8 DEF IInv

LEMMA CmdIdStep ==
  ASSUME IInv, NEW b \in Byte, CmdId(b)
  PROVE  IInv'
<1>1. /\ seen = <<HUP_TAG_HR, HUP_TAG_L>> /\ data = <<>>
      /\ s_check_num = BitXor(HUP_TAG_HR, HUP_TAG_L)
  BY DEF IInv, Place, Tag, CmdId
<1>2. HUP_TAG_HR \in Byte /\ HUP_TAG_L \in Byte
  BY HupAssumption
<1>3. seen' = <<HUP_TAG_HR, HUP_TAG_L, b>> /\ status' = FALSE
  BY <1>1, <1>2, AppendToTwo DEF CmdId, Follow
<1>4. seen' \in Seq(Byte) /\ Len(seen') = 3
  BY <1>3, <1>2
<1>5. s_check_num' \in Byte
  BY BitXorByte DEF IInv, TypeOK, CmdId
<1>6. TypeOK'
  BY <1>4, <1>5 DEF IInv, TypeOK, CmdId, Follow
<1>7. Place'
  BY <1>1, <1>3 DEF CmdId, Follow, Place, Tag
<1>8. FramesReported'
  BY <1>3, <1>4 DEF FramesReported
<1>9. QED
  BY <1>6, <1>7, <1>8 DEF IInv

LEMMA LengthHStep ==
  ASSUME IInv, NEW b \in Byte, LengthH(b)
  PROVE  IInv'
<1>1. /\ seen = <<HUP_TAG_HR, HUP_TAG_L, cmd_id>> /\ data = <<>>
      /\ s_check_num = BitXor(BitXor(HUP_TAG_HR, HUP_TAG_L), cmd_id)
  BY DEF IInv, Place, Tag, LengthH
<1>2. HUP_TAG_HR \in Byte /\ HUP_TAG_L \in Byte /\ cmd_id \in Byte
  BY HupAssumption DEF IInv, TypeOK
<1>3. seen' = <<HUP_TAG_HR, HUP_TAG_L, cmd_id, b>> /\ status' = FALSE
  BY <1>1, <1>2, AppendToThree DEF LengthH, Follow
<1>4. seen' \in Seq(Byte) /\ Len(seen') = 4
  BY <1>3, <1>2
<1>5. length' \in 0 .. Radix * Radix - 1
  BY LengthRange DEF LengthH
<1>6. TypeOK'
  BY <1>4, <1>5 DEF IInv, TypeOK, LengthH, Follow
<1>7. Place'
  BY <1>1, <1>3 DEF LengthH, Follow, Place, Tag
<1>8. FramesReported'
  BY <1>3, <1>4 DEF FramesReported
<1>9. QED
  BY <1>6, <1>7, <1>8 DEF IInv

LEMMA LengthLStep ==
  ASSUME IInv, NEW b \in Byte, LengthL(b)
  PROVE  IInv'
<1>1. /\ seen = <<HUP_TAG_HR, HUP_TAG_L, cmd_id, length>> /\ data = <<>>
      /\ s_check_num = BitXor(BitXor(HUP_TAG_HR, HUP_TAG_L), cmd_id)
      /\ length \in Byte
  BY DEF IInv, Place, Tag, LengthL
<1>2. HUP_TAG_HR \in Byte /\ HUP_TAG_L \in Byte /\ cmd_id \in Byte
  BY HupAssumption DEF IInv, TypeOK
<1>3. seen' = <<HUP_TAG_HR, HUP_TAG_L, cmd_id, length, b>> /\ status' = FALSE
  BY <1>1, <1>2, AppendToFour DEF LengthL, Follow
<1>4. seen' \in Seq(Byte) /\ Len(seen') = 5
  BY <1>1, <1>3, <1>2
<1>5. length' \in Nat /\ length' \div Radix = length /\ length' % Radix = b
  BY <1>1, ByteNat, HighLow DEF LengthL
<1>6. length' \in 0 .. Radix * Radix - 1 /\ s_check_num' \in Byte
  <2>1. length' \in 0 .. Radix * Radix - 1
    BY <1>1, LengthRange DEF LengthL
  <2>2. s_check_num' \in Byte
    BY <1>5, BitXorByte DEF IInv, TypeOK, LengthL
  <2>3. QED
    BY <2>1, <2>2
<1>7. TypeOK'
  <2>1. s_state' \in {"DATA", "CHECK_SUM"} /\ data' = data /\ cmd_id' = cmd_id
    BY DEF LengthL
  <2>2. Len(data') <= length' /\ data' \in Seq(Byte) /\ cmd_id' \in Byte
    BY <1>1, <1>2, <1>5, <2>1 DEF IInv, TypeOK
  <2>3. QED
    BY <1>3, <1>4, <1>6, <2>1, <2>2 DEF TypeOK
<1>8. seen' = Header(cmd_id', length') \o data'
  <2>1. seen' = Header(cmd_id', length')
    BY <1>3, <1>5 DEF LengthL, Header
  <2>2. data' = <<>>
    BY <1>1 DEF LengthL
  <2>3. QED
    BY <1>4, <2>1, <2>2, ConcatEmptySeq
<1>9. s_check_num' = Xored(HeadNum(HUP_TAG_HR, cmd_id', length'), data')
  BY <1>1, <1>5, XoredEmpty DEF LengthL, HeadNum
<1>10. Len(data') = 0
  BY <1>1 DEF LengthL
<1>11. Place'
  <2>1. \/ s_state' = "CHECK_SUM" /\ length' = 0
        \/ s_state' = "DATA" /\ length' > 0
    BY <1>5 DEF LengthL
  <2>2. Body'
    BY <1>8, <1>9 DEF Body
  <2>3. QED
    BY <1>3, <1>10, <2>1, <2>2 DEF Place
<1>12. FramesReported'
  BY <1>3, <1>4 DEF FramesReported
<1>13. QED
  BY <1>7, <1>11, <1>12 DEF IInv

LEMMA DataStep ==
  ASSUME IInv, NEW b \in Byte, Data(b)
  PROVE  IInv'
<1>1. /\ seen = Header(cmd_id, length) \o data
      /\ s_check_num = Xored(HeadNum(HUP_TAG_HR, cmd_id, length), data)
      /\ Len(data) < length
      /\ data \in Seq(Byte) /\ length \in Nat /\ cmd_id \in Byte /\ seen \in Seq(Byte)
  BY DEF IInv, Place, Body, TypeOK, Data
<1>2. /\ seen' = Append(Header(cmd_id, length) \o data, b)
      /\ data' = Append(data, b) /\ cmd_id' = cmd_id /\ length' = length
  BY <1>1 DEF Data, Store
<1>3. data' \in Seq(Byte) /\ Len(data') = Len(data) + 1 /\ Len(data) \in Nat
  BY <1>1, <1>2, AppendProperties, LenProperties
<1>4. seen' \in Seq(Byte)
  BY <1>1, <1>2, AppendProperties
<1>5. s_check_num' \in Byte
  BY BitXorByte DEF IInv, TypeOK, Data
<1>6. \/ s_state' = "CHECK_SUM" /\ Len(data') = length'
      \/ s_state' = "DATA" /\ Len(data') < length'
  BY <1>1, <1>2, <1>3 DEF Data
<1>7. TypeOK'
  <2>1. length' \in 0 .. Radix * Radix - 1 /\ cmd_id' \in Byte
    BY <1>1, <1>2 DEF IInv, TypeOK
  <2>2. s_state' \in States /\ Len(data') <= length'
    BY <1>1, <1>2, <1>3, <1>6 DEF States
  <2>3. status' \in BOOLEAN
    BY DEF Data, Store
  <2>4. QED
    BY <1>3, <1>4, <1>5, <2>1, <2>2, <2>3 DEF TypeOK, States
<1>8. Body'
  <2>1. seen' = Header(cmd_id, length) \o data'
    <3>1. /\ Append(Header(cmd_id, length) \o data, b) = (Header(cmd_id, length) \o data) \o <<b>>
          /\ data' = data \o <<b>>
      BY <1>1, <1>2, AppendIsConcat
    <3>2. Header(cmd_id, length) \in Seq(Nat)
      BY <1>1, HeaderBytes
    <3>3. data \in Seq(Nat) /\ <<b>> \in Seq(Nat)
      <4>1. b \in Nat
        BY ByteNat
      <4>2. data \in Seq(Nat)
        BY <1>1, ByteNat, SeqMonotonic
      <4>3. QED
        BY <4>1, <4>2
    <3>4. (Header(cmd_id, length) \o data) \o <<b>> = Header(cmd_id, length) \o (data \o <<b>>)
      BY <3>2, <3>3, ConcatAssociative
    <3>5. QED
      BY <1>2, <3>1, <3>4
  <2>2. s_check_num' = Xored(HeadNum(HUP_TAG_HR, cmd_id, length), data')
    BY <1>1, <1>2, XoredAppend DEF Data
  <2>3. QED
    BY <1>2, <2>1, <2>2 DEF Body
<1>9. Place'
  BY <1>2, <1>6, <1>8 DEF Place
<1>10. ~Frame(seen')
  <2>1. length # Len(data)
    BY <1>1, <1>3
  <2>2. QED
    BY <1>1, <1>2, <2>1, FrameOfBody DEF Says
<1>11. FramesReported'
  <2>1. ~(status' /\ Len(data') <= DATA_BUF_SIZE)
    BY <1>3, HupAssumption DEF Data, Store
  <2>2. QED
    BY <1>10, <2>1 DEF FramesReported, Frame
<1>12. QED
  BY <1>7, <1>9, <1>11 DEF IInv

LEMMA CheckSumStep ==
  ASSUME IInv, NEW b \in Byte, CheckSum(b)
  PROVE  IInv'
<1>1. /\ seen = Header(cmd_id, length) \o data
      /\ s_check_num = Xored(HeadNum(HUP_TAG_HR, cmd_id, length), data)
      /\ Len(data) = length
      /\ data \in Seq(Byte) /\ length \in Nat /\ cmd_id \in Byte /\ seen \in Seq(Byte)
  BY DEF IInv, Place, Body, TypeOK, CheckSum
<1>2. /\ seen' = Append(Header(cmd_id, length) \o data, b)
      /\ data' = data /\ cmd_id' = cmd_id /\ length' = length
      /\ status' = (s_check_num = b) /\ s_state' = "TAG_ONE" /\ s_check_num' = 0
  BY <1>1 DEF CheckSum
<1>3. TypeOK'
  <2>1. seen' \in Seq(Byte)
    BY <1>1, <1>2, AppendProperties
  <2>2. 0 \in Byte /\ length \in 0 .. Radix * Radix - 1
    BY HupAssumption DEF Byte, IInv, TypeOK
  <2>3. status' \in BOOLEAN
    BY <1>2
  <2>4. QED
    BY <1>1, <1>2, <2>1, <2>2, <2>3 DEF TypeOK
<1>4. Place'
  BY <1>2 DEF Place
<1>5. /\ seen'[3] = cmd_id /\ SubSeq(seen', 6, Len(seen') - 1) = data
      /\ Frame(seen') <=> b = s_check_num
  <2>1. Says(seen', cmd_id, length, data, b)
    BY <1>1, <1>2, FrameOfBody
  <2>2. QED
    BY <1>1, <2>1 DEF Says
<1>6. (status' <=> Frame(seen')) /\ (status' => Len(SubSeq(seen', 6, Len(seen') - 1)) = length)
  BY <1>1, <1>2, <1>5
<1>7. FramesReported'
  BY <1>2, <1>5, <1>6 DEF FramesReported, Frame
<1>8. QED
  BY <1>3, <1>4, <1>7 DEF IInv

-----------------------------------------------------------------------------
(* The theorems                                                            *)

LEMMA Invariant == Spec => []IInv
<1>1. Init => IInv
  BY InitInvariant
<1>2. IInv /\ [Next]_vars => IInv'
  <2> SUFFICES ASSUME IInv, [Next]_vars PROVE IInv'
    OBVIOUS
  <2>1. ASSUME NEW pack_data \in Fed, hup_unpack(pack_data) PROVE IInv'
    <3> pack_data \in Byte
      BY HupAssumption
    <3>1. CASE TagOne(pack_data)
      BY <3>1, TagOneStep
    <3>2. CASE TagTwo(pack_data)
      BY <3>2, TagTwoStep
    <3>3. CASE CmdId(pack_data)
      BY <3>3, CmdIdStep
    <3>4. CASE LengthH(pack_data)
      BY <3>4, LengthHStep
    <3>5. CASE LengthL(pack_data)
      BY <3>5, LengthLStep
    <3>6. CASE Data(pack_data)
      BY <3>6, DataStep
    <3>7. CASE CheckSum(pack_data)
      BY <3>7, CheckSumStep
    <3>8. QED
      BY <2>1, <3>1, <3>2, <3>3, <3>4, <3>5, <3>6, <3>7 DEF hup_unpack
  <2>2. CASE UNCHANGED vars
    BY <2>2 DEF IInv, TypeOK, Place, Tag, Body, FramesReported, vars
  <2>3. QED
    BY <2>1, <2>2 DEF Next
<1>3. QED
  BY <1>1, <1>2, PTL DEF Spec

\* hup_unpack's state keeps its shape and the data of a frame never outgrows
\* the length that the frame announced.
THEOREM TypeCorrect == Spec => []TypeOK
<1>1. IInv => TypeOK
  BY DEF IInv
<1>2. QED
  BY <1>1, Invariant, PTL

\* hup_unpack reports a frame whenever the bytes since it began to look for one
\* are what hup_pack builds on the other side, and as long as the data fits
\* data_buf it reports nothing else and nothing but that frame's command,
\* length and data.  Longer data is modelled up to the byte that lands in
\* status, of which only the first half is claimed.
THEOREM ReportsFrames == Spec => []FramesReported
<1>1. IInv => FramesReported
  BY DEF IInv
<1>2. QED
  BY <1>1, Invariant, PTL

=============================================================================
