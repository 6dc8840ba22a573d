--------------------------- MODULE HipStreamProofs ---------------------------
(***************************************************************************)
(* The three pipes keep HIP packets intact, and a client that has lost     *)
(* them takes no garbage for an answer: for any packets, fifo, traffic and *)
(* cuts of recv.                                                           *)
(***************************************************************************)
EXTENDS HipStream, Induction, SequenceTheorems, FiniteSetTheorems

-----------------------------------------------------------------------------
(* The bytes of a packet                                                   *)

\* or'ed to a length below 256, a high byte of 0 changes nothing.
LEMMA BitOrByte ==
  ASSUME NEW x \in Byte, NEW y \in Byte
  PROVE  BitOr(x, y) \in Byte
<1> DEFINE B(k) == IF Bit(x, k) + Bit(y, k) = 0 THEN 0 ELSE 1
<1>1. \A k \in {1, 2, 4, 8, 16, 32, 64, 128} : B(k) \in {0, 1}
  OBVIOUS
<1>2. BitOr(x, y) = OfBits(B)
  BY DEF BitOr
<1> HIDE DEF B
<1>3. OfBits(B) \in 0 .. 255
  BY <1>1 DEF OfBits
<1>4. QED
  BY <1>2, <1>3 DEF Byte

LEMMA BitOrZero ==
  ASSUME NEW y \in Byte
  PROVE  BitOr(0, y) = y
<1> DEFINE B(k) == IF Bit(0, k) + Bit(y, k) = 0 THEN 0 ELSE 1
<1>1. y \in 0 .. 255
  BY DEF Byte
<1>2. \A k \in {1, 2, 4, 8, 16, 32, 64, 128} : B(k) = (y \div k) % 2
  BY <1>1 DEF Bit
<1>3. BitOr(0, y) = OfBits(B)
  BY DEF BitOr
<1> HIDE DEF B
<1>4. OfBits(B) = ((y \div 1) % 2) + 2 * ((y \div 2) % 2) + 4 * ((y \div 4) % 2)
         + 8 * ((y \div 8) % 2) + 16 * ((y \div 16) % 2) + 32 * ((y \div 32) % 2)
         + 64 * ((y \div 64) % 2) + 128 * ((y \div 128) % 2)
  BY <1>2 DEF OfBits
<1> DEFINE y1 == y \div 2
           y2 == y1 \div 2
           y3 == y2 \div 2
           y4 == y3 \div 2
           y5 == y4 \div 2
           y6 == y5 \div 2
           y7 == y6 \div 2
<1>5. /\ y \div 4 = y2 /\ y \div 8 = y3 /\ y \div 16 = y4 /\ y \div 32 = y5
      /\ y \div 64 = y6 /\ y \div 128 = y7
  BY <1>1
<1>6. /\ y = 2 * y1 + (y % 2) /\ y1 = 2 * y2 + (y1 % 2) /\ y2 = 2 * y3 + (y2 % 2)
      /\ y3 = 2 * y4 + (y3 % 2) /\ y4 = 2 * y5 + (y4 % 2) /\ y5 = 2 * y6 + (y5 % 2)
      /\ y6 = 2 * y7 + (y6 % 2) /\ y7 = (y7 % 2) /\ y \div 1 = y
  BY <1>1
<1>7. QED
  BY <1>1, <1>3, <1>4, <1>5, <1>6

\* The bytes after the header.
Size(p) == IF p.cmd = PASS_THROUGH THEN Len(p.data) ELSE 2 + Len(LocalIp)

LEMMA Constants ==
  /\ BYTE_PACK_HEAD_SIZE = 17
  /\ FifoSize \in Nat /\ FifoSize > 0 /\ PackSlots \in Nat /\ PackSlots > 0
  /\ TEMP_BUF_SIZE \in Nat /\ TEMP_BUF_SIZE >= 34 /\ TEMP_BUF_SIZE <= 256
  /\ LocalIp \in Seq(Byte) /\ Len(LocalIp) \in Nat /\ Len(LocalIp) <= 15
  /\ \A n \in ChunkSizes : n \in Nat /\ n > 0 /\ n \div 256 < 256
<1>1. \A n \in ChunkSizes : n \in Nat /\ n > 0 /\ n \div 256 < 256
  BY HipAssumption
<1>2. TEMP_BUF_SIZE \in 34 .. 256
  BY HipAssumption
<1>3. TEMP_BUF_SIZE \in Nat /\ TEMP_BUF_SIZE >= 34 /\ TEMP_BUF_SIZE <= 256
  BY <1>2
<1>4. Len(LocalIp) \in 7 .. 15
  BY HipAssumption
<1>5. Len(LocalIp) \in Nat /\ Len(LocalIp) <= 15
  <2>1. \A n \in 7 .. 15 : n \in Nat /\ n <= 15
    OBVIOUS
  <2>2. QED
    BY <1>4, <2>1
<1>6. BYTE_PACK_HEAD_SIZE = 17
  BY HipAssumption
<1>7. FifoSize \in Nat /\ FifoSize > 0 /\ PackSlots \in Nat /\ PackSlots > 0
  BY HipAssumption
<1>8. LocalIp \in Seq(Byte)
  BY HipAssumption
<1>9. QED
  BY <1>1, <1>3, <1>5, <1>6, <1>7, <1>8

LEMMA PacketFields ==
  ASSUME NEW p \in Packets
  PROVE  /\ p.cmd \in {LOGIN, KEEP_ALIVE, PASS_THROUGH} /\ p.cmd \in Byte
         /\ p.data \in Seq(Byte)
         /\ Size(p) \in Nat /\ Size(p) < 256 /\ 17 + Size(p) <= TEMP_BUF_SIZE
<1>1. p \in [cmd : {LOGIN, KEEP_ALIVE, PASS_THROUGH}, data : Seq(Byte)]
  BY PacketAssumption
<1>2. Len(p.data) <= TEMP_BUF_SIZE - 17 /\ Len(p.data) \in Nat
  BY <1>1, PacketAssumption, LenProperties
<1>3. /\ TEMP_BUF_SIZE \in Nat /\ TEMP_BUF_SIZE >= 34 /\ TEMP_BUF_SIZE <= 256
      /\ Len(LocalIp) \in Nat /\ Len(LocalIp) <= 15
  BY Constants
<1>4. /\ p.cmd \in {LOGIN, KEEP_ALIVE, PASS_THROUGH} /\ p.data \in Seq(Byte)
  BY <1>1
<1>5. p.cmd \in Byte
  BY <1>4 DEF LOGIN, KEEP_ALIVE, PASS_THROUGH, Byte
<1>6. Size(p) \in Nat /\ Size(p) < 256 /\ 17 + Size(p) <= TEMP_BUF_SIZE
  BY <1>2, <1>3 DEF Size
<1>7. QED
  BY <1>4, <1>5, <1>6

\* u is s and then t.
Joins(u, s, t) ==
  /\ u \in Seq(Byte) /\ Len(u) = Len(s) + Len(t)
  /\ \A i \in 1 .. Len(s) : u[i] = s[i]
  /\ \A i \in 1 .. Len(t) : u[Len(s) + i] = t[i]

LEMMA Joined ==
  ASSUME NEW s \in Seq(Byte), NEW t \in Seq(Byte)
  PROVE  Joins(s \o t, s, t)
<1>1. s \o t \in Seq(Byte) /\ Len(s \o t) = Len(s) + Len(t)
  BY ConcatProperties
<1>2. \A i \in 1 .. Len(s) + Len(t) :
        (s \o t)[i] = IF i <= Len(s) THEN s[i] ELSE t[i - Len(s)]
  BY ConcatProperties
<1>3. Len(s) \in Nat /\ Len(t) \in Nat
  BY LenProperties
<1> DEFINE u == s \o t
<1> HIDE DEF u
<1>4. \A i \in 1 .. Len(s) : u[i] = s[i]
  BY <1>2, <1>3 DEF u
<1>5. \A i \in 1 .. Len(t) : u[Len(s) + i] = t[i]
  <2> TAKE i \in 1 .. Len(t)
  <2>1. /\ Len(s) + i \in 1 .. Len(s) + Len(t) /\ ~(Len(s) + i <= Len(s))
        /\ (Len(s) + i) - Len(s) = i
    BY <1>3
  <2>2. QED
    BY <1>2, <2>1 DEF u
<1>6. QED
  BY <1>1, <1>4, <1>5 DEF Joins, u

\* The bytes of a header that its reader looks at.
Heads(bytes, cmd, hi, lo) ==
  /\ bytes \in Seq(Byte) /\ Len(bytes) >= 4
  /\ bytes[2] = cmd /\ bytes[3] = hi /\ bytes[4] = lo

LEMMA HeadsJoined ==
  ASSUME NEW s \in Seq(Byte), NEW t \in Seq(Byte), NEW cmd, NEW hi, NEW lo,
         Heads(s, cmd, hi, lo)
  PROVE  Heads(s \o t, cmd, hi, lo)
<1>1. Joins(s \o t, s, t)
  BY Joined
<1> DEFINE u == s \o t
<1> HIDE DEF u
<1>2. Len(s) \in Nat /\ Len(t) \in Nat
  BY LenProperties
<1>3. QED
  BY <1>1, <1>2 DEF Joins, Heads, u

LEMMA HeadBytes ==
  ASSUME NEW cmd \in Byte, NEW len \in Nat, len \div 256 < 256
  PROVE  /\ Heads(Head17(cmd, len), cmd, len \div 256, len % 256)
         /\ Len(Head17(cmd, len)) = 17
<1>1. PICK hi, lo : hi = len \div 256 /\ lo = len % 256
  OBVIOUS
<1>2. hi \in Byte /\ lo \in Byte
  <2>1. hi \in Nat /\ hi < 256 /\ lo \in Nat /\ lo < 256
    BY <1>1
  <2>2. QED
    BY <2>1 DEF Byte
<1>3. PICK a : a = <<1, cmd>>
  OBVIOUS
<1>4. PICK b : b = <<hi, lo>>
  OBVIOUS
<1>5. PICK c : c = <<1, 0, 0, 0, 12, 41, 230, 250, 99>>
  OBVIOUS
<1>6. PICK d : d = <<cmd, cmd, cmd, cmd>>
  OBVIOUS
<1>7. PICK ab : ab = a \o b
  OBVIOUS
<1>8. PICK abc : abc = ab \o c
  OBVIOUS
<1>9. PICK abcd : abcd = abc \o d
  OBVIOUS
<1>10. Head17(cmd, len) = abcd
  BY <1>1, <1>3, <1>4, <1>5, <1>6, <1>7, <1>8, <1>9, ZenonT(60) DEF Head17, HiLo
<1>11. a \in Seq(Byte) /\ Len(a) = 2 /\ a[2] = cmd
  BY <1>3 DEF Byte
<1>12. b \in Seq(Byte) /\ Len(b) = 2 /\ b[1] = hi /\ b[2] = lo
  BY <1>2, <1>4
<1>13. c \in Seq(Byte) /\ Len(c) = 9
  BY <1>5 DEF Byte
<1>14. d \in Seq(Byte) /\ Len(d) = 4
  BY <1>6
<1>15. Joins(ab, a, b)
  BY <1>7, <1>11, <1>12, Joined
<1>16. ab \in Seq(Byte) /\ Len(ab) = 4 /\ Heads(ab, cmd, hi, lo)
  BY <1>11, <1>12, <1>15 DEF Joins, Heads
<1>17. Joins(abc, ab, c) /\ Heads(abc, cmd, hi, lo)
  BY <1>8, <1>13, <1>16, Joined, HeadsJoined
<1>18. abc \in Seq(Byte) /\ Len(abc) = 13
  BY <1>13, <1>16, <1>17 DEF Joins
<1>19. Joins(abcd, abc, d) /\ Heads(abcd, cmd, hi, lo)
  BY <1>9, <1>14, <1>17, <1>18, Joined, HeadsJoined
<1>20. Len(abcd) = 17
  BY <1>14, <1>18, <1>19 DEF Joins
<1>21. QED
  BY <1>1, <1>10, <1>19, <1>20

LEMMA PackBytes ==
  ASSUME NEW p \in Packets
  PROVE  Heads(hip_mod_pack(p), p.cmd, 0, Size(p)) /\ Len(hip_mod_pack(p)) = 17 + Size(p)
<1>1. /\ p.cmd \in {LOGIN, KEEP_ALIVE, PASS_THROUGH} /\ p.cmd \in Byte /\ p.data \in Seq(Byte)
      /\ Size(p) \in Nat /\ Size(p) < 256
  BY PacketFields
<1>2. Size(p) \div 256 = 0 /\ Size(p) % 256 = Size(p) /\ Size(p) \in Byte
  <2>1. \A n \in Nat : n < 256 => n \div 256 = 0 /\ n % 256 = n
    OBVIOUS
  <2>2. \A n \in Nat : n < 256 => n \in Byte
    BY DEF Byte
  <2>3. QED
    BY <1>1, <2>1, <2>2
<1>3. PICK h : h = Head17(p.cmd, Size(p))
  OBVIOUS
<1>4. h \in Seq(Byte) /\ Len(h) = 17 /\ Heads(h, p.cmd, 0, Size(p))
  BY <1>1, <1>2, <1>3, HeadBytes DEF Heads
<1>5. PICK bytes : bytes = IF p.cmd = PASS_THROUGH THEN hip_pack_uart_data(p)
                                                   ELSE hip_pack_tcp_data(p)
  OBVIOUS
<1>6. bytes \in Seq(Byte) /\ Len(bytes) = 17 + Size(p) /\ Heads(bytes, p.cmd, 0, Size(p))
  <2>1. CASE p.cmd = PASS_THROUGH
    <3>1. bytes = h \o p.data /\ Size(p) = Len(p.data)
      BY <1>3, <1>5, <2>1 DEF hip_pack_uart_data, Size
    <3>2. Joins(bytes, h, p.data) /\ Heads(bytes, p.cmd, 0, Size(p))
      BY <1>1, <1>4, <3>1, Joined, HeadsJoined
    <3>3. QED
      BY <1>4, <3>1, <3>2 DEF Joins
  <2>2. CASE p.cmd # PASS_THROUGH
    <3>1. PICK t : t = <<250, 99>>
      OBVIOUS
    <3>2. t \in Seq(Byte) /\ Len(t) = 2
      BY <3>1 DEF Byte
    <3>3. PICK u : u = h \o t
      OBVIOUS
    <3>4. bytes = u \o LocalIp /\ Size(p) = 2 + Len(LocalIp)
      BY <1>3, <1>5, <2>2, <3>1, <3>3 DEF hip_pack_tcp_data, Size
    <3>5. Joins(u, h, t) /\ Heads(u, p.cmd, 0, Size(p))
      BY <1>4, <3>2, <3>3, Joined, HeadsJoined
    <3>6. u \in Seq(Byte) /\ Len(u) = 19
      BY <1>4, <3>2, <3>5 DEF Joins
    <3>7. LocalIp \in Seq(Byte) /\ Len(LocalIp) \in Nat
      BY Constants
    <3>8. Joins(bytes, u, LocalIp) /\ Heads(bytes, p.cmd, 0, Size(p))
      BY <3>4, <3>5, <3>6, <3>7, Joined, HeadsJoined
    <3>9. QED
      BY <3>4, <3>6, <3>7, <3>8 DEF Joins
  <2>3. QED
    BY <2>1, <2>2
<1>7. bytes[3] = 0 /\ bytes[4] = Size(p)
  BY <1>6 DEF Heads
<1>8. BitOr(bytes[3], bytes[4]) = Size(p)
  BY <1>2, <1>7, BitOrZero
<1>9. hip_mod_pack(p) = SubSeq(bytes, 1, BYTE_PACK_HEAD_SIZE + BitOr(bytes[3], bytes[4]))
  BY <1>5 DEF hip_mod_pack
<1>10. hip_mod_pack(p) = SubSeq(bytes, 1, Len(bytes))
  BY <1>6, <1>8, <1>9, Constants
<1>11. SubSeq(bytes, 1, Len(bytes)) = bytes
  BY <1>6, SubSeqProperties, SeqEqual
<1>12. QED
  BY <1>6, <1>10, <1>11

\* The recursion of FlattenSeq has a function that satisfies it.
Flattens(g, packets, n) ==
  g = [i \in 1 .. n |-> IF i = 1 THEN hip_mod_pack(packets[i])
                                 ELSE g[i - 1] \o hip_mod_pack(packets[i])]

LEMMA FlattenExists ==
  ASSUME NEW packets
  PROVE  \A n \in Nat : \E g : Flattens(g, packets, n)
<1> DEFINE S == {n \in Nat : \E g : Flattens(g, packets, n)}
<1>1. 0 \in S
  <2>1. PICK g : g = [i \in 1 .. 0 |-> 0]
    OBVIOUS
  <2>2. \A h : h = [i \in 1 .. 0 |-> IF i = 1 THEN hip_mod_pack(packets[i])
                                     ELSE g[i - 1] \o hip_mod_pack(packets[i])] => h = g
    BY <2>1
  <2>3. Flattens(g, packets, 0)
    BY <2>2 DEF Flattens
  <2>4. QED
    BY <2>3
<1>2. ASSUME NEW n \in Nat, n \in S PROVE n + 1 \in S
  <2>1. PICK g : Flattens(g, packets, n)
    BY <1>2
  <2>2. PICK last : last = IF n = 0 THEN hip_mod_pack(packets[1])
                                    ELSE g[n] \o hip_mod_pack(packets[n + 1])
    OBVIOUS
  <2>3. PICK h : h = [i \in 1 .. n + 1 |-> IF i = n + 1 THEN last ELSE g[i]]
    OBVIOUS
  <2>4. PICK e : e = [i \in 1 .. n + 1 |-> IF i = 1 THEN hip_mod_pack(packets[i])
                                           ELSE h[i - 1] \o hip_mod_pack(packets[i])]
    OBVIOUS
  <2>5. \A i \in 1 .. n + 1 : h[i] = e[i]
    <3> TAKE i \in 1 .. n + 1
    <3>1. CASE i = n + 1 /\ n = 0
      BY <3>1, <2>2, <2>3, <2>4
    <3>2. CASE i = n + 1 /\ n # 0
      <4>1. h[i] = g[n] \o hip_mod_pack(packets[i])
        BY <3>2, <2>2, <2>3
      <4>2. n \in 1 .. n + 1 /\ n # n + 1 /\ i - 1 = n /\ i # 1
        BY <3>2
      <4>3. h[n] = g[n]
        BY <4>2, <2>3
      <4>4. QED
        BY <4>1, <4>2, <4>3, <2>4
    <3>3. CASE i \in 1 .. n /\ i = 1
      <4>1. g[i] = hip_mod_pack(packets[i])
        BY <3>3, <2>1 DEF Flattens
      <4>2. QED
        BY <4>1, <3>3, <2>3, <2>4
    <3>4. CASE i \in 1 .. n /\ i # 1
      <4>1. g[i] = g[i - 1] \o hip_mod_pack(packets[i])
        BY <3>4, <2>1 DEF Flattens
      <4>2. i # n + 1 /\ i - 1 \in 1 .. n + 1 /\ i - 1 # n + 1
        BY <3>4
      <4>3. h[i] = g[i] /\ h[i - 1] = g[i - 1]
        BY <4>2, <2>3
      <4>4. QED
        BY <4>1, <4>3, <3>4, <2>4
    <3>5. QED
      BY <3>1, <3>2, <3>3, <3>4
  <2>6. h = [i \in 1 .. n + 1 |-> h[i]] /\ e = [i \in 1 .. n + 1 |-> e[i]]
    BY <2>3, <2>4
  <2>7. h = e
    BY <2>5, <2>6
  <2>8. Flattens(h, packets, n + 1)
    BY <2>4, <2>7 DEF Flattens
  <2>9. QED
    BY <2>8
<1>3. \A n \in Nat : n \in S
  <2> HIDE DEF S
  <2> QED
    BY <1>1, <1>2, SetInduction
<1>4. QED
  BY <1>3

LEMMA StreamEmpty == Stream(<<>>) = <<>>
<1>1. PICK none : none = <<>>
  OBVIOUS
<1>2. Len(none) = 0
  BY <1>1
<1>3. PICK s : s = [i \in 1 .. Len(none) |-> hip_mod_pack(none[i])]
  OBVIOUS
<1>4. s = <<>> /\ Len(s) = 0
  BY <1>2, <1>3
<1>5. Stream(none) = s
  BY <1>3, <1>4 DEF Stream, FlattenSeq
<1>6. QED
  BY <1>1, <1>4, <1>5

\* Stream is what the recursion comes to.
LEMMA StreamFlattens ==
  ASSUME NEW packets \in Seq(Packets), packets # <<>>
  PROVE  \E g : Flattens(g, packets, Len(packets)) /\ Stream(packets) = g[Len(packets)]
<1>1. Len(packets) \in Nat /\ Len(packets) # 0
  OBVIOUS
<1>2. PICK seqs : seqs = [i \in 1 .. Len(packets) |-> hip_mod_pack(packets[i])]
  OBVIOUS
<1>3. Len(seqs) = Len(packets)
  BY <1>1, <1>2
<1>4. PICK g : g = CHOOSE f : f = [i \in 1 .. Len(seqs) |->
                                     IF i = 1 THEN seqs[i] ELSE f[i - 1] \o seqs[i]]
  OBVIOUS
<1>5. Stream(packets) = g[Len(seqs)]
  <2>1. Stream(packets) = FlattenSeq(seqs)
    BY <1>2 DEF Stream
  <2>2. QED
    BY <2>1, <1>1, <1>3, <1>4 DEF FlattenSeq
<1>6. PICK f : Flattens(f, packets, Len(packets))
  BY <1>1, FlattenExists
<1>7. f = [i \in 1 .. Len(seqs) |-> IF i = 1 THEN seqs[i] ELSE f[i - 1] \o seqs[i]]
  BY <1>2, <1>3, <1>6 DEF Flattens
<1>8. g = [i \in 1 .. Len(seqs) |-> IF i = 1 THEN seqs[i] ELSE g[i - 1] \o seqs[i]]
  BY <1>4, <1>7
<1>9. Flattens(g, packets, Len(packets))
  BY <1>2, <1>3, <1>8 DEF Flattens
<1>10. QED
  BY <1>3, <1>5, <1>9

\* A packet more.
LEMMA StreamAppends ==
  ASSUME NEW packets \in Seq(Packets), NEW p \in Packets
  PROVE  Stream(Append(packets, p)) = Stream(packets) \o hip_mod_pack(p)
<1>1. PICK more : more = Append(packets, p)
  OBVIOUS
<1>2. /\ more \in Seq(Packets) /\ more # <<>> /\ Len(more) = Len(packets) + 1
      /\ Len(packets) \in Nat /\ more[Len(packets) + 1] = p
      /\ \A i \in 1 .. Len(packets) : more[i] = packets[i]
  BY <1>1, AppendProperties
<1>3. PICK g : Flattens(g, more, Len(more)) /\ Stream(more) = g[Len(more)]
  BY <1>2, StreamFlattens
<1>4. CASE packets = <<>>
  <2>1. Len(more) = 1 /\ more[1] = p
    BY <1>2, <1>4
  <2>2. g[1] = hip_mod_pack(more[1])
    BY <1>3, <2>1 DEF Flattens
  <2>3. Stream(packets) = <<>>
    BY <1>4, StreamEmpty
  <2>4. hip_mod_pack(p) \in Seq(Byte)
    BY PackBytes DEF Heads
  <2>5. <<>> \o hip_mod_pack(p) = hip_mod_pack(p)
    BY <2>4, ConcatEmptySeq
  <2>6. QED
    BY <1>1, <1>3, <2>1, <2>2, <2>3, <2>5
<1>5. CASE packets # <<>>
  <2>1. PICK f : Flattens(f, packets, Len(packets)) /\ Stream(packets) = f[Len(packets)]
    BY <1>5, StreamFlattens
  <2> DEFINE S == {n \in Nat : n + 1 <= Len(packets) => g[n + 1] = f[n + 1]}
  <2>2. 0 \in S
    <3>1. CASE Len(packets) >= 1
      <4>1. 1 \in 1 .. Len(packets) /\ 1 \in 1 .. Len(more)
        BY <1>2, <3>1
      <4>2. g[1] = hip_mod_pack(more[1]) /\ f[1] = hip_mod_pack(packets[1])
        BY <1>3, <2>1, <4>1 DEF Flattens
      <4>3. QED
        BY <1>2, <4>1, <4>2
    <3>2. QED
      BY <3>1
  <2>3. ASSUME NEW n \in Nat, n \in S PROVE n + 1 \in S
    <3>1. CASE n + 2 <= Len(packets)
      <4>1. /\ n + 2 \in 1 .. Len(packets) /\ n + 2 \in 1 .. Len(more) /\ n + 2 # 1
            /\ (n + 2) - 1 = n + 1 /\ n + 1 <= Len(packets)
        BY <1>2, <3>1
      <4>2. g[n + 2] = g[n + 1] \o hip_mod_pack(more[n + 2])
        BY <1>3, <4>1 DEF Flattens
      <4>3. f[n + 2] = f[n + 1] \o hip_mod_pack(packets[n + 2])
        BY <2>1, <4>1 DEF Flattens
      <4>4. g[n + 2] = f[n + 2]
        BY <1>2, <2>3, <4>1, <4>2, <4>3
      <4>5. (n + 1) + 1 = n + 2
        OBVIOUS
      <4>6. QED
        BY <4>4, <4>5
    <3>2. CASE ~(n + 2 <= Len(packets))
      <4>1. ~((n + 1) + 1 <= Len(packets))
        BY <3>2, <1>2
      <4>2. QED
        BY <4>1
    <3>3. QED
      BY <3>1, <3>2
  <2>4. \A n \in Nat : n \in S
    <3> HIDE DEF S
    <3> QED
      BY <2>2, <2>3, SetInduction
  <2>5. Len(packets) - 1 \in Nat /\ (Len(packets) - 1) + 1 = Len(packets)
    BY <1>2, <1>5
  <2>6. g[Len(packets)] = f[Len(packets)]
    BY <1>2, <2>4, <2>5
  <2>7. g[Len(more)] = g[Len(more) - 1] \o hip_mod_pack(more[Len(more)])
    <3>1. Len(more) \in 1 .. Len(more) /\ Len(more) # 1
      BY <1>2, <2>5
    <3>2. QED
      BY <1>3, <3>1 DEF Flattens
  <2>8. Len(more) - 1 = Len(packets)
    BY <1>2
  <2>9. QED
    BY <1>1, <1>2, <1>3, <2>1, <2>6, <2>7, <2>8
<1>6. QED
  BY <1>4, <1>5

\* Every packet has its header at least.
LEMMA StreamBytes ==
  ASSUME NEW packets \in Seq(Packets)
  PROVE  Stream(packets) \in Seq(Byte) /\ (packets # <<>> => Len(Stream(packets)) >= 17)
<1> DEFINE Sound(s) == Stream(s) \in Seq(Byte) /\ (s # <<>> => Len(Stream(s)) >= 17)
           S == {n \in Nat : \A s \in Seq(Packets) : Len(s) = n => Sound(s)}
<1>1. 0 \in S
  <2>1. \A s \in Seq(Packets) : Len(s) = 0 => s = <<>>
    OBVIOUS
  <2>2. <<>> \in Seq(Byte)
    OBVIOUS
  <2>3. QED
    BY <2>1, <2>2, StreamEmpty
<1>2. ASSUME NEW n \in Nat, n \in S PROVE n + 1 \in S
  <2> SUFFICES ASSUME NEW s \in Seq(Packets), Len(s) = n + 1 PROVE Sound(s)
    OBVIOUS
  <2>1. s # <<>>
    OBVIOUS
  <2>2. PICK t \in Seq(Packets), p \in Packets : s = Append(t, p)
    BY <2>1, SequenceEmptyOrAppend
  <2>3. Len(s) = Len(t) + 1 /\ Len(t) \in Nat
    BY <2>2, AppendProperties, LenProperties
  <2>4. Len(t) = n
    BY <2>3
  <2>5. Stream(t) \in Seq(Byte)
    BY <1>2, <2>4
  <2>6. hip_mod_pack(p) \in Seq(Byte) /\ Len(hip_mod_pack(p)) = 17 + Size(p) /\ Size(p) \in Nat
    BY PackBytes, PacketFields DEF Heads
  <2>7. Stream(s) = Stream(t) \o hip_mod_pack(p)
    BY <2>2, StreamAppends
  <2>8. Joins(Stream(s), Stream(t), hip_mod_pack(p))
    BY <2>5, <2>6, <2>7, Joined
  <2>9. Len(Stream(t)) \in Nat
    BY <2>5, LenProperties
  <2>10. QED
    BY <2>6, <2>8, <2>9 DEF Joins
<1>3. \A n \in Nat : n \in S
  <2> HIDE DEF S
  <2> QED
    BY <1>1, <1>2, SetInduction
<1>4. Len(packets) \in Nat
  OBVIOUS
<1>5. QED
  BY <1>3, <1>4

\* The bytes of the packets after the first a, up to packet e.
Slice(s, a, e) == Stream(SubSeq(s, a + 1, e))

LEMMA SliceBytes ==
  ASSUME NEW s \in Seq(Packets), NEW a \in Nat, NEW e \in Nat, e <= Len(s)
  PROVE  /\ SubSeq(s, a + 1, e) \in Seq(Packets)
         /\ Slice(s, a, e) \in Seq(Byte) /\ Len(Slice(s, a, e)) \in Nat
         /\ (a < e => Len(Slice(s, a, e)) >= 17)
         /\ (a >= e => Slice(s, a, e) = <<>>)
<1>1. \A i \in a + 1 .. e : s[i] \in Packets
  <2> TAKE i \in a + 1 .. e
  <2>1. Len(s) \in Nat
    BY LenProperties
  <2>2. i \in 1 .. Len(s)
    BY <2>1
  <2>3. QED
    BY <2>2, ElementOfSeq
<1>2. PICK t : t = SubSeq(s, a + 1, e)
  OBVIOUS
<1>3. t \in Seq(Packets) /\ Len(t) = IF a + 1 <= e THEN e - (a + 1) + 1 ELSE 0
  BY <1>1, <1>2, SubSeqProperties
<1>4. Stream(t) \in Seq(Byte) /\ (t # <<>> => Len(Stream(t)) >= 17)
  BY <1>3, StreamBytes
<1>5. Len(Stream(t)) \in Nat
  BY <1>4, LenProperties
<1>6. ASSUME a < e PROVE Len(Stream(t)) >= 17
  <2>1. Len(t) # 0
    BY <1>3, <1>6
  <2>2. t # <<>>
    BY <2>1
  <2>3. QED
    BY <2>2, <1>4
<1>7. ASSUME a >= e PROVE Stream(t) = <<>>
  <2>1. Len(t) = 0
    BY <1>3, <1>7
  <2>2. t = <<>>
    BY <2>1, <1>3
  <2>3. QED
    BY <2>2, StreamEmpty
<1>8. QED
  BY <1>2, <1>3, <1>4, <1>5, <1>6, <1>7 DEF Slice

LEMMA SliceNext ==
  ASSUME NEW s \in Seq(Packets), NEW a \in Nat, NEW e \in Nat, a <= e, e < Len(s)
  PROVE  Slice(s, a, e + 1) = Slice(s, a, e) \o hip_mod_pack(s[e + 1])
<1>1. Len(s) \in Nat /\ e + 1 \in 1 .. Len(s)
  BY LenProperties
<1>2. PICK q \in Packets : q = s[e + 1]
  BY <1>1, ElementOfSeq
<1>3. PICK t : t = SubSeq(s, a + 1, e)
  OBVIOUS
<1>4. PICK u : u = SubSeq(s, a + 1, e + 1)
  OBVIOUS
<1>5. \A i \in a + 1 .. e + 1 : s[i] \in Packets
  <2> TAKE i \in a + 1 .. e + 1
  <2>1. i \in 1 .. Len(s)
    BY <1>1
  <2>2. QED
    BY <2>1, ElementOfSeq
<1>6. /\ u \in Seq(Packets) /\ Len(u) = e + 1 - a
      /\ \A i \in 1 .. e + 1 - a : u[i] = s[a + i]
  <2>1. /\ u \in Seq(Packets) /\ Len(u) = IF a + 1 <= e + 1 THEN e + 1 - (a + 1) + 1 ELSE 0
        /\ \A i \in 1 .. e + 1 - (a + 1) + 1 : u[i] = s[a + 1 + i - 1]
    BY <1>4, <1>5, SubSeqProperties
  <2>2. QED
    BY <2>1
<1>7. /\ t \in Seq(Packets) /\ Len(t) = e - a
      /\ \A i \in 1 .. e - a : t[i] = s[a + i]
  <2>1. /\ t \in Seq(Packets) /\ Len(t) = IF a + 1 <= e THEN e - (a + 1) + 1 ELSE 0
        /\ \A i \in 1 .. e - (a + 1) + 1 : t[i] = s[a + 1 + i - 1]
    BY <1>3, <1>5, SubSeqProperties
  <2>2. QED
    BY <2>1
<1>8. u = Append(t, q)
  <2>1. PICK v : v = Append(t, q)
    OBVIOUS
  <2>2. /\ v \in Seq(Packets) /\ Len(v) = Len(t) + 1
        /\ v[Len(t) + 1] = q
        /\ \A i \in 1 .. Len(t) : v[i] = t[i]
    <3>1. t \in Seq(Packets)
      BY <1>7
    <3>2. QED
      BY <2>1, <3>1, AppendProperties
  <2>3. Len(v) = Len(u) /\ Len(u) = e + 1 - a /\ Len(t) = e - a
    BY <2>2, <1>6, <1>7
  <2>4. \A i \in 1 .. Len(u) : u[i] = v[i]
    <3> TAKE i \in 1 .. Len(u)
    <3>1. CASE i = Len(t) + 1
      BY <3>1, <2>2, <2>3, <1>2, <1>6
    <3>2. CASE i \in 1 .. Len(t)
      <4>1. i \in 1 .. e - a /\ i \in 1 .. e + 1 - a
        BY <3>2, <2>3
      <4>2. QED
        BY <4>1, <3>2, <2>2, <1>6, <1>7
    <3>3. QED
      BY <3>1, <3>2, <2>3
  <2>5. QED
    BY <2>1, <2>2, <2>3, <2>4, <1>6, SeqEqual
<1>9. Stream(u) = Stream(t) \o hip_mod_pack(q)
  BY <1>7, <1>8, StreamAppends
<1>10. Slice(s, a, e) = Stream(t) /\ Slice(s, a, e + 1) = Stream(u)
  BY <1>3, <1>4 DEF Slice
<1>11. QED
  BY <1>2, <1>9, <1>10

LEMMA SliceOne ==
  ASSUME NEW s \in Seq(Packets), NEW a \in Nat, a < Len(s)
  PROVE  Slice(s, a, a + 1) = hip_mod_pack(s[a + 1])
<1>1. Slice(s, a, a) = <<>>
  BY SliceBytes
<1>2. Slice(s, a, a + 1) = Slice(s, a, a) \o hip_mod_pack(s[a + 1])
  BY SliceNext
<1>3. s[a + 1] \in Packets
  <2>1. Len(s) \in Nat /\ a + 1 \in 1 .. Len(s)
    BY LenProperties
  <2>2. QED
    BY <2>1, ElementOfSeq
<1>4. hip_mod_pack(s[a + 1]) \in Seq(Byte)
  BY <1>3, PackBytes DEF Heads
<1>5. QED
  BY <1>1, <1>2, <1>4, ConcatEmptySeq

\* A slice is cut anywhere between two packets.
LEMMA SliceSplits ==
  ASSUME NEW s \in Seq(Packets), NEW a \in Nat, NEW b \in Nat, NEW e \in Nat,
         a <= b, b <= e, e <= Len(s)
  PROVE  Slice(s, a, e) = Slice(s, a, b) \o Slice(s, b, e)
<1> DEFINE S == {n \in Nat : b + n <= Len(s) => Slice(s, a, b + n) = Slice(s, a, b) \o Slice(s, b, b + n)}
<1>1. 0 \in S
  <2>1. Len(s) \in Nat
    BY LenProperties
  <2>2. ASSUME b <= Len(s) PROVE Slice(s, a, b) = Slice(s, a, b) \o Slice(s, b, b)
    <3>1. Slice(s, a, b) \in Seq(Byte) /\ Slice(s, b, b) = <<>>
      BY <2>2, SliceBytes
    <3>2. QED
      BY <3>1, ConcatEmptySeq
  <2>3. b + 0 = b
    OBVIOUS
  <2>4. QED
    BY <2>2, <2>3
<1>2. ASSUME NEW n \in Nat, n \in S PROVE n + 1 \in S
  <2>1. ASSUME (b + n) + 1 <= Len(s)
        PROVE  Slice(s, a, (b + n) + 1) = Slice(s, a, b) \o Slice(s, b, (b + n) + 1)
    <3>1. Len(s) \in Nat /\ b + n \in Nat /\ a <= b + n /\ b <= b + n /\ b + n < Len(s)
          /\ b <= Len(s) /\ b + n <= Len(s) /\ b + n + 1 \in 1 .. Len(s)
      BY <2>1, LenProperties
    <3>2. PICK p : p = hip_mod_pack(s[(b + n) + 1])
      OBVIOUS
    <3>3. p \in Seq(Byte)
      <4>1. s[(b + n) + 1] \in Packets
        BY <3>1, ElementOfSeq
      <4>2. QED
        BY <3>2, <4>1, PackBytes DEF Heads
    <3>4. Slice(s, a, (b + n) + 1) = Slice(s, a, b + n) \o p
      BY <3>1, <3>2, SliceNext
    <3>5. Slice(s, b, (b + n) + 1) = Slice(s, b, b + n) \o p
      BY <3>1, <3>2, SliceNext
    <3>6. Slice(s, a, b + n) = Slice(s, a, b) \o Slice(s, b, b + n)
      BY <1>2, <3>1
    <3>7. Slice(s, a, b) \in Seq(Byte) /\ Slice(s, b, b + n) \in Seq(Byte)
      BY <3>1, SliceBytes
    <3>8. (Slice(s, a, b) \o Slice(s, b, b + n)) \o p = Slice(s, a, b) \o (Slice(s, b, b + n) \o p)
      BY <3>3, <3>7, ConcatAssociative, SMTT(40)
    <3>9. QED
      BY <3>4, <3>5, <3>6, <3>8
  <2>2. (b + n) + 1 = b + (n + 1)
    OBVIOUS
  <2>3. QED
    BY <2>1, <2>2
<1>3. \A n \in Nat : n \in S
  <2> HIDE DEF S
  <2> QED
    BY <1>1, <1>2, SetInduction
<1>4. e - b \in Nat /\ b + (e - b) = e
  OBVIOUS
<1>5. QED
  BY <1>3, <1>4

\* A packet sent later changes no slice of those before.
LEMMA SliceAppend ==
  ASSUME NEW s \in Seq(Packets), NEW p \in Packets, NEW a \in Nat, NEW e \in Nat, e <= Len(s)
  PROVE  Slice(Append(s, p), a, e) = Slice(s, a, e)
<1>1. PICK t : t = Append(s, p)
  OBVIOUS
<1>2. /\ t \in Seq(Packets) /\ Len(t) = Len(s) + 1 /\ Len(s) \in Nat
      /\ \A i \in 1 .. Len(s) : t[i] = s[i]
  BY <1>1, AppendProperties, LenProperties
<1>3. \A i \in a + 1 .. e : s[i] \in Packets /\ t[i] = s[i]
  <2> TAKE i \in a + 1 .. e
  <2>1. i \in 1 .. Len(s)
    BY <1>2
  <2>2. QED
    BY <1>2, <2>1, ElementOfSeq
<1>4. PICK u : u = SubSeq(s, a + 1, e)
  OBVIOUS
<1>5. PICK v : v = SubSeq(t, a + 1, e)
  OBVIOUS
<1>6. /\ u \in Seq(Packets) /\ Len(u) = IF a + 1 <= e THEN e - (a + 1) + 1 ELSE 0
      /\ \A i \in 1 .. e - (a + 1) + 1 : u[i] = s[a + 1 + i - 1]
  BY <1>3, <1>4, SubSeqProperties
<1>7. /\ v \in Seq(Packets) /\ Len(v) = IF a + 1 <= e THEN e - (a + 1) + 1 ELSE 0
      /\ \A i \in 1 .. e - (a + 1) + 1 : v[i] = t[a + 1 + i - 1]
  <2>1. \A i \in a + 1 .. e : t[i] \in Packets
    BY <1>3
  <2>2. QED
    BY <2>1, <1>5, SubSeqProperties
<1>8. \A i \in 1 .. Len(u) : u[i] = v[i]
  <2> TAKE i \in 1 .. Len(u)
  <2>1. i \in 1 .. e - (a + 1) + 1 /\ a + 1 + i - 1 \in a + 1 .. e
    BY <1>6
  <2>2. QED
    BY <2>1, <1>3, <1>6, <1>7
<1>9. u = v
  <2>1. u \in Seq(Packets) /\ v \in Seq(Packets) /\ Len(u) = Len(v)
    BY <1>6, <1>7
  <2>2. QED
    BY <2>1, <1>8, SeqEqual
<1>10. QED
  BY <1>1, <1>4, <1>5, <1>9 DEF Slice

-----------------------------------------------------------------------------
(* Cutting and joining bytes                                               *)

\* s is cut after n bytes.
Parts(s, n) ==
  /\ SubSeq(s, 1, n) \in Seq(Byte) /\ Len(SubSeq(s, 1, n)) = n
  /\ \A i \in 1 .. n : SubSeq(s, 1, n)[i] = s[i]
  /\ Drop(s, n) \in Seq(Byte) /\ Len(Drop(s, n)) = Len(s) - n
  /\ SubSeq(s, 1, n) \o Drop(s, n) = s

LEMMA Parted ==
  ASSUME NEW s \in Seq(Byte), NEW n \in Nat, n <= Len(s)
  PROVE  Parts(s, n)
<1>1. Len(s) \in Nat
  BY LenProperties
<1>2. \A i \in 1 .. Len(s) : s[i] \in Byte
  BY ElementOfSeq
<1>3. PICK t : t = SubSeq(s, 1, n)
  OBVIOUS
<1>4. PICK u : u = Drop(s, n)
  OBVIOUS
<1>5. /\ t \in Seq(Byte) /\ Len(t) = IF 1 <= n THEN n - 1 + 1 ELSE 0
      /\ \A i \in 1 .. n - 1 + 1 : t[i] = s[1 + i - 1]
  <2>1. \A i \in 1 .. n : s[i] \in Byte
    BY <1>1, <1>2
  <2>2. QED
    BY <2>1, <1>3, SubSeqProperties
<1>6. u \in Seq(Byte) /\ Len(u) = IF n + 1 <= Len(s) THEN Len(s) - (n + 1) + 1 ELSE 0
  <2>1. \A i \in n + 1 .. Len(s) : s[i] \in Byte
    BY <1>1, <1>2
  <2>2. u = SubSeq(s, n + 1, Len(s))
    BY <1>4 DEF Drop
  <2>3. QED
    BY <2>1, <2>2, <1>1, SubSeqProperties
<1>7. Len(t) = n /\ Len(u) = Len(s) - n
  BY <1>1, <1>5, <1>6
<1>8. \A i \in 1 .. n : t[i] = s[i]
  <2> TAKE i \in 1 .. n
  <2>1. i \in 1 .. n - 1 + 1 /\ 1 + i - 1 = i
    OBVIOUS
  <2>2. QED
    BY <2>1, <1>5
<1>9. t \o u = s
  <2>1. 1 \in 1 .. Len(s) + 1 /\ n \in 1 - 1 .. Len(s) /\ Len(s) \in n .. Len(s)
    BY <1>1
  <2>2. SubSeq(s, 1, n) \o SubSeq(s, n + 1, Len(s)) = SubSeq(s, 1, Len(s))
    BY <2>1, ConcatAdjacentSubSeq
  <2>3. SubSeq(s, 1, Len(s)) = s
    BY SubSeqFull
  <2>4. QED
    BY <2>2, <2>3, <1>3, <1>4 DEF Drop
<1>10. QED
  BY <1>3, <1>4, <1>5, <1>6, <1>7, <1>8, <1>9 DEF Parts

\* The same bytes, cut at the same place, have the same parts.
LEMMA SameParts ==
  ASSUME NEW s \in Seq(Byte), NEW t \in Seq(Byte), NEW u \in Seq(Byte), NEW v \in Seq(Byte),
         s \o t = u \o v, Len(s) = Len(u)
  PROVE  s = u /\ t = v
<1>1. Joins(s \o t, s, t) /\ Joins(u \o v, u, v)
  BY Joined
<1>2. s = u
  <2>1. PICK w : w = s \o t
    OBVIOUS
  <2>2. Joins(w, s, t) /\ Joins(w, u, v)
    BY <1>1, <2>1
  <2>3. \A i \in 1 .. Len(s) : s[i] = u[i]
    BY <2>2 DEF Joins
  <2>4. QED
    BY <2>3, SeqEqual
<1>3. s \o t = s \o v
  BY <1>2
<1>4. t = v
  BY <1>3, ConcatSimplifications
<1>5. QED
  BY <1>2, <1>4

\* fifo_write moves a byte and changes nothing of what is to be read.
LEMMA Stores ==
  ASSUME NEW s \in Seq(Byte), NEW t \in Seq(Byte), t # <<>>
  PROVE  /\ Append(s, Head(t)) \in Seq(Byte) /\ Tail(t) \in Seq(Byte)
         /\ Len(Append(s, Head(t))) = Len(s) + 1 /\ Len(Tail(t)) = Len(t) - 1
         /\ Append(s, Head(t)) \o Tail(t) = s \o t
<1>1. Head(t) \in Byte /\ Tail(t) \in Seq(Byte) /\ Len(Tail(t)) = Len(t) - 1
  BY HeadTailProperties
<1>2. /\ Append(s, Head(t)) \in Seq(Byte) /\ Len(Append(s, Head(t))) = Len(s) + 1
  BY <1>1, AppendProperties
<1>3. Append(s, Head(t)) = s \o <<Head(t)>>
  BY <1>1, AppendIsConcat
<1>4. <<Head(t)>> \o Tail(t) = t
  BY HeadTailProperties
<1>5. PICK one : one = <<Head(t)>>
  OBVIOUS
<1>6. one \in Seq(Byte)
  BY <1>1, <1>5
<1>7. (s \o one) \o Tail(t) = s \o (one \o Tail(t))
  BY <1>1, <1>6, ConcatAssociative, SMTT(40)
<1>8. QED
  BY <1>1, <1>2, <1>3, <1>4, <1>5, <1>7

LEMMA Associates ==
  ASSUME NEW s \in Seq(Byte), NEW t \in Seq(Byte), NEW u \in Seq(Byte)
  PROVE  (s \o t) \o u = s \o (t \o u)
BY ConcatAssociative

\* The first packet of what is to be read.
Reads(head, fifo_, behind, q, after) ==
  /\ head[2] = q.cmd /\ head[3] = 0 /\ head[4] = Size(q)
  /\ head = SubSeq(hip_mod_pack(q), 1, 17)
  /\ Len(fifo_) >= Size(q) =>
       /\ SubSeq(fifo_, 1, Size(q)) = Drop(hip_mod_pack(q), 17)
       /\ head \o SubSeq(fifo_, 1, Size(q)) = hip_mod_pack(q)
       /\ Drop(fifo_, Size(q)) \o behind = after

LEMMA ReadsPacket ==
  ASSUME NEW head \in Seq(Byte), Len(head) = 17, NEW s \in Seq(Byte), NEW behind \in Seq(Byte),
         NEW q \in Packets, NEW after \in Seq(Byte),
         head \o (s \o behind) = hip_mod_pack(q) \o after
  PROVE  Reads(head, s, behind, q, after)
<1>1. PICK bytes : bytes = hip_mod_pack(q)
  OBVIOUS
<1>2. /\ bytes \in Seq(Byte) /\ Len(bytes) = 17 + Size(q) /\ Size(q) \in Nat
      /\ bytes[2] = q.cmd /\ bytes[3] = 0 /\ bytes[4] = Size(q)
  BY <1>1, PackBytes, PacketFields DEF Heads
<1>3. PICK h : h = SubSeq(bytes, 1, 17)
  OBVIOUS
<1>4. PICK d : d = Drop(bytes, 17)
  OBVIOUS
<1>5. Parts(bytes, 17)
  BY <1>2, Parted
<1>6. h \in Seq(Byte) /\ Len(h) = 17
  BY <1>3, <1>5 DEF Parts
<1>7. d \in Seq(Byte) /\ Len(d) = Size(q)
  BY <1>2, <1>4, <1>5 DEF Parts
<1>8. h \o d = bytes
  BY <1>3, <1>4, <1>5 DEF Parts
<1>9. h[2] = bytes[2] /\ h[3] = bytes[3] /\ h[4] = bytes[4]
  BY <1>3, <1>5 DEF Parts
<1>10. h \o (d \o after) = bytes \o after
  <2>1. (h \o d) \o after = h \o (d \o after)
    BY <1>6, <1>7, Associates
  <2>2. QED
    BY <2>1, <1>8
<1>11. s \o behind \in Seq(Byte) /\ d \o after \in Seq(Byte)
  BY <1>7, ConcatProperties
<1>12. head \o (s \o behind) = h \o (d \o after)
  BY <1>1, <1>10
<1>13. head = h /\ s \o behind = d \o after
  BY <1>6, <1>11, <1>12, SameParts
<1>14. head[2] = q.cmd /\ head[3] = 0 /\ head[4] = Size(q)
  BY <1>2, <1>9, <1>13
<1>15. ASSUME Len(s) >= Size(q)
       PROVE  SubSeq(s, 1, Size(q)) = d /\ Drop(s, Size(q)) \o behind = after
  <2>1. Parts(s, Size(q))
    BY <1>2, <1>15, Parted
  <2>2. PICK x : x = SubSeq(s, 1, Size(q))
    OBVIOUS
  <2>3. PICK y : y = Drop(s, Size(q))
    OBVIOUS
  <2>4. x \in Seq(Byte) /\ Len(x) = Size(q) /\ y \in Seq(Byte)
    BY <2>1, <2>2, <2>3 DEF Parts
  <2>5. x \o y = s
    BY <2>1, <2>2, <2>3 DEF Parts
  <2>6. (x \o y) \o behind = x \o (y \o behind)
    BY <2>4, Associates, ZenonT(60)
  <2>7. y \o behind \in Seq(Byte)
    BY <2>4, ConcatProperties
  <2>8. x \o (y \o behind) = d \o after
    BY <2>5, <2>6, <1>13
  <2>9. x = d /\ y \o behind = after
    BY <2>4, <2>7, <2>8, <1>7, SameParts
  <2>10. QED
    BY <2>2, <2>3, <2>9
<1>16. QED
  BY <1>1, <1>3, <1>4, <1>8, <1>13, <1>14, <1>15 DEF Reads

LEMMA MinOfTwo ==
  ASSUME NEW a \in Nat, NEW b \in Nat
  PROVE  Min({a, b}) = IF a <= b THEN a ELSE b
<1>1. PICK m : m = IF a <= b THEN a ELSE b
  OBVIOUS
<1>2. m \in {a, b} /\ \A y \in {a, b} : m <= y
  BY <1>1
<1>3. \A x \in {a, b} : (\A y \in {a, b} : x <= y) => x = m
  BY <1>1
<1>4. (CHOOSE x \in {a, b} : \A y \in {a, b} : x <= y) = m
  BY <1>2, <1>3
<1>5. QED
  BY <1>1, <1>4 DEF Min

\* What the server's recv thread puts before the data.
LEMMA HiLoBytes ==
  ASSUME NEW n \in Nat, n \div 256 < 256
  PROVE  /\ HiLo(n) \in Seq(Byte) /\ Len(HiLo(n)) = 2
         /\ HiLo(n)[1] = n \div 256 /\ HiLo(n)[2] = n % 256
<1>1. PICK hi, lo : hi = n \div 256 /\ lo = n % 256
  OBVIOUS
<1>2. hi \in Nat /\ hi < 256 /\ lo \in Nat /\ lo < 256
  BY <1>1
<1>3. hi \in Byte /\ lo \in Byte
  BY <1>2 DEF Byte
<1>4. HiLo(n) = <<hi, lo>>
  BY <1>1 DEF HiLo
<1>5. QED
  BY <1>1, <1>3, <1>4

Prefixed(f, n) == <<f, 0, 0>> \o HiLo(n)

LEMMA PrefixBytes ==
  ASSUME NEW f \in Byte, NEW n \in Nat, n \div 256 < 256
  PROVE  /\ Prefixed(f, n) \in Seq(Byte) /\ Len(Prefixed(f, n)) = 5
         /\ Prefixed(f, n)[1] = f
         /\ SubSeq(Prefixed(f, n), 2, 5) = <<0, 0>> \o HiLo(n)
<1>1. PICK a : a = <<f, 0, 0>>
  OBVIOUS
<1>2. PICK b : b = HiLo(n)
  OBVIOUS
<1>3. PICK u : u = a \o b
  OBVIOUS
<1>4. a \in Seq(Byte) /\ Len(a) = 3 /\ a[1] = f /\ a[2] = 0 /\ a[3] = 0
  BY <1>1 DEF Byte
<1>5. b \in Seq(Byte) /\ Len(b) = 2
  BY <1>2, HiLoBytes
<1>6. Joins(u, a, b)
  BY <1>3, <1>4, <1>5, Joined
<1>7. /\ u \in Seq(Byte) /\ Len(u) = 5
      /\ u[1] = f /\ u[2] = 0 /\ u[3] = 0 /\ u[4] = b[1] /\ u[5] = b[2]
  <2>1. /\ u \in Seq(Byte) /\ Len(u) = 5
        /\ \A i \in 1 .. 3 : u[i] = a[i]
        /\ \A i \in 1 .. 2 : u[3 + i] = b[i]
    BY <1>4, <1>5, <1>6 DEF Joins
  <2>2. u[1] = f /\ u[2] = 0 /\ u[3] = 0
    BY <2>1, <1>4
  <2>3. u[3 + 1] = b[1] /\ u[3 + 2] = b[2]
    BY <2>1
  <2>4. QED
    BY <2>1, <2>2, <2>3
<1>8. PICK z : z = <<0, 0>>
  OBVIOUS
<1>9. z \in Seq(Byte) /\ Len(z) = 2 /\ z[1] = 0 /\ z[2] = 0
  BY <1>8 DEF Byte
<1>10. PICK v : v = z \o b
  OBVIOUS
<1>11. Joins(v, z, b)
  BY <1>5, <1>9, <1>10, Joined
<1>12. /\ v \in Seq(Byte) /\ Len(v) = 4
       /\ v[1] = 0 /\ v[2] = 0 /\ v[3] = b[1] /\ v[4] = b[2]
  <2>1. /\ v \in Seq(Byte) /\ Len(v) = 4
        /\ \A i \in 1 .. 2 : v[i] = z[i]
        /\ \A i \in 1 .. 2 : v[2 + i] = b[i]
    BY <1>5, <1>9, <1>11 DEF Joins
  <2>2. v[1] = 0 /\ v[2] = 0
    BY <2>1, <1>9
  <2>3. v[2 + 1] = b[1] /\ v[2 + 2] = b[2]
    BY <2>1
  <2>4. QED
    BY <2>1, <2>2, <2>3
<1>13. PICK w : w = SubSeq(u, 2, 5)
  OBVIOUS
<1>14. /\ w \in Seq(Byte) /\ Len(w) = 4
       /\ w[1] = u[2] /\ w[2] = u[3] /\ w[3] = u[4] /\ w[4] = u[5]
  <2>1. \A i \in 2 .. 5 : u[i] \in Byte
    <3>1. u \in Seq(Byte) /\ \A i \in 2 .. 5 : i \in 1 .. Len(u)
      BY <1>7
    <3>2. QED
      BY <3>1, ElementOfSeq
  <2>2. /\ w \in Seq(Byte) /\ Len(w) = (IF 2 <= 5 THEN 5 - 2 + 1 ELSE 0)
        /\ \A i \in 1 .. 5 - 2 + 1 : w[i] = u[2 + i - 1]
    BY <2>1, <1>13, SubSeqProperties
  <2>3. w[1] = u[2 + 1 - 1] /\ w[2] = u[2 + 2 - 1] /\ w[3] = u[2 + 3 - 1] /\ w[4] = u[2 + 4 - 1]
    BY <2>2
  <2>4. QED
    BY <2>2, <2>3
<1>15. \A i \in 1 .. Len(w) : w[i] = v[i]
  BY <1>7, <1>12, <1>14
<1>16. w = v
  BY <1>12, <1>14, <1>15, SeqEqual
<1>17. Prefixed(f, n) = u
  BY <1>1, <1>2, <1>3 DEF Prefixed
<1>18. QED
  BY <1>2, <1>7, <1>8, <1>10, <1>13, <1>16, <1>17

-----------------------------------------------------------------------------
(* Types, of every state                                                   *)

Command == [cmd : Byte, data : Seq(Byte)]

Connections ==
  /\ pipe \in {"client_send", "client_recv", "server_recv"}
  /\ DOMAIN sent \subseteq Byte /\ sent \in [DOMAIN sent -> Seq(Packets)]
  /\ pipe # "server_recv" => DOMAIN sent = {0}
  /\ net \in [DOMAIN sent -> Seq(Byte)]
  /\ handled \in [DOMAIN sent -> Seq(Command)]

\* The room that a writer found stays until it has written all.
Room ==
  /\ fifo \in Seq(Byte) /\ chunk \in Seq(Byte)
  /\ waiting \in BOOLEAN /\ regular \in BOOLEAN
  /\ Len(fifo) < FifoSize
  /\ ~waiting => Len(fifo) + Len(chunk) < FifoSize

Reader ==
  \/ handle = Overrun
  \/ handle \in HandleType /\ (handle.pc = "data" => Len(handle.head) = 17)

TypeInv == Connections /\ Room /\ Reader

LEMMA TypeInit == Init => TypeInv
<1> SUFFICES ASSUME Init PROVE TypeInv
  OBVIOUS
<1>1. DOMAIN sent \subseteq Byte /\ sent \in [DOMAIN sent -> Seq(Packets)]
      /\ (pipe # "server_recv" => DOMAIN sent = {0})
  <2>1. CASE pipe = "client_send"
    <3>1. sent = [f \in {0} |-> <<>>]
      BY <2>1 DEF Init
    <3>2. 0 \in Byte
      BY DEF Byte
    <3>3. <<>> \in Seq(Packets)
      OBVIOUS
    <3>4. QED
      BY <3>1, <3>2, <3>3
  <2>2. CASE pipe = "client_recv"
    <3>1. sent \in Traffic["client_recv"]
      BY <2>2 DEF Init
    <3>2. sent \in [{0} -> Seq(Packets)]
      BY <3>1, TrafficAssumption
    <3>3. 0 \in Byte
      BY DEF Byte
    <3>4. QED
      BY <3>2, <3>3
  <2>3. CASE pipe = "server_recv"
    <3>1. sent \in Traffic["server_recv"]
      BY <2>3 DEF Init
    <3>2. QED
      BY <2>3, <3>1, TrafficAssumption
  <2>4. QED
    BY <2>1, <2>2, <2>3 DEF Init
<1>2. net \in [DOMAIN sent -> Seq(Byte)]
  <2>1. \A f \in DOMAIN sent : Stream(sent[f]) \in Seq(Byte)
    BY <1>1, StreamBytes
  <2>2. QED
    BY <2>1 DEF Init
<1>3. handled \in [DOMAIN sent -> Seq(Command)]
  <2>1. <<>> \in Seq(Command)
    OBVIOUS
  <2>2. QED
    BY <2>1 DEF Init
<1>4. Connections
  BY <1>1, <1>2, <1>3 DEF Connections, Init
<1>5. Room
  <2>1. fifo = <<>> /\ chunk = <<>> /\ ~waiting /\ regular /\ waiting \in BOOLEAN /\ regular \in BOOLEAN
    BY DEF Init
  <2>2. <<>> \in Seq(Byte) /\ Len(<<>>) = 0
    OBVIOUS
  <2>3. FifoSize \in Nat /\ FifoSize > 0
    BY Constants
  <2>4. QED
    BY <2>1, <2>2, <2>3 DEF Room
<1>6. Reader
  <2>1. handle = Idle(pipe)
    BY DEF Init
  <2>2. <<>> \in Seq(Byte) /\ <<>> \in Seq([cmd : Byte, data : Seq(Byte)])
    OBVIOUS
  <2>3. 0 \in Byte
    BY DEF Byte
  <2>4. QED
    BY <2>1, <2>2, <2>3 DEF Reader, Idle, HandleType
<1>7. QED
  BY <1>4, <1>5, <1>6 DEF TypeInv

LEMMA IdleType ==
  ASSUME NEW pp
  PROVE  Idle(pp) \in HandleType /\ Idle(pp).pc # "data" /\ Idle(pp) # Overrun
<1>1. <<>> \in Seq(Byte) /\ <<>> \in Seq([cmd : Byte, data : Seq(Byte)])
  OBVIOUS
<1>2. 0 \in Byte
  BY DEF Byte
<1>3. Idle(pp) \in HandleType /\ Idle(pp).pc \in {"fd", "head"}
  BY <1>1, <1>2 DEF Idle, HandleType
<1>4. Overrun.pc = "overrun"
  BY DEF Overrun
<1>5. QED
  BY <1>3, <1>4

\* A reader at work has not overrun, and its variables have their types.
LEMMA AtWork ==
  ASSUME TypeInv, handle.pc \in {"fd", "head", "data"}
  PROVE  /\ handle \in HandleType
         /\ handle.pc = "data" =>
              /\ Len(handle.head) = 17
              /\ handle.head[2] \in Byte /\ handle.head[3] \in Byte /\ handle.head[4] \in Byte
              /\ LengthOred \in Nat /\ LengthHiLo \in Nat
<1>1. handle # Overrun
  BY DEF Overrun
<1>2. handle \in HandleType /\ (handle.pc = "data" => Len(handle.head) = 17)
  BY <1>1 DEF TypeInv, Reader
<1>3. ASSUME handle.pc = "data"
      PROVE  /\ handle.head[2] \in Byte /\ handle.head[3] \in Byte /\ handle.head[4] \in Byte
             /\ LengthOred \in Nat /\ LengthHiLo \in Nat
  <2>1. handle.head \in Seq(Byte) /\ Len(handle.head) = 17
    BY <1>2, <1>3 DEF HandleType
  <2>2. 2 \in 1 .. Len(handle.head) /\ 3 \in 1 .. Len(handle.head) /\ 4 \in 1 .. Len(handle.head)
    BY <2>1
  <2>3. handle.head[2] \in Byte /\ handle.head[3] \in Byte /\ handle.head[4] \in Byte
    BY <2>1, <2>2, ElementOfSeq
  <2>4. BitOr(handle.head[3], handle.head[4]) \in Byte
    BY <2>3, BitOrByte
  <2>5. \A b \in Byte : b \in Nat
    BY DEF Byte
  <2>6. QED
    BY <2>3, <2>4, <2>5 DEF LengthOred, LengthHiLo
<1>4. QED
  BY <1>2, <1>3

LEMMA HandledType ==
  ASSUME TypeInv, NEW f, NEW packs \in Seq(Command), Handles(f, packs), UNCHANGED sent
  PROVE  handled' \in [DOMAIN sent' -> Seq(Command)]
<1>1. handled \in [DOMAIN sent -> Seq(Command)]
  BY DEF TypeInv, Connections
<1>2. \A g \in DOMAIN sent : handled[g] \o packs \in Seq(Command)
  BY <1>1, ConcatProperties
<1>3. handled' = [handled EXCEPT ![f] = handled[f] \o packs]
  BY DEF Handles
<1>4. handled' \in [DOMAIN sent -> Seq(Command)]
  BY <1>1, <1>2, <1>3
<1>5. QED
  BY <1>4

\* What is read from the fifo.
LEMMA TakenType ==
  ASSUME TypeInv, NEW n \in Nat, n <= Len(fifo), handle.pc = "data"
  PROVE  /\ Taken(n) \in Command /\ SubSeq(fifo, 1, n) \in Seq(Byte)
         /\ Drop(fifo, n) \in Seq(Byte) /\ Len(Drop(fifo, n)) <= Len(fifo)
         /\ Len(Drop(fifo, n)) \in Nat
<1>1. fifo \in Seq(Byte) /\ Len(fifo) \in Nat
  BY LenProperties DEF TypeInv, Room
<1>2. Parts(fifo, n)
  BY <1>1, Parted
<1>3. handle.head[2] \in Byte
  BY AtWork
<1>4. SubSeq(fifo, 1, n) \in Seq(Byte)
  BY <1>2 DEF Parts
<1>5. Taken(n) \in Command
  BY <1>3, <1>4 DEF Taken, Command
<1>6. Drop(fifo, n) \in Seq(Byte) /\ Len(Drop(fifo, n)) = Len(fifo) - n
  BY <1>2 DEF Parts
<1>7. Len(Drop(fifo, n)) <= Len(fifo) /\ Len(Drop(fifo, n)) \in Nat
  BY <1>1, <1>6, LenProperties
<1>8. QED
  BY <1>4, <1>5, <1>6, <1>7

\* The fifo only gets shorter, and the writer does not move.
LEMMA RoomLeft ==
  ASSUME TypeInv, fifo' \in Seq(Byte), Len(fifo') <= Len(fifo),
         UNCHANGED <<chunk, waiting>>, regular' \in BOOLEAN
  PROVE  Room'
<1>1. /\ fifo \in Seq(Byte) /\ chunk \in Seq(Byte) /\ waiting \in BOOLEAN
      /\ Len(fifo) < FifoSize
      /\ ~waiting => Len(fifo) + Len(chunk) < FifoSize
  BY DEF TypeInv, Room
<1>2. Len(fifo) \in Nat /\ Len(chunk) \in Nat /\ Len(fifo') \in Nat /\ FifoSize \in Nat
  BY <1>1, Constants, LenProperties
<1>3. QED
  BY <1>1, <1>2 DEF Room

LEMMA TypeClientSend ==
  ASSUME TypeInv, NEW p \in Packets, ClientSend(p)
  PROVE  TypeInv'
<1>1. 0 \in DOMAIN sent
  BY DEF TypeInv, Connections, ClientSend
<1>2. sent' = [sent EXCEPT ![0] = Append(sent[0], p)] /\ sent \in [DOMAIN sent -> Seq(Packets)]
  BY DEF TypeInv, Connections, ClientSend
<1>3. Append(sent[0], p) \in Seq(Packets)
  BY <1>1, <1>2, AppendProperties
<1>4. sent' \in [DOMAIN sent -> Seq(Packets)] /\ DOMAIN sent' = DOMAIN sent
  BY <1>2, <1>3
<1>5. Connections'
  BY <1>4 DEF TypeInv, Connections, ClientSend
<1>6. Room'
  <2>1. hip_mod_pack(p) \in Seq(Byte)
    BY PackBytes DEF Heads
  <2>2. Len(hip_mod_pack(p)) \in Nat /\ Len(fifo) \in Nat /\ FifoSize \in Nat
    BY <2>1, Constants, LenProperties DEF TypeInv, Room
  <2>3. chunk' = hip_mod_pack(p) /\ Len(hip_mod_pack(p)) <= FifoSize - 1 - Len(fifo)
    BY DEF ClientSend, Writeable
  <2>4. Len(fifo) + Len(hip_mod_pack(p)) < FifoSize
    BY <2>2, <2>3
  <2>5. QED
    BY <2>1, <2>3, <2>4 DEF TypeInv, Room, ClientSend
<1>7. Reader'
  BY DEF TypeInv, Reader, ClientSend
<1>8. QED
  BY <1>5, <1>6, <1>7 DEF TypeInv

LEMMA TypeClientRecv ==
  ASSUME TypeInv, NEW n \in ChunkSizes, ClientRecv(n)
  PROVE  TypeInv'
<1>1. 0 \in DOMAIN sent /\ net \in [DOMAIN sent -> Seq(Byte)]
  BY DEF TypeInv, Connections, ClientRecv
<1>2. net[0] \in Seq(Byte) /\ n \in Nat
  BY <1>1, Constants
<1>3. Parts(net[0], n)
  BY <1>2, Parted DEF ClientRecv
<1>4. net' = [net EXCEPT ![0] = Drop(net[0], n)] /\ UNCHANGED <<pipe, sent, handled>>
  BY DEF ClientRecv
<1>5. net' \in [DOMAIN sent -> Seq(Byte)]
  BY <1>1, <1>3, <1>4 DEF Parts
<1>6. Connections'
  BY <1>4, <1>5 DEF TypeInv, Connections
<1>7. Room'
  <2>1. fifo \in Seq(Byte) /\ Len(fifo) \in Nat /\ FifoSize \in Nat /\ Len(fifo) < FifoSize
    BY Constants, LenProperties DEF TypeInv, Room
  <2>2. CASE n <= Writeable
    <3>1. chunk' = SubSeq(net[0], 1, n)
      BY <2>2 DEF ClientRecv
    <3>2. chunk' \in Seq(Byte) /\ Len(chunk') = n
      BY <3>1, <1>3 DEF Parts
    <3>3. Len(fifo) + n < FifoSize
      BY <2>1, <2>2, <1>2 DEF Writeable
    <3>4. QED
      BY <2>1, <2>2, <3>2, <3>3 DEF TypeInv, Room, ClientRecv
  <2>3. CASE ~(n <= Writeable)
    BY <2>3 DEF TypeInv, Room, ClientRecv
  <2>4. QED
    BY <2>2, <2>3
<1>8. Reader'
  BY DEF TypeInv, Reader, ClientRecv
<1>9. QED
  BY <1>6, <1>7, <1>8 DEF TypeInv

LEMMA TypeServerRecv ==
  ASSUME TypeInv, NEW n \in ChunkSizes, NEW f \in DOMAIN sent, ServerRecv(f, n)
  PROVE  TypeInv'
<1>1. net \in [DOMAIN sent -> Seq(Byte)] /\ f \in Byte
  BY DEF TypeInv, Connections
<1>2. net[f] \in Seq(Byte) /\ n \in Nat /\ n \div 256 < 256
  BY <1>1, Constants
<1>3. Parts(net[f], n)
  BY <1>2, Parted DEF ServerRecv
<1>4. net' = [net EXCEPT ![f] = Drop(net[f], n)] /\ UNCHANGED <<pipe, sent, handled>>
  BY DEF ServerRecv
<1>5. net' \in [DOMAIN sent -> Seq(Byte)]
  BY <1>1, <1>3, <1>4 DEF Parts
<1>6. Connections'
  BY <1>4, <1>5 DEF TypeInv, Connections
<1>7. Room'
  <2>1. chunk' = Prefixed(f, n) \o SubSeq(net[f], 1, n)
    BY DEF ServerRecv, Prefixed
  <2>2. Prefixed(f, n) \in Seq(Byte) /\ SubSeq(net[f], 1, n) \in Seq(Byte)
    BY <1>1, <1>2, <1>3, PrefixBytes DEF Parts
  <2>3. chunk' \in Seq(Byte)
    BY <2>1, <2>2, ConcatProperties
  <2>4. waiting' = TRUE /\ regular' \in BOOLEAN /\ UNCHANGED fifo
    BY DEF ServerRecv, TypeInv, Room
  <2>5. QED
    BY <2>3, <2>4 DEF TypeInv, Room
<1>8. Reader'
  BY DEF TypeInv, Reader, ServerRecv
<1>9. QED
  BY <1>6, <1>7, <1>8 DEF TypeInv

LEMMA TypeWriteStep ==
  ASSUME TypeInv, WriteStep
  PROVE  TypeInv'
<1>1. /\ fifo \in Seq(Byte) /\ chunk \in Seq(Byte) /\ Len(fifo) \in Nat /\ Len(chunk) \in Nat
      /\ FifoSize \in Nat
  BY Constants, LenProperties DEF TypeInv, Room
<1>2. Connections' /\ Reader'
  BY DEF TypeInv, Connections, Reader, WriteStep, ServerRoom, Store
<1>3. CASE ServerRoom
  <2>1. Len(fifo) + Len(chunk) < FifoSize
    BY <1>1, <1>3 DEF ServerRoom, Writeable
  <2>2. Room'
    BY <1>3, <2>1 DEF ServerRoom, TypeInv, Room
  <2>3. QED
    BY <1>2, <2>2 DEF TypeInv
<1>4. CASE Store
  <2>1. /\ fifo' \in Seq(Byte) /\ chunk' \in Seq(Byte)
        /\ Len(fifo') = Len(fifo) + 1 /\ Len(chunk') = Len(chunk) - 1
    BY <1>1, <1>4, Stores DEF Store
  <2>2. Len(fifo) + Len(chunk) < FifoSize
    BY <1>4 DEF Store, TypeInv, Room
  <2>3. Len(chunk') \in Nat
    BY <2>1, LenProperties
  <2>4. Len(fifo') < FifoSize /\ Len(fifo') + Len(chunk') < FifoSize
    BY <1>1, <2>1, <2>2, <2>3
  <2>5. waiting' \in BOOLEAN /\ regular' \in BOOLEAN
    BY <1>4 DEF Store, TypeInv, Room
  <2>6. Room'
    BY <2>1, <2>4, <2>5 DEF Room
  <2>7. QED
    BY <1>2, <2>6 DEF TypeInv
<1>5. QED
  BY <1>3, <1>4 DEF WriteStep

LEMMA TypeServerTake ==
  ASSUME TypeInv, ServerTake
  PROVE  TypeInv'
<1>1. fifo \in Seq(Byte) /\ Len(fifo) \in Nat /\ Len(fifo) >= 5
  BY LenProperties DEF TypeInv, Room, ServerTake
<1>2. Parts(fifo, 5)
  BY <1>1, Parted
<1>3. fifo' = Drop(fifo, 5) /\ UNCHANGED <<pipe, sent, net, chunk, waiting, handled, regular>>
  BY DEF ServerTake
<1>4. fifo' \in Seq(Byte) /\ Len(fifo') <= Len(fifo)
  <2>1. fifo' \in Seq(Byte) /\ Len(fifo') = Len(fifo) - 5
    BY <1>2, <1>3 DEF Parts
  <2>2. QED
    BY <1>1, <2>1
<1>5. Connections'
  BY <1>3 DEF TypeInv, Connections
<1>6. Room'
  <2>1. regular' \in BOOLEAN
    BY <1>3 DEF TypeInv, Room
  <2>2. QED
    BY <1>3, <1>4, <2>1, RoomLeft
<1>7. Reader'
  <2>1. handle \in HandleType /\ handle.pc = "fd"
    BY AtWork DEF ServerTake
  <2>2. fifo[1] \in Byte
    <3>1. 1 \in 1 .. Len(fifo)
      BY <1>1
    <3>2. QED
      BY <1>1, <3>1, ElementOfSeq
  <2>3. SubSeq(fifo, 2, 5) \in Seq(Byte)
    <3>1. \A i \in 2 .. 5 : fifo[i] \in Byte
      <4> TAKE i \in 2 .. 5
      <4>1. i \in 1 .. Len(fifo)
        BY <1>1
      <4>2. QED
        BY <1>1, <4>1, ElementOfSeq
    <3>2. QED
      BY <3>1, SubSeqProperties
  <2>4. handle' = [handle EXCEPT !.pc = "head", !.fd = fifo[1], !.size = SubSeq(fifo, 2, 5)]
    BY DEF ServerTake
  <2>5. handle' \in HandleType /\ handle'.pc = "head"
    BY <2>1, <2>2, <2>3, <2>4 DEF HandleType
  <2>6. QED
    BY <2>5 DEF Reader
<1>8. QED
  BY <1>5, <1>6, <1>7 DEF TypeInv

LEMMA TypeTakeHead ==
  ASSUME TypeInv, TakeHead
  PROVE  TypeInv'
<1>1. fifo \in Seq(Byte) /\ Len(fifo) \in Nat /\ Len(fifo) >= 17
  BY Constants, LenProperties DEF TypeInv, Room, TakeHead
<1>2. Parts(fifo, 17)
  BY <1>1, Parted
<1>3. fifo' = Drop(fifo, 17) /\ UNCHANGED <<pipe, sent, net, chunk, waiting, handled, regular>>
  BY Constants DEF TakeHead
<1>4. fifo' \in Seq(Byte) /\ Len(fifo') <= Len(fifo)
  <2>1. fifo' \in Seq(Byte) /\ Len(fifo') = Len(fifo) - 17
    BY <1>2, <1>3 DEF Parts
  <2>2. QED
    BY <1>1, <2>1
<1>5. Connections'
  BY <1>3 DEF TypeInv, Connections
<1>6. Room'
  <2>1. regular' \in BOOLEAN
    BY <1>3 DEF TypeInv, Room
  <2>2. QED
    BY <1>3, <1>4, <2>1, RoomLeft
<1>7. Reader'
  <2>1. handle \in HandleType /\ handle.pc = "head"
    BY AtWork DEF TakeHead
  <2>2. PICK head : head = SubSeq(fifo, 1, 17)
    OBVIOUS
  <2>3. head \in Seq(Byte) /\ Len(head) = 17
    BY <1>2, <2>2 DEF Parts
  <2>4. PICK read : read = IF pipe = "server_recv" THEN handle.read + 17 ELSE handle.read
    OBVIOUS
  <2>5. read \in Nat
    BY <2>1, <2>4 DEF HandleType
  <2>6. handle' = Overrun \/ handle' = [handle EXCEPT !.pc = "data", !.head = head, !.read = read]
    BY <2>2, <2>4, Constants DEF TakeHead
  <2>7. CASE handle' = [handle EXCEPT !.pc = "data", !.head = head, !.read = read]
    <3>1. handle' \in HandleType /\ handle'.head = head
      BY <2>1, <2>3, <2>5, <2>7 DEF HandleType
    <3>2. QED
      BY <2>3, <3>1 DEF Reader
  <2>8. QED
    BY <2>6, <2>7 DEF Reader
<1>8. QED
  BY <1>5, <1>6, <1>7 DEF TypeInv

LEMMA TypeClientSendData ==
  ASSUME TypeInv, ClientSendData
  PROVE  TypeInv'
<1>1. LengthOred \in Nat
  BY AtWork DEF ClientSendData
<1>2. /\ Taken(LengthOred) \in Command
      /\ Drop(fifo, LengthOred) \in Seq(Byte) /\ Len(Drop(fifo, LengthOred)) <= Len(fifo)
  BY <1>1, TakenType DEF ClientSendData
<1>3. /\ fifo' = Drop(fifo, LengthOred) /\ Handles(0, <<Taken(LengthOred)>>)
      /\ handle' = Idle(pipe)
      /\ UNCHANGED <<pipe, sent, net, chunk, waiting, regular>>
  BY DEF ClientSendData
<1>4. Connections'
  <2>1. <<Taken(LengthOred)>> \in Seq(Command)
    BY <1>2
  <2>2. handled' \in [DOMAIN sent' -> Seq(Command)]
    BY <1>3, <2>1, HandledType
  <2>3. QED
    BY <1>3, <2>2 DEF TypeInv, Connections
<1>5. Room'
  <2>1. regular' \in BOOLEAN
    BY <1>3 DEF TypeInv, Room
  <2>2. QED
    BY <1>2, <1>3, <2>1, RoomLeft
<1>6. Reader'
  BY <1>3, IdleType DEF Reader
<1>7. QED
  BY <1>4, <1>5, <1>6 DEF TypeInv

LEMMA TypeClientData ==
  ASSUME TypeInv, ClientData
  PROVE  TypeInv'
<1>1. PICK n : n = Min({Len(fifo), LengthOred})
  OBVIOUS
<1>2. LengthOred \in Nat /\ Len(fifo) \in Nat
  BY AtWork, LenProperties DEF ClientData, TypeInv, Room
<1>3. n \in Nat /\ n <= Len(fifo)
  BY <1>1, <1>2, MinOfTwo
<1>4. /\ SubSeq(fifo, 1, n) \in Seq(Byte)
      /\ Drop(fifo, n) \in Seq(Byte) /\ Len(Drop(fifo, n)) <= Len(fifo)
  BY <1>3, TakenType DEF ClientData
<1>5. /\ fifo' = Drop(fifo, n) /\ regular' = (regular /\ n = LengthOred)
      /\ UNCHANGED <<pipe, sent, net, chunk, waiting>>
  BY <1>1 DEF ClientData
<1>6. Room'
  <2>1. regular' \in BOOLEAN
    BY <1>5
  <2>2. QED
    BY <1>4, <1>5, <2>1, RoomLeft
<1>7. CASE BYTE_PACK_HEAD_SIZE + LengthOred > TEMP_BUF_SIZE
  <2>1. handle' = Overrun /\ UNCHANGED handled
    BY <1>7 DEF ClientData
  <2>2. QED
    BY <1>5, <1>6, <2>1 DEF TypeInv, Connections, Reader
<1>8. CASE ~(BYTE_PACK_HEAD_SIZE + LengthOred > TEMP_BUF_SIZE)
  <2>1. PICK m : m = Min({LengthOred, 17 + n})
    OBVIOUS
  <2>2. m \in Nat /\ m <= 17 + n
    BY <1>2, <1>3, <2>1, MinOfTwo
  <2>3. PICK d : d = handle.head \o SubSeq(fifo, 1, n)
    OBVIOUS
  <2>4. PICK c : c = [cmd |-> handle.head[2], data |-> SubSeq(d, 1, m)]
    OBVIOUS
  <2>5. Handles(0, <<c>>) /\ handle' = Idle(pipe)
    BY <1>1, <1>8, <2>1, <2>3, <2>4, Constants DEF ClientData
  <2>6. handle.head \in Seq(Byte) /\ Len(handle.head) = 17 /\ handle.head[2] \in Byte
    BY AtWork DEF ClientData, HandleType
  <2>7. d \in Seq(Byte) /\ Len(d) = 17 + n
    <3>1. Joins(d, handle.head, SubSeq(fifo, 1, n))
      BY <1>4, <2>3, <2>6, Joined
    <3>2. Len(SubSeq(fifo, 1, n)) = n
      BY <1>3, Parted DEF TypeInv, Room, Parts
    <3>3. QED
      BY <2>6, <3>1, <3>2 DEF Joins
  <2>8. SubSeq(d, 1, m) \in Seq(Byte)
    <3>1. Parts(d, m)
      BY <2>2, <2>7, Parted
    <3>2. QED
      BY <3>1 DEF Parts
  <2>9. <<c>> \in Seq(Command)
    BY <2>4, <2>6, <2>8 DEF Command
  <2>10. handled' \in [DOMAIN sent' -> Seq(Command)]
    BY <1>5, <2>5, <2>9, HandledType
  <2>11. Connections'
    BY <1>5, <2>10 DEF TypeInv, Connections
  <2>12. Reader'
    BY <2>5, IdleType DEF Reader
  <2>13. QED
    BY <1>6, <2>11, <2>12 DEF TypeInv
<1>9. QED
  BY <1>7, <1>8

LEMMA TypeServerData ==
  ASSUME TypeInv, ServerData
  PROVE  TypeInv'
<1>1. PICK n : n = LengthHiLo
  OBVIOUS
<1>2. n \in Nat /\ n <= Len(fifo) /\ handle \in HandleType
  BY <1>1, AtWork DEF ServerData
<1>3. /\ Taken(n) \in Command
      /\ Drop(fifo, n) \in Seq(Byte) /\ Len(Drop(fifo, n)) <= Len(fifo)
  BY <1>2, TakenType DEF ServerData
<1>4. fifo' = Drop(fifo, n) /\ UNCHANGED <<pipe, sent, net, chunk, waiting, regular>>
  BY <1>1 DEF ServerData
<1>5. Room'
  <2>1. regular' \in BOOLEAN
    BY <1>4 DEF TypeInv, Room
  <2>2. QED
    BY <1>3, <1>4, <2>1, RoomLeft
<1>6. PICK packs : packs = Append(handle.packs, Taken(n))
  OBVIOUS
<1>7. packs \in Seq(Command)
  <2>1. handle.packs \in Seq(Command)
    BY <1>2 DEF HandleType, Command
  <2>2. QED
    BY <1>3, <1>6, <2>1, AppendProperties
<1>8. PICK read : read = handle.read + n
  OBVIOUS
<1>9. read \in Nat
  BY <1>2, <1>8 DEF HandleType
<1>10. \/ Handles(handle.fd, packs) /\ handle' = Idle(pipe)
       \/ handle' = [handle EXCEPT !.pc = "head", !.packs = packs, !.read = read] /\ UNCHANGED handled
  BY <1>1, <1>6, <1>8 DEF ServerData
<1>11. CASE Handles(handle.fd, packs) /\ handle' = Idle(pipe)
  <2>1. handled' \in [DOMAIN sent' -> Seq(Command)]
    BY <1>4, <1>7, <1>11, HandledType
  <2>2. Connections'
    BY <1>4, <2>1 DEF TypeInv, Connections
  <2>3. Reader'
    BY <1>11, IdleType DEF Reader
  <2>4. QED
    BY <1>5, <2>2, <2>3 DEF TypeInv
<1>12. CASE handle' = [handle EXCEPT !.pc = "head", !.packs = packs, !.read = read] /\ UNCHANGED handled
  <2>1. handle' \in HandleType /\ handle'.pc = "head"
    BY <1>2, <1>7, <1>9, <1>12 DEF HandleType, Command
  <2>2. Connections' /\ Reader'
    BY <1>4, <1>12, <2>1 DEF TypeInv, Connections, Reader
  <2>3. QED
    BY <1>5, <2>2 DEF TypeInv
<1>13. QED
  BY <1>10, <1>11, <1>12

LEMMA TypeNext ==
  ASSUME TypeInv, [Next]_vars
  PROVE  TypeInv'
<1>1. CASE UNCHANGED vars
  BY <1>1 DEF vars, TypeInv, Connections, Room, Reader
<1>2. CASE Next
  <2>1. ASSUME NEW p \in Packets, ClientSend(p) PROVE TypeInv'
    BY <2>1, TypeClientSend
  <2>2. CASE RecvStep
    BY <2>2, TypeClientRecv, TypeServerRecv DEF RecvStep
  <2>3. CASE WriteStep
    BY <2>3, TypeWriteStep
  <2>4. CASE HandleStep
    BY <2>4, TypeServerTake, TypeTakeHead, TypeClientSendData, TypeClientData, TypeServerData
       DEF HandleStep
  <2>5. QED
    BY <1>2, <2>1, <2>2, <2>3, <2>4 DEF Next
<1>3. QED
  BY <1>1, <1>2

LEMMA TypeInvImplies == TypeInv => TypeOK
BY DEF TypeInv, Connections, Room, Reader, TypeOK

\* Of every pipe, its recv as irregular as may be: what is stored are bytes,
\* no thread's variables are ever of another kind, and the room found by a
\* writer is there to the last byte.
THEOREM TypeCorrect == Spec => []TypeOK
<1>1. Spec => []TypeInv
  BY TypeInit, TypeNext, PTL DEF Spec
<1>2. QED
  BY <1>1, TypeInvImplies, PTL

-----------------------------------------------------------------------------
(* Where every packet is, as long as the chunks are regular                *)

\* Whole, of the pipe pp.
WholeIn(pp, p) ==
  LET bytes == hip_mod_pack(p)
      data == Drop(bytes, 17)
  IN  [cmd |-> p.cmd, data |-> IF pp = "client_recv" THEN SubSeq(bytes, 1, Len(data)) ELSE data]

\* commands are k packets of s, from the one after the first a.
Delivers(pp, commands, s, a, k) ==
  Len(commands) = k /\ \A i \in 1 .. k : commands[i] = WholeIn(pp, s[a + i])

\* The header that a reader holds belongs before the fifo's bytes.
Part == IF handle.pc = "data" THEN handle.head ELSE <<>>

\* At the client, the bytes on the way are those of the packets not handled.
ClientInv ==
  /\ handle.pc \in {"head", "data"} /\ handle.packs = <<>>
  /\ Delivers(pipe, handled[0], sent[0], 0, Len(handled[0])) /\ Len(handled[0]) <= Len(sent[0])
  /\ Part \o (fifo \o (chunk \o net[0])) = Slice(sent[0], Len(handled[0]), Len(sent[0]))
  /\ pipe = "client_send" => net[0] = <<>>

\* At the server, a chunk of connection f: before it, the first before[g]
\* packets of every connection g had come, and with it, the first upto[g];
\* bytes are those of the chunk and of what is behind it.
Framed(f, data) == Prefixed(f, Len(data)) \o data
Chunk(s, f, before, upto, bytes, behind) ==
  /\ \A g \in DOMAIN s \ {f} : upto[g] = before[g]
  /\ before[f] < upto[f] /\ upto[f] <= before[f] + PackSlots
  /\ Len(Slice(s[f], before[f], upto[f])) \div 256 < 256
  /\ bytes = Framed(f, Slice(s[f], before[f], upto[f])) \o behind

\* The chunks that recv has made so far, m of them: chunk i came from
\* connection F[i], and T[i] are the bytes behind it.
Chunks(s, m, F, P, T) ==
  /\ m \in Nat /\ F \in [1 .. m -> DOMAIN s] /\ P \in [0 .. m -> [DOMAIN s -> Nat]]
  /\ T \in [0 .. m -> Seq(Byte)] /\ T[m] = <<>>
  /\ \A i \in 0 .. m : \A f \in DOMAIN s : P[i][f] <= Len(s[f])
  /\ \A i \in 1 .. m : Chunk(s, F[i], P[i - 1], P[i], T[i - 1], T[i])

\* The reader waits for the next chunk,
Between(upto, behind) ==
  /\ handle = Idle("server_recv")
  /\ \A f \in DOMAIN sent : Delivers(pipe, handled[f], sent[f], 0, upto[f])
  /\ fifo \o chunk = behind

\* or is within one of connection f, and has c packets of it.
Within(f, before, upto, behind) ==
  LET a == before[f]
      e == upto[f]
      c == Len(handle.packs)
  IN  /\ handle.pc \in {"head", "data"} /\ handle.fd = f
      /\ \A g \in DOMAIN sent : Delivers(pipe, handled[g], sent[g], 0, before[g])
      /\ a + c < e /\ Delivers(pipe, handle.packs, sent[f], a, c)
      /\ handle.size = <<0, 0>> \o HiLo(Len(Slice(sent[f], a, e)))
      /\ handle.read = Len(Slice(sent[f], a, a + c)) + (IF handle.pc = "data" THEN 17 ELSE 0)
      /\ Part \o (fifo \o chunk) = Slice(sent[f], a + c, e) \o behind

Reached(m, F, P, T) ==
  \/ \E j \in 0 .. m : Between(P[j], T[j])
  \/ \E j \in 1 .. m : Within(F[j], P[j - 1], P[j], T[j])

ServerInv ==
  \E m, F, P, T :
    /\ Chunks(sent, m, F, P, T)
    /\ \A f \in DOMAIN sent : net[f] = Slice(sent[f], P[m][f], Len(sent[f]))
    /\ Reached(m, F, P, T)

IntactInv == regular => IF pipe = "server_recv" THEN ServerInv ELSE ClientInv

IInv == TypeInv /\ IntactInv

LEMMA DeliversAppend ==
  ASSUME NEW pp, NEW commands \in Seq(Command), NEW s, NEW a \in Nat, NEW k \in Nat,
         Delivers(pp, commands, s, a, k), NEW c \in Command, c = WholeIn(pp, s[a + k + 1])
  PROVE  Delivers(pp, Append(commands, c), s, a, k + 1)
<1>1. PICK t : t = Append(commands, c)
  OBVIOUS
<1>2. /\ Len(t) = Len(commands) + 1 /\ t[Len(commands) + 1] = c
      /\ \A i \in 1 .. Len(commands) : t[i] = commands[i]
  BY <1>1, AppendProperties
<1>3. Len(commands) = k /\ \A i \in 1 .. k : commands[i] = WholeIn(pp, s[a + i])
  BY DEF Delivers
<1>4. \A i \in 1 .. k + 1 : t[i] = WholeIn(pp, s[a + i])
  <2> TAKE i \in 1 .. k + 1
  <2>1. CASE i \in 1 .. k
    BY <2>1, <1>2, <1>3
  <2>2. CASE i = k + 1
    <3>1. a + i = a + k + 1
      BY <2>2
    <3>2. QED
      BY <2>2, <3>1, <1>2, <1>3
  <2>3. QED
    BY <2>1, <2>2
<1>5. QED
  BY <1>1, <1>2, <1>3, <1>4 DEF Delivers

LEMMA DeliversJoin ==
  ASSUME NEW pp, NEW h \in Seq(Command), NEW t \in Seq(Command), NEW s,
         NEW a \in Nat, NEW k \in Nat,
         Delivers(pp, h, s, 0, a), Delivers(pp, t, s, a, k)
  PROVE  Delivers(pp, h \o t, s, 0, a + k)
<1>1. Len(h) = a /\ \A i \in 1 .. a : h[i] = WholeIn(pp, s[0 + i])
  BY DEF Delivers
<1>2. Len(t) = k /\ \A i \in 1 .. k : t[i] = WholeIn(pp, s[a + i])
  BY DEF Delivers
<1>3. PICK u : u = h \o t
  OBVIOUS
<1>4. /\ Len(u) = Len(h) + Len(t)
      /\ \A i \in 1 .. Len(h) + Len(t) : u[i] = IF i <= Len(h) THEN h[i] ELSE t[i - Len(h)]
  BY <1>3, ConcatProperties
<1>5. \A i \in 1 .. a + k : u[i] = WholeIn(pp, s[0 + i])
  <2> TAKE i \in 1 .. a + k
  <2>1. CASE i \in 1 .. a
    BY <2>1, <1>1, <1>2, <1>4
  <2>2. CASE ~(i \in 1 .. a)
    <3>1. ~(i <= a) /\ i - a \in 1 .. k /\ a + (i - a) = 0 + i
      BY <2>2
    <3>2. u[i] = t[i - a]
      BY <3>1, <1>1, <1>2, <1>4
    <3>3. t[i - a] = WholeIn(pp, s[a + (i - a)])
      BY <3>1, <1>2
    <3>4. QED
      BY <3>1, <3>2, <3>3
  <2>3. QED
    BY <2>1, <2>2
<1>6. QED
  BY <1>1, <1>2, <1>3, <1>4, <1>5 DEF Delivers

LEMMA DeliversSent ==
  ASSUME NEW pp, NEW h, NEW s \in Seq(Packets), NEW p \in Packets, NEW k \in Nat, k <= Len(s),
         Delivers(pp, h, s, 0, k)
  PROVE  Delivers(pp, h, Append(s, p), 0, k)
<1>1. PICK t : t = Append(s, p)
  OBVIOUS
<1>2. Len(s) \in Nat /\ \A i \in 1 .. Len(s) : t[i] = s[i]
  BY <1>1, AppendProperties, LenProperties
<1>3. Len(h) = k /\ \A i \in 1 .. k : h[i] = WholeIn(pp, s[0 + i])
  BY DEF Delivers
<1>4. \A i \in 1 .. k : h[i] = WholeIn(pp, t[0 + i])
  <2> TAKE i \in 1 .. k
  <2>1. 0 + i \in 1 .. Len(s)
    BY <1>2
  <2>2. QED
    BY <2>1, <1>2, <1>3
<1>5. QED
  BY <1>1, <1>3, <1>4 DEF Delivers

-----------------------------------------------------------------------------
(* The client's pipes                                                      *)

LEMMA ClientTypes ==
  ASSUME TypeInv, pipe # "server_recv"
  PROVE  /\ DOMAIN sent = {0} /\ sent[0] \in Seq(Packets) /\ Len(sent[0]) \in Nat
         /\ net[0] \in Seq(Byte) /\ handled[0] \in Seq(Command) /\ Len(handled[0]) \in Nat
         /\ fifo \in Seq(Byte) /\ chunk \in Seq(Byte)
<1>1. /\ DOMAIN sent = {0} /\ sent \in [{0} -> Seq(Packets)]
      /\ net \in [{0} -> Seq(Byte)] /\ handled \in [{0} -> Seq(Command)]
  BY DEF TypeInv, Connections
<1>2. sent[0] \in Seq(Packets) /\ net[0] \in Seq(Byte) /\ handled[0] \in Seq(Command)
  BY <1>1
<1>3. fifo \in Seq(Byte) /\ chunk \in Seq(Byte)
  BY DEF TypeInv, Room
<1>4. QED
  BY <1>1, <1>2, <1>3, LenProperties

LEMMA IntactInit == Init => IntactInv
<1> SUFFICES ASSUME Init PROVE IntactInv
  OBVIOUS
<1>1. TypeInv
  BY TypeInit
<1>2. /\ fifo = <<>> /\ chunk = <<>> /\ handle = Idle(pipe) /\ Part = <<>>
      /\ \A f \in DOMAIN sent : handled[f] = <<>> /\ net[f] = Stream(sent[f])
  BY IdleType DEF Init, Part
<1>3. \A f \in DOMAIN sent : sent[f] \in Seq(Packets) /\ Len(sent[f]) \in Nat
  BY <1>1, LenProperties DEF TypeInv, Connections
<1>4. \A f \in DOMAIN sent : net[f] \in Seq(Byte) /\ net[f] = Slice(sent[f], 0, Len(sent[f]))
  <2> TAKE f \in DOMAIN sent
  <2>1. SubSeq(sent[f], 0 + 1, Len(sent[f])) = sent[f]
    <3>1. SubSeq(sent[f], 1, Len(sent[f])) = sent[f]
      BY <1>3, SubSeqFull
    <3>2. QED
      BY <3>1
  <2>2. QED
    BY <1>2, <1>3, <2>1, StreamBytes DEF Slice
<1>5. \A f \in DOMAIN sent : Delivers(pipe, handled[f], sent[f], 0, 0)
  BY <1>2 DEF Delivers
<1>6. <<>> \in Seq(Byte)
  OBVIOUS
<1>7. CASE pipe = "server_recv"
  <2>1. PICK F : F = [i \in 1 .. 0 |-> 0]
    OBVIOUS
  <2>2. PICK P : P = [i \in 0 .. 0 |-> [f \in DOMAIN sent |-> 0]]
    OBVIOUS
  <2>3. PICK T : T = [i \in 0 .. 0 |-> <<>>]
    OBVIOUS
  <2>4. Chunks(sent, 0, F, P, T)
    <3>1. F \in [1 .. 0 -> DOMAIN sent]
      BY <2>1
    <3>2. P \in [0 .. 0 -> [DOMAIN sent -> Nat]]
      BY <2>2
    <3>3. T \in [0 .. 0 -> Seq(Byte)] /\ T[0] = <<>>
      BY <2>3, <1>6
    <3>4. \A i \in 0 .. 0 : \A f \in DOMAIN sent : P[i][f] <= Len(sent[f])
      BY <2>2, <1>3
    <3>5. \A i \in 1 .. 0 : FALSE
      OBVIOUS
    <3>6. QED
      BY <3>1, <3>2, <3>3, <3>4, <3>5 DEF Chunks
  <2>5. \A f \in DOMAIN sent : P[0][f] = 0
    BY <2>2
  <2>6. Between(P[0], T[0])
    <3>1. T[0] = <<>> /\ fifo \o chunk = <<>>
      BY <1>2, <1>6, <2>3, ConcatEmptySeq
    <3>2. QED
      BY <1>2, <1>5, <1>7, <2>5, <3>1 DEF Between
  <2>7. \A f \in DOMAIN sent : net[f] = Slice(sent[f], P[0][f], Len(sent[f]))
    BY <1>4, <2>5
  <2>8. 0 \in 0 .. 0
    OBVIOUS
  <2>9. ServerInv
    BY <2>4, <2>6, <2>7, <2>8 DEF ServerInv, Reached
  <2>10. QED
    BY <1>7, <2>9 DEF IntactInv
<1>8. CASE pipe # "server_recv"
  <2>1. 0 \in DOMAIN sent
    BY <1>1, <1>8, ClientTypes
  <2>2. handled[0] = <<>> /\ Len(handled[0]) = 0 /\ net[0] = Slice(sent[0], 0, Len(sent[0]))
    BY <1>2, <1>4, <2>1
  <2>3. net[0] \in Seq(Byte) /\ Part \o (fifo \o (chunk \o net[0])) = net[0]
    BY <1>2, <1>4, <1>6, <2>1, ConcatEmptySeq
  <2>4. handle.pc = "head" /\ handle.packs = <<>>
    BY <1>2, <1>8 DEF Idle
  <2>5. ASSUME pipe = "client_send" PROVE net[0] = <<>>
    <3>1. sent[0] = <<>>
      BY <2>5 DEF Init
    <3>2. QED
      BY <3>1, <2>1, <1>2, StreamEmpty
  <2>6. ClientInv
    <3>1. Delivers(pipe, handled[0], sent[0], 0, 0) /\ 0 <= Len(sent[0])
      BY <2>1, <1>3, <1>5
    <3>2. QED
      BY <2>2, <2>3, <2>4, <2>5, <3>1 DEF ClientInv
  <2>7. QED
    BY <1>8, <2>6 DEF IntactInv
<1>9. QED
  BY <1>7, <1>8

\* The same bytes lie ahead, wherever they are.
LEMMA ClientStill ==
  ASSUME ClientInv, UNCHANGED <<pipe, sent, handle, handled>>,
         fifo' \o (chunk' \o net'[0]) = fifo \o (chunk \o net[0]),
         pipe = "client_send" => net'[0] = <<>>
  PROVE  ClientInv'
BY DEF ClientInv, Part

LEMMA ClientWrites ==
  ASSUME TypeInv, ClientInv, pipe # "server_recv", WriteStep
  PROVE  ClientInv'
<1>1. CASE ServerRoom
  BY <1>1, ClientStill DEF ServerRoom, ClientInv
<1>2. CASE Store
  <2>1. fifo \in Seq(Byte) /\ chunk \in Seq(Byte) /\ net[0] \in Seq(Byte)
    BY ClientTypes
  <2>2. PICK s, t : s = fifo' /\ t = chunk'
    OBVIOUS
  <2>3. s \in Seq(Byte) /\ t \in Seq(Byte) /\ s \o t = fifo \o chunk
    BY <1>2, <2>1, <2>2, Stores DEF Store
  <2>4. (s \o t) \o net[0] = s \o (t \o net[0])
    BY <2>1, <2>3, Associates, ZenonT(60)
  <2>5. (fifo \o chunk) \o net[0] = fifo \o (chunk \o net[0])
    BY <2>1, Associates
  <2>6. s \o (t \o net[0]) = fifo \o (chunk \o net[0])
    BY <2>3, <2>4, <2>5
  <2>7. UNCHANGED <<pipe, sent, handle, handled, net>>
    BY <1>2 DEF Store
  <2>8. QED
    BY <2>2, <2>6, <2>7, ClientStill DEF ClientInv
<1>3. QED
  BY <1>1, <1>2 DEF WriteStep

LEMMA ClientReceives ==
  ASSUME TypeInv, ClientInv, NEW n \in ChunkSizes, ClientRecv(n), regular'
  PROVE  ClientInv'
<1>1. pipe = "client_recv" /\ chunk = <<>>
  BY DEF ClientRecv
<1>2. 0 \in DOMAIN net /\ net[0] \in Seq(Byte) /\ fifo \in Seq(Byte) /\ n \in Nat
  BY <1>1, ClientTypes, Constants DEF TypeInv, Connections
<1>3. Parts(net[0], n)
  BY <1>2, Parted DEF ClientRecv
<1>4. chunk' = SubSeq(net[0], 1, n)
  BY DEF ClientRecv
<1>5. net'[0] = Drop(net[0], n)
  BY <1>2 DEF ClientRecv
<1>6. chunk' \o net'[0] = net[0]
  BY <1>3, <1>4, <1>5 DEF Parts
<1>7. chunk \o net[0] = net[0]
  BY <1>1, <1>2, ConcatEmptySeq
<1>8. UNCHANGED <<pipe, sent, handle, handled, fifo>>
  BY DEF ClientRecv
<1>9. QED
  BY <1>1, <1>6, <1>7, <1>8, ClientStill

LEMMA ClientSends ==
  ASSUME TypeInv, ClientInv, NEW p \in Packets, ClientSend(p)
  PROVE  ClientInv'
<1>1. pipe = "client_send" /\ chunk = <<>> /\ chunk' = hip_mod_pack(p)
      /\ UNCHANGED <<pipe, net, fifo, handle, handled>>
  BY DEF ClientSend
<1>2. /\ DOMAIN sent = {0} /\ sent[0] \in Seq(Packets) /\ Len(sent[0]) \in Nat
      /\ handled[0] \in Seq(Command) /\ Len(handled[0]) \in Nat /\ fifo \in Seq(Byte)
  BY <1>1, ClientTypes
<1>3. net[0] = <<>> /\ Len(handled[0]) <= Len(sent[0])
  BY <1>1 DEF ClientInv
<1>4. PICK bytes : bytes = hip_mod_pack(p)
  OBVIOUS
<1>5. bytes \in Seq(Byte) /\ <<>> \in Seq(Byte)
  BY <1>4, PackBytes DEF Heads
<1>6. PICK s : s = sent'[0]
  OBVIOUS
<1>7. s = Append(sent[0], p)
  BY <1>2, <1>6 DEF ClientSend
<1>8. s \in Seq(Packets) /\ Len(s) = Len(sent[0]) + 1 /\ s[Len(sent[0]) + 1] = p
  BY <1>2, <1>7, AppendProperties
<1>9. Delivers(pipe, handled[0], s, 0, Len(handled[0]))
  BY <1>2, <1>3, <1>7, DeliversSent DEF ClientInv
<1>10. PICK k, n : k = Len(handled[0]) /\ n = Len(sent[0])
  OBVIOUS
<1>11. Slice(s, k, n + 1) = Slice(s, k, n) \o bytes
  <2>1. k \in Nat /\ n \in Nat /\ k <= n /\ n < Len(s) /\ s[n + 1] = p
    BY <1>2, <1>3, <1>8, <1>10
  <2>2. QED
    BY <1>4, <1>8, <2>1, SliceNext
<1>12. Slice(s, k, n) = Slice(sent[0], k, n)
  <2>1. k \in Nat /\ n \in Nat /\ n <= Len(sent[0])
    BY <1>2, <1>10
  <2>2. QED
    BY <1>2, <1>7, <2>1, SliceAppend
<1>13. PICK ahead : ahead = Part
  OBVIOUS
<1>14. ahead \in Seq(Byte)
  <2>1. handle \in HandleType
    BY AtWork DEF ClientInv
  <2>2. QED
    BY <1>5, <1>13, <2>1 DEF Part, HandleType
<1>15. ahead \o fifo = Slice(sent[0], k, n)
  <2>1. chunk \o net[0] = <<>> /\ fifo \o <<>> = fifo
    BY <1>1, <1>2, <1>3, <1>5, ConcatEmptySeq
  <2>2. QED
    BY <1>10, <1>13, <2>1 DEF ClientInv
<1>16. ahead \o (fifo \o bytes) = Slice(s, k, n + 1)
  <2>1. (ahead \o fifo) \o bytes = ahead \o (fifo \o bytes)
    BY <1>2, <1>5, <1>14, Associates
  <2>2. QED
    BY <2>1, <1>11, <1>12, <1>15
<1>17. chunk' \o net'[0] = bytes
  BY <1>1, <1>3, <1>4, <1>5, ConcatEmptySeq
<1>18. Part' = ahead
  BY <1>1, <1>13 DEF Part
<1>19. Part' \o (fifo' \o (chunk' \o net'[0])) = Slice(s, k, Len(s))
  <2>1. Len(s) = n + 1
    BY <1>8, <1>10
  <2>2. QED
    BY <1>1, <1>16, <1>17, <1>18, <2>1
<1>20. Len(handled'[0]) <= Len(s)
  BY <1>1, <1>2, <1>3, <1>8
<1>21. QED
  BY <1>1, <1>3, <1>6, <1>9, <1>10, <1>19, <1>20 DEF ClientInv

LEMMA ClientTakesHead ==
  ASSUME TypeInv, ClientInv, pipe # "server_recv", TakeHead
  PROVE  ClientInv'
<1>1. handle.pc = "head" /\ handle.packs = <<>> /\ handle \in HandleType
  BY AtWork DEF ClientInv, TakeHead
<1>2. fifo \in Seq(Byte) /\ chunk \in Seq(Byte) /\ net[0] \in Seq(Byte) /\ Len(fifo) >= 17
  BY ClientTypes, Constants DEF TakeHead
<1>3. Parts(fifo, 17)
  BY <1>2, Parted
<1>4. PICK h, d : h = SubSeq(fifo, 1, 17) /\ d = Drop(fifo, 17)
  OBVIOUS
<1>5. h \in Seq(Byte) /\ d \in Seq(Byte)
  BY <1>3, <1>4 DEF Parts
<1>6. h \o d = fifo
  BY <1>3, <1>4 DEF Parts
<1>7. Len(handle.packs) # PackSlots
  <2>1. Len(handle.packs) = 0
    BY <1>1
  <2>2. QED
    BY <2>1, Constants
<1>8. /\ handle'.pc = "data" /\ handle'.head = h /\ handle'.packs = <<>> /\ fifo' = d
      /\ UNCHANGED <<pipe, sent, net, chunk, handled>>
  BY <1>1, <1>4, <1>7, Constants DEF TakeHead, HandleType
<1>9. Part = <<>> /\ Part' = h
  BY <1>1, <1>8 DEF Part
<1>10. PICK rest : rest = chunk \o net[0]
  OBVIOUS
<1>11. rest \in Seq(Byte)
  BY <1>2, <1>10, ConcatProperties
<1>12. (h \o d) \o rest = h \o (d \o rest)
  BY <1>5, <1>11, Associates
<1>13. <<>> \o (fifo \o rest) = fifo \o rest
  <2>1. fifo \o rest \in Seq(Byte)
    BY <1>2, <1>11, ConcatProperties
  <2>2. QED
    BY <2>1, ConcatEmptySeq
<1>14. Part' \o (fifo' \o (chunk' \o net'[0])) = Part \o (fifo \o (chunk \o net[0]))
  BY <1>6, <1>8, <1>9, <1>10, <1>12, <1>13
<1>15. QED
  BY <1>8, <1>14 DEF ClientInv

\* The reader has the header of the first packet that is not handled.
Coming(k, n, q) ==
  /\ k = Len(handled[0]) /\ n = Len(sent[0]) /\ k < n /\ q = sent[0][k + 1] /\ q \in Packets
  /\ LengthOred = Size(q)
  /\ Reads(handle.head, fifo, chunk \o net[0], q, Slice(sent[0], k + 1, n))

LEMMA ClientNext ==
  ASSUME TypeInv, ClientInv, pipe # "server_recv", handle.pc = "data"
  PROVE  \E k, n, q : Coming(k, n, q)
<1>1. PICK k, n, s : k = Len(handled[0]) /\ n = Len(sent[0]) /\ s = sent[0]
  OBVIOUS
<1>2. /\ fifo \in Seq(Byte) /\ chunk \in Seq(Byte) /\ net[0] \in Seq(Byte)
      /\ s \in Seq(Packets) /\ k \in Nat /\ n \in Nat /\ k <= n /\ n = Len(s)
  BY <1>1, ClientTypes DEF ClientInv
<1>3. handle.head \in Seq(Byte) /\ Len(handle.head) = 17
  BY AtWork DEF HandleType
<1>4. PICK rest : rest = chunk \o net[0]
  OBVIOUS
<1>5. rest \in Seq(Byte) /\ fifo \o rest \in Seq(Byte)
  BY <1>2, <1>4, ConcatProperties
<1>6. handle.head \o (fifo \o rest) = Slice(s, k, n)
  BY <1>1, <1>4 DEF ClientInv, Part
<1>7. k < n
  <2>1. Len(handle.head \o (fifo \o rest)) = 17 + Len(fifo \o rest)
    <3>1. Joins(handle.head \o (fifo \o rest), handle.head, fifo \o rest)
      BY <1>3, <1>5, Joined
    <3>2. QED
      BY <1>3, <3>1 DEF Joins
  <2>2. Len(fifo \o rest) \in Nat
    BY <1>5, LenProperties
  <2>3. Len(Slice(s, k, n)) # 0
    BY <2>1, <2>2, <1>6
  <2>4. CASE k >= n
    <3>1. Slice(s, k, n) = <<>>
      BY <1>2, <2>4, SliceBytes
    <3>2. QED
      BY <2>3, <3>1
  <2>5. QED
    BY <1>2, <2>4
<1>8. PICK q : q = s[k + 1]
  OBVIOUS
<1>9. q \in Packets
  <2>1. k + 1 \in 1 .. Len(s)
    BY <1>2, <1>7
  <2>2. QED
    BY <1>2, <1>8, <2>1, ElementOfSeq
<1>10. Slice(s, k, n) = hip_mod_pack(q) \o Slice(s, k + 1, n)
  <2>1. Slice(s, k, n) = Slice(s, k, k + 1) \o Slice(s, k + 1, n)
    <3>1. k + 1 \in Nat /\ k <= k + 1 /\ k + 1 <= n /\ n <= Len(s)
      BY <1>2, <1>7
    <3>2. QED
      BY <1>2, <3>1, SliceSplits, ZenonT(60)
  <2>2. Slice(s, k, k + 1) = hip_mod_pack(q)
    BY <1>2, <1>7, <1>8, SliceOne
  <2>3. QED
    BY <2>1, <2>2
<1>11. Slice(s, k + 1, n) \in Seq(Byte)
  BY <1>2, SliceBytes
<1>12. Reads(handle.head, fifo, rest, q, Slice(s, k + 1, n))
  BY <1>2, <1>3, <1>5, <1>6, <1>9, <1>10, <1>11, ReadsPacket
<1>13. LengthOred = Size(q)
  <2>1. handle.head[3] = 0 /\ handle.head[4] = Size(q)
    BY <1>12 DEF Reads
  <2>2. Size(q) \in Byte
    BY <2>1, AtWork
  <2>3. QED
    BY <2>1, <2>2, BitOrZero DEF LengthOred
<1>14. Coming(k, n, q)
  BY <1>1, <1>4, <1>7, <1>8, <1>9, <1>12, <1>13 DEF Coming
<1>15. QED
  BY <1>14

LEMMA ClientHandles ==
  ASSUME TypeInv, ClientInv, pipe # "server_recv",
         NEW k, NEW n, NEW q, Coming(k, n, q), Len(fifo) >= Size(q),
         NEW c \in Command, c = WholeIn(pipe, q), Handles(0, <<c>>),
         handle' = Idle(pipe), fifo' = Drop(fifo, Size(q)),
         UNCHANGED <<pipe, sent, net, chunk>>
  PROVE  ClientInv'
<1>1. /\ DOMAIN sent = {0} /\ sent[0] \in Seq(Packets) /\ net[0] \in Seq(Byte)
      /\ handled[0] \in Seq(Command) /\ chunk \in Seq(Byte) /\ fifo \in Seq(Byte)
      /\ k \in Nat /\ n \in Nat
  BY ClientTypes DEF Coming
<1>2. PICK h : h = handled'[0]
  OBVIOUS
<1>3. h = Append(handled[0], c)
  <2>1. 0 \in DOMAIN handled
    BY <1>1 DEF TypeInv, Connections
  <2>2. h = handled[0] \o <<c>>
    BY <1>2, <2>1 DEF Handles
  <2>3. QED
    BY <1>1, <2>2, AppendIsConcat
<1>4. Len(h) = k + 1
  BY <1>1, <1>3, AppendProperties DEF Coming
<1>5. Delivers(pipe, h, sent[0], 0, k + 1)
  <2>1. Delivers(pipe, handled[0], sent[0], 0, k)
    BY DEF ClientInv, Coming
  <2>2. 0 + k + 1 = k + 1
    BY <1>1
  <2>3. c = WholeIn(pipe, sent[0][0 + k + 1])
    BY <2>2 DEF Coming
  <2>4. QED
    BY <1>1, <1>3, <2>1, <2>3, DeliversAppend
<1>6. handle'.pc = "head" /\ handle'.packs = <<>> /\ Part' = <<>>
  BY DEF Idle, Part
<1>7. fifo' \o (chunk' \o net'[0]) = Slice(sent[0], k + 1, n)
  BY DEF Coming, Reads
<1>8. Slice(sent[0], k + 1, n) \in Seq(Byte)
  BY <1>1, SliceBytes DEF Coming
<1>9. <<>> \o Slice(sent[0], k + 1, n) = Slice(sent[0], k + 1, n)
  BY <1>8, ConcatEmptySeq
<1>10. k + 1 <= n /\ n = Len(sent[0])
  BY <1>1 DEF Coming
<1>11. pipe = "client_send" => net[0] = <<>>
  BY DEF ClientInv
<1>12. QED
  BY <1>2, <1>4, <1>5, <1>6, <1>7, <1>9, <1>10, <1>11 DEF ClientInv

LEMMA ClientTakesSent ==
  ASSUME TypeInv, ClientInv, ClientSendData
  PROVE  ClientInv'
<1>1. pipe = "client_send" /\ handle.pc = "data"
  BY DEF ClientSendData
<1>2. PICK k, n, q : Coming(k, n, q)
  BY <1>1, ClientNext
<1>3. /\ LengthOred = Size(q) /\ Len(fifo) >= Size(q) /\ q \in Packets
      /\ Reads(handle.head, fifo, chunk \o net[0], q, Slice(sent[0], k + 1, n))
  BY <1>2 DEF Coming, ClientSendData
<1>4. PICK c : c = Taken(Size(q))
  OBVIOUS
<1>5. c = WholeIn(pipe, q)
  BY <1>1, <1>3, <1>4 DEF Taken, WholeIn, Reads
<1>6. c \in Command
  <2>1. LengthOred \in Nat
    BY <1>1, AtWork
  <2>2. Size(q) \in Nat /\ Size(q) <= Len(fifo)
    BY <1>3, <2>1
  <2>3. QED
    BY <1>1, <1>4, <2>2, TakenType
<1>7. /\ Handles(0, <<c>>) /\ handle' = Idle(pipe) /\ fifo' = Drop(fifo, Size(q))
      /\ UNCHANGED <<pipe, sent, net, chunk>>
  BY <1>3, <1>4 DEF ClientSendData
<1>8. QED
  BY <1>1, <1>2, <1>3, <1>5, <1>6, <1>7, ClientHandles

LEMMA ClientTakesReceived ==
  ASSUME TypeInv, ClientInv, ClientData, regular'
  PROVE  ClientInv'
<1>1. pipe = "client_recv" /\ handle.pc = "data"
  BY DEF ClientData
<1>2. PICK k, n, q : Coming(k, n, q)
  BY <1>1, ClientNext
<1>3. /\ LengthOred = Size(q) /\ q \in Packets
      /\ Reads(handle.head, fifo, chunk \o net[0], q, Slice(sent[0], k + 1, n))
  BY <1>2 DEF Coming
<1>4. Min({Len(fifo), LengthOred}) = LengthOred
  BY DEF ClientData
<1>5. Len(fifo) \in Nat /\ Size(q) \in Nat /\ 17 + Size(q) <= TEMP_BUF_SIZE /\ TEMP_BUF_SIZE \in Nat
  BY <1>3, PacketFields, Constants, LenProperties DEF TypeInv, Room
<1>6. Len(fifo) >= Size(q) /\ Min({Len(fifo), LengthOred}) = Size(q)
  BY <1>3, <1>4, <1>5, MinOfTwo
<1>7. Min({LengthOred, BYTE_PACK_HEAD_SIZE + Size(q)}) = Size(q)
  <2>1. 17 + Size(q) \in Nat /\ Size(q) <= 17 + Size(q)
    BY <1>5
  <2>2. QED
    BY <1>3, <1>5, <2>1, MinOfTwo, Constants
<1>8. ~(BYTE_PACK_HEAD_SIZE + LengthOred > TEMP_BUF_SIZE)
  BY <1>3, <1>5, Constants
<1>9. PICK c : c = [cmd |-> handle.head[2],
                    data |-> SubSeq(handle.head \o SubSeq(fifo, 1, Size(q)), 1, Size(q))]
  OBVIOUS
<1>10. /\ Handles(0, <<c>>) /\ handle' = Idle(pipe) /\ fifo' = Drop(fifo, Size(q))
       /\ UNCHANGED <<pipe, sent, net, chunk>>
  BY <1>6, <1>7, <1>8, <1>9 DEF ClientData
<1>11. PICK bytes : bytes = hip_mod_pack(q)
  OBVIOUS
<1>12. bytes \in Seq(Byte) /\ Len(bytes) = 17 + Size(q)
  BY <1>3, <1>11, PackBytes DEF Heads
<1>13. c = [cmd |-> q.cmd, data |-> SubSeq(bytes, 1, Size(q))]
  BY <1>3, <1>6, <1>9, <1>11 DEF Reads
<1>14. Len(Drop(bytes, 17)) = Size(q)
  <2>1. Parts(bytes, 17)
    BY <1>5, <1>12, Parted
  <2>2. QED
    BY <1>5, <1>12, <2>1 DEF Parts
<1>15. c = WholeIn(pipe, q)
  BY <1>1, <1>11, <1>13, <1>14 DEF WholeIn
<1>16. c \in Command
  <2>1. Parts(bytes, Size(q))
    BY <1>5, <1>12, Parted
  <2>2. q.cmd \in Byte
    BY <1>3, PacketFields
  <2>3. QED
    BY <1>13, <2>1, <2>2 DEF Parts, Command
<1>17. QED
  BY <1>1, <1>2, <1>6, <1>10, <1>15, <1>16, ClientHandles

-----------------------------------------------------------------------------
(* The server's pipe                                                       *)

LEMMA ServerTypes ==
  ASSUME TypeInv
  PROVE  /\ DOMAIN sent \subseteq Byte /\ sent \in [DOMAIN sent -> Seq(Packets)]
         /\ DOMAIN net = DOMAIN sent /\ DOMAIN handled = DOMAIN sent
         /\ \A f \in DOMAIN sent :
              /\ sent[f] \in Seq(Packets) /\ Len(sent[f]) \in Nat
              /\ net[f] \in Seq(Byte) /\ handled[f] \in Seq(Command)
         /\ fifo \in Seq(Byte) /\ chunk \in Seq(Byte)
<1>1. /\ DOMAIN sent \subseteq Byte /\ sent \in [DOMAIN sent -> Seq(Packets)]
      /\ net \in [DOMAIN sent -> Seq(Byte)] /\ handled \in [DOMAIN sent -> Seq(Command)]
      /\ fifo \in Seq(Byte) /\ chunk \in Seq(Byte)
  BY DEF TypeInv, Connections, Room
<1>2. \A f \in DOMAIN sent : sent[f] \in Seq(Packets) /\ Len(sent[f]) \in Nat
  BY <1>1, LenProperties
<1>3. QED
  BY <1>1, <1>2

LEMMA FramedBytes ==
  ASSUME NEW f \in Byte, NEW data \in Seq(Byte), Len(data) \div 256 < 256
  PROVE  /\ Framed(f, data) \in Seq(Byte)
         /\ Prefixed(f, Len(data)) \in Seq(Byte) /\ Len(Prefixed(f, Len(data))) = 5
<1>1. Len(data) \in Nat
  BY LenProperties
<1>2. Prefixed(f, Len(data)) \in Seq(Byte) /\ Len(Prefixed(f, Len(data))) = 5
  BY <1>1, PrefixBytes
<1>3. QED
  BY <1>2, ConcatProperties DEF Framed

\* The data of a chunk, and what it is for.
LEMMA ChunkBytes ==
  ASSUME NEW s, s \in [DOMAIN s -> Seq(Packets)], DOMAIN s \subseteq Byte, NEW f \in DOMAIN s,
         NEW before \in [DOMAIN s -> Nat], NEW upto \in [DOMAIN s -> Nat],
         upto[f] <= Len(s[f]), NEW bytes, NEW behind, Chunk(s, f, before, upto, bytes, behind)
  PROVE  /\ Slice(s[f], before[f], upto[f]) \in Seq(Byte)
         /\ Framed(f, Slice(s[f], before[f], upto[f])) \in Seq(Byte)
<1>1. s[f] \in Seq(Packets) /\ before[f] \in Nat /\ upto[f] \in Nat /\ f \in Byte
  OBVIOUS
<1>2. Slice(s[f], before[f], upto[f]) \in Seq(Byte)
  BY <1>1, SliceBytes
<1>3. Framed(f, Slice(s[f], before[f], upto[f])) \in Seq(Byte)
  BY <1>1, <1>2, FramedBytes DEF Chunk
<1>4. QED
  BY <1>2, <1>3

\* One more chunk, frame, comes behind all others.
Longer(m, F, P, T, f, upto, frame, F2, P2, T2) ==
  /\ F2 = [i \in 1 .. m + 1 |-> IF i = m + 1 THEN f ELSE F[i]]
  /\ P2 = [i \in 0 .. m + 1 |-> IF i = m + 1 THEN upto ELSE P[i]]
  /\ T2 = [i \in 0 .. m + 1 |-> IF i = m + 1 THEN <<>> ELSE T[i] \o frame]

Keeps(m, F, P, T, upto, frame, F2, P2, T2) ==
  /\ \A i \in 0 .. m : P2[i] = P[i] /\ T2[i] = T[i] \o frame /\ i \in 0 .. m + 1
  /\ \A i \in 1 .. m : F2[i] = F[i] /\ i \in 1 .. m + 1 /\ i \in 0 .. m /\ i - 1 \in 0 .. m
  /\ P2[m + 1] = upto

\* The chunks that were there before stay where they were.
LEMMA LongerKeeps ==
  ASSUME NEW m \in Nat, NEW F, NEW P, NEW T, NEW f, NEW upto, NEW frame,
         NEW F2, NEW P2, NEW T2, Longer(m, F, P, T, f, upto, frame, F2, P2, T2)
  PROVE  Keeps(m, F, P, T, upto, frame, F2, P2, T2)
<1>1. /\ \A i \in 0 .. m : i # m + 1 /\ i \in 0 .. m + 1
      /\ \A i \in 1 .. m : i # m + 1 /\ i \in 1 .. m + 1 /\ i \in 0 .. m /\ i - 1 \in 0 .. m
      /\ m + 1 \in 0 .. m + 1
  OBVIOUS
<1>2. \A i \in 0 .. m : P2[i] = P[i] /\ T2[i] = T[i] \o frame
  BY <1>1 DEF Longer
<1>3. \A i \in 1 .. m : F2[i] = F[i]
  BY <1>1 DEF Longer
<1>4. P2[m + 1] = upto
  BY <1>1 DEF Longer
<1>5. QED
  BY <1>1, <1>2, <1>3, <1>4 DEF Keeps

LEMMA ChunksMore ==
  ASSUME NEW s, s \in [DOMAIN s -> Seq(Packets)], DOMAIN s \subseteq Byte,
         NEW m, NEW F, NEW P, NEW T, Chunks(s, m, F, P, T),
         NEW f \in DOMAIN s, NEW k \in Nat, k <= Len(s[f]),
         NEW upto, upto = [P[m] EXCEPT ![f] = k],
         NEW frame \in Seq(Byte), Chunk(s, f, P[m], upto, frame, <<>>),
         NEW F2, NEW P2, NEW T2, Longer(m, F, P, T, f, upto, frame, F2, P2, T2)
  PROVE  Chunks(s, m + 1, F2, P2, T2)
<1>1. m \in Nat
  BY DEF Chunks
<1>2. /\ m + 1 \in Nat /\ m \in 0 .. m
      /\ \A i \in 0 .. m + 1 : i = m + 1 \/ i \in 0 .. m
      /\ \A i \in 1 .. m + 1 : i = m + 1 \/ i \in 1 .. m
      /\ \A i \in 0 .. m : i # m + 1 /\ i \in 0 .. m + 1
      /\ \A i \in 1 .. m : i # m + 1 /\ i \in 1 .. m + 1 /\ i \in 0 .. m /\ i - 1 \in 0 .. m
      /\ m + 1 \in 0 .. m + 1 /\ m + 1 \in 1 .. m + 1 /\ (m + 1) - 1 = m
  BY <1>1
<1>3. /\ F \in [1 .. m -> DOMAIN s] /\ P \in [0 .. m -> [DOMAIN s -> Nat]]
      /\ T \in [0 .. m -> Seq(Byte)] /\ T[m] = <<>>
  BY DEF Chunks
<1>4. \A i \in 0 .. m : \A g \in DOMAIN s : P[i][g] <= Len(s[g])
  BY DEF Chunks
<1>5. \A i \in 1 .. m : Chunk(s, F[i], P[i - 1], P[i], T[i - 1], T[i])
  BY DEF Chunks
<1>6. /\ \A i \in 0 .. m : P2[i] = P[i] /\ T2[i] = T[i] \o frame
      /\ \A i \in 1 .. m : F2[i] = F[i]
  BY <1>2 DEF Longer
<1>7. F2[m + 1] = f /\ P2[m + 1] = upto /\ T2[m + 1] = <<>>
  BY <1>2 DEF Longer
<1>8. P[m] \in [DOMAIN s -> Nat]
  BY <1>2, <1>3
<1>9. upto \in [DOMAIN s -> Nat] /\ \A g \in DOMAIN s : upto[g] = IF g = f THEN k ELSE P[m][g]
  BY <1>8
<1>10. F2 \in [1 .. m + 1 -> DOMAIN s]
  BY <1>2, <1>3 DEF Longer
<1>11. P2 \in [0 .. m + 1 -> [DOMAIN s -> Nat]]
  BY <1>2, <1>3, <1>9 DEF Longer
<1>12. T2 \in [0 .. m + 1 -> Seq(Byte)]
  <2>1. \A i \in 0 .. m : T[i] \o frame \in Seq(Byte)
    BY <1>3, ConcatProperties
  <2>2. <<>> \in Seq(Byte)
    OBVIOUS
  <2>3. QED
    BY <1>2, <2>1, <2>2 DEF Longer
<1>13. \A i \in 0 .. m + 1 : \A g \in DOMAIN s : P2[i][g] <= Len(s[g])
  <2> TAKE i \in 0 .. m + 1
  <2> TAKE g \in DOMAIN s
  <2>1. CASE i = m + 1
    <3>1. P2[i][g] = IF g = f THEN k ELSE P[m][g]
      BY <1>7, <1>9, <2>1
    <3>2. P[m][g] <= Len(s[g])
      BY <1>2, <1>4
    <3>3. QED
      BY <3>1, <3>2
  <2>2. CASE i \in 0 .. m
    BY <1>4, <1>6, <2>2
  <2>3. QED
    BY <1>2, <2>1, <2>2
<1>14. \A i \in 1 .. m + 1 : Chunk(s, F2[i], P2[i - 1], P2[i], T2[i - 1], T2[i])
  <2> TAKE i \in 1 .. m + 1
  <2>1. CASE i = m + 1
    <3>1. T2[m] = frame
      <4>1. T2[m] = <<>> \o frame
        BY <1>2, <1>3, <1>6
      <4>2. QED
        BY <4>1, ConcatEmptySeq
    <3>2. F2[i] = f /\ P2[i - 1] = P[m] /\ P2[i] = upto /\ T2[i - 1] = frame /\ T2[i] = <<>>
      BY <1>2, <1>6, <1>7, <2>1, <3>1
    <3>3. QED
      BY <3>2
  <2>2. CASE i \in 1 .. m
    <3>1. i \in 0 .. m /\ i - 1 \in 0 .. m
      BY <1>2, <2>2
    <3>2. PICK g, p, q, t, u : g = F[i] /\ p = P[i - 1] /\ q = P[i] /\ t = T[i - 1] /\ u = T[i]
      OBVIOUS
    <3>3. /\ F2[i] = g /\ P2[i - 1] = p /\ P2[i] = q
          /\ T2[i - 1] = t \o frame /\ T2[i] = u \o frame
      BY <1>6, <2>2, <3>1, <3>2
    <3>4. /\ g \in DOMAIN s /\ p \in [DOMAIN s -> Nat] /\ q \in [DOMAIN s -> Nat]
          /\ t \in Seq(Byte) /\ u \in Seq(Byte)
      BY <1>3, <2>2, <3>1, <3>2
    <3>5. q[g] <= Len(s[g])
      BY <1>4, <3>1, <3>2, <3>4
    <3>6. Chunk(s, g, p, q, t, u)
      BY <1>5, <2>2, <3>2
    <3>7. PICK w : w = Framed(g, Slice(s[g], p[g], q[g]))
      OBVIOUS
    <3>8. w \in Seq(Byte)
      BY <3>4, <3>5, <3>6, <3>7, ChunkBytes
    <3>9. (w \o u) \o frame = w \o (u \o frame)
      BY <3>4, <3>8, Associates
    <3>10. t \o frame = w \o (u \o frame)
      BY <3>6, <3>7, <3>9 DEF Chunk
    <3>11. Chunk(s, g, p, q, t \o frame, u \o frame)
      BY <3>6, <3>7, <3>10 DEF Chunk
    <3>12. QED
      BY <3>3, <3>11
  <2>3. QED
    BY <1>2, <2>1, <2>2
<1>15. QED
  BY <1>2, <1>7, <1>10, <1>11, <1>12, <1>13, <1>14 DEF Chunks

\* A slice is as long as its two parts.
Adds(s, x, y, z) ==
  /\ Slice(s, x, y) \in Seq(Byte) /\ Slice(s, y, z) \in Seq(Byte)
  /\ Slice(s, x, z) = Slice(s, x, y) \o Slice(s, y, z)
  /\ Len(Slice(s, x, z)) = Len(Slice(s, x, y)) + Len(Slice(s, y, z))
  /\ Len(Slice(s, x, y)) \in Nat /\ Len(Slice(s, y, z)) \in Nat
  /\ x < y => Len(Slice(s, x, y)) > 0
  /\ y < z => Len(Slice(s, y, z)) > 0

LEMMA SliceAdds ==
  ASSUME NEW s \in Seq(Packets), NEW x \in Nat, NEW y \in Nat, NEW z \in Nat,
         x <= y, y <= z, z <= Len(s)
  PROVE  Adds(s, x, y, z)
<1>1. y <= Len(s)
  BY LenProperties
<1>2. /\ Slice(s, x, y) \in Seq(Byte) /\ Len(Slice(s, x, y)) \in Nat
      /\ (x < y => Len(Slice(s, x, y)) >= 17)
  BY <1>1, SliceBytes
<1>3. /\ Slice(s, y, z) \in Seq(Byte) /\ Len(Slice(s, y, z)) \in Nat
      /\ (y < z => Len(Slice(s, y, z)) >= 17)
  BY SliceBytes
<1>4. Slice(s, x, z) = Slice(s, x, y) \o Slice(s, y, z)
  BY SliceSplits
<1>5. Joins(Slice(s, x, z), Slice(s, x, y), Slice(s, y, z))
  BY <1>2, <1>3, <1>4, Joined
<1>6. Len(Slice(s, x, z)) = Len(Slice(s, x, y)) + Len(Slice(s, y, z))
  BY <1>5 DEF Joins
<1>7. (x < y => Len(Slice(s, x, y)) > 0) /\ (y < z => Len(Slice(s, y, z)) > 0)
  BY <1>2, <1>3
<1>8. QED
  BY <1>2, <1>3, <1>4, <1>6, <1>7 DEF Adds

\* The bytes of a regular chunk are packets a + 1 to k of the connection.
Cut(f, n, a, k) ==
  /\ a < k /\ k <= Len(sent[f]) /\ k <= a + PackSlots
  /\ SubSeq(net[f], 1, n) = Slice(sent[f], a, k) /\ n = Len(Slice(sent[f], a, k))
  /\ Drop(net[f], n) = Slice(sent[f], k, Len(sent[f]))

LEMMA RegularCut ==
  ASSUME TypeInv, NEW f \in DOMAIN sent, NEW n \in ChunkSizes, ServerRecv(f, n), regular',
         NEW a \in Nat, a <= Len(sent[f]), net[f] = Slice(sent[f], a, Len(sent[f]))
  PROVE  \E k \in Nat : Cut(f, n, a, k)
<1>1. PICK s, b, l : s = sent[f] /\ b = net[f] /\ l = Len(s)
  OBVIOUS
<1>2. s \in Seq(Packets) /\ l \in Nat /\ a <= l /\ b \in Seq(Byte) /\ n \in Nat /\ n > 0
  BY <1>1, ServerTypes, Constants
<1>3. PICK d, r : d = SubSeq(b, 1, n) /\ r = Drop(b, n)
  OBVIOUS
<1>4. n <= Len(b) /\ Len(b) \in Nat
  BY <1>1, <1>2, LenProperties DEF ServerRecv
<1>5. Parts(b, n)
  BY <1>2, <1>4, Parted
<1>6. d \in Seq(Byte) /\ Len(d) = n /\ r \in Seq(Byte) /\ Len(r) = Len(b) - n
  BY <1>3, <1>5 DEF Parts
<1>7. d \o r = b
  BY <1>3, <1>5 DEF Parts
<1>8. PICK k \in 0 .. l : r = Slice(s, k, l)
  BY <1>1, <1>3 DEF ServerRecv, CutsNone, Slice, Drop
<1>9. k \in Nat /\ k <= l
  BY <1>2
<1>10. b = Slice(s, a, l)
  BY <1>1
<1>11. a < k
  <2> SUFFICES ASSUME ~(a < k) PROVE FALSE
    OBVIOUS
  <2>1. k <= a
    BY <1>9
  <2>2. Len(Slice(s, k, l)) = Len(Slice(s, k, a)) + Len(Slice(s, a, l)) /\ Len(Slice(s, k, a)) \in Nat
    <3>1. l <= Len(s)
      BY <1>1, <1>2
    <3>2. Adds(s, k, a, l)
      BY <1>2, <1>9, <2>1, <3>1, SliceAdds
    <3>3. QED
      BY <3>2 DEF Adds
  <2>3. QED
    BY <1>2, <1>4, <1>6, <1>8, <1>10, <2>2
<1>12. Slice(s, a, k) = d
  <2>1. /\ Slice(s, a, k) \in Seq(Byte) /\ Slice(s, a, k) \o Slice(s, k, l) = Slice(s, a, l)
        /\ Len(Slice(s, a, l)) = Len(Slice(s, a, k)) + Len(Slice(s, k, l))
        /\ Len(Slice(s, a, k)) \in Nat
    <3>1. l <= Len(s) /\ a <= k
      BY <1>1, <1>2, <1>9, <1>11
    <3>2. Adds(s, a, k, l)
      BY <1>2, <1>9, <3>1, SliceAdds
    <3>3. QED
      BY <3>2 DEF Adds
  <2>2. PICK e : e = Slice(s, a, k)
    OBVIOUS
  <2>3. e \o r = d \o r
    BY <1>7, <1>8, <1>10, <2>1, <2>2
  <2>4. Len(e) = Len(d)
    BY <1>2, <1>4, <1>6, <1>8, <1>10, <2>1, <2>2
  <2>5. e \in Seq(Byte)
    BY <2>1, <2>2
  <2>6. e = d
    BY <1>6, <2>3, <2>4, <2>5, SameParts
  <2>7. QED
    BY <2>2, <2>6
\* recv counts the packets that it cuts.
<1>13. k <= a + PackSlots
  <2>1. PICK X : X = {i \in 1 .. l : Len(Slice(s, i - 1, l)) \in Len(b) - n + 1 .. Len(b)}
    OBVIOUS
  <2>2. PacketsIn(f, n) = Cardinality(X)
    <3>1. \A i \in 1 .. l : Len(Stream(Drop(sent[f], i - 1))) = Len(Slice(s, i - 1, l))
      <4> TAKE i \in 1 .. l
      <4>1. (i - 1) + 1 = i
        OBVIOUS
      <4>2. QED
        BY <1>1, <4>1 DEF Slice, Drop
    <3>2. X = {i \in 1 .. l : Len(Stream(Drop(sent[f], i - 1))) \in Len(b) - n + 1 .. Len(b)}
      BY <2>1, <3>1
    <3>3. QED
      BY <1>1, <3>2 DEF PacketsIn
  <2>3. Cardinality(X) <= PackSlots
    BY <2>2 DEF ServerRecv
  <2>4. \A i \in a + 1 .. k : i \in X
    <3> TAKE i \in a + 1 .. k
    <3>1. i \in 1 .. l /\ i - 1 \in Nat /\ a <= i - 1 /\ i - 1 <= k /\ i - 1 < k /\ i - 1 <= l
      BY <1>2, <1>9
    <3>2. /\ Len(Slice(s, a, l)) = Len(Slice(s, a, i - 1)) + Len(Slice(s, i - 1, l))
          /\ Len(Slice(s, a, i - 1)) \in Nat
      <4>1. l <= Len(s)
        BY <1>1, <1>2
      <4>2. Adds(s, a, i - 1, l)
        BY <1>2, <3>1, <4>1, SliceAdds
      <4>3. QED
        BY <4>2 DEF Adds
    <3>3. /\ Len(Slice(s, i - 1, l)) = Len(Slice(s, i - 1, k)) + Len(Slice(s, k, l))
          /\ Len(Slice(s, i - 1, k)) > 0 /\ Len(Slice(s, i - 1, k)) \in Nat
      <4>1. l <= Len(s)
        BY <1>1, <1>2
      <4>2. Adds(s, i - 1, k, l)
        BY <1>2, <1>9, <3>1, <4>1, SliceAdds
      <4>3. QED
        BY <3>1, <4>2 DEF Adds
    <3>4. PICK y, z : y = Len(Slice(s, i - 1, l)) /\ z = Len(b)
      OBVIOUS
    <3>5. z - n + 1 <= y /\ y <= z /\ y \in Nat /\ z \in Nat
      BY <1>2, <1>4, <1>6, <1>8, <1>10, <3>2, <3>3, <3>4, SMTT(40)
    <3>6. y \in z - n + 1 .. z
      BY <1>2, <3>5
    <3>7. QED
      BY <2>1, <3>1, <3>4, <3>6
  <2>5. IsFiniteSet(1 .. l) /\ IsFiniteSet(a + 1 .. k) /\ Cardinality(a + 1 .. k) = k - a
    <3>1. IsFiniteSet(1 .. l)
      <4>1. 1 \in Int /\ l \in Int
        BY <1>2
      <4>2. QED
        BY <4>1, FS_Interval
    <3>2. a + 1 \in Int /\ k \in Int /\ ~(a + 1 > k)
      BY <1>9, <1>11
    <3>3. /\ IsFiniteSet(a + 1 .. k)
          /\ Cardinality(a + 1 .. k) = IF a + 1 > k THEN 0 ELSE k - (a + 1) + 1
      BY <3>2, FS_Interval
    <3>4. k - (a + 1) + 1 = k - a
      BY <1>9
    <3>5. QED
      BY <3>1, <3>2, <3>3, <3>4
  <2>6. IsFiniteSet(X)
    <3>1. X \subseteq 1 .. l
      BY <2>1
    <3>2. QED
      BY <2>5, <3>1, FS_Subset
  <2>7. Cardinality(a + 1 .. k) <= Cardinality(X) /\ Cardinality(X) \in Nat
    <3>1. a + 1 .. k \subseteq X
      BY <2>4
    <3>2. QED
      BY <2>6, <3>1, FS_Subset, FS_CardinalityType
  <2>8. QED
    BY <1>9, <2>3, <2>5, <2>7, Constants
<1>14. Cut(f, n, a, k)
  BY <1>1, <1>3, <1>6, <1>8, <1>9, <1>11, <1>12, <1>13 DEF Cut
<1>15. QED
  BY <1>9, <1>14

LEMMA ServerReceives ==
  ASSUME TypeInv, ServerInv, NEW f \in DOMAIN sent, NEW n \in ChunkSizes, ServerRecv(f, n), regular'
  PROVE  ServerInv'
<1>1. PICK m, F, P, T :
        /\ Chunks(sent, m, F, P, T)
        /\ \A g \in DOMAIN sent : net[g] = Slice(sent[g], P[m][g], Len(sent[g]))
        /\ Reached(m, F, P, T)
  BY DEF ServerInv
<1>2. /\ m \in Nat /\ F \in [1 .. m -> DOMAIN sent] /\ P \in [0 .. m -> [DOMAIN sent -> Nat]]
      /\ T \in [0 .. m -> Seq(Byte)]
  BY <1>1 DEF Chunks
<1>3. m \in 0 .. m /\ P[m] \in [DOMAIN sent -> Nat]
  BY <1>2
<1>4. P[m][f] <= Len(sent[f])
  BY <1>1, <1>3 DEF Chunks
<1>5. /\ DOMAIN sent \subseteq Byte /\ sent \in [DOMAIN sent -> Seq(Packets)]
      /\ DOMAIN net = DOMAIN sent /\ sent[f] \in Seq(Packets) /\ f \in Byte
      /\ fifo \in Seq(Byte)
  BY ServerTypes
<1>6. PICK a : a = P[m][f]
  OBVIOUS
<1>7. a \in Nat /\ a <= Len(sent[f]) /\ net[f] = Slice(sent[f], a, Len(sent[f]))
  BY <1>1, <1>3, <1>4, <1>6
<1>8. PICK k \in Nat : Cut(f, n, a, k)
  BY <1>7, RegularCut
<1>9. PICK data : data = Slice(sent[f], a, k)
  OBVIOUS
<1>10. /\ k <= Len(sent[f]) /\ a < k /\ k <= a + PackSlots
       /\ SubSeq(net[f], 1, n) = data /\ n = Len(data)
       /\ Drop(net[f], n) = Slice(sent[f], k, Len(sent[f]))
  BY <1>8, <1>9 DEF Cut
<1>11. data \in Seq(Byte) /\ n \div 256 < 256
  BY <1>5, <1>7, <1>9, <1>10, SliceBytes, Constants, ZenonT(60)
<1>12. PICK frame : frame = Framed(f, data)
  OBVIOUS
<1>13. frame \in Seq(Byte)
  BY <1>5, <1>10, <1>11, <1>12, FramedBytes
<1>14. chunk = <<>> /\ chunk' = frame
       /\ UNCHANGED <<pipe, sent, fifo, handle, handled>>
  BY <1>10, <1>12 DEF ServerRecv, Framed, Prefixed
<1>15. \A g \in DOMAIN sent : net'[g] = IF g = f THEN Drop(net[f], n) ELSE net[g]
  BY <1>5 DEF ServerRecv
<1>16. PICK upto : upto = [P[m] EXCEPT ![f] = k]
  OBVIOUS
<1>17. upto \in [DOMAIN sent -> Nat] /\ \A g \in DOMAIN sent : upto[g] = IF g = f THEN k ELSE P[m][g]
  BY <1>3, <1>16
<1>18. Chunk(sent, f, P[m], upto, frame, <<>>)
  <2>1. \A g \in DOMAIN sent \ {f} : upto[g] = P[m][g]
    BY <1>17
  <2>2. upto[f] = k
    BY <1>17
  <2>3. frame = frame \o <<>>
    BY <1>13, ConcatEmptySeq
  <2>4. QED
    BY <1>6, <1>9, <1>10, <1>11, <1>12, <2>1, <2>2, <2>3 DEF Chunk
<1>19. PICK F2, P2, T2 : Longer(m, F, P, T, f, upto, frame, F2, P2, T2)
  BY DEF Longer
<1>20. Chunks(sent, m + 1, F2, P2, T2)
  BY <1>1, <1>5, <1>10, <1>13, <1>16, <1>18, <1>19, ChunksMore
<1>21. /\ \A i \in 0 .. m : P2[i] = P[i] /\ T2[i] = T[i] \o frame /\ i \in 0 .. m + 1
       /\ \A i \in 1 .. m : F2[i] = F[i] /\ i \in 1 .. m + 1 /\ i \in 0 .. m /\ i - 1 \in 0 .. m
       /\ P2[m + 1] = upto
  <2>1. m \in Nat
    BY <1>2
  <2>2. Keeps(m, F, P, T, upto, frame, F2, P2, T2)
    BY <1>19, <2>1, LongerKeeps
  <2>3. QED
    BY <2>2 DEF Keeps
<1>22. \A g \in DOMAIN sent : net'[g] = Slice(sent[g], P2[m + 1][g], Len(sent[g]))
  BY <1>1, <1>10, <1>15, <1>17, <1>21
<1>23. fifo \o chunk' = (fifo \o chunk) \o frame
  <2>1. fifo \o chunk = fifo
    BY <1>5, <1>14, ConcatEmptySeq
  <2>2. QED
    BY <1>14, <2>1
<1>24. CASE \E j \in 0 .. m : Between(P[j], T[j])
  <2>1. PICK j \in 0 .. m : Between(P[j], T[j])
    BY <1>24
  <2>2. fifo \o chunk' = T[j] \o frame
    BY <1>23, <2>1 DEF Between
  <2>3. Between(P[j], T[j] \o frame)'
    BY <1>14, <2>1, <2>2 DEF Between
  <2>4. j \in 0 .. m + 1 /\ P2[j] = P[j] /\ T2[j] = T[j] \o frame
    BY <1>21
  <2>5. Reached(m + 1, F2, P2, T2)'
    BY <2>3, <2>4 DEF Reached
  <2>6. QED
    BY <1>14, <1>20, <1>22, <2>5 DEF ServerInv
<1>25. CASE \E j \in 1 .. m : Within(F[j], P[j - 1], P[j], T[j])
  <2>1. PICK j \in 1 .. m : Within(F[j], P[j - 1], P[j], T[j])
    BY <1>25
  <2>2. PICK g, p, q, t : g = F[j] /\ p = P[j - 1] /\ q = P[j] /\ t = T[j]
    OBVIOUS
  <2>3. /\ j \in 1 .. m + 1 /\ F2[j] = g /\ P2[j - 1] = p /\ P2[j] = q /\ T2[j] = t \o frame
        /\ j \in 0 .. m /\ j - 1 \in 0 .. m
    BY <1>21, <2>2
  <2>4. /\ g \in DOMAIN sent /\ p \in [DOMAIN sent -> Nat] /\ q \in [DOMAIN sent -> Nat]
        /\ t \in Seq(Byte) /\ q[g] <= Len(sent[g])
    <3>1. g \in DOMAIN sent /\ p \in [DOMAIN sent -> Nat] /\ q \in [DOMAIN sent -> Nat] /\ t \in Seq(Byte)
      BY <1>2, <2>2, <2>3
    <3>2. q[g] <= Len(sent[g])
      BY <1>1, <2>2, <2>3, <3>1 DEF Chunks
    <3>3. QED
      BY <3>1, <3>2
  <2>5. Within(g, p, q, t)
    BY <2>1, <2>2
  <2>6. PICK w : w = Slice(sent[g], p[g] + Len(handle.packs), q[g])
    OBVIOUS
  <2>7. handle \in HandleType
    BY <2>5, AtWork DEF Within
  <2>8. w \in Seq(Byte)
    <3>1. Len(handle.packs) \in Nat
      BY <2>7, LenProperties DEF HandleType
    <3>2. p[g] + Len(handle.packs) \in Nat /\ q[g] \in Nat
      BY <2>4, <3>1
    <3>3. sent[g] \in Seq(Packets)
      BY <2>4, ServerTypes
    <3>4. QED
      BY <2>4, <2>6, <3>2, <3>3, SliceBytes
  <2>9. Part \in Seq(Byte)
    <3>1. <<>> \in Seq(Byte)
      OBVIOUS
    <3>2. QED
      BY <2>7, <3>1 DEF Part, HandleType
  <2>10. PICK h : h = Part
    OBVIOUS
  <2>11. h \o (fifo \o chunk') = w \o (t \o frame)
    <3>1. fifo \o chunk = fifo
      BY <1>5, <1>14, ConcatEmptySeq
    <3>2. h \o fifo = w \o t
      BY <2>5, <2>6, <2>10, <3>1 DEF Within
    <3>3. (h \o fifo) \o frame = h \o (fifo \o frame)
      BY <1>5, <1>13, <2>9, <2>10, Associates
    <3>4. (w \o t) \o frame = w \o (t \o frame)
      BY <1>13, <2>4, <2>8, Associates
    <3>5. QED
      BY <1>14, <3>2, <3>3, <3>4
  <2>12. Part' = h
    BY <1>14, <2>10 DEF Part
  <2>13. Within(g, p, q, t \o frame)'
    BY <1>14, <2>5, <2>6, <2>11, <2>12 DEF Within
  <2>14. Reached(m + 1, F2, P2, T2)'
    BY <2>3, <2>13 DEF Reached
  <2>15. QED
    BY <1>14, <1>20, <1>22, <2>14 DEF ServerInv
<1>26. QED
  BY <1>1, <1>24, <1>25 DEF Reached

LEMMA ServerWrites ==
  ASSUME TypeInv, ServerInv, WriteStep
  PROVE  ServerInv'
<1>1. fifo' \o chunk' = fifo \o chunk /\ UNCHANGED <<pipe, sent, net, handle, handled>>
  <2>1. CASE ServerRoom
    BY <2>1 DEF ServerRoom
  <2>2. CASE Store
    BY <2>2, Stores, ServerTypes DEF Store
  <2>3. QED
    BY <2>1, <2>2 DEF WriteStep
<1>2. Part' = Part
  BY <1>1 DEF Part
<1>3. ASSUME NEW upto, NEW behind, Between(upto, behind)
      PROVE  Between(upto, behind)'
  BY <1>1, <1>3 DEF Between
<1>4. ASSUME NEW f, NEW before, NEW upto, NEW behind, Within(f, before, upto, behind)
      PROVE  Within(f, before, upto, behind)'
  BY <1>1, <1>2, <1>4 DEF Within
<1>5. PICK m, F, P, T :
        /\ Chunks(sent, m, F, P, T)
        /\ \A f \in DOMAIN sent : net[f] = Slice(sent[f], P[m][f], Len(sent[f]))
        /\ Reached(m, F, P, T)
  BY DEF ServerInv
<1>6. Reached(m, F, P, T)'
  BY <1>3, <1>4, <1>5 DEF Reached
<1>7. QED
  BY <1>1, <1>5, <1>6 DEF ServerInv

\* What is known of chunk i of m.
LEMMA ChunkTypes ==
  ASSUME TypeInv, NEW m, NEW F, NEW P, NEW T, Chunks(sent, m, F, P, T), NEW i \in 1 .. m
  PROVE  /\ F[i] \in DOMAIN sent /\ F[i] \in Byte /\ sent[F[i]] \in Seq(Packets)
         /\ P[i - 1] \in [DOMAIN sent -> Nat] /\ P[i] \in [DOMAIN sent -> Nat]
         /\ P[i][F[i]] <= Len(sent[F[i]])
         /\ T[i - 1] \in Seq(Byte) /\ T[i] \in Seq(Byte)
         /\ Chunk(sent, F[i], P[i - 1], P[i], T[i - 1], T[i])
<1>1. m \in Nat
  BY DEF Chunks
<1>2. i \in 0 .. m /\ i - 1 \in 0 .. m
  BY <1>1
<1>3. /\ F \in [1 .. m -> DOMAIN sent] /\ P \in [0 .. m -> [DOMAIN sent -> Nat]]
      /\ T \in [0 .. m -> Seq(Byte)]
  BY DEF Chunks
<1>4. /\ F[i] \in DOMAIN sent
      /\ P[i - 1] \in [DOMAIN sent -> Nat] /\ P[i] \in [DOMAIN sent -> Nat]
      /\ T[i - 1] \in Seq(Byte) /\ T[i] \in Seq(Byte)
  BY <1>2, <1>3
<1>5. F[i] \in Byte /\ sent[F[i]] \in Seq(Packets)
  BY <1>4, ServerTypes
<1>6. P[i][F[i]] <= Len(sent[F[i]])
  BY <1>2, <1>4 DEF Chunks
<1>7. Chunk(sent, F[i], P[i - 1], P[i], T[i - 1], T[i])
  BY DEF Chunks
<1>8. QED
  BY <1>4, <1>5, <1>6, <1>7

\* Where the reader has got to, with names for the numbers.
LEMMA WithinNext ==
  ASSUME NEW f, NEW before, NEW upto, NEW behind, NEW a, NEW e, NEW c,
         a = before[f], e = upto[f], c = Len(handle'.packs),
         handle'.pc \in {"head", "data"}, handle'.fd = f,
         \A g \in DOMAIN sent' : Delivers(pipe', handled'[g], sent'[g], 0, before[g]),
         a + c < e, Delivers(pipe', handle'.packs, sent'[f], a, c),
         handle'.size = <<0, 0>> \o HiLo(Len(Slice(sent'[f], a, e))),
         handle'.read = Len(Slice(sent'[f], a, a + c)) + (IF handle'.pc = "data" THEN 17 ELSE 0),
         Part' \o (fifo' \o chunk') = Slice(sent'[f], a + c, e) \o behind
  PROVE  Within(f, before, upto, behind)'
BY DEF Within

\* The reader takes the five bytes before a chunk.
LEMMA ServerBegins ==
  ASSUME TypeInv, ServerTake,
         NEW f \in DOMAIN sent, f \in Byte, sent[f] \in Seq(Packets),
         NEW before \in [DOMAIN sent -> Nat], NEW upto \in [DOMAIN sent -> Nat],
         upto[f] <= Len(sent[f]), NEW bytes \in Seq(Byte), NEW behind \in Seq(Byte),
         Chunk(sent, f, before, upto, bytes, behind), Between(before, bytes)
  PROVE  Within(f, before, upto, behind)'
<1>1. fifo \in Seq(Byte) /\ chunk \in Seq(Byte) /\ Len(fifo) \in Nat /\ Len(fifo) >= 5
  BY ServerTypes, LenProperties DEF ServerTake
<1>2. PICK a, e, data : a = before[f] /\ e = upto[f] /\ data = Slice(sent[f], a, e)
  OBVIOUS
<1>3. a \in Nat /\ e \in Nat /\ a < e /\ e <= Len(sent[f]) /\ Len(data) \div 256 < 256
      /\ bytes = Framed(f, data) \o behind
  BY <1>2 DEF Chunk
<1>4. data \in Seq(Byte) /\ Len(data) \in Nat
  BY <1>2, <1>3, SliceBytes
<1>5. PICK pre : pre = Prefixed(f, Len(data))
  OBVIOUS
<1>6. /\ pre \in Seq(Byte) /\ Len(pre) = 5 /\ pre[1] = f
      /\ SubSeq(pre, 2, 5) = <<0, 0>> \o HiLo(Len(data))
  BY <1>3, <1>4, <1>5, PrefixBytes
<1>7. bytes = pre \o (data \o behind) /\ data \o behind \in Seq(Byte)
  <2>1. bytes = (pre \o data) \o behind
    BY <1>3, <1>5 DEF Framed
  <2>2. (pre \o data) \o behind = pre \o (data \o behind)
    BY <1>4, <1>6, Associates
  <2>3. QED
    BY <1>4, <2>1, <2>2, ConcatProperties
<1>8. PICK h, r : h = SubSeq(fifo, 1, 5) /\ r = Drop(fifo, 5)
  OBVIOUS
<1>9. Parts(fifo, 5)
  BY <1>1, Parted
<1>10. h \in Seq(Byte) /\ Len(h) = 5 /\ r \in Seq(Byte)
  BY <1>8, <1>9 DEF Parts
<1>11. h \o r = fifo
  BY <1>8, <1>9 DEF Parts
<1>12. h = pre /\ r \o chunk = data \o behind
  <2>1. (h \o r) \o chunk = h \o (r \o chunk)
    <3>1. h \in Seq(Byte) /\ r \in Seq(Byte) /\ chunk \in Seq(Byte)
      BY <1>1, <1>10
    <3>2. QED
      BY <3>1, Associates, ZenonT(60)
  <2>2. h \o (r \o chunk) = pre \o (data \o behind)
    BY <1>7, <1>11, <2>1 DEF Between
  <2>3. r \o chunk \in Seq(Byte)
    BY <1>1, <1>10, ConcatProperties
  <2>4. QED
    BY <1>6, <1>7, <1>10, <2>2, <2>3, SameParts
<1>13. fifo[1] = f /\ SubSeq(fifo, 2, 5) = <<0, 0>> \o HiLo(Len(data))
  <2>1. fifo[1] = h[1]
    BY <1>8, <1>9 DEF Parts
  <2>2. 2 \in 1 .. Len(h) /\ 5 \in 1 .. Len(h)
    BY <1>10
  <2>3. SubSeq(h \o r, 2, 5) = SubSeq(h, 2, 5)
    BY <1>10, <2>2, SubSeqOfConcat1
  <2>4. QED
    BY <1>6, <1>11, <1>12, <2>1, <2>3
<1>14. handle \in HandleType /\ handle.packs = <<>> /\ handle.read = 0
  BY AtWork DEF Between, Idle, ServerTake
<1>15. /\ handle'.pc = "head" /\ handle'.fd = f /\ handle'.packs = <<>> /\ handle'.read = 0
       /\ handle'.size = <<0, 0>> \o HiLo(Len(data))
       /\ fifo' = r /\ UNCHANGED <<pipe, sent, chunk, handled>>
  BY <1>8, <1>13, <1>14 DEF ServerTake, HandleType
<1>16. Part' = <<>>
  BY <1>15 DEF Part
<1>17. Part' \o (fifo' \o chunk') = data \o behind
  BY <1>7, <1>12, <1>15, <1>16, ConcatEmptySeq
<1>18. Len(<<>>) = 0 /\ a + 0 = a
  BY <1>3
<1>19. Delivers(pipe, <<>>, sent[f], a, 0)
  BY <1>18 DEF Delivers
<1>20. Len(Slice(sent[f], a, a)) = 0
  <2>1. a <= Len(sent[f])
    BY <1>3, ServerTypes
  <2>2. Slice(sent[f], a, a) = <<>>
    BY <1>3, <2>1, SliceBytes
  <2>3. QED
    BY <2>2
<1>21. \A g \in DOMAIN sent : Delivers(pipe, handled[g], sent[g], 0, before[g])
  BY DEF Between
<1>22. PICK c : c = Len(handle'.packs)
  OBVIOUS
<1>23. c = 0
  BY <1>15, <1>18, <1>22
<1>24. a + c = a /\ a + c < e
  BY <1>3, <1>23
<1>25. /\ Delivers(pipe', handle'.packs, sent'[f], a, c)
       /\ \A g \in DOMAIN sent' : Delivers(pipe', handled'[g], sent'[g], 0, before[g])
  BY <1>15, <1>19, <1>21, <1>23
<1>26. handle'.read = Len(Slice(sent'[f], a, a + c)) + (IF handle'.pc = "data" THEN 17 ELSE 0)
  BY <1>15, <1>20, <1>24
<1>27. Part' \o (fifo' \o chunk') = Slice(sent'[f], a + c, e) \o behind
  BY <1>2, <1>15, <1>17, <1>24
<1>28. /\ handle'.pc \in {"head", "data"} /\ handle'.fd = f
       /\ handle'.size = <<0, 0>> \o HiLo(Len(Slice(sent'[f], a, e)))
  BY <1>2, <1>15
<1>29. QED
  BY <1>2, <1>22, <1>24, <1>25, <1>26, <1>27, <1>28, WithinNext

LEMMA ServerTakes ==
  ASSUME TypeInv, ServerInv, ServerTake
  PROVE  ServerInv'
<1>1. PICK m, F, P, T :
        /\ Chunks(sent, m, F, P, T)
        /\ \A f \in DOMAIN sent : net[f] = Slice(sent[f], P[m][f], Len(sent[f]))
        /\ Reached(m, F, P, T)
  BY DEF ServerInv
<1>2. PICK j \in 0 .. m : Between(P[j], T[j])
  BY <1>1 DEF Reached, Within, ServerTake
<1>3. m \in Nat /\ T[m] = <<>>
  BY <1>1 DEF Chunks
<1>4. j # m
  <2>1. fifo \in Seq(Byte) /\ chunk \in Seq(Byte) /\ Len(fifo) >= 5
    BY ServerTypes DEF ServerTake
  <2>2. Joins(fifo \o chunk, fifo, chunk)
    BY <2>1, Joined
  <2>3. Len(fifo \o chunk) = Len(fifo) + Len(chunk)
    BY <2>2 DEF Joins
  <2>4. Len(chunk) \in Nat /\ Len(fifo) \in Nat
    BY <2>1, LenProperties
  <2>5. Len(fifo \o chunk) # 0
    BY <2>1, <2>3, <2>4
  <2>6. T[j] # <<>>
    BY <1>2, <2>5 DEF Between
  <2>7. QED
    BY <1>3, <2>6
<1>5. PICK i : i = j + 1
  OBVIOUS
<1>6. i \in 1 .. m /\ i - 1 = j
  BY <1>3, <1>4, <1>5
<1>7. PICK f, before, upto, bytes, behind :
        f = F[i] /\ before = P[j] /\ upto = P[i] /\ bytes = T[j] /\ behind = T[i]
  OBVIOUS
<1>8. /\ f \in DOMAIN sent /\ f \in Byte /\ sent[f] \in Seq(Packets)
      /\ before \in [DOMAIN sent -> Nat] /\ upto \in [DOMAIN sent -> Nat]
      /\ upto[f] <= Len(sent[f]) /\ bytes \in Seq(Byte) /\ behind \in Seq(Byte)
      /\ Chunk(sent, f, before, upto, bytes, behind)
  <2>1. /\ F[i] \in DOMAIN sent /\ F[i] \in Byte /\ sent[F[i]] \in Seq(Packets)
        /\ P[i - 1] \in [DOMAIN sent -> Nat] /\ P[i] \in [DOMAIN sent -> Nat]
        /\ P[i][F[i]] <= Len(sent[F[i]])
        /\ T[i - 1] \in Seq(Byte) /\ T[i] \in Seq(Byte)
        /\ Chunk(sent, F[i], P[i - 1], P[i], T[i - 1], T[i])
    BY <1>1, <1>6, ChunkTypes
  <2>2. QED
    BY <1>6, <1>7, <2>1
<1>9. Within(f, before, upto, behind)'
  BY <1>2, <1>7, <1>8, ServerBegins
<1>10. Reached(m, F, P, T)'
  BY <1>6, <1>7, <1>9 DEF Reached
<1>11. UNCHANGED <<sent, net>>
  BY DEF ServerTake
<1>12. QED
  BY <1>1, <1>10, <1>11 DEF ServerInv

\* The reader takes a header: the chunk has not more packets than there is
\* room for.
LEMMA WithinTakesHead ==
  ASSUME TypeInv, TakeHead, pipe = "server_recv",
         NEW f \in DOMAIN sent,
         NEW before \in [DOMAIN sent -> Nat], NEW upto \in [DOMAIN sent -> Nat],
         upto[f] <= Len(sent[f]), NEW bytes, NEW behind,
         Chunk(sent, f, before, upto, bytes, behind), Within(f, before, upto, behind)
  PROVE  Within(f, before, upto, behind)'
<1>1. handle.pc = "head" /\ handle \in HandleType
  BY AtWork DEF TakeHead
<1>2. fifo \in Seq(Byte) /\ chunk \in Seq(Byte) /\ Len(fifo) >= 17
  BY ServerTypes, Constants DEF TakeHead
<1>3. Parts(fifo, 17)
  BY <1>2, Parted
<1>4. PICK h, d : h = SubSeq(fifo, 1, 17) /\ d = Drop(fifo, 17)
  OBVIOUS
<1>5. h \in Seq(Byte) /\ d \in Seq(Byte) /\ chunk \in Seq(Byte)
  BY <1>2, <1>3, <1>4 DEF Parts
<1>6. h \o d = fifo
  BY <1>3, <1>4 DEF Parts
<1>7. PICK a, e, c : a = before[f] /\ e = upto[f] /\ c = Len(handle.packs)
  OBVIOUS
<1>8. a \in Nat /\ e \in Nat /\ c \in Nat
  BY <1>1, <1>7, LenProperties DEF HandleType
<1>9. /\ a + c < e /\ handle.fd = f /\ Delivers(pipe, handle.packs, sent[f], a, c)
      /\ \A g \in DOMAIN sent : Delivers(pipe, handled[g], sent[g], 0, before[g])
      /\ handle.size = <<0, 0>> \o HiLo(Len(Slice(sent[f], a, e)))
      /\ handle.read = Len(Slice(sent[f], a, a + c)) + 0
      /\ Part \o (fifo \o chunk) = Slice(sent[f], a + c, e) \o behind
  BY <1>1, <1>7 DEF Within
<1>10. c # PackSlots
  <2>1. e <= a + PackSlots /\ PackSlots \in Nat
    BY <1>7, Constants DEF Chunk
  <2>2. QED
    BY <1>8, <1>9, <2>1
<1>11. /\ handle'.pc = "data" /\ handle'.head = h /\ handle'.packs = handle.packs
       /\ handle'.fd = handle.fd /\ handle'.size = handle.size /\ handle'.read = handle.read + 17
       /\ fifo' = d /\ UNCHANGED <<pipe, sent, chunk, handled>>
  BY <1>1, <1>4, <1>7, <1>10, Constants DEF TakeHead, HandleType
<1>12. handle'.read = Len(Slice(sent'[f], a, a + c)) + (IF handle'.pc = "data" THEN 17 ELSE 0)
  <2>1. PICK n : n = Len(Slice(sent[f], a, a + c))
    OBVIOUS
  <2>2. handle.read = n + 0 /\ handle.read \in Nat
    BY <1>1, <1>9, <2>1 DEF HandleType
  <2>3. n \in Nat
    <3>1. sent[f] \in Seq(Packets)
      BY ServerTypes
    <3>2. a + c \in Nat /\ a + c <= Len(sent[f])
      <4>1. e <= Len(sent[f])
        BY <1>7
      <4>2. Len(sent[f]) \in Nat
        BY ServerTypes
      <4>3. QED
        BY <1>8, <1>9, <4>1, <4>2
    <3>3. Slice(sent[f], a, a + c) \in Seq(Byte)
      BY <1>8, <3>1, <3>2, SliceBytes
    <3>4. QED
      BY <2>1, <3>3, LenProperties
  <2>4. handle'.read = n + 17
    BY <1>11, <2>2, <2>3
  <2>5. QED
    BY <1>11, <2>1, <2>4
<1>13. Part = <<>> /\ Part' = h
  BY <1>1, <1>11 DEF Part
<1>14. Part' \o (fifo' \o chunk') = Part \o (fifo \o chunk)
  <2>1. (h \o d) \o chunk = h \o (d \o chunk)
    BY <1>5, Associates
  <2>2. fifo \o chunk \in Seq(Byte)
    BY <1>2, ConcatProperties
  <2>3. <<>> \o (fifo \o chunk) = fifo \o chunk
    BY <2>2, ConcatEmptySeq
  <2>4. QED
    BY <1>6, <1>11, <1>13, <2>1, <2>3
<1>15. /\ handle'.pc \in {"head", "data"} /\ handle'.fd = f /\ c = Len(handle'.packs)
       /\ \A g \in DOMAIN sent' : Delivers(pipe', handled'[g], sent'[g], 0, before[g])
       /\ Delivers(pipe', handle'.packs, sent'[f], a, c)
       /\ handle'.size = <<0, 0>> \o HiLo(Len(Slice(sent'[f], a, e)))
       /\ Part' \o (fifo' \o chunk') = Slice(sent'[f], a + c, e) \o behind
  BY <1>7, <1>9, <1>11, <1>14
<1>16. QED
  BY <1>7, <1>9, <1>12, <1>15, WithinNext

\* Two bytes say which of two lengths it is.
LEMMA HiLoDiffers ==
  ASSUME NEW n \in Nat, NEW t \in Nat, n < t, t \div 256 < 256
  PROVE  <<0, 0>> \o HiLo(n) # <<0, 0>> \o HiLo(t)
<1>1. PICK x, y : x = HiLo(n) /\ y = HiLo(t)
  OBVIOUS
<1>2. n \div 256 < 256
  <2>1. n \div 256 \in Int /\ t \div 256 \in Int /\ n \div 256 <= t \div 256
    OBVIOUS
  <2>2. QED
    BY <2>1
<1>3. /\ x \in Seq(Byte) /\ Len(x) = 2 /\ x[1] = n \div 256 /\ x[2] = n % 256
      /\ y \in Seq(Byte) /\ Len(y) = 2 /\ y[1] = t \div 256 /\ y[2] = t % 256
  BY <1>1, <1>2, HiLoBytes
<1>4. PICK z : z = <<0, 0>>
  OBVIOUS
<1>5. z \in Seq(Byte)
  BY <1>4 DEF Byte
<1>6. ASSUME z \o x = z \o y PROVE FALSE
  <2>1. x \in Seq(Byte) /\ y \in Seq(Byte)
    BY <1>3
  <2>2. x = y
    BY <1>5, <1>6, <2>1, SameParts
  <2>3. n \div 256 = t \div 256 /\ n % 256 = t % 256
    BY <1>3, <2>2
  <2>4. n = 256 * (n \div 256) + (n % 256) /\ t = 256 * (t \div 256) + (t % 256)
    OBVIOUS
  <2>5. n = t
    BY <2>3, <2>4
  <2>6. QED
    BY <2>5
<1>7. QED
  BY <1>1, <1>4, <1>6

\* Packet a + c + 1 of connection f is q; its header has been read.
Comes(f, a, e, c, q, behind) ==
  /\ a \in Nat /\ e \in Nat /\ c \in Nat /\ a + c < e /\ e <= Len(sent[f])
  /\ q = sent[f][a + c + 1] /\ q \in Packets /\ LengthHiLo = Size(q)
  /\ Reads(handle.head, fifo, chunk, q, Slice(sent[f], a + c + 1, e) \o behind)

LEMMA WithinComes ==
  ASSUME TypeInv, pipe = "server_recv", handle.pc = "data",
         NEW f \in DOMAIN sent,
         NEW before \in [DOMAIN sent -> Nat], NEW upto \in [DOMAIN sent -> Nat],
         upto[f] <= Len(sent[f]), NEW behind \in Seq(Byte), Within(f, before, upto, behind)
  PROVE  \E q : Comes(f, before[f], upto[f], Len(handle.packs), q, behind)
<1>1. handle \in HandleType /\ Len(handle.head) = 17
  BY AtWork
<1>2. handle.head \in Seq(Byte) /\ fifo \in Seq(Byte) /\ chunk \in Seq(Byte)
  BY <1>1, ServerTypes DEF HandleType
<1>3. PICK s, a, e, c : s = sent[f] /\ a = before[f] /\ e = upto[f] /\ c = Len(handle.packs)
  OBVIOUS
<1>4. a \in Nat /\ e \in Nat /\ c \in Nat /\ e <= Len(s) /\ s \in Seq(Packets) /\ Len(s) \in Nat
  BY <1>1, <1>3, ServerTypes, LenProperties DEF HandleType
<1>5. a + c < e /\ handle.head \o (fifo \o chunk) = Slice(s, a + c, e) \o behind
  BY <1>3 DEF Within, Part
<1>6. PICK b : b = a + c
  OBVIOUS
<1>7. b \in Nat /\ b < e /\ b <= b + 1 /\ b + 1 <= e /\ b + 1 \in Nat /\ b < Len(s) /\ b + 1 \in 1 .. Len(s)
  BY <1>4, <1>5, <1>6
<1>8. PICK q : q = s[b + 1]
  OBVIOUS
<1>9. q \in Packets
  BY <1>4, <1>7, <1>8, ElementOfSeq
<1>10. PICK x, y : x = hip_mod_pack(q) /\ y = Slice(s, b + 1, e)
  OBVIOUS
<1>11. Slice(s, b, e) = x \o y
  <2>1. Slice(s, b, e) = Slice(s, b, b + 1) \o Slice(s, b + 1, e)
    BY <1>4, <1>7, SliceSplits, ZenonT(60)
  <2>2. Slice(s, b, b + 1) = x
    BY <1>4, <1>7, <1>8, <1>10, SliceOne
  <2>3. QED
    BY <1>10, <2>1, <2>2
<1>12. x \in Seq(Byte) /\ y \in Seq(Byte)
  <2>1. x \in Seq(Byte)
    BY <1>9, <1>10, PackBytes DEF Heads
  <2>2. y \in Seq(Byte)
    BY <1>4, <1>7, <1>10, SliceBytes
  <2>3. QED
    BY <2>1, <2>2
<1>13. (x \o y) \o behind = x \o (y \o behind) /\ y \o behind \in Seq(Byte)
  BY <1>12, Associates, ConcatProperties
<1>14. handle.head \o (fifo \o chunk) = x \o (y \o behind)
  BY <1>5, <1>6, <1>11, <1>13
<1>15. Reads(handle.head, fifo, chunk, q, y \o behind)
  <2>1. PICK after : after = y \o behind
    OBVIOUS
  <2>2. after \in Seq(Byte)
    BY <1>13, <2>1
  <2>3. handle.head \o (fifo \o chunk) = hip_mod_pack(q) \o after
    BY <1>10, <1>14, <2>1
  <2>4. QED
    BY <1>1, <1>2, <1>9, <2>1, <2>2, <2>3, ReadsPacket
<1>16. LengthHiLo = Size(q)
  <2>1. handle.head[3] = 0 /\ handle.head[4] = Size(q)
    BY <1>15 DEF Reads
  <2>2. Size(q) \in Nat
    BY <1>9, PacketFields
  <2>3. QED
    BY <2>1, <2>2 DEF LengthHiLo
<1>17. Comes(f, a, e, c, q, behind)
  BY <1>3, <1>4, <1>5, <1>6, <1>8, <1>9, <1>10, <1>15, <1>16 DEF Comes
<1>18. QED
  BY <1>3, <1>17

\* It is taken to the other packets of the chunk.
Takes(f, before, upto, behind, a, e, c, q, packs) ==
  /\ a = before[f] /\ e = upto[f] /\ c = Len(handle.packs)
  /\ Comes(f, a, e, c, q, behind) /\ packs = Append(handle.packs, Taken(Size(q)))

\* The chunk's first c + 1 packets of s and all their bytes, read and to be read.
Took(s, a, e, c, packs, read, rest, behind) ==
  /\ packs \in Seq(Command) /\ Delivers("server_recv", packs, s, a, c + 1)
  /\ read = Len(Slice(s, a, a + c + 1)) /\ rest = Slice(s, a + c + 1, e) \o behind

Final(a, e, c) == a + c + 1 = e

\* The packets with this one, and all their bytes.
LEMMA WithinTakes ==
  ASSUME TypeInv, ServerData, NEW f \in DOMAIN sent,
         NEW before, NEW upto, NEW behind, Within(f, before, upto, behind),
         NEW a, NEW e, NEW c, NEW q, NEW packs, Takes(f, before, upto, behind, a, e, c, q, packs)
  PROVE  Took(sent[f], a, e, c, packs, handle.read + Size(q), fifo' \o chunk', behind)
<1>1. /\ pipe = "server_recv" /\ handle.pc = "data" /\ Len(fifo) >= Size(q)
      /\ a = before[f] /\ e = upto[f] /\ c = Len(handle.packs)
      /\ Comes(f, a, e, c, q, behind) /\ packs = Append(handle.packs, Taken(Size(q)))
  BY DEF ServerData, Comes, Takes
<1>2. handle \in HandleType
  BY <1>1, AtWork
<1>3. q \in Packets /\ Size(q) \in Nat
  BY <1>1, PacketFields DEF Comes
<1>4. PICK t : t = Taken(Size(q))
  OBVIOUS
<1>5. t \in Command
  BY <1>1, <1>3, <1>4, TakenType
<1>6. t = WholeIn("server_recv", q)
  BY <1>1, <1>4 DEF Taken, WholeIn, Reads, Comes
<1>7. PICK s, b : s = sent[f] /\ b = a + c
  OBVIOUS
<1>8. /\ a \in Nat /\ c \in Nat /\ b \in Nat /\ a <= b /\ b < Len(s) /\ b <= Len(s)
      /\ s \in Seq(Packets) /\ q = s[b + 1]
  <2>1. s \in Seq(Packets) /\ Len(s) \in Nat
    BY <1>7, ServerTypes
  <2>2. a \in Nat /\ e \in Nat /\ c \in Nat /\ b < e /\ e <= Len(s) /\ q = s[b + 1]
    BY <1>1, <1>7 DEF Comes
  <2>3. QED
    BY <1>7, <2>1, <2>2
<1>9. handle.packs \in Seq(Command)
  BY <1>2 DEF HandleType, Command
<1>10. packs \in Seq(Command)
  BY <1>1, <1>4, <1>5, <1>9, AppendProperties
<1>11. Delivers("server_recv", packs, s, a, c + 1)
  <2>1. Delivers("server_recv", handle.packs, s, a, c)
    BY <1>1, <1>7 DEF Within
  <2>2. t = WholeIn("server_recv", s[a + c + 1])
    BY <1>6, <1>7, <1>8
  <2>3. QED
    BY <1>1, <1>4, <1>5, <1>8, <1>9, <2>1, <2>2, DeliversAppend
<1>12. handle.read + Size(q) = Len(Slice(s, a, b + 1))
  <2>1. PICK u, v : u = Slice(s, a, b) /\ v = hip_mod_pack(q)
    OBVIOUS
  <2>2. u \in Seq(Byte) /\ Len(u) \in Nat
    BY <1>8, <2>1, SliceBytes
  <2>3. v \in Seq(Byte) /\ Len(v) = 17 + Size(q)
    BY <1>3, <2>1, PackBytes DEF Heads
  <2>4. Slice(s, a, b + 1) = u \o v
    BY <1>8, <2>1, SliceNext
  <2>5. Len(u \o v) = Len(u) + Len(v)
    <3>1. Joins(u \o v, u, v)
      BY <2>2, <2>3, Joined
    <3>2. QED
      BY <3>1 DEF Joins
  <2>6. handle.read = Len(u) + 17
    BY <1>1, <1>7, <2>1 DEF Within
  <2>7. QED
    BY <1>3, <2>2, <2>3, <2>4, <2>5, <2>6
<1>13. fifo' \o chunk' = Slice(s, b + 1, e) \o behind
  <2>1. fifo' = Drop(fifo, Size(q)) /\ chunk' = chunk
    BY <1>1 DEF ServerData, Comes
  <2>2. QED
    BY <1>1, <1>7, <2>1 DEF Comes, Reads
<1>14. QED
  BY <1>7, <1>10, <1>11, <1>12, <1>13 DEF Took

\* The last packet of the chunk: all are handled.
LEMMA WithinEnds ==
  ASSUME TypeInv, ServerData,
         NEW f \in DOMAIN sent,
         NEW before \in [DOMAIN sent -> Nat], NEW upto \in [DOMAIN sent -> Nat],
         upto[f] <= Len(sent[f]), NEW bytes, NEW behind \in Seq(Byte),
         Chunk(sent, f, before, upto, bytes, behind), Within(f, before, upto, behind),
         NEW a, NEW e, NEW c, NEW q, NEW packs, Takes(f, before, upto, behind, a, e, c, q, packs),
         Final(a, e, c)
  PROVE  Between(upto, behind)'
<1>1. /\ a = before[f] /\ e = upto[f] /\ c = Len(handle.packs)
      /\ Comes(f, a, e, c, q, behind) /\ packs = Append(handle.packs, Taken(Size(q)))
  BY DEF Takes
<1>2. /\ packs \in Seq(Command) /\ Delivers("server_recv", packs, sent[f], a, c + 1)
      /\ handle.read + Size(q) = Len(Slice(sent[f], a, a + c + 1))
      /\ fifo' \o chunk' = Slice(sent[f], a + c + 1, e) \o behind
  <2>1. Took(sent[f], a, e, c, packs, handle.read + Size(q), fifo' \o chunk', behind)
    BY WithinTakes
  <2>2. QED
    BY <2>1 DEF Took
<1>3. LengthHiLo = Size(q) /\ a \in Nat /\ c \in Nat /\ e \in Nat /\ e <= Len(sent[f])
      /\ a + c + 1 = e
  BY <1>1 DEF Comes, Final
<1>4. /\ handle.fd = f /\ handle.size = <<0, 0>> \o HiLo(Len(Slice(sent[f], a, e)))
      /\ \A g \in DOMAIN sent : Delivers(pipe, handled[g], sent[g], 0, before[g])
  BY <1>1 DEF Within
<1>5. <<0, 0>> \o HiLo(handle.read + Size(q)) = handle.size
  <2>1. Slice(sent[f], a, a + c + 1) = Slice(sent[f], a, e)
    BY <1>3
  <2>2. QED
    BY <1>2, <1>4, <2>1
<1>6. /\ Handles(f, packs) /\ handle' = Idle("server_recv")
      /\ UNCHANGED <<pipe, sent>> /\ pipe = "server_recv"
  BY <1>1, <1>3, <1>4, <1>5 DEF ServerData
<1>7. fifo' \o chunk' = behind
  <2>1. Slice(sent[f], a + c + 1, e) = <<>>
    <3>1. sent[f] \in Seq(Packets)
      BY ServerTypes
    <3>2. Slice(sent[f], e, e) = <<>>
      BY <1>3, <3>1, SliceBytes
    <3>3. QED
      BY <1>3, <3>2
  <2>2. <<>> \o behind = behind
    BY ConcatEmptySeq
  <2>3. QED
    BY <1>2, <2>1, <2>2
<1>8. /\ handled'[f] = handled[f] \o packs
      /\ \A g \in DOMAIN sent \ {f} : handled'[g] = handled[g]
  <2>1. f \in DOMAIN handled /\ DOMAIN handled = DOMAIN sent
    BY ServerTypes
  <2>2. QED
    BY <1>6, <2>1 DEF Handles
<1>9. Delivers("server_recv", handled[f] \o packs, sent[f], 0, e)
  <2>1. Delivers("server_recv", handled[f], sent[f], 0, a)
    BY <1>1, <1>4, <1>6
  <2>2. handled[f] \in Seq(Command)
    BY ServerTypes
  <2>3. c + 1 \in Nat
    BY <1>3
  <2>4. PICK k : k = c + 1
    OBVIOUS
  <2>5. k \in Nat /\ Delivers("server_recv", packs, sent[f], a, k)
    BY <1>2, <2>3, <2>4
  <2>6. Delivers("server_recv", handled[f] \o packs, sent[f], 0, a + k)
    BY <1>2, <1>3, <2>1, <2>2, <2>5, DeliversJoin
  <2>7. a + k = e
    BY <1>3, <2>4
  <2>8. QED
    BY <2>6, <2>7
<1>10. \A g \in DOMAIN sent' : Delivers(pipe', handled'[g], sent'[g], 0, upto[g])
  <2>1. \A g \in DOMAIN sent \ {f} : upto[g] = before[g]
    BY DEF Chunk
  <2>2. ASSUME NEW g \in DOMAIN sent
        PROVE  Delivers("server_recv", handled'[g], sent[g], 0, upto[g])
    <3>1. CASE g = f
      BY <3>1, <1>1, <1>8, <1>9
    <3>2. CASE g # f
      BY <3>2, <2>1, <1>4, <1>6, <1>8
    <3>3. QED
      BY <3>1, <3>2
  <2>3. QED
    BY <2>2, <1>6
<1>11. QED
  BY <1>6, <1>7, <1>10 DEF Between

\* Another packet: what has been read is less than the chunk.
LEMMA WithinGoesOn ==
  ASSUME TypeInv, ServerData,
         NEW f \in DOMAIN sent,
         NEW before \in [DOMAIN sent -> Nat], NEW upto \in [DOMAIN sent -> Nat],
         upto[f] <= Len(sent[f]), NEW bytes, NEW behind \in Seq(Byte),
         Chunk(sent, f, before, upto, bytes, behind), Within(f, before, upto, behind),
         NEW a, NEW e, NEW c, NEW q, NEW packs, Takes(f, before, upto, behind, a, e, c, q, packs),
         ~Final(a, e, c)
  PROVE  Within(f, before, upto, behind)'
<1>1. /\ a = before[f] /\ e = upto[f] /\ c = Len(handle.packs)
      /\ Comes(f, a, e, c, q, behind) /\ packs = Append(handle.packs, Taken(Size(q)))
  BY DEF Takes
<1>2. /\ packs \in Seq(Command) /\ Delivers("server_recv", packs, sent[f], a, c + 1)
      /\ handle.read + Size(q) = Len(Slice(sent[f], a, a + c + 1))
      /\ fifo' \o chunk' = Slice(sent[f], a + c + 1, e) \o behind
  <2>1. Took(sent[f], a, e, c, packs, handle.read + Size(q), fifo' \o chunk', behind)
    BY WithinTakes
  <2>2. QED
    BY <2>1 DEF Took
<1>3. LengthHiLo = Size(q) /\ a \in Nat /\ c \in Nat /\ e \in Nat /\ e <= Len(sent[f])
      /\ a + c < e /\ a + c + 1 # e
  BY <1>1 DEF Comes, Final
<1>4. /\ handle.fd = f /\ handle.size = <<0, 0>> \o HiLo(Len(Slice(sent[f], a, e)))
      /\ \A g \in DOMAIN sent : Delivers(pipe, handled[g], sent[g], 0, before[g])
  BY <1>1 DEF Within
<1>5. PICK s, b : s = sent[f] /\ b = a + c + 1
  OBVIOUS
<1>6. s \in Seq(Packets) /\ b \in Nat /\ a <= b /\ b < e /\ b <= e /\ e <= Len(s)
  <2>1. s \in Seq(Packets) /\ e <= Len(s)
    BY <1>3, <1>5, ServerTypes
  <2>2. b \in Nat /\ a <= b /\ b < e /\ b <= e
    <3>1. a \in Nat /\ c \in Nat /\ e \in Nat /\ a + c < e /\ a + c + 1 # e
      BY <1>3
    <3>2. QED
      BY <1>5, <3>1
  <2>3. QED
    BY <2>1, <2>2
<1>7. b <= Len(s)
  <2>1. Len(s) \in Nat
    BY <1>6, LenProperties
  <2>2. QED
    BY <1>3, <1>6, <2>1
<1>8. PICK x, y, z : x = Slice(s, a, b) /\ y = Slice(s, b, e) /\ z = Slice(s, a, e)
  OBVIOUS
<1>9. /\ x \in Seq(Byte) /\ Len(x) \in Nat
      /\ y \in Seq(Byte) /\ Len(y) \in Nat /\ Len(y) >= 17
      /\ z \in Seq(Byte) /\ Len(z) \in Nat
  BY <1>3, <1>6, <1>7, <1>8, SliceBytes
<1>10. Len(x) < Len(z)
  <2>1. z = x \o y
    <3>1. a \in Nat /\ b \in Nat /\ e \in Nat /\ a <= b /\ b <= e /\ e <= Len(s) /\ s \in Seq(Packets)
      BY <1>3, <1>6
    <3>2. QED
      BY <1>8, <3>1, SliceSplits
  <2>2. Joins(x \o y, x, y)
    BY <1>9, Joined
  <2>3. Len(z) = Len(x) + Len(y)
    BY <2>1, <2>2 DEF Joins
  <2>4. QED
    BY <1>9, <2>3
<1>11. Len(z) \div 256 < 256
  BY <1>1, <1>5, <1>8 DEF Chunk
<1>12. <<0, 0>> \o HiLo(Len(x)) # <<0, 0>> \o HiLo(Len(z))
  BY <1>9, <1>10, <1>11, HiLoDiffers
<1>13. handle.read + Size(q) = Len(x) /\ handle.size = <<0, 0>> \o HiLo(Len(z))
  BY <1>2, <1>4, <1>5, <1>8
<1>14. handle' = [handle EXCEPT !.pc = "head", !.packs = packs, !.read = Len(x)]
  BY <1>1, <1>3, <1>12, <1>13 DEF ServerData
<1>15. UNCHANGED <<pipe, sent, handled>> /\ pipe = "server_recv"
  BY <1>1, <1>3, <1>12, <1>13 DEF ServerData
<1>16. /\ handle'.pc = "head" /\ handle'.fd = f /\ handle'.packs = packs
       /\ handle'.size = <<0, 0>> \o HiLo(Len(z)) /\ handle'.read = Len(x)
  <2>1. handle \in HandleType
    <3>1. handle.pc = "data"
      BY DEF ServerData
    <3>2. QED
      BY <3>1, AtWork
  <2>2. QED
    BY <1>4, <1>13, <1>14, <2>1 DEF HandleType
<1>17. PICK k : k = c + 1
  OBVIOUS
<1>18. k \in Nat /\ a + k = b /\ a + k < e
  <2>1. a \in Nat /\ c \in Nat /\ b < e
    BY <1>3, <1>6
  <2>2. k \in Nat /\ a + k = b
    BY <1>5, <1>17, <2>1
  <2>3. QED
    BY <2>1, <2>2
<1>19. Delivers(pipe', handle'.packs, sent'[f], a, k) /\ k = Len(handle'.packs)
  BY <1>2, <1>15, <1>16, <1>17 DEF Delivers
<1>20. Part' = <<>>
  BY <1>16 DEF Part
<1>21. Part' \o (fifo' \o chunk') = Slice(sent'[f], a + k, e) \o behind
  <2>1. y \o behind \in Seq(Byte)
    BY <1>9, ConcatProperties
  <2>2. <<>> \o (y \o behind) = y \o behind
    BY <2>1, ConcatEmptySeq
  <2>3. fifo' \o chunk' = y \o behind
    BY <1>2, <1>5, <1>8
  <2>4. QED
    BY <1>5, <1>8, <1>15, <1>18, <1>20, <2>2, <2>3
<1>22. handle'.read = Len(Slice(sent'[f], a, a + k)) + (IF handle'.pc = "data" THEN 17 ELSE 0)
  BY <1>5, <1>8, <1>9, <1>15, <1>16, <1>18
<1>23. handle'.size = <<0, 0>> \o HiLo(Len(Slice(sent'[f], a, e)))
  BY <1>5, <1>8, <1>15, <1>16
<1>24. \A g \in DOMAIN sent' : Delivers(pipe', handled'[g], sent'[g], 0, before[g])
  BY <1>4, <1>15
<1>25. QED
  BY <1>1, <1>16, <1>18, <1>19, <1>21, <1>22, <1>23, <1>24, WithinNext

\* TakeHead and ServerData, wherever the reader is.
LEMMA ServerReads ==
  ASSUME TypeInv, ServerInv, pipe = "server_recv", TakeHead \/ ServerData
  PROVE  ServerInv'
<1>1. PICK m, F, P, T :
        /\ Chunks(sent, m, F, P, T)
        /\ \A f \in DOMAIN sent : net[f] = Slice(sent[f], P[m][f], Len(sent[f]))
        /\ Reached(m, F, P, T)
  BY DEF ServerInv
<1>2. handle.pc \in {"head", "data"}
  BY DEF TakeHead, ServerData
<1>3. PICK i \in 1 .. m : Within(F[i], P[i - 1], P[i], T[i])
  BY <1>1, <1>2 DEF Reached, Between, Idle
<1>4. PICK f, before, upto, bytes, behind :
        f = F[i] /\ before = P[i - 1] /\ upto = P[i] /\ bytes = T[i - 1] /\ behind = T[i]
  OBVIOUS
<1>5. /\ f \in DOMAIN sent /\ before \in [DOMAIN sent -> Nat] /\ upto \in [DOMAIN sent -> Nat]
      /\ upto[f] <= Len(sent[f]) /\ behind \in Seq(Byte)
      /\ Chunk(sent, f, before, upto, bytes, behind)
  BY <1>1, <1>4, ChunkTypes
<1>6. Within(f, before, upto, behind)
  BY <1>3, <1>4
<1>7. Within(f, before, upto, behind)' \/ Between(upto, behind)'
  <2>1. CASE TakeHead
    BY <2>1, <1>5, <1>6, WithinTakesHead
  <2>2. CASE ServerData
    <3>1. handle.pc = "data"
      BY <2>2 DEF ServerData
    <3>2. PICK a, e, c : a = before[f] /\ e = upto[f] /\ c = Len(handle.packs)
      OBVIOUS
    <3>3. PICK q : Comes(f, a, e, c, q, behind)
      BY <1>5, <1>6, <3>1, <3>2, WithinComes
    <3>4. PICK packs : Takes(f, before, upto, behind, a, e, c, q, packs)
      BY <3>2, <3>3 DEF Takes
    <3>5. CASE Final(a, e, c)
      BY <2>2, <1>5, <1>6, <3>4, <3>5, WithinEnds
    <3>6. CASE ~Final(a, e, c)
      BY <2>2, <1>5, <1>6, <3>4, <3>6, WithinGoesOn
    <3>7. QED
      BY <3>5, <3>6
  <2>3. QED
    BY <2>1, <2>2
<1>8. i \in 0 .. m
  <2>1. m \in Nat
    BY <1>1 DEF Chunks
  <2>2. QED
    BY <2>1
<1>9. Reached(m, F, P, T)'
  BY <1>4, <1>7, <1>8 DEF Reached
<1>10. UNCHANGED <<sent, net>>
  BY DEF TakeHead, ServerData
<1>11. QED
  BY <1>1, <1>9, <1>10 DEF ServerInv

-----------------------------------------------------------------------------
(* Every step, and what it is for                                          *)

LEMMA DeliversPrefix ==
  ASSUME NEW pp, NEW h \in Seq(Command), NEW s, NEW n \in Nat, NEW k \in Nat, k <= n,
         Delivers(pp, h, s, 0, k), NEW t, t = [i \in 1 .. n |-> WholeIn(pp, s[i])]
  PROVE  IsPrefix(h, t)
<1>1. Len(h) = k /\ \A i \in 1 .. k : h[i] = t[i]
  <2>1. Len(h) = k /\ \A i \in 1 .. k : h[i] = WholeIn(pp, s[0 + i])
    BY DEF Delivers
  <2>2. ASSUME NEW i \in 1 .. k PROVE h[i] = t[i]
    <3>1. i \in 1 .. n /\ 0 + i = i
      OBVIOUS
    <3>2. t[i] = WholeIn(pp, s[i])
      BY <3>1
    <3>3. QED
      BY <2>1, <3>1, <3>2
  <2>3. QED
    BY <2>1, <2>2
<1>2. Len(t) = n
  <2>1. PICK S : S = {WholeIn(pp, s[i]) : i \in 1 .. n}
    OBVIOUS
  <2>2. t \in [1 .. n -> S]
    BY <2>1
  <2>3. t \in Seq(S)
    BY <2>2, SeqDef
  <2>4. DOMAIN t = 1 .. Len(t) /\ Len(t) \in Nat
    BY <2>3, LenProperties
  <2>5. 1 .. Len(t) = 1 .. n
    BY <2>2, <2>4
  <2>6. QED
    BY <2>4, <2>5
<1>3. \A i \in 1 .. k : h[i] \in Command /\ t[i] \in Command
  <2>1. \A i \in 1 .. Len(h) : h[i] \in Command
    BY ElementOfSeq
  <2>2. QED
    BY <1>1, <2>1
<1>4. PICK x : x = SubSeq(h, 1, k)
  OBVIOUS
<1>5. PICK y : y = SubSeq(t, 1, k)
  OBVIOUS
<1>6. /\ x \in Seq(Command) /\ Len(x) = IF 1 <= k THEN k - 1 + 1 ELSE 0
      /\ \A i \in 1 .. k - 1 + 1 : x[i] = h[1 + i - 1]
  <2>1. \A i \in 1 .. k : h[i] \in Command
    BY <1>3
  <2>2. QED
    BY <2>1, <1>4, SubSeqProperties
<1>7. /\ y \in Seq(Command) /\ Len(y) = IF 1 <= k THEN k - 1 + 1 ELSE 0
      /\ \A i \in 1 .. k - 1 + 1 : y[i] = t[1 + i - 1]
  <2>1. \A i \in 1 .. k : t[i] \in Command
    BY <1>3
  <2>2. QED
    BY <2>1, <1>5, SubSeqProperties
<1>8. \A i \in 1 .. Len(x) : x[i] = y[i]
  <2> TAKE i \in 1 .. Len(x)
  <2>1. i \in 1 .. k - 1 + 1 /\ 1 + i - 1 \in 1 .. k
    BY <1>6
  <2>2. QED
    BY <2>1, <1>1, <1>6, <1>7
<1>9. x = y
  <2>1. x \in Seq(Command) /\ y \in Seq(Command) /\ Len(x) = Len(y)
    BY <1>6, <1>7
  <2>2. QED
    BY <2>1, <1>8, SeqEqual
<1>10. QED
  BY <1>1, <1>2, <1>4, <1>5, <1>9 DEF IsPrefix

LEMMA WholePackets ==
  ASSUME NEW f
  PROVE  AsSent(f) = [i \in 1 .. Len(sent[f]) |-> WholeIn(pipe, sent[f][i])]
<1>1. \A p : Whole(p) = WholeIn(pipe, p)
  BY Constants DEF Whole, WholeIn
<1>2. QED
  BY <1>1 DEF AsSent

LEMMA IntactNext ==
  ASSUME TypeInv, IntactInv, [Next]_vars
  PROVE  IntactInv'
<1> SUFFICES ASSUME regular'
             PROVE  IF pipe' = "server_recv" THEN ServerInv' ELSE ClientInv'
  BY DEF IntactInv
<1>1. CASE UNCHANGED vars
  <2>1. Part' = Part
    BY <1>1 DEF vars, Part
  <2>2. CASE pipe = "server_recv"
    <3>1. ASSUME NEW m, NEW F, NEW P, NEW T, Reached(m, F, P, T)
          PROVE  Reached(m, F, P, T)'
      BY <1>1, <2>1, <3>1 DEF vars, Reached, Between, Within
    <3>2. ServerInv
      BY <1>1, <2>2 DEF vars, IntactInv
    <3>3. ServerInv'
      BY <1>1, <3>1, <3>2 DEF vars, ServerInv
    <3>4. QED
      BY <1>1, <2>2, <3>3 DEF vars
  <2>3. CASE pipe # "server_recv"
    <3>1. ClientInv
      BY <1>1, <2>3 DEF vars, IntactInv
    <3>2. ClientInv'
      BY <1>1, <2>1, <3>1 DEF vars, ClientInv
    <3>3. QED
      BY <1>1, <2>3, <3>2 DEF vars
  <2>4. QED
    BY <2>2, <2>3
<1>2. ASSUME Next, pipe = "server_recv"
      PROVE  pipe' = "server_recv" /\ ServerInv'
  <2>1. CASE RecvStep
    <3>1. PICK f \in DOMAIN sent, n \in ChunkSizes : ServerRecv(f, n)
      BY <1>2, <2>1 DEF RecvStep, ClientRecv
    <3>2. regular /\ pipe' = pipe
      BY <3>1 DEF ServerRecv
    <3>3. QED
      BY <1>2, <3>1, <3>2, ServerReceives DEF IntactInv
  <2>2. CASE WriteStep
    <3>1. regular /\ pipe' = pipe
      BY <2>2 DEF WriteStep, ServerRoom, Store
    <3>2. QED
      BY <1>2, <2>2, <3>1, ServerWrites DEF IntactInv
  <2>3. CASE ServerTake
    <3>1. regular /\ pipe' = pipe
      BY <2>3 DEF ServerTake
    <3>2. QED
      BY <1>2, <2>3, <3>1, ServerTakes DEF IntactInv
  <2>4. CASE TakeHead \/ ServerData
    <3>1. regular /\ pipe' = pipe
      BY <2>4 DEF TakeHead, ServerData
    <3>2. QED
      BY <1>2, <2>4, <3>1, ServerReads DEF IntactInv
  <2>5. QED
    BY <1>2, <2>1, <2>2, <2>3, <2>4 DEF Next, HandleStep, ClientSend, ClientSendData, ClientData
<1>3. ASSUME Next, pipe # "server_recv"
      PROVE  pipe' # "server_recv" /\ ClientInv'
  <2>1. ASSUME NEW p \in Packets, ClientSend(p) PROVE pipe' # "server_recv" /\ ClientInv'
    <3>1. regular /\ pipe' = pipe
      BY <2>1 DEF ClientSend
    <3>2. QED
      BY <1>3, <2>1, <3>1, ClientSends DEF IntactInv
  <2>2. CASE RecvStep
    <3>1. PICK n \in ChunkSizes : ClientRecv(n)
      BY <1>3, <2>2 DEF RecvStep, ServerRecv
    <3>2. regular /\ pipe' = pipe
      BY <3>1 DEF ClientRecv, TypeInv, Room
    <3>3. QED
      BY <1>3, <3>1, <3>2, ClientReceives DEF IntactInv
  <2>3. CASE WriteStep
    <3>1. regular /\ pipe' = pipe
      BY <2>3 DEF WriteStep, ServerRoom, Store
    <3>2. QED
      BY <1>3, <2>3, <3>1, ClientWrites DEF IntactInv
  <2>4. CASE ServerTake
    <3>1. regular /\ handle.pc = "fd"
      BY <2>4 DEF ServerTake
    <3>2. ClientInv
      BY <1>3, <3>1 DEF IntactInv
    <3>3. QED
      BY <3>1, <3>2 DEF ClientInv
  <2>5. CASE TakeHead
    <3>1. regular /\ pipe' = pipe
      BY <2>5 DEF TakeHead
    <3>2. QED
      BY <1>3, <2>5, <3>1, ClientTakesHead DEF IntactInv
  <2>6. CASE ClientSendData
    <3>1. regular /\ pipe' = pipe
      BY <2>6 DEF ClientSendData
    <3>2. QED
      BY <1>3, <2>6, <3>1, ClientTakesSent DEF IntactInv
  <2>7. CASE ClientData
    <3>1. regular /\ pipe' = pipe
      BY <2>7 DEF ClientData
    <3>2. QED
      BY <1>3, <2>7, <3>1, ClientTakesReceived DEF IntactInv
  <2>8. QED
    BY <1>3, <2>1, <2>2, <2>3, <2>4, <2>5, <2>6, <2>7 DEF Next, HandleStep, ServerData
<1>4. QED
  BY <1>1, <1>2, <1>3

LEMMA IInvImplies ==
  ASSUME TypeInv, IntactInv
  PROVE  Intact
<1> SUFFICES ASSUME regular
             PROVE  /\ handle # Overrun
                    /\ \A f \in DOMAIN sent : IsPrefix(handled[f], AsSent(f))
  BY DEF Intact
<1>1. Overrun.pc = "overrun"
  BY DEF Overrun
<1>2. CASE pipe = "server_recv"
  <2>1. PICK m, F, P, T :
          /\ Chunks(sent, m, F, P, T)
          /\ \A f \in DOMAIN sent : net[f] = Slice(sent[f], P[m][f], Len(sent[f]))
          /\ Reached(m, F, P, T)
    BY <1>2 DEF IntactInv, ServerInv
  <2>2. m \in Nat
    BY <2>1 DEF Chunks
  <2>3. handle # Overrun
    <3>1. Idle("server_recv") # Overrun
      BY IdleType
    <3>2. QED
      BY <1>1, <2>1, <3>1 DEF Reached, Between, Within
  <2>4. PICK j \in 0 .. m : \A f \in DOMAIN sent : Delivers(pipe, handled[f], sent[f], 0, P[j][f])
    <3>1. CASE \E j \in 0 .. m : Between(P[j], T[j])
      BY <3>1 DEF Between
    <3>2. CASE \E j \in 1 .. m : Within(F[j], P[j - 1], P[j], T[j])
      <4>1. PICK i \in 1 .. m : Within(F[i], P[i - 1], P[i], T[i])
        BY <3>2
      <4>2. i - 1 \in 0 .. m
        BY <2>2
      <4>3. \A f \in DOMAIN sent : Delivers(pipe, handled[f], sent[f], 0, P[i - 1][f])
        BY <4>1 DEF Within
      <4>4. QED
        BY <4>2, <4>3
    <3>3. QED
      BY <2>1, <3>1, <3>2 DEF Reached
  <2>5. ASSUME NEW f \in DOMAIN sent PROVE IsPrefix(handled[f], AsSent(f))
    <3>1. PICK k : k = P[j][f]
      OBVIOUS
    <3>2. k \in Nat /\ k <= Len(sent[f])
      BY <2>1, <2>5, <3>1 DEF Chunks
    <3>3. handled[f] \in Seq(Command) /\ Len(sent[f]) \in Nat
      BY ServerTypes
    <3>4. Delivers(pipe, handled[f], sent[f], 0, k)
      BY <2>4, <3>1
    <3>5. QED
      BY <3>2, <3>3, <3>4, WholePackets, DeliversPrefix
  <2>6. QED
    BY <2>3, <2>5
<1>3. CASE pipe # "server_recv"
  <2>1. ClientInv
    BY <1>3 DEF IntactInv
  <2>2. handle # Overrun
    BY <1>1, <2>1 DEF ClientInv
  <2>3. /\ DOMAIN sent = {0} /\ handled[0] \in Seq(Command) /\ Len(handled[0]) \in Nat
        /\ Len(sent[0]) \in Nat
    BY <1>3, ClientTypes
  <2>4. Delivers(pipe, handled[0], sent[0], 0, Len(handled[0])) /\ Len(handled[0]) <= Len(sent[0])
    BY <2>1 DEF ClientInv
  <2>5. IsPrefix(handled[0], AsSent(0))
    BY <2>3, <2>4, WholePackets, DeliversPrefix
  <2>6. QED
    BY <2>2, <2>3, <2>5
<1>4. QED
  BY <1>2, <1>3

\* However the bytes are cut, and whatever the connections carry: as long as
\* the chunks are regular, the commands handled are the packets sent, whole, in
\* order, none twice and none left out, each under the connection it came from,
\* and no reader writes past its buffers.
THEOREM StaysIntact == Spec => []Intact
<1>1. Init => IInv
  BY TypeInit, IntactInit DEF IInv
<1>2. IInv /\ [Next]_vars => IInv'
  <2>1. ASSUME IInv, [Next]_vars PROVE TypeInv' /\ IntactInv'
    BY <2>1, TypeNext, IntactNext DEF IInv
  <2>2. QED
    BY <2>1 DEF IInv
<1>3. IInv => Intact
  BY IInvImplies DEF IInv
<1>4. QED
  BY <1>1, <1>2, <1>3, PTL DEF Spec

-----------------------------------------------------------------------------
(* A client that has lost the packets                                      *)

\* w are bytes of s, some of those after the first lo up to byte hi, in order.
Scattered(w, s, lo, hi) ==
  \E pos \in [1 .. Len(w) -> lo + 1 .. hi] :
    /\ \A i \in 1 .. Len(w) : w[i] = s[pos[i]]
    /\ \A i, k \in 1 .. Len(w) : i <= k => pos[i] + (k - i) <= pos[k]

\* The commands h were found in s, each at a byte of its own, at least a
\* header's length after the one before.
FoundIn(h, s, lo) ==
  \E at \in [1 .. Len(h) -> Nat] :
    /\ \A i \in 1 .. Len(h) : h[i].cmd = s[at[i]] /\ at[i] > 0 /\ at[i] + 15 <= lo
    /\ \A i, k \in 1 .. Len(h) : i < k => at[i] + 17 <= at[k]

\* Of the stream s, recv has returned all but r; w is still to be read, and the
\* commands h came from bytes before those of w.
Lost(w, h, r, s) ==
  \E lo, hi \in 0 .. Len(s) :
    /\ lo <= hi /\ r = Drop(s, hi)
    /\ Scattered(w, s, lo, hi)
    /\ FoundIn(h, s, lo)

LostInv ==
  pipe = "client_recv" =>
    /\ \A i \in 1 .. Len(sent[0]) : sent[0][i].cmd # PASS_THROUGH
    /\ Lost(Part \o (fifo \o chunk), handled[0], net[0], Stream(sent[0]))

LEMMA ScatteredNone ==
  ASSUME NEW s, NEW lo \in Nat, NEW hi \in Nat
  PROVE  Scattered(<<>>, s, lo, hi) /\ FoundIn(<<>>, s, lo)
<1>1. PICK none : none = <<>>
  OBVIOUS
<1>2. Len(none) = 0 /\ \A i : i \notin 1 .. Len(none)
  <2>1. Len(none) = 0
    BY <1>1
  <2>2. \A i : i \notin 1 .. 0
    OBVIOUS
  <2>3. QED
    BY <2>1, <2>2
<1>3. PICK pos : pos = [i \in 1 .. Len(none) |-> lo + 1]
  OBVIOUS
<1>4. pos \in [1 .. Len(none) -> lo + 1 .. hi] /\ pos \in [1 .. Len(none) -> Nat]
  BY <1>2, <1>3
<1>5. Scattered(none, s, lo, hi)
  <2>1. /\ \A i \in 1 .. Len(none) : none[i] = s[pos[i]]
        /\ \A i, k \in 1 .. Len(none) : i <= k => pos[i] + (k - i) <= pos[k]
    BY <1>2
  <2>2. QED
    BY <1>4, <2>1, Zenon DEF Scattered
<1>6. FoundIn(none, s, lo)
  <2>1. /\ \A i \in 1 .. Len(none) : none[i].cmd = s[pos[i]] /\ pos[i] > 0 /\ pos[i] + 15 <= lo
        /\ \A i, k \in 1 .. Len(none) : i < k => pos[i] + 17 <= pos[k]
    BY <1>2
  <2>2. QED
    BY <1>4, <2>1, Zenon DEF FoundIn
<1>7. QED
  BY <1>1, <1>5, <1>6

\* recv returns the bytes after the first hi.
LEMMA ScatteredMore ==
  ASSUME NEW s, NEW w \in Seq(Byte), NEW v \in Seq(Byte),
         NEW lo \in Nat, NEW hi \in Nat, lo <= hi, NEW n \in Nat, Len(v) = n,
         \A i \in 1 .. n : v[i] = s[hi + i], Scattered(w, s, lo, hi)
  PROVE  Scattered(w \o v, s, lo, hi + n)
<1>1. PICK u : u = w \o v
  OBVIOUS
<1>2. Joins(u, w, v)
  BY <1>1, Joined
<1>3. PICK m : m = Len(w)
  OBVIOUS
<1>4. /\ m \in Nat /\ Len(u) = m + n
      /\ \A i \in 1 .. m : u[i] = w[i]
      /\ \A i \in 1 .. n : u[m + i] = v[i]
  BY <1>2, <1>3, LenProperties DEF Joins
<1>5. PICK pos \in [1 .. m -> lo + 1 .. hi] :
        /\ \A i \in 1 .. m : w[i] = s[pos[i]]
        /\ \A i, k \in 1 .. m : i <= k => pos[i] + (k - i) <= pos[k]
  BY <1>3 DEF Scattered
<1>6. PICK pos2 : pos2 = [i \in 1 .. m + n |-> IF i <= m THEN pos[i] ELSE hi + (i - m)]
  OBVIOUS
<1>7. \A i \in 1 .. m : pos2[i] = pos[i] /\ pos[i] \in lo + 1 .. hi
  BY <1>4, <1>5, <1>6
<1>8. \A i \in 1 .. m + n : ~(i <= m) => pos2[i] = hi + (i - m)
  BY <1>6
<1>9. ASSUME NEW i \in 1 .. m + n PROVE pos2[i] \in lo + 1 .. hi + n /\ u[i] = s[pos2[i]]
  <2>1. CASE i <= m
    <3>1. i \in 1 .. m
      BY <1>4, <2>1
    <3>2. pos2[i] \in lo + 1 .. hi
      BY <3>1, <1>7
    <3>3. u[i] = s[pos2[i]]
      BY <3>1, <1>4, <1>5, <1>7
    <3>4. QED
      BY <3>2, <3>3
  <2>2. CASE ~(i <= m)
    <3>1. i - m \in 1 .. n /\ m + (i - m) = i
      BY <1>4, <2>2
    <3>2. pos2[i] = hi + (i - m)
      BY <1>8, <2>2
    <3>3. u[m + (i - m)] = v[i - m] /\ v[i - m] = s[hi + (i - m)]
      BY <3>1, <1>4
    <3>4. hi + (i - m) \in lo + 1 .. hi + n
      BY <3>1
    <3>5. QED
      BY <3>1, <3>2, <3>3, <3>4
  <2>3. QED
    BY <2>1, <2>2
<1>10. pos2 \in [1 .. m + n -> lo + 1 .. hi + n]
  BY <1>6, <1>9
<1>11. ASSUME NEW i \in 1 .. m + n, NEW k \in 1 .. m + n, i <= k
       PROVE  pos2[i] + (k - i) <= pos2[k]
  <2>1. CASE k <= m
    <3>1. i \in 1 .. m /\ k \in 1 .. m
      BY <1>4, <1>11, <2>1
    <3>2. QED
      BY <3>1, <1>5, <1>7, <1>11
  <2>2. CASE ~(k <= m) /\ i <= m
    <3>1. i \in 1 .. m /\ m \in 1 .. m
      BY <1>4, <2>2
    <3>2. pos[i] + (m - i) <= pos[m]
      BY <3>1, <1>5, <2>2
    <3>3. pos[m] \in lo + 1 .. hi /\ pos[i] \in lo + 1 .. hi /\ pos2[i] = pos[i]
      BY <3>1, <1>7
    <3>4. pos2[k] = hi + (k - m)
      BY <1>8, <2>2
    <3>5. PICK x, y : x = pos[i] /\ y = pos[m]
      OBVIOUS
    <3>6. x \in Nat /\ y \in Nat /\ y <= hi /\ x + (m - i) <= y
      BY <3>2, <3>3, <3>5
    <3>7. k \in Nat /\ i \in Nat /\ k > m
      BY <1>4, <2>2
    <3>8. x + (k - i) <= hi + (k - m)
      BY <3>6, <3>7, <1>4
    <3>9. QED
      BY <3>3, <3>4, <3>5, <3>8
  <2>3. CASE ~(k <= m) /\ ~(i <= m)
    <3>1. pos2[k] = hi + (k - m) /\ pos2[i] = hi + (i - m)
      BY <1>8, <2>3
    <3>2. QED
      BY <3>1, <1>4
  <2>4. QED
    BY <2>1, <2>2, <2>3
<1>12. Scattered(u, s, lo, hi + n)
  <2>1. \A i \in 1 .. m + n : u[i] = s[pos2[i]]
    BY <1>9
  <2>2. \A i, k \in 1 .. m + n : i <= k => pos2[i] + (k - i) <= pos2[k]
    BY <1>11
  <2>3. QED
    BY <1>4, <1>10, <2>1, <2>2 DEF Scattered
<1>13. QED
  BY <1>1, <1>12

\* Bytes that recv returned and nobody put into the fifo.
LEMMA ScatteredPast ==
  ASSUME NEW w, NEW s, NEW lo \in Nat, NEW hi \in Nat, NEW n \in Nat, Scattered(w, s, lo, hi)
  PROVE  Scattered(w, s, lo, hi + n)
<1>1. PICK m : m = Len(w)
  OBVIOUS
<1>2. PICK pos \in [1 .. m -> lo + 1 .. hi] :
        /\ \A i \in 1 .. m : w[i] = s[pos[i]]
        /\ \A i, k \in 1 .. m : i <= k => pos[i] + (k - i) <= pos[k]
  BY <1>1 DEF Scattered
<1>3. lo + 1 .. hi \subseteq lo + 1 .. hi + n
  OBVIOUS
<1>4. pos \in [1 .. m -> lo + 1 .. hi + n]
  BY <1>2, <1>3
<1>5. QED
  BY <1>1, <1>2, <1>4 DEF Scattered

\* The reader takes n bytes.
LEMMA ScatteredLess ==
  ASSUME NEW s, NEW w \in Seq(Byte), NEW lo \in Nat, NEW hi \in Nat, NEW n \in Nat,
         n <= Len(w), Scattered(w, s, lo, hi)
  PROVE  /\ Scattered(Drop(w, n), s, lo, hi)
         /\ n >= 17 => \E x \in Nat : /\ w[2] = s[x] /\ lo + 2 <= x /\ x + 15 <= hi
                                      /\ Scattered(Drop(w, n), s, x + 15, hi)
<1>1. PICK m : m = Len(w)
  OBVIOUS
<1>2. m \in Nat /\ n <= m
  BY <1>1, LenProperties
<1>3. PICK pos \in [1 .. m -> lo + 1 .. hi] :
        /\ \A i \in 1 .. m : w[i] = s[pos[i]]
        /\ \A i, k \in 1 .. m : i <= k => pos[i] + (k - i) <= pos[k]
  BY <1>1 DEF Scattered
<1>4. PICK u : u = Drop(w, n)
  OBVIOUS
<1>5. Len(u) = m - n /\ \A i \in 1 .. m - n : u[i] = w[n + i]
  <2>1. \A i \in n + 1 .. m : w[i] \in Byte
    <3>1. \A i \in n + 1 .. m : i \in 1 .. Len(w)
      BY <1>1, <1>2
    <3>2. QED
      BY <3>1, ElementOfSeq
  <2>2. /\ Len(u) = IF n + 1 <= m THEN m - (n + 1) + 1 ELSE 0
        /\ \A i \in 1 .. m - (n + 1) + 1 : u[i] = w[n + 1 + i - 1]
    <3>1. u = SubSeq(w, n + 1, m)
      BY <1>1, <1>4 DEF Drop
    <3>2. n + 1 \in Int /\ m \in Int
      BY <1>2
    <3>3. QED
      BY <2>1, <3>1, <3>2, SubSeqProperties
  <2>3. m - (n + 1) + 1 = m - n /\ \A i \in 1 .. m - n : n + 1 + i - 1 = n + i
    BY <1>2
  <2>4. QED
    BY <1>2, <2>2, <2>3
<1>6. PICK pos2 : pos2 = [i \in 1 .. m - n |-> pos[n + i]]
  OBVIOUS
<1>7. \A i \in 1 .. m - n : n + i \in 1 .. m
  BY <1>2
<1>8. \A i \in 1 .. m - n : pos2[i] = pos[n + i]
  BY <1>6
<1>9. ASSUME NEW l \in Nat, \A i \in 1 .. m - n : pos[n + i] \in l + 1 .. hi
      PROVE  Scattered(u, s, l, hi)
  <2>1. pos2 \in [1 .. m - n -> l + 1 .. hi]
    BY <1>6, <1>9
  <2>2. \A i \in 1 .. m - n : u[i] = s[pos2[i]]
    BY <1>3, <1>5, <1>7, <1>8
  <2>3. ASSUME NEW i \in 1 .. m - n, NEW k \in 1 .. m - n, i <= k
        PROVE  pos2[i] + (k - i) <= pos2[k]
    <3>1. n + i \in 1 .. m /\ n + k \in 1 .. m /\ n + i <= n + k /\ (n + k) - (n + i) = k - i
      BY <1>7, <2>3
    <3>2. pos[n + i] + ((n + k) - (n + i)) <= pos[n + k]
      BY <3>1, <1>3
    <3>3. QED
      BY <3>1, <3>2, <1>8
  <2>4. QED
    BY <1>5, <2>1, <2>2, <2>3 DEF Scattered
<1>10. Scattered(u, s, lo, hi)
  BY <1>3, <1>7, <1>9
<1>11. ASSUME n >= 17
       PROVE  \E x \in Nat : /\ w[2] = s[x] /\ lo + 2 <= x /\ x + 15 <= hi
                             /\ Scattered(u, s, x + 15, hi)
  <2>1. 1 \in 1 .. m /\ 2 \in 1 .. m /\ 17 \in 1 .. m
    BY <1>2, <1>11
  <2>2. PICK x : x = pos[2]
    OBVIOUS
  <2>3. pos[1] \in lo + 1 .. hi /\ x \in lo + 1 .. hi /\ pos[17] \in lo + 1 .. hi
    BY <1>3, <2>1, <2>2
  <2>4. pos[1] + (2 - 1) <= x /\ x + (17 - 2) <= pos[17]
    BY <1>3, <2>1, <2>2
  <2>5. x \in Nat /\ lo + 2 <= x /\ x + 15 <= hi /\ x + 15 \in Nat
    BY <2>3, <2>4
  <2>6. \A i \in 1 .. m - n : pos[n + i] \in (x + 15) + 1 .. hi
    <3> TAKE i \in 1 .. m - n
    <3>1. n + i \in 1 .. m /\ 17 <= n + i
      BY <1>7, <1>11
    <3>2. pos[17] + ((n + i) - 17) <= pos[n + i] /\ pos[n + i] \in lo + 1 .. hi
      BY <3>1, <1>3, <2>1
    <3>3. (n + i) - 17 >= 1 /\ (n + i) - 17 \in Nat
      BY <1>11
    <3>4. PICK y, z, k : y = pos[17] /\ z = pos[n + i] /\ k = (n + i) - 17
      OBVIOUS
    <3>5. x + 15 <= y
      BY <2>3, <2>4, <3>4
    <3>6. y \in Int /\ z \in Int /\ z <= hi /\ y + k <= z /\ k >= 1 /\ k \in Nat
      BY <2>3, <3>2, <3>3, <3>4
    <3>7. z \in (x + 15) + 1 .. hi
      BY <2>5, <3>5, <3>6
    <3>8. QED
      BY <3>4, <3>7
  <2>7. Scattered(u, s, x + 15, hi)
    BY <1>9, <2>5, <2>6
  <2>8. w[2] = s[x]
    BY <1>3, <2>1, <2>2
  <2>9. QED
    BY <2>5, <2>7, <2>8
<1>12. QED
  BY <1>4, <1>10, <1>11

\* One more command, after a whole header.
LEMMA FoundOneMore ==
  ASSUME NEW s, NEW h \in Seq(Command), NEW c \in Command, NEW lo \in Nat, NEW x \in Nat,
         lo + 2 <= x, c.cmd = s[x], FoundIn(h, s, lo)
  PROVE  FoundIn(Append(h, c), s, x + 15)
<1>1. PICK g, m : g = Append(h, c) /\ m = Len(h)
  OBVIOUS
<1>2. m \in Nat /\ Len(g) = m + 1 /\ g[m + 1] = c /\ \A i \in 1 .. m : g[i] = h[i]
  BY <1>1, AppendProperties, LenProperties
<1>3. PICK at \in [1 .. m -> Nat] :
        /\ \A i \in 1 .. m : h[i].cmd = s[at[i]] /\ at[i] > 0 /\ at[i] + 15 <= lo
        /\ \A i, k \in 1 .. m : i < k => at[i] + 17 <= at[k]
  BY <1>1 DEF FoundIn
<1>4. PICK at2 : at2 = [i \in 1 .. m + 1 |-> IF i <= m THEN at[i] ELSE x]
  OBVIOUS
<1>5. at2[m + 1] = x /\ \A i \in 1 .. m : at2[i] = at[i] /\ at[i] \in Nat
  BY <1>2, <1>3, <1>4
<1>6. \A i \in 1 .. m + 1 : i \in 1 .. m \/ i = m + 1
  BY <1>2
<1>7. at2 \in [1 .. m + 1 -> Nat]
  BY <1>4, <1>5, <1>6
<1>8. ASSUME NEW i \in 1 .. m + 1
      PROVE  g[i].cmd = s[at2[i]] /\ at2[i] > 0 /\ at2[i] + 15 <= x + 15
  <2>1. CASE i \in 1 .. m
    <3>1. g[i].cmd = s[at2[i]]
      BY <2>1, <1>2, <1>3, <1>5
    <3>2. at2[i] = at[i] /\ at[i] \in Nat /\ at[i] > 0 /\ at[i] + 15 <= lo
      BY <2>1, <1>3, <1>5
    <3>3. QED
      BY <3>1, <3>2
  <2>2. CASE i = m + 1
    <3>1. g[i].cmd = s[at2[i]]
      BY <2>2, <1>2, <1>5
    <3>2. QED
      BY <2>2, <3>1, <1>5
  <2>3. QED
    BY <2>1, <2>2, <1>6
<1>9. ASSUME NEW i \in 1 .. m + 1, NEW k \in 1 .. m + 1, i < k
      PROVE  at2[i] + 17 <= at2[k]
  <2>1. i \in 1 .. m
    BY <1>2, <1>9
  <2>2. CASE k \in 1 .. m
    BY <2>1, <2>2, <1>3, <1>5, <1>9
  <2>3. CASE k = m + 1
    <3>1. at2[i] = at[i] /\ at[i] \in Nat /\ at[i] + 15 <= lo /\ at2[k] = x
      BY <2>1, <2>3, <1>3, <1>5
    <3>2. QED
      BY <3>1
  <2>4. QED
    BY <2>2, <2>3, <1>6
<1>10. FoundIn(g, s, x + 15)
  BY <1>2, <1>7, <1>8, <1>9 DEF FoundIn
<1>11. QED
  BY <1>1, <1>10

\* In a reply, a byte that could be a command is one of those that are it.
Names(u, cmd) ==
  \A i \in 1 .. Len(u) : u[i] \in {LOGIN, KEEP_ALIVE, PASS_THROUGH} => i \in 2 .. 17 /\ u[i] = cmd

LEMMA NamesJoined ==
  ASSUME NEW s \in Seq(Byte), NEW t \in Seq(Byte), NEW cmd, Names(s, cmd),
         \A i \in 1 .. Len(t) : t[i] \in {LOGIN, KEEP_ALIVE, PASS_THROUGH} =>
           t[i] = cmd /\ Len(s) + i \in 2 .. 17
  PROVE  Names(s \o t, cmd)
<1>1. PICK u : u = s \o t
  OBVIOUS
<1>2. Joins(u, s, t)
  BY <1>1, Joined
<1>3. Len(s) \in Nat /\ Len(t) \in Nat
  BY LenProperties
<1>4. ASSUME NEW i \in 1 .. Len(u), u[i] \in {LOGIN, KEEP_ALIVE, PASS_THROUGH}
      PROVE  i \in 2 .. 17 /\ u[i] = cmd
  <2>1. CASE i <= Len(s)
    <3>1. i \in 1 .. Len(s) /\ u[i] = s[i]
      BY <1>2, <1>3, <2>1 DEF Joins
    <3>2. QED
      BY <1>4, <3>1 DEF Names
  <2>2. CASE ~(i <= Len(s))
    <3>1. PICK k : k = i - Len(s)
      OBVIOUS
    <3>2. k \in 1 .. Len(t) /\ Len(s) + k = i
      BY <1>2, <1>3, <2>2, <3>1 DEF Joins
    <3>3. u[i] = t[k]
      BY <1>2, <3>2 DEF Joins
    <3>4. QED
      BY <1>4, <3>2, <3>3
  <2>3. QED
    BY <2>1, <2>2
<1>5. QED
  BY <1>1, <1>4 DEF Names

LEMMA HeadNames ==
  ASSUME NEW cmd \in {LOGIN, KEEP_ALIVE}, NEW len \in 9 .. 17
  PROVE  Names(Head17(cmd, len), cmd) /\ Head17(cmd, len) \in Seq(Byte) /\ Len(Head17(cmd, len)) = 17
<1>1. len \div 256 = 0 /\ len % 256 = len /\ len \in Nat /\ len \in Byte /\ cmd \in Byte
  BY DEF Byte, LOGIN, KEEP_ALIVE
<1>2. PICK a : a = <<1, cmd>>
  OBVIOUS
<1>3. PICK b : b = <<0, len>>
  OBVIOUS
<1>4. PICK c : c = <<1, 0, 0, 0, 12, 41, 230, 250, 99>>
  OBVIOUS
<1>5. PICK d : d = <<cmd, cmd, cmd, cmd>>
  OBVIOUS
<1>6. PICK ab : ab = a \o b
  OBVIOUS
<1>7. PICK abc : abc = ab \o c
  OBVIOUS
<1>8. PICK abcd : abcd = abc \o d
  OBVIOUS
<1>9. HiLo(len) = b
  BY <1>1, <1>3 DEF HiLo
<1>10. Head17(cmd, len) = abcd
  BY <1>2, <1>4, <1>5, <1>6, <1>7, <1>8, <1>9, ZenonT(60) DEF Head17
<1>11. a \in Seq(Byte) /\ Len(a) = 2 /\ Names(a, cmd)
  <2>1. a \in Seq(Byte) /\ Len(a) = 2
    BY <1>1, <1>2 DEF Byte
  <2>2. a[1] = 1 /\ a[2] = cmd
    BY <1>2
  <2>3. QED
    BY <2>1, <2>2 DEF Names, LOGIN, KEEP_ALIVE, PASS_THROUGH
<1>12. b \in Seq(Byte) /\ Len(b) = 2 /\ b[1] = 0 /\ b[2] = len
  BY <1>1, <1>3 DEF Byte
<1>13. c \in Seq(Byte) /\ Len(c) = 9
  BY <1>4 DEF Byte
<1>14. \A i \in 1 .. 9 : c[i] \notin {2, 3, 7}
  BY <1>4
<1>15. d \in Seq(Byte) /\ Len(d) = 4 /\ \A i \in 1 .. 4 : d[i] = cmd
  BY <1>1, <1>5
<1>16. ab \in Seq(Byte) /\ Len(ab) = 4
  <2>1. Joins(ab, a, b)
    BY <1>6, <1>11, <1>12, Joined
  <2>2. QED
    BY <1>11, <1>12, <2>1 DEF Joins
<1>17. Names(ab, cmd)
  <2>1. \A i \in 1 .. 2 : b[i] \notin {2, 3, 7}
    BY <1>12
  <2>2. \A i \in 1 .. Len(b) : b[i] \notin {LOGIN, KEEP_ALIVE, PASS_THROUGH}
    BY <1>12, <2>1 DEF LOGIN, KEEP_ALIVE, PASS_THROUGH
  <2>3. QED
    BY <1>6, <1>11, <1>12, <2>2, NamesJoined
<1>18. abc \in Seq(Byte) /\ Len(abc) = 13
  <2>1. Joins(abc, ab, c)
    BY <1>7, <1>13, <1>16, Joined
  <2>2. QED
    BY <1>13, <1>16, <2>1 DEF Joins
<1>19. Names(abc, cmd)
  <2>1. \A i \in 1 .. Len(c) : c[i] \notin {LOGIN, KEEP_ALIVE, PASS_THROUGH}
    BY <1>13, <1>14 DEF LOGIN, KEEP_ALIVE, PASS_THROUGH
  <2>2. QED
    BY <1>7, <1>13, <1>16, <1>17, <2>1, NamesJoined
<1>20. abcd \in Seq(Byte) /\ Len(abcd) = 17
  <2>1. Joins(abcd, abc, d)
    BY <1>8, <1>15, <1>18, Joined
  <2>2. QED
    BY <1>15, <1>18, <2>1 DEF Joins
<1>21. Names(abcd, cmd)
  <2>1. \A i \in 1 .. Len(d) : d[i] = cmd /\ Len(abc) + i \in 2 .. 17
    BY <1>15, <1>18
  <2>2. QED
    BY <1>8, <1>15, <1>18, <1>19, <2>1, NamesJoined
<1>22. QED
  BY <1>10, <1>20, <1>21

LEMMA ReplyNames ==
  ASSUME NEW p \in Packets, p.cmd # PASS_THROUGH
  PROVE  Names(hip_mod_pack(p), p.cmd)
<1>1. p.cmd \in {LOGIN, KEEP_ALIVE}
  BY PacketFields
<1>2. LocalIp \in Seq(Byte) /\ Len(LocalIp) \in 7 .. 15
  BY HipAssumption
<1>3. PICK len : len = 2 + Len(LocalIp)
  OBVIOUS
<1>4. len \in 9 .. 17
  <2>1. \A n \in 7 .. 15 : 2 + n \in 9 .. 17
    OBVIOUS
  <2>2. QED
    BY <1>2, <1>3, <2>1
<1>5. PICK h : h = Head17(p.cmd, len)
  OBVIOUS
<1>6. Names(h, p.cmd) /\ h \in Seq(Byte) /\ Len(h) = 17
  BY <1>1, <1>4, <1>5, HeadNames
<1>7. PICK t : t = <<250, 99>>
  OBVIOUS
<1>8. t \in Seq(Byte) /\ Len(t) = 2 /\ \A i \in 1 .. 2 : t[i] \notin {2, 3, 7}
  BY <1>7 DEF Byte
<1>9. PICK u : u = h \o t
  OBVIOUS
<1>10. u \in Seq(Byte) /\ Len(u) = 19
  <2>1. Joins(u, h, t)
    BY <1>6, <1>8, <1>9, Joined
  <2>2. QED
    BY <1>6, <1>8, <2>1 DEF Joins
<1>11. Names(u, p.cmd)
  <2>1. \A i \in 1 .. Len(t) : t[i] \notin {LOGIN, KEEP_ALIVE, PASS_THROUGH}
    BY <1>8 DEF LOGIN, KEEP_ALIVE, PASS_THROUGH
  <2>2. QED
    BY <1>6, <1>8, <1>9, <2>1, NamesJoined
<1>12. PICK v : v = u \o LocalIp
  OBVIOUS
<1>13. Names(v, p.cmd)
  <2>1. \A i \in 1 .. Len(LocalIp) : LocalIp[i] \notin {2, 3, 7}
    <3>1. \A n \in {46} \cup 48 .. 57 : n \notin {2, 3, 7}
      OBVIOUS
    <3>2. QED
      BY <3>1, AnswerAssumption
  <2>2. \A i \in 1 .. Len(LocalIp) : LocalIp[i] \notin {LOGIN, KEEP_ALIVE, PASS_THROUGH}
    BY <2>1 DEF LOGIN, KEEP_ALIVE, PASS_THROUGH
  <2>3. QED
    BY <1>2, <1>10, <1>11, <1>12, <2>2, NamesJoined
<1>14. hip_pack_tcp_data(p) = v
  BY <1>3, <1>5, <1>7, <1>9, <1>12, Zenon DEF hip_pack_tcp_data
<1>15. v \in Seq(Byte) /\ Len(v) = 19 + Len(LocalIp) /\ Len(v) \in Nat
  <2>1. Joins(v, u, LocalIp)
    BY <1>2, <1>10, <1>12, Joined
  <2>2. v \in Seq(Byte) /\ Len(v) = 19 + Len(LocalIp)
    BY <1>10, <2>1 DEF Joins
  <2>3. QED
    BY <2>2, LenProperties
<1>16. PICK n : n = BYTE_PACK_HEAD_SIZE + BitOr(v[3], v[4])
  OBVIOUS
<1>17. hip_mod_pack(p) = SubSeq(v, 1, n)
  BY <1>1, <1>14, <1>16 DEF hip_mod_pack
<1>18. PICK w : w = hip_mod_pack(p)
  OBVIOUS
<1>19. w = v
  <2>1. Len(w) = 17 + Size(p) /\ Size(p) = len /\ w \in Seq(Byte)
    BY <1>1, <1>3, <1>18, PackBytes DEF Size, Heads
  <2>2. Len(v) = 17 + len
    <3>1. \A m \in 7 .. 15 : 19 + m = 17 + (2 + m)
      OBVIOUS
    <3>2. QED
      BY <1>2, <1>3, <1>15, <3>1
  <2>3. n = Len(v)
    <3>1. Heads(v, p.cmd, 0, len)
      <4>1. p.cmd \in Byte /\ len \in Nat /\ len \div 256 = 0 /\ len % 256 = len
        BY <1>1, <1>4 DEF LOGIN, KEEP_ALIVE, Byte
      <4>2. Heads(h, p.cmd, 0, len)
        BY <1>5, <4>1, HeadBytes
      <4>3. QED
        BY <1>2, <1>6, <1>8, <1>9, <1>10, <1>12, <4>2, HeadsJoined
    <3>2. len \in Byte
      BY <1>4 DEF Byte
    <3>3. BitOr(v[3], v[4]) = len
      BY <3>1, <3>2, BitOrZero DEF Heads
    <3>4. QED
      BY <1>16, <2>2, <3>3, Constants
  <2>4. SubSeq(v, 1, Len(v)) = v
    BY <1>15, SubSeqProperties, SeqEqual
  <2>5. QED
    BY <1>17, <1>18, <2>3, <2>4
<1>20. QED
  BY <1>13, <1>18, <1>19

\* Where in a stream of replies a byte that could be a command is.
Locates(s, n) ==
  \A x \in 1 .. Len(Slice(s, 0, n)) :
    Slice(s, 0, n)[x] \in {LOGIN, KEEP_ALIVE, PASS_THROUGH} =>
      \E k \in 1 .. n : /\ s[k].cmd = Slice(s, 0, n)[x]
                        /\ x - Len(Slice(s, 0, k - 1)) \in 2 .. 17

LEMMA StreamLocates ==
  ASSUME NEW s \in Seq(Packets), \A i \in 1 .. Len(s) : s[i].cmd # PASS_THROUGH
  PROVE  \A n \in Nat : n <= Len(s) => Locates(s, n)
<1> DEFINE S == {n \in Nat : n <= Len(s) => Locates(s, n)}
<1>1. Len(s) \in Nat
  BY LenProperties
<1>2. 0 \in S
  <2>1. Slice(s, 0, 0) = <<>>
    BY <1>1, SliceBytes
  <2>2. Len(Slice(s, 0, 0)) = 0
    BY <2>1
  <2>3. \A x : x \notin 1 .. 0
    OBVIOUS
  <2>4. Locates(s, 0)
    BY <2>2, <2>3, Zenon DEF Locates
  <2>5. QED
    BY <2>4
<1>3. ASSUME NEW n \in Nat, n \in S PROVE n + 1 \in S
  <2> SUFFICES ASSUME n + 1 <= Len(s) PROVE Locates(s, n + 1)
    OBVIOUS
  <2>1. n <= Len(s) /\ n < Len(s) /\ n + 1 \in 1 .. Len(s) /\ n + 1 \in Nat /\ 0 <= n
    BY <1>1
  <2>2. Locates(s, n)
    BY <1>3, <2>1
  <2>3. PICK p : p = s[n + 1]
    OBVIOUS
  <2>4. p \in Packets /\ p.cmd # PASS_THROUGH
    BY <2>1, <2>3, ElementOfSeq
  <2>5. PICK u, v, w : u = Slice(s, 0, n) /\ v = hip_mod_pack(p) /\ w = Slice(s, 0, n + 1)
    OBVIOUS
  <2>6. w = u \o v
    BY <2>1, <2>3, <2>5, SliceNext
  <2>7. Names(v, p.cmd) /\ v \in Seq(Byte)
    BY <2>4, <2>5, ReplyNames, PackBytes DEF Heads
  <2>8. u \in Seq(Byte)
    BY <2>1, <2>5, SliceBytes
  <2>9. Joins(w, u, v)
    BY <2>6, <2>7, <2>8, Joined
  <2>10. Len(u) \in Nat /\ Len(v) \in Nat /\ Len(w) = Len(u) + Len(v)
    BY <2>7, <2>8, <2>9, LenProperties DEF Joins
  <2>11. ASSUME NEW x \in 1 .. Len(w), w[x] \in {LOGIN, KEEP_ALIVE, PASS_THROUGH}
         PROVE  \E k \in 1 .. n + 1 : s[k].cmd = w[x] /\ x - Len(Slice(s, 0, k - 1)) \in 2 .. 17
    <3>1. CASE x <= Len(u)
      <4>1. x \in 1 .. Len(u)
        BY <2>10, <3>1
      <4>2. w[x] = u[x]
        BY <2>9, <4>1 DEF Joins
      <4>3. PICK k \in 1 .. n : s[k].cmd = u[x] /\ x - Len(Slice(s, 0, k - 1)) \in 2 .. 17
        BY <2>2, <2>5, <2>11, <4>1, <4>2 DEF Locates
      <4>4. k \in 1 .. n + 1
        OBVIOUS
      <4>5. QED
        BY <4>2, <4>3, <4>4
    <3>2. CASE ~(x <= Len(u))
      <4>1. PICK i : i = x - Len(u)
        OBVIOUS
      <4>2. i \in 1 .. Len(v) /\ Len(u) + i = x
        BY <2>10, <3>2, <4>1
      <4>3. w[x] = v[i]
        BY <2>9, <4>2 DEF Joins
      <4>4. i \in 2 .. 17 /\ v[i] = p.cmd
        BY <2>7, <2>11, <4>2, <4>3 DEF Names
      <4>5. PICK k : k = n + 1
        OBVIOUS
      <4>6. k \in 1 .. n + 1 /\ k - 1 = n
        BY <4>5
      <4>7. s[k].cmd = w[x] /\ x - Len(Slice(s, 0, k - 1)) \in 2 .. 17
        BY <2>3, <2>5, <4>1, <4>3, <4>4, <4>5, <4>6
      <4>8. QED
        BY <4>6, <4>7
    <3>3. QED
      BY <3>1, <3>2
  <2>12. QED
    BY <2>5, <2>11 DEF Locates
<1>4. \A n \in Nat : n \in S
  <2> HIDE DEF S
  <2> QED
    BY <1>2, <1>3, SetInduction
<1>5. QED
  BY <1>4

LEMMA StreamIsSlice ==
  ASSUME NEW s \in Seq(Packets)
  PROVE  Stream(s) = Slice(s, 0, Len(s)) /\ Stream(s) \in Seq(Byte) /\ Len(Stream(s)) \in Nat
<1>1. Len(s) \in Nat /\ 0 + 1 = 1
  BY LenProperties
<1>2. SubSeq(s, 1, Len(s)) = s
  BY <1>1, SubSeqProperties, SeqEqual
<1>3. Stream(s) = Slice(s, 0, Len(s))
  BY <1>1, <1>2 DEF Slice
<1>4. QED
  BY <1>1, <1>3, SliceBytes

Placed(O, h, s) ==
  \E place \in [O -> 1 .. Len(s)] :
    /\ \A i \in O : h[i].cmd = s[place[i]].cmd
    /\ \A i, k \in O : i < k => place[i] < place[k]

\* A command that was found where FoundIn says was sent.
LEMMA FoundWasSent ==
  ASSUME NEW s \in Seq(Packets), \A i \in 1 .. Len(s) : s[i].cmd # PASS_THROUGH,
         NEW h \in Seq(Command), NEW lo \in Nat, lo <= Len(Stream(s)), FoundIn(h, Stream(s), lo),
         NEW O, O = {i \in DOMAIN h : h[i].cmd \in {LOGIN, KEEP_ALIVE, PASS_THROUGH}}
  PROVE  Placed(O, h, s)
<1>1. PICK w, m : w = Stream(s) /\ m = Len(s)
  OBVIOUS
<1>2. w = Slice(s, 0, m) /\ w \in Seq(Byte) /\ Len(w) \in Nat /\ m \in Nat /\ lo <= Len(w)
  BY <1>1, StreamIsSlice, LenProperties
<1>3. Locates(s, m)
  BY <1>1, <1>2, StreamLocates
<1>4. PICK at \in [1 .. Len(h) -> Nat] :
        /\ \A i \in 1 .. Len(h) : h[i].cmd = w[at[i]] /\ at[i] > 0 /\ at[i] + 15 <= lo
        /\ \A i, k \in 1 .. Len(h) : i < k => at[i] + 17 <= at[k]
  BY <1>1 DEF FoundIn
<1>5. PICK L : L = [k \in 0 .. m |-> Len(Slice(s, 0, k))]
  OBVIOUS
<1>6. \A k \in 1 .. m : k - 1 \in 0 .. m /\ L[k - 1] = Len(Slice(s, 0, k - 1))
  BY <1>2, <1>5
<1>7. \A k \in 0 .. m : L[k] \in Nat
  <2> TAKE k \in 0 .. m
  <2>1. L[k] = Len(Slice(s, 0, k))
    BY <1>5
  <2>2. k \in Nat /\ k <= Len(s)
    BY <1>1, <1>2
  <2>3. QED
    BY <2>1, <2>2, SliceBytes
<1>8. ASSUME NEW i \in 0 .. m, NEW k \in 0 .. m, i <= k
      PROVE  L[i] <= L[k]
  <2>1. i \in Nat /\ k \in Nat /\ 0 <= i /\ k <= Len(s) /\ 0 \in Nat
    BY <1>1, <1>2
  <2>2. Adds(s, 0, i, k)
    BY <1>8, <2>1, SliceAdds
  <2>3. L[i] = Len(Slice(s, 0, i)) /\ L[k] = Len(Slice(s, 0, k))
    BY <1>5
  <2>4. QED
    BY <2>2, <2>3 DEF Adds
<1>9. DOMAIN h = 1 .. Len(h)
  OBVIOUS
<1>10. \A i \in O : /\ i \in 1 .. Len(h)
                    /\ h[i].cmd \in {LOGIN, KEEP_ALIVE, PASS_THROUGH}
  BY <1>9
<1>11. ASSUME NEW i \in O
       PROVE  \E k \in 1 .. m : s[k].cmd = h[i].cmd /\ at[i] - L[k - 1] \in 2 .. 17
  <2>1. at[i] \in Nat /\ at[i] > 0 /\ at[i] + 15 <= lo /\ h[i].cmd = w[at[i]]
    BY <1>4, <1>10
  <2>2. at[i] \in 1 .. Len(w)
    BY <1>2, <2>1
  <2>3. PICK k \in 1 .. m : s[k].cmd = w[at[i]] /\ at[i] - Len(Slice(s, 0, k - 1)) \in 2 .. 17
    BY <1>2, <1>3, <1>10, <2>1, <2>2 DEF Locates
  <2>4. QED
    BY <1>6, <2>1, <2>3
<1>12. PICK place : place = [i \in O |-> CHOOSE k \in 1 .. m :
                               s[k].cmd = h[i].cmd /\ at[i] - L[k - 1] \in 2 .. 17]
  OBVIOUS
<1>13. ASSUME NEW i \in O
       PROVE  place[i] \in 1 .. m /\ s[place[i]].cmd = h[i].cmd /\ at[i] - L[place[i] - 1] \in 2 .. 17
  BY <1>11, <1>12
<1>14. place \in [O -> 1 .. m]
  BY <1>12, <1>13
<1>15. ASSUME NEW i \in O, NEW k \in O, i < k
       PROVE  place[i] < place[k]
  <2>1. PICK a, b : a = place[i] /\ b = place[k]
    OBVIOUS
  <2>2. a \in 1 .. m /\ b \in 1 .. m /\ at[i] - L[a - 1] \in 2 .. 17 /\ at[k] - L[b - 1] \in 2 .. 17
    BY <1>13, <2>1
  <2>3. at[i] + 17 <= at[k] /\ at[i] \in Nat /\ at[k] \in Nat
    BY <1>4, <1>10, <1>15
  <2>4. SUFFICES ASSUME b <= a PROVE FALSE
    BY <1>2, <2>1, <2>2
  <2>5. a - 1 \in 0 .. m /\ b - 1 \in 0 .. m /\ b - 1 <= a - 1
    BY <1>2, <2>2, <2>4
  <2>6. L[b - 1] <= L[a - 1] /\ L[a - 1] \in Nat /\ L[b - 1] \in Nat
    BY <1>7, <1>8, <2>5
  <2>7. PICK x, y : x = L[a - 1] /\ y = L[b - 1]
    OBVIOUS
  <2>8. PICK c, d : c = at[i] /\ d = at[k]
    OBVIOUS
  <2>9. c - x \in 2 .. 17 /\ d - y \in 2 .. 17
    BY <2>1, <2>2, <2>7, <2>8
  <2>10. x \in Nat /\ y \in Nat /\ y <= x /\ c \in Nat /\ d \in Nat /\ c + 17 <= d
    BY <2>3, <2>6, <2>7, <2>8
  <2>11. \A n \in 2 .. 17 : n >= 2 /\ n <= 17
    OBVIOUS
  <2>12. c - x >= 2 /\ d - y <= 17
    BY <2>9, <2>11
  <2>13. QED
    BY <2>10, <2>12
<1>16. QED
  BY <1>1, <1>13, <1>14, <1>15 DEF Placed

LEMMA Dropped ==
  ASSUME NEW s \in Seq(Byte), NEW n \in Nat, n <= Len(s)
  PROVE  /\ Drop(s, n) \in Seq(Byte) /\ Len(Drop(s, n)) = Len(s) - n
         /\ \A i \in 1 .. Len(s) - n : Drop(s, n)[i] = s[n + i]
<1>1. Len(s) \in Nat
  BY LenProperties
<1>2. Parts(s, n)
  BY Parted
<1>3. PICK h, d : h = SubSeq(s, 1, n) /\ d = Drop(s, n)
  OBVIOUS
<1>4. /\ h \in Seq(Byte) /\ Len(h) = n /\ d \in Seq(Byte) /\ Len(d) = Len(s) - n
      /\ h \o d = s
  BY <1>2, <1>3 DEF Parts
<1>5. Joins(s, h, d)
  BY <1>4, Joined
<1>6. \A i \in 1 .. Len(s) - n : d[i] = s[n + i]
  BY <1>4, <1>5 DEF Joins
<1>7. QED
  BY <1>3, <1>4, <1>6

LEMMA DropTwice ==
  ASSUME NEW s \in Seq(Byte), NEW k \in Nat, NEW n \in Nat, k + n <= Len(s)
  PROVE  Drop(Drop(s, k), n) = Drop(s, k + n)
<1>1. Len(s) \in Nat /\ k <= Len(s) /\ k + n \in Nat
  BY LenProperties
<1>2. PICK u, v, w : u = Drop(s, k) /\ v = Drop(u, n) /\ w = Drop(s, k + n)
  OBVIOUS
<1>3. u \in Seq(Byte) /\ Len(u) = Len(s) - k /\ \A i \in 1 .. Len(s) - k : u[i] = s[k + i]
  BY <1>1, <1>2, Dropped
<1>4. n <= Len(u)
  BY <1>1, <1>3
<1>5. v \in Seq(Byte) /\ Len(v) = Len(u) - n /\ \A i \in 1 .. Len(u) - n : v[i] = u[n + i]
  BY <1>2, <1>3, <1>4, Dropped
<1>6. /\ w \in Seq(Byte) /\ Len(w) = Len(s) - (k + n)
      /\ \A i \in 1 .. Len(s) - (k + n) : w[i] = s[k + n + i]
  BY <1>1, <1>2, Dropped
<1>7. Len(v) = Len(w) /\ Len(u) - n = Len(s) - (k + n)
  BY <1>1, <1>3, <1>5, <1>6
<1>8. ASSUME NEW i \in 1 .. Len(v) PROVE v[i] = w[i]
  <2>1. i \in 1 .. Len(s) - (k + n) /\ n + i \in 1 .. Len(s) - k /\ k + (n + i) = k + n + i
    BY <1>1, <1>5, <1>7
  <2>2. v[i] = u[n + i] /\ u[n + i] = s[k + (n + i)] /\ w[i] = s[k + n + i]
    BY <1>3, <1>5, <1>6, <1>7, <2>1
  <2>3. QED
    BY <2>1, <2>2
<1>9. v = w
  BY <1>5, <1>6, <1>7, <1>8, SeqEqual
<1>10. QED
  BY <1>2, <1>9

LEMMA DropFront ==
  ASSUME NEW s \in Seq(Byte), NEW t \in Seq(Byte)
  PROVE  Drop(s \o t, Len(s)) = t
<1>1. PICK u : u = s \o t
  OBVIOUS
<1>2. Joins(u, s, t)
  BY <1>1, Joined
<1>3. Len(s) \in Nat /\ Len(t) \in Nat
  BY LenProperties
<1>4. u \in Seq(Byte) /\ Len(u) - Len(s) = Len(t) /\ Len(s) <= Len(u)
  BY <1>2, <1>3 DEF Joins
<1>5. PICK v : v = Drop(u, Len(s))
  OBVIOUS
<1>6. v \in Seq(Byte) /\ Len(v) = Len(t) /\ \A i \in 1 .. Len(t) : v[i] = u[Len(s) + i]
  <2>1. PICK n : n = Len(s)
    OBVIOUS
  <2>2. n \in Nat /\ n <= Len(u) /\ v = Drop(u, n)
    BY <1>3, <1>4, <1>5, <2>1
  <2>3. v \in Seq(Byte) /\ Len(v) = Len(u) - n /\ \A i \in 1 .. Len(u) - n : v[i] = u[n + i]
    BY <1>4, <2>2, Dropped
  <2>4. QED
    BY <1>4, <2>1, <2>3
<1>7. \A i \in 1 .. Len(v) : v[i] = t[i]
  BY <1>2, <1>6 DEF Joins
<1>8. v = t
  BY <1>6, <1>7, SeqEqual
<1>9. QED
  BY <1>1, <1>5, <1>8

\* Bytes taken from the fifo are the next of those on the way.
LEMMA DropJoin ==
  ASSUME NEW s \in Seq(Byte), NEW t \in Seq(Byte), NEW n \in Nat, n <= Len(s)
  PROVE  Drop(s \o t, n) = Drop(s, n) \o t
<1>1. PICK h, d : h = SubSeq(s, 1, n) /\ d = Drop(s, n)
  OBVIOUS
<1>2. Parts(s, n)
  BY Parted
<1>3. h \in Seq(Byte) /\ Len(h) = n /\ d \in Seq(Byte)
  BY <1>1, <1>2 DEF Parts
<1>4. h \o d = s
  BY <1>1, <1>2 DEF Parts
<1>5. PICK u : u = d \o t
  OBVIOUS
<1>6. u \in Seq(Byte)
  BY <1>3, <1>5, ConcatProperties
<1>7. (h \o d) \o t = h \o u
  BY <1>3, <1>5, Associates, ZenonT(60)
<1>8. Drop(h \o u, n) = u
  <2>1. Drop(h \o u, Len(h)) = u
    BY <1>3, <1>6, DropFront
  <2>2. QED
    BY <1>3, <2>1
<1>9. s \o t = h \o u
  BY <1>4, <1>7
<1>10. QED
  BY <1>1, <1>5, <1>8, <1>9, Zenon

\* recv returns n bytes, and they are put into the fifo, or not.
LEMMA LostReceives ==
  ASSUME NEW s \in Seq(Byte), NEW w \in Seq(Byte), NEW h, NEW r, NEW n \in Nat, n <= Len(r),
         Lost(w, h, r, s)
  PROVE  Lost(w \o SubSeq(r, 1, n), h, Drop(r, n), s) /\ Lost(w, h, Drop(r, n), s)
<1>1. Len(s) \in Nat
  BY LenProperties
<1>2. PICK lo \in 0 .. Len(s), hi \in 0 .. Len(s) :
        lo <= hi /\ r = Drop(s, hi) /\ Scattered(w, s, lo, hi) /\ FoundIn(h, s, lo)
  BY DEF Lost
<1>3. lo \in Nat /\ hi \in Nat /\ hi <= Len(s)
  BY <1>1
<1>4. /\ r \in Seq(Byte) /\ Len(r) = Len(s) - hi
      /\ \A i \in 1 .. Len(s) - hi : r[i] = s[hi + i]
  BY <1>2, <1>3, Dropped
<1>5. PICK v : v = SubSeq(r, 1, n)
  OBVIOUS
<1>6. v \in Seq(Byte) /\ Len(v) = n /\ \A i \in 1 .. n : v[i] = r[i]
  BY <1>4, <1>5, Parted DEF Parts
<1>7. PICK to : to = hi + n
  OBVIOUS
<1>8. to \in 0 .. Len(s) /\ lo <= to /\ hi + n <= Len(s)
  BY <1>1, <1>2, <1>3, <1>4, <1>7
<1>9. Drop(r, n) = Drop(s, to)
  BY <1>2, <1>3, <1>7, <1>8, DropTwice
<1>10. \A i \in 1 .. n : v[i] = s[hi + i]
  <2> TAKE i \in 1 .. n
  <2>1. i \in 1 .. Len(s) - hi
    BY <1>1, <1>3, <1>8
  <2>2. QED
    BY <2>1, <1>4, <1>6
<1>11. Scattered(w \o v, s, lo, to)
  BY <1>2, <1>3, <1>6, <1>7, <1>10, ScatteredMore
<1>12. Scattered(w, s, lo, to)
  BY <1>2, <1>3, <1>7, ScatteredPast
<1>13. QED
  BY <1>2, <1>5, <1>8, <1>9, <1>11, <1>12 DEF Lost

\* The reader takes n bytes, and finds a command in the second of them when
\* they are a header and more.
LEMMA LostReads ==
  ASSUME NEW s \in Seq(Byte), NEW w \in Seq(Byte), NEW h \in Seq(Command), NEW r,
         NEW n \in Nat, n <= Len(w), Lost(w, h, r, s)
  PROVE  /\ Lost(Drop(w, n), h, r, s)
         /\ n >= 17 => \A c \in Command : c.cmd = w[2] => Lost(Drop(w, n), Append(h, c), r, s)
<1>1. Len(s) \in Nat
  BY LenProperties
<1>2. PICK lo \in 0 .. Len(s), hi \in 0 .. Len(s) :
        lo <= hi /\ r = Drop(s, hi) /\ Scattered(w, s, lo, hi) /\ FoundIn(h, s, lo)
  BY DEF Lost
<1>3. lo \in Nat /\ hi \in Nat /\ hi <= Len(s)
  BY <1>1
<1>4. /\ Scattered(Drop(w, n), s, lo, hi)
      /\ n >= 17 => \E x \in Nat : /\ w[2] = s[x] /\ lo + 2 <= x /\ x + 15 <= hi
                                   /\ Scattered(Drop(w, n), s, x + 15, hi)
  BY <1>2, <1>3, ScatteredLess
<1>5. ASSUME n >= 17, NEW c \in Command, c.cmd = w[2]
      PROVE  Lost(Drop(w, n), Append(h, c), r, s)
  <2>1. PICK x \in Nat : /\ w[2] = s[x] /\ lo + 2 <= x /\ x + 15 <= hi
                         /\ Scattered(Drop(w, n), s, x + 15, hi)
    BY <1>4, <1>5
  <2>2. FoundIn(Append(h, c), s, x + 15)
    BY <1>2, <1>3, <1>5, <2>1, FoundOneMore
  <2>3. PICK to : to = x + 15
    OBVIOUS
  <2>4. to \in 0 .. Len(s) /\ to <= hi
    BY <1>1, <1>3, <2>1, <2>3
  <2>5. QED
    BY <1>2, <2>1, <2>2, <2>3, <2>4 DEF Lost
<1>6. Lost(Drop(w, n), h, r, s)
  BY <1>2, <1>4 DEF Lost
<1>7. QED
  BY <1>5, <1>6

LEMMA LostInit == Init => LostInv
<1> SUFFICES ASSUME Init, pipe = "client_recv"
             PROVE  /\ \A i \in 1 .. Len(sent[0]) : sent[0][i].cmd # PASS_THROUGH
                    /\ Lost(Part \o (fifo \o chunk), handled[0], net[0], Stream(sent[0]))
  BY DEF LostInv
<1>1. TypeInv /\ DOMAIN sent = {0} /\ sent[0] \in Seq(Packets)
  BY TypeInit, ClientTypes
<1>2. \A i \in 1 .. Len(sent[0]) : sent[0][i].cmd # PASS_THROUGH
  <2>1. sent \in Traffic["client_recv"]
    BY DEF Init
  <2>2. QED
    BY <2>1, AnswerAssumption
<1>3. PICK s : s = Stream(sent[0])
  OBVIOUS
<1>4. s \in Seq(Byte) /\ Len(s) \in Nat
  BY <1>1, <1>3, StreamIsSlice
<1>5. fifo = <<>> /\ chunk = <<>> /\ Part = <<>> /\ handled[0] = <<>> /\ net[0] = s
  BY <1>1, <1>3, IdleType DEF Init, Part
<1>6. Part \o (fifo \o chunk) = <<>>
  BY <1>5
<1>7. Drop(s, 0) = s
  <2>1. SubSeq(s, 1, Len(s)) = s
    BY <1>4, SubSeqProperties, SeqEqual
  <2>2. QED
    BY <2>1 DEF Drop
<1>8. Lost(<<>>, <<>>, s, s)
  <2>1. PICK z : z = 0
    OBVIOUS
  <2>2. z \in 0 .. Len(s) /\ z <= z /\ z \in Nat /\ s = Drop(s, z)
    BY <1>4, <1>7, <2>1
  <2>3. Scattered(<<>>, s, z, z) /\ FoundIn(<<>>, s, z)
    BY <2>2, ScatteredNone
  <2>4. QED
    BY <2>2, <2>3 DEF Lost
<1>9. QED
  BY <1>2, <1>3, <1>5, <1>6, <1>8

LEMMA LostTypes ==
  ASSUME TypeInv, pipe = "client_recv"
  PROVE  /\ DOMAIN sent = {0} /\ Stream(sent[0]) \in Seq(Byte)
         /\ net[0] \in Seq(Byte) /\ handled[0] \in Seq(Command)
         /\ fifo \in Seq(Byte) /\ chunk \in Seq(Byte) /\ Part \in Seq(Byte)
         /\ fifo \o chunk \in Seq(Byte) /\ Part \o (fifo \o chunk) \in Seq(Byte)
<1>1. /\ DOMAIN sent = {0} /\ sent[0] \in Seq(Packets)
      /\ net[0] \in Seq(Byte) /\ handled[0] \in Seq(Command)
      /\ fifo \in Seq(Byte) /\ chunk \in Seq(Byte)
  BY ClientTypes
<1>2. Stream(sent[0]) \in Seq(Byte)
  BY <1>1, StreamIsSlice
<1>3. Part \in Seq(Byte)
  <2>1. CASE handle.pc = "data"
    BY <2>1, AtWork DEF Part, HandleType
  <2>2. CASE handle.pc # "data"
    <3>1. Part = <<>>
      BY <2>2 DEF Part
    <3>2. QED
      BY <3>1
  <2>3. QED
    BY <2>1, <2>2
<1>4. fifo \o chunk \in Seq(Byte)
  BY <1>1, ConcatProperties
<1>5. Part \o (fifo \o chunk) \in Seq(Byte)
  BY <1>3, <1>4, ConcatProperties
<1>6. QED
  BY <1>1, <1>2, <1>3, <1>4, <1>5

LEMMA LostStill ==
  ASSUME LostInv, UNCHANGED <<pipe, sent, net, handled>>,
         Part' \o (fifo' \o chunk') = Part \o (fifo \o chunk)
  PROVE  LostInv'
<1>1. SUFFICES ASSUME pipe = "client_recv"
               PROVE  /\ \A i \in 1 .. Len(sent'[0]) : sent'[0][i].cmd # PASS_THROUGH
                      /\ Lost(Part' \o (fifo' \o chunk'), handled'[0], net'[0], Stream(sent'[0]))
  BY DEF LostInv
<1>2. QED
  BY <1>1 DEF LostInv

\* The reader takes n bytes of the fifo and handles nothing.
LEMMA LostSkips ==
  ASSUME TypeInv, LostInv, UNCHANGED <<pipe, sent, net, chunk, handled>>,
         NEW n \in Nat, n <= Len(fifo), fifo' = Drop(fifo, n), Part = <<>>, Part' = <<>>
  PROVE  LostInv'
<1> SUFFICES ASSUME pipe = "client_recv"
             PROVE  /\ \A i \in 1 .. Len(sent[0]) : sent[0][i].cmd # PASS_THROUGH
                    /\ Lost(Part' \o (fifo' \o chunk), handled[0], net[0], Stream(sent[0]))
  BY DEF LostInv
<1>1. /\ Stream(sent[0]) \in Seq(Byte) /\ handled[0] \in Seq(Command)
      /\ fifo \in Seq(Byte) /\ chunk \in Seq(Byte)
  BY LostTypes
<1>2. PICK w : w = fifo \o chunk
  OBVIOUS
<1>3. w \in Seq(Byte) /\ n <= Len(w)
  <2>1. Joins(w, fifo, chunk)
    BY <1>1, <1>2, Joined
  <2>2. Len(fifo) \in Nat /\ Len(chunk) \in Nat
    BY <1>1, LenProperties
  <2>3. QED
    BY <2>1, <2>2 DEF Joins
<1>4. Part \o (fifo \o chunk) = w
  BY <1>2, <1>3, ConcatEmptySeq
<1>5. Lost(w, handled[0], net[0], Stream(sent[0]))
  BY <1>4 DEF LostInv
<1>6. Lost(Drop(w, n), handled[0], net[0], Stream(sent[0]))
  BY <1>1, <1>3, <1>5, LostReads
<1>7. Drop(w, n) = fifo' \o chunk
  BY <1>1, <1>2, DropJoin
<1>8. Drop(w, n) \in Seq(Byte)
  BY <1>3, Dropped
<1>9. Part' \o (fifo' \o chunk) = Drop(w, n)
  BY <1>7, <1>8, ConcatEmptySeq
<1>10. QED
  BY <1>6, <1>9 DEF LostInv

LEMMA LostClientRecv ==
  ASSUME TypeInv, LostInv, NEW n \in ChunkSizes, ClientRecv(n)
  PROVE  LostInv'
<1>1. /\ pipe = "client_recv" /\ chunk = <<>> /\ n <= Len(net[0])
      /\ UNCHANGED <<pipe, sent, fifo, handle, handled>>
  BY DEF ClientRecv
<1>2. n \in Nat
  BY Constants
<1>3. /\ DOMAIN sent = {0} /\ Stream(sent[0]) \in Seq(Byte) /\ handled[0] \in Seq(Command)
      /\ fifo \in Seq(Byte) /\ Part \in Seq(Byte) /\ net[0] \in Seq(Byte)
  BY <1>1, LostTypes
<1>4. 0 \in DOMAIN net
  BY <1>1 DEF TypeInv, Connections
<1>5. net'[0] = Drop(net[0], n)
  BY <1>4 DEF ClientRecv
<1>6. PICK w : w = Part \o fifo
  OBVIOUS
<1>7. w \in Seq(Byte)
  BY <1>3, <1>6, ConcatProperties
<1>8. Part \o (fifo \o chunk) = w
  BY <1>1, <1>3, <1>6, ConcatEmptySeq
<1>9. PICK s : s = Stream(sent[0])
  OBVIOUS
<1>10. Lost(w, handled[0], net[0], s)
  BY <1>1, <1>8, <1>9 DEF LostInv
<1>11. PICK v : v = SubSeq(net[0], 1, n)
  OBVIOUS
<1>12. v \in Seq(Byte)
  BY <1>1, <1>2, <1>3, <1>11, Parted DEF Parts
<1>13. Lost(w \o v, handled[0], net'[0], s) /\ Lost(w, handled[0], net'[0], s)
  BY <1>1, <1>2, <1>3, <1>5, <1>7, <1>9, <1>10, <1>11, LostReceives
<1>14. Part' = Part
  BY <1>1 DEF Part
<1>15. CASE n <= Writeable
  <2>1. chunk' = v
    BY <1>11, <1>15 DEF ClientRecv
  <2>2. (Part \o fifo) \o v = Part \o (fifo \o v)
    BY <1>3, <1>12, Associates, ZenonT(60)
  <2>3. Part' \o (fifo' \o chunk') = w \o v
    BY <1>1, <1>6, <1>14, <2>1, <2>2
  <2>4. QED
    BY <1>1, <1>9, <1>13, <2>3 DEF LostInv
<1>16. CASE ~(n <= Writeable)
  <2>1. chunk' = chunk
    BY <1>16 DEF ClientRecv
  <2>2. Part' \o (fifo' \o chunk') = w
    BY <1>1, <1>8, <1>14, <2>1
  <2>3. QED
    BY <1>1, <1>9, <1>13, <2>2 DEF LostInv
<1>17. QED
  BY <1>15, <1>16

LEMMA LostWriteStep ==
  ASSUME TypeInv, LostInv, WriteStep
  PROVE  LostInv'
<1>1. UNCHANGED <<pipe, sent, net, handle, handled>>
  BY DEF WriteStep, ServerRoom, Store
<1>2. fifo' \o chunk' = fifo \o chunk
  <2>1. CASE ServerRoom
    BY <2>1 DEF ServerRoom
  <2>2. CASE Store
    <3>1. fifo \in Seq(Byte) /\ chunk \in Seq(Byte)
      BY DEF TypeInv, Room
    <3>2. QED
      BY <2>2, <3>1, Stores DEF Store
  <2>3. QED
    BY <2>1, <2>2 DEF WriteStep
<1>3. Part' = Part
  BY <1>1 DEF Part
<1>4. QED
  BY <1>1, <1>2, <1>3, LostStill

LEMMA LostServerTake ==
  ASSUME TypeInv, LostInv, ServerTake
  PROVE  LostInv'
<1>1. handle.pc = "fd" /\ 5 <= Len(fifo) /\ fifo' = Drop(fifo, 5)
      /\ UNCHANGED <<pipe, sent, net, chunk, handled>>
  BY LenProperties DEF ServerTake, TypeInv, Room
<1>2. handle \in HandleType
  BY <1>1, AtWork
<1>3. handle'.pc = "head"
  BY <1>2 DEF ServerTake, HandleType
<1>4. Part = <<>> /\ Part' = <<>>
  BY <1>1, <1>3 DEF Part
<1>5. QED
  BY <1>1, <1>4, LostSkips

LEMMA LostTakeHead ==
  ASSUME TypeInv, LostInv, TakeHead
  PROVE  LostInv'
<1>1. handle.pc = "head" /\ 17 <= Len(fifo) /\ fifo' = Drop(fifo, 17)
      /\ UNCHANGED <<pipe, sent, net, chunk, handled>>
  BY Constants, LenProperties DEF TakeHead, TypeInv, Room
<1>2. handle \in HandleType
  BY <1>1, AtWork
<1>3. Part = <<>>
  BY <1>1 DEF Part
<1>4. CASE Len(handle.packs) = PackSlots
  <2>1. Part' = <<>>
    <3>1. handle' = Overrun
      BY <1>4 DEF TakeHead
    <3>2. handle'.pc # "data"
      BY <3>1 DEF Overrun
    <3>3. QED
      BY <3>2 DEF Part
  <2>2. QED
    BY <1>1, <1>3, <2>1, LostSkips
<1>5. CASE Len(handle.packs) # PackSlots
  <2>1. PICK h, d : h = SubSeq(fifo, 1, 17) /\ d = Drop(fifo, 17)
    OBVIOUS
  <2>2. handle'.pc = "data" /\ handle'.head = h
    BY <1>2, <1>5, <2>1, Constants DEF TakeHead, HandleType
  <2>3. Part' = h
    BY <2>2 DEF Part
  <2>4. fifo \in Seq(Byte) /\ chunk \in Seq(Byte)
    BY DEF TypeInv, Room
  <2>5. Parts(fifo, 17)
    BY <1>1, <2>4, Parted
  <2>6. h \in Seq(Byte) /\ d \in Seq(Byte) /\ h \o d = fifo
    BY <2>1, <2>5 DEF Parts
  <2>7. (h \o d) \o chunk = h \o (d \o chunk)
    BY <2>4, <2>6, Associates, ZenonT(60)
  <2>8. fifo \o chunk \in Seq(Byte)
    BY <2>4, ConcatProperties
  <2>9. Part \o (fifo \o chunk) = fifo \o chunk
    BY <1>3, <2>8, ConcatEmptySeq
  <2>10. Part' \o (fifo' \o chunk') = Part \o (fifo \o chunk)
    BY <1>1, <2>1, <2>3, <2>6, <2>7, <2>9
  <2>11. QED
    BY <1>1, <2>10, LostStill
<1>6. QED
  BY <1>4, <1>5

LEMMA LostClientData ==
  ASSUME TypeInv, LostInv, ClientData
  PROVE  LostInv'
<1>1. pipe = "client_recv" /\ handle.pc = "data" /\ UNCHANGED <<pipe, sent, net, chunk>>
  BY DEF ClientData
<1>2. PICK n : n = Min({Len(fifo), LengthOred})
  OBVIOUS
<1>3. LengthOred \in Nat /\ Len(fifo) \in Nat
  BY <1>1, AtWork, LenProperties DEF TypeInv, Room
<1>4. n \in Nat /\ n <= Len(fifo)
  BY <1>2, <1>3, MinOfTwo
<1>5. PICK h : h = handle.head
  OBVIOUS
<1>6. h \in Seq(Byte) /\ Len(h) = 17 /\ h[2] \in Byte
  BY <1>1, <1>5, AtWork DEF HandleType
<1>7. /\ Stream(sent[0]) \in Seq(Byte) /\ handled[0] \in Seq(Command)
      /\ fifo \in Seq(Byte) /\ chunk \in Seq(Byte)
  BY <1>1, LostTypes
<1>8. PICK x, w : x = fifo \o chunk /\ w = h \o x
  OBVIOUS
<1>9. x \in Seq(Byte) /\ n <= Len(x)
  <2>1. Joins(x, fifo, chunk)
    BY <1>7, <1>8, Joined
  <2>2. Len(chunk) \in Nat
    BY <1>7, LenProperties
  <2>3. QED
    BY <1>3, <1>4, <2>1, <2>2 DEF Joins
<1>10. Joins(w, h, x)
  BY <1>6, <1>8, <1>9, Joined
<1>11. w \in Seq(Byte) /\ 17 + n <= Len(w) /\ w[2] = h[2] /\ 17 + n \in Nat /\ 17 + n >= 17
  BY <1>4, <1>6, <1>9, <1>10, LenProperties DEF Joins
<1>12. Part \o (fifo \o chunk) = w
  BY <1>1, <1>5, <1>8 DEF Part
<1>13. PICK y : y = Drop(w, 17 + n)
  OBVIOUS
<1>14. y = Drop(fifo, n) \o chunk
  <2>1. Drop(w, 17) = x
    BY <1>6, <1>8, <1>9, DropFront
  <2>2. Drop(Drop(w, 17), n) = Drop(w, 17 + n)
    BY <1>4, <1>11, DropTwice
  <2>3. Drop(x, n) = Drop(fifo, n) \o chunk
    BY <1>4, <1>7, <1>8, DropJoin
  <2>4. QED
    BY <1>13, <2>1, <2>2, <2>3
<1>15. fifo' = Drop(fifo, n)
  BY <1>2 DEF ClientData
<1>16. handle'.pc # "data"
  BY <1>1, IdleType DEF ClientData, Overrun
<1>17. Part' \o (fifo' \o chunk') = y
  <2>1. Part' = <<>>
    BY <1>16 DEF Part
  <2>2. y \in Seq(Byte)
    BY <1>11, <1>13, Dropped
  <2>3. <<>> \o y = y
    BY <2>2, ConcatEmptySeq
  <2>4. QED
    BY <1>1, <1>14, <1>15, <2>1, <2>3
<1>18. PICK s : s = Stream(sent[0])
  OBVIOUS
<1>19. Lost(w, handled[0], net[0], s)
  BY <1>1, <1>12, <1>18 DEF LostInv
<1>20. /\ Lost(y, handled[0], net[0], s)
       /\ \A c \in Command : c.cmd = w[2] => Lost(y, Append(handled[0], c), net[0], s)
  BY <1>7, <1>11, <1>13, <1>18, <1>19, LostReads
<1>21. CASE BYTE_PACK_HEAD_SIZE + LengthOred > TEMP_BUF_SIZE
  <2>1. UNCHANGED handled
    BY <1>21 DEF ClientData
  <2>2. QED
    BY <1>1, <1>17, <1>18, <1>20, <2>1 DEF LostInv
<1>22. CASE ~(BYTE_PACK_HEAD_SIZE + LengthOred > TEMP_BUF_SIZE)
  <2>1. PICK c : c = [cmd |-> handle.head[2],
                      data |-> SubSeq(handle.head \o SubSeq(fifo, 1, n), 1,
                                      Min({LengthOred, BYTE_PACK_HEAD_SIZE + n}))]
    OBVIOUS
  <2>2. Handles(0, <<c>>)
    BY <1>2, <1>22, <2>1 DEF ClientData
  <2>3. c.cmd = w[2]
    BY <1>5, <1>11, <2>1
  <2>4. 0 \in DOMAIN handled
    BY <1>1 DEF TypeInv, Connections
  <2>5. handled'[0] = handled[0] \o <<c>>
    BY <2>2, <2>4 DEF Handles
  <2>6. c \in Command
    <3>1. handled'[0] \in Seq(Command)
      <4>1. TypeInv'
        BY TypeClientData
      <4>2. pipe' = "client_recv" /\ DOMAIN sent' = {0} /\ handled' \in [DOMAIN sent' -> Seq(Command)]
        BY <1>1, <4>1 DEF TypeInv, Connections
      <4>3. QED
        BY <4>2
    <3>2. PICK one, m : one = <<c>> /\ m = Len(handled[0])
      OBVIOUS
    <3>3. Len(one) = 1 /\ one[1] = c /\ m \in Nat
      BY <1>7, <3>2, LenProperties
    <3>4. PICK g : g = handled[0] \o one
      OBVIOUS
    <3>5. g \in Seq(Command) /\ Len(g) = m + 1 /\ g[m + 1] = c
      <4>1. handled[0] \in Seq(Command \cup {c}) /\ one \in Seq(Command \cup {c})
        BY <1>7, <3>2
      <4>2. /\ Len(g) = m + 1
            /\ \A i \in 1 .. m + 1 : g[i] = IF i <= m THEN handled[0][i] ELSE one[i - m]
        BY <3>2, <3>3, <3>4, <4>1, ConcatProperties
      <4>3. m + 1 \in 1 .. m + 1 /\ ~(m + 1 <= m) /\ (m + 1) - m = 1
        BY <3>3
      <4>4. QED
        BY <2>5, <3>1, <3>2, <3>3, <3>4, <4>2, <4>3
    <3>6. m + 1 \in 1 .. Len(g)
      BY <3>3, <3>5
    <3>7. g[m + 1] \in Command
      BY <3>5, <3>6, ElementOfSeq
    <3>8. QED
      BY <3>5, <3>7
  <2>7. handled'[0] = Append(handled[0], c)
    BY <1>7, <2>5, <2>6, AppendIsConcat
  <2>8. Lost(y, handled'[0], net[0], s)
    BY <1>20, <2>3, <2>6, <2>7
  <2>9. QED
    BY <1>1, <1>17, <1>18, <2>8 DEF LostInv
<1>23. QED
  BY <1>21, <1>22

LEMMA LostNext ==
  ASSUME TypeInv, LostInv, [Next]_vars
  PROVE  LostInv'
<1>1. ASSUME NEW p \in Packets, ClientSend(p) PROVE LostInv'
  BY <1>1 DEF ClientSend, LostInv
<1>2. ASSUME NEW n \in ChunkSizes, ClientRecv(n) PROVE LostInv'
  BY <1>2, LostClientRecv
<1>3. ASSUME NEW n \in ChunkSizes, NEW f \in DOMAIN sent, ServerRecv(f, n) PROVE LostInv'
  BY <1>3 DEF ServerRecv, LostInv
<1>4. CASE WriteStep
  BY <1>4, LostWriteStep
<1>5. CASE ServerTake
  BY <1>5, LostServerTake
<1>6. CASE TakeHead
  BY <1>6, LostTakeHead
<1>7. CASE ClientSendData
  BY <1>7 DEF ClientSendData, LostInv
<1>8. CASE ClientData
  BY <1>8, LostClientData
<1>9. CASE ServerData
  BY <1>9 DEF ServerData, LostInv
<1>10. CASE UNCHANGED vars
  <2>1. UNCHANGED <<pipe, sent, net, chunk, fifo, handle, handled>>
    BY <1>10 DEF vars
  <2>2. Part' = Part
    BY <2>1 DEF Part
  <2>3. QED
    BY <2>1, <2>2, LostStill
<1>11. QED
  BY <1>1, <1>2, <1>3, <1>4, <1>5, <1>6, <1>7, <1>8, <1>9, <1>10 DEF Next, RecvStep, HandleStep

LEMMA LostImplies ==
  ASSUME TypeInv, LostInv
  PROVE  NoPhantoms
<1> SUFFICES ASSUME pipe = "client_recv"
             PROVE  \E place \in [Obeyed -> 1 .. Len(sent[0])] :
                      /\ \A i \in Obeyed : handled[0][i].cmd = sent[0][place[i]].cmd
                      /\ \A i, k \in Obeyed : i < k => place[i] < place[k]
  BY DEF NoPhantoms
<1>1. sent[0] \in Seq(Packets) /\ handled[0] \in Seq(Command)
  BY ClientTypes
<1>2. \A i \in 1 .. Len(sent[0]) : sent[0][i].cmd # PASS_THROUGH
  BY DEF LostInv
<1>3. PICK lo \in 0 .. Len(Stream(sent[0])) : FoundIn(handled[0], Stream(sent[0]), lo)
  BY DEF LostInv, Lost
<1>4. lo \in Nat /\ lo <= Len(Stream(sent[0]))
  BY <1>1, <1>3, StreamIsSlice
<1>5. Obeyed = {i \in DOMAIN handled[0] : handled[0][i].cmd \in {LOGIN, KEEP_ALIVE, PASS_THROUGH}}
  BY DEF Obeyed
<1>6. Placed(Obeyed, handled[0], sent[0])
  BY <1>1, <1>2, <1>3, <1>4, <1>5, FoundWasSent
<1>7. QED
  BY <1>6 DEF Placed

\* A client that has read ahead of recv, or has lost bytes that did not fit,
\* never takes garbage for an answer: the commands it obeys are, in order,
\* commands that the server sent, each at most once.
THEOREM NeverPhantoms == Spec => []NoPhantoms
<1>1. Init => TypeInv /\ LostInv
  BY TypeInit, LostInit
<1>2. TypeInv /\ LostInv /\ [Next]_vars => TypeInv' /\ LostInv'
  BY TypeNext, LostNext
<1>3. TypeInv /\ LostInv => NoPhantoms
  BY LostImplies
<1>4. QED
  BY <1>1, <1>2, <1>3, PTL DEF Spec

=============================================================================
