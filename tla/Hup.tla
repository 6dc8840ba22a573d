--------------------------------- MODULE Hup ---------------------------------
(***************************************************************************)
(* hup/hup.c: the frames on the serial line.  hup_unpack is a state        *)
(* machine that is fed one byte per call and keeps its place in static     *)
(* variables; hup_pack builds a frame.  A byte has Radix values, so that a *)
(* small Radix and a small DATA_BUF_SIZE bring lengths of two bytes, and   *)
(* the data that runs over the end of data_buf, within few bytes.          *)
(***************************************************************************)
EXTENDS Integers, Sequences, Bytes

CONSTANTS
  Radix,                              \* values of a byte
  HUP_TAG_HR, HUP_TAG_HS, HUP_TAG_L,  \* the tags of the frames received, sent, and of both
  Fed,                                \* the bytes that come along the line
  DATA_BUF_SIZE                       \* bytes in data_buf; the next byte of a pack_msg_t is status

Byte == 0 .. Radix - 1

ASSUME HupAssumption ==
  /\ Radix \in {2, 4, 8, 16, 32, 64, 128, 256}
  /\ {HUP_TAG_HR, HUP_TAG_HS, HUP_TAG_L} \subseteq Byte /\ Fed \subseteq Byte
  /\ DATA_BUF_SIZE \in Nat

VARIABLES
  s_state, s_check_num,     \* static in hup_unpack
  cmd_id, length, status,   \* pack_msg_t
  data,                     \* the s_data_num bytes stored from data_buf on
  seen                      \* history: the bytes since the last HUP_TAG_ONE

vars == <<s_state, s_check_num, cmd_id, length, status, data, seen>>

-----------------------------------------------------------------------------
\* check_num after count bytes of the loop in hup_pack; it starts with the
\* head, of whose length the low byte counts.
Xored(check_num, bytes) ==
  LET after[count \in 0 .. Len(bytes)] ==
        IF count = 0 THEN check_num ELSE BitXor(after[count - 1], bytes[count])
  IN  after[Len(bytes)]

HeadNum(tag, cmd, len) == BitXor(BitXor(BitXor(tag, HUP_TAG_L), cmd), len % Radix)

CheckNum(tag, cmd, bytes) == Xored(HeadNum(tag, cmd, Len(bytes)), bytes)

Packed(tag, cmd, bytes) ==
  <<tag, HUP_TAG_L, cmd, Len(bytes) \div Radix, Len(bytes) % Radix>>
    \o bytes \o <<CheckNum(tag, cmd, bytes)>>

hup_pack(bytes, cmd) == Packed(HUP_TAG_HS, cmd, bytes)

-----------------------------------------------------------------------------
Init ==
  /\ s_state = "TAG_ONE" /\ s_check_num = 0
  /\ cmd_id = 0 /\ length = 0 /\ status = FALSE
  /\ data = <<>>
  /\ seen = <<>>

Follow(pack_data) ==
  /\ status' = FALSE
  /\ seen' = Append(seen, pack_data)

TagOne(pack_data) ==
  /\ s_state = "TAG_ONE"
  /\ status' = FALSE
  /\ seen' = <<pack_data>>
  /\ IF pack_data = HUP_TAG_HR
     THEN s_state' = "TAG_TWO" /\ s_check_num' = 0 /\ data' = <<>>
     ELSE UNCHANGED <<s_state, s_check_num, data>>
  /\ UNCHANGED <<cmd_id, length>>

\* Any other byte, HUP_TAG_HR too, starts the search over.
TagTwo(pack_data) ==
  /\ s_state = "TAG_TWO"
  /\ Follow(pack_data)
  /\ IF pack_data = HUP_TAG_L
     THEN s_state' = "CMD_ID" /\ s_check_num' = BitXor(HUP_TAG_HR, HUP_TAG_L)
     ELSE s_state' = "TAG_ONE" /\ UNCHANGED s_check_num
  /\ UNCHANGED <<cmd_id, length, data>>

CmdId(pack_data) ==
  /\ s_state = "CMD_ID"
  /\ Follow(pack_data)
  /\ cmd_id' = pack_data
  /\ s_check_num' = BitXor(s_check_num, pack_data)
  /\ s_state' = "LENGTH_H"
  /\ UNCHANGED <<length, data>>

LengthH(pack_data) ==
  /\ s_state = "LENGTH_H"
  /\ Follow(pack_data)
  /\ length' = pack_data
  /\ s_state' = "LENGTH_L"
  /\ UNCHANGED <<s_check_num, cmd_id, data>>

\* Mutant: the length stays out of the checksum.
LengthLUnchecked(pack_data) ==
  /\ s_state = "LENGTH_L"
  /\ Follow(pack_data)
  /\ length' = length * Radix + pack_data
  /\ s_state' = IF length' = 0 THEN "CHECK_SUM" ELSE "DATA"
  /\ UNCHANGED <<s_check_num, cmd_id, data>>

LengthL(pack_data) ==
  /\ s_state = "LENGTH_L"
  /\ Follow(pack_data)
  /\ length' = length * Radix + pack_data
  /\ s_check_num' = BitXor(s_check_num, length' % Radix)
  /\ s_state' = IF length' = 0 THEN "CHECK_SUM" ELSE "DATA"
  /\ UNCHANGED <<cmd_id, data>>

\* Nothing compares the length with data_buf.  The byte behind it is status:
\* 0 and 1 leave FALSE and TRUE there, of the others a bool may read as
\* either.  What a byte behind status changes C does not say: the model stops.
Store(pack_data) ==
  /\ Len(data) <= DATA_BUF_SIZE
  /\ data' = Append(data, pack_data)
  /\ seen' = Append(seen, pack_data)
  /\ \/ Len(data) < DATA_BUF_SIZE /\ status' = FALSE
     \/ /\ Len(data) = DATA_BUF_SIZE
        /\ status' \in IF pack_data \in {0, 1} THEN {pack_data = 1} ELSE BOOLEAN

\* Mutant: one byte too many is data.
DataPast(pack_data) ==
  /\ s_state = "DATA"
  /\ Store(pack_data)
  /\ s_check_num' = BitXor(s_check_num, pack_data)
  /\ s_state' = IF Len(data') > length THEN "CHECK_SUM" ELSE "DATA"
  /\ UNCHANGED <<cmd_id, length>>

Data(pack_data) ==
  /\ s_state = "DATA"
  /\ Store(pack_data)
  /\ s_check_num' = BitXor(s_check_num, pack_data)
  /\ s_state' = IF Len(data') = length THEN "CHECK_SUM" ELSE "DATA"
  /\ UNCHANGED <<cmd_id, length>>

CheckSum(pack_data) ==
  /\ s_state = "CHECK_SUM"
  /\ status' = (s_check_num = pack_data)
  /\ seen' = Append(seen, pack_data)
  /\ s_state' = "TAG_ONE"
  /\ s_check_num' = 0
  /\ UNCHANGED <<cmd_id, length, data>>

hup_unpack(pack_data) ==
  \/ TagOne(pack_data) \/ TagTwo(pack_data) \/ CmdId(pack_data)
  \/ LengthH(pack_data) \/ LengthL(pack_data) \/ Data(pack_data) \/ CheckSum(pack_data)

Next == \E pack_data \in Fed : hup_unpack(pack_data)

Spec == Init /\ [][Next]_vars

-----------------------------------------------------------------------------
(* Properties                                                              *)

\* The state machine keeps its shape; the data never outgrows the length the
\* frame announced.
TypeOK ==
  /\ s_state \in {"TAG_ONE", "TAG_TWO", "CMD_ID", "LENGTH_H", "LENGTH_L", "DATA", "CHECK_SUM"}
  /\ s_check_num \in Byte /\ cmd_id \in Byte
  /\ length \in 0 .. Radix * Radix - 1 /\ status \in BOOLEAN
  /\ data \in Seq(Byte) /\ seen \in Seq(Byte)
  /\ s_state \in {"DATA", "CHECK_SUM"} => Len(data) <= length

\* hup_unpack reports a frame whenever the bytes since it last looked for a tag
\* are one that hup_pack builds, up to the tag of the direction, and as long as
\* the data fits data_buf it reports nothing else, and that frame's command and
\* data: the two functions agree on the two bytes of the length, empty data and
\* what the checksum covers, and nothing of an earlier or broken frame shows.
\* Data that reaches status is reported in the middle of its frame as well.
FramesReported ==
  LET bytes == SubSeq(seen, 6, Len(seen) - 1)
      frame == Len(seen) > 5 /\ seen = Packed(HUP_TAG_HR, seen[3], bytes) IN
  /\ frame => status
  /\ status /\ Len(data) <= DATA_BUF_SIZE =>
        frame /\ cmd_id = seen[3] /\ length = Len(bytes) /\ data = bytes

=============================================================================
