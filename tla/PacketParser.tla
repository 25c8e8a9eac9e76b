---------------------------- MODULE PacketParser ----------------------------
(***************************************************************************)
(* packet_parser.py: how a packet, given as a hexadecimal string, becomes   *)
(* what the load balancer needs to know: is it a key packet or a data       *)
(* packet, and of which drone.                                              *)
(*                                                                          *)
(* A string is a sequence of characters, a hexadecimal digit standing for   *)
(* its value and any other character for Separator.  Bytes are counted from *)
(* 0, as in the code.                                                       *)
(*                                                                          *)
(* A definition under a comment "Fault: ..." is no part of the model.       *)
(***************************************************************************)
EXTENDS Integers, Sequences, FiniteSets, FiniteSetsExt

Position == 0 .. 175

Byte == 0 .. 255

Digit == 0 .. 15

Separator == -1

\* An array of 176 bytes, given by its elements.
Bytes(s) == [i \in Position |-> s[i + 1]]

\* interl_idx: where each byte goes.
InterlTable ==
  <<
    101,  48, 167,  63,   1,  40,  27, 171,  74,  28, 117, 159,  21, 126, 138, 175,
    114, 125,  37, 149, 100, 110, 122,   4, 116,  42, 111, 174,  50,  57,  86, 107,
    83, 132,  95, 108,  47, 161, 148, 145, 141,  19,  98,  44,  87,  24, 137, 173,
    129,  55,  92, 163, 158, 153,  12,  93, 144, 103, 123, 155,   0,  30,  72, 109,
    79, 140,  61,  73,  99, 124, 118,  71, 146,  75, 166,  10,  39, 154,  14,  89,
    150,  18, 156, 172, 139, 151,  49,  59, 115,   7,  38,  58,  60, 128, 106, 162,
    68, 113,  17,  91,  15,  76,   2, 120, 168,   9,  84,  46, 131, 105,  85,  41,
    3, 134,  20,  77,   8, 104,  56,  90,  64,  94, 160, 152, 142,  52,  45, 164,
    165,  70,  97,  29,  67,  54,  51,  80, 121, 147,  35,  69,  31,  33,  22,  11,
    66,  96,  81, 130,  32,  25,  65, 127,  82, 119, 102, 170,  16,  88,  62, 136,
    6,  36,   5,  26,  34, 133,  43,  78, 112, 135, 143, 157, 169,  23,  53,  13>>

InterlIdx == Bytes(InterlTable)

\* mask.
MaskTable ==
  <<
    242,  59, 155, 124, 227, 194, 116,   5, 209, 113, 157, 202, 235, 188,  45, 103,
    239, 234, 105, 228,  15,  90, 207,   3,  35,  52,  51, 154,  69,  51,   4, 190,
    113, 238, 119, 107, 216, 134,  52, 171, 214,   5, 174,  97, 212, 128, 181, 109,
    78,  48,  49, 174,  77, 138,  38, 178,  96, 219, 218, 151, 127, 229, 210, 164,
    209, 168,  87,  74,  87, 136, 185,  79, 214, 145,  94, 179, 139, 113, 177, 158,
    203, 244, 133, 224,  44, 250,  69,  64, 223, 188,  35,   3, 228,  51,  76, 169,
    73, 120,  17, 252, 149, 108, 131,  85, 110,  58, 148, 194, 135, 163,  53,  97,
    200, 174, 118, 145, 203,  15, 154,  13, 106,  78, 223,   4, 196, 248, 252, 201,
    112, 127,  55, 164,  82, 245, 185, 105, 190,  68, 112, 238, 174,  54, 214, 160,
    34,  53, 155, 161,  94, 147, 115,  11,   7,  80,   3,  98, 174,  24,   9, 156,
    155,   4,   4,  48, 150,  15,  94, 161, 183, 177,  21, 116, 113,  90,  39, 172>>

Mask == Bytes(MaskTable)

\* "^" of two bytes, bit by bit.
Bit(n, weight) == (n \div weight) % 2

Differ(a, b, weight) == (Bit(a, weight) + Bit(b, weight)) % 2

Xor(a, b) ==
  128 * Differ(a, b, 128) + 64 * Differ(a, b, 64) + 32 * Differ(a, b, 32)
    + 16 * Differ(a, b, 16) + 8 * Differ(a, b, 8) + 4 * Differ(a, b, 4)
    + 2 * Differ(a, b, 2) + Differ(a, b, 1)

\* The places a byte of the result comes from; the last one counts.
Sources == [j \in Position |-> {i \in Position : InterlIdx[i] = j}]

\* Fault: the loop ends one byte too early.
DemaskAllButLast(x) ==
  [j \in Position |->
    IF Sources[j] \ {175} = {} THEN 0
    ELSE LET i == Max(Sources[j] \ {175}) IN Xor(x[i], Mask[i])]

\* demask_for_176_byte: mask the bytes and put each in its place, in a result that
\* was all zeros.
Demask(x) ==
  [j \in Position |->
    IF Sources[j] = {} THEN 0
    ELSE LET i == Max(Sources[j]) IN Xor(x[i], Mask[i])]

\* The places of the digits of a string, and how many digits it has up to a place.
Places(chars) == {n \in DOMAIN chars : chars[n] # Separator}

Rank(chars, n) == Cardinality({m \in Places(chars) : m <= n})

\* The digits of a string, in their order: the k-th has k digits up to itself.
Digits(chars) ==
  LET numbered == {<<Rank(chars, n), chars[n]>> : n \in Places(chars)} IN
  [k \in 1 .. Cardinality(Places(chars)) |->
    (CHOOSE d \in numbered : d[1] = k)[2]]

\* hex_string_to_bytes, with the length check of parse_packet: the 176 bytes of a
\* string, or none when fromhex or parse_packet raises ValueError.
RawBytes(chars) ==
  LET digits == Digits(chars) IN
  IF Len(digits) # 352
    THEN {}
    ELSE {[i \in Position |-> 16 * digits[2 * i + 1] + digits[2 * i + 2]]}

KeyBytes == {163, 170}   \* 0xa3, 0xaa

DataBytes == {128, 135}  \* 0x80, 0x87

\* Fault: a slice that counts from 1.
DroneIdFromOne(x) == <<x[7], x[8], x[9], x[10]>>

\* get_drone_id.
DroneId(x) == <<x[6], x[7], x[8], x[9]>>

\* is_valid_packet, is_key_packet and get_packet_type_name, with the drone as far as
\* there is one.
Classify(x) ==
  IF x[0] \in KeyBytes THEN [kind |-> "key_packet", drone |-> DroneId(x)]
  ELSE IF x[0] \in DataBytes THEN [kind |-> "data_packet", drone |-> DroneId(x)]
  ELSE [kind |-> "useless_packet"]

\* parse_packet.
Parse(chars) ==
  IF RawBytes(chars) = {} THEN [kind |-> "ValueError"]
  ELSE Classify(Demask(CHOOSE raw \in RawBytes(chars) : TRUE))

-----------------------------------------------------------------------------
(* The way back.                                                           *)

\* What whoever makes packets computes, if Demask is to undo it.
Remask(y) == [i \in Position |-> Xor(y[InterlIdx[i]], Mask[i])]

\* The two digits of each byte.
HexString(x) ==
  [n \in 1 .. 352 |-> LET byte == x[(n - 1) \div 2] IN
                        IF n % 2 = 1 THEN byte \div 16 ELSE byte % 16]

=============================================================================
