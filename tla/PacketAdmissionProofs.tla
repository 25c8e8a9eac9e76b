----------------------- MODULE PacketAdmissionProofs ------------------------
(***************************************************************************)
(* What the parser makes of a packet, for every string: its digits do not   *)
(* depend on separators, and the bytes of a packet can be had back from     *)
(* what demask_for_176_byte makes of them.                                  *)
(***************************************************************************)
EXTENDS PacketAdmission, AdmissionProofs, WellFoundedInduction

-----------------------------------------------------------------------------
(* Exclusive or of bytes.                                                  *)

\* A byte is the sum of its bits.
LEMMA BitsOfByte ==
  ASSUME NEW n \in Byte
  PROVE  /\ \A w \in {1, 2, 4, 8, 16, 32, 64, 128} : Bit(n, w) \in {0, 1}
         /\ n = 128 * Bit(n, 128) + 64 * Bit(n, 64) + 32 * Bit(n, 32)
                 + 16 * Bit(n, 16) + 8 * Bit(n, 8) + 4 * Bit(n, 4)
                 + 2 * Bit(n, 2) + Bit(n, 1)
BY SMTT(30) DEF Bit, Byte

\* The bits of such a sum are those it was made of.
LEMMA ByteOfBits ==
  ASSUME NEW a \in {0, 1}, NEW b \in {0, 1}, NEW c \in {0, 1}, NEW d \in {0, 1},
         NEW e \in {0, 1}, NEW f \in {0, 1}, NEW g \in {0, 1}, NEW h \in {0, 1},
         NEW n,
         n = 128 * a + 64 * b + 32 * c + 16 * d + 8 * e + 4 * f + 2 * g + h
  PROVE  /\ n \in Byte
         /\ Bit(n, 128) = a /\ Bit(n, 64) = b /\ Bit(n, 32) = c /\ Bit(n, 16) = d
         /\ Bit(n, 8) = e /\ Bit(n, 4) = f /\ Bit(n, 2) = g /\ Bit(n, 1) = h
BY SMTT(30) DEF Bit, Byte

\* Two bits differ or not, and the difference taken twice is none.
LEMMA DifferOnce ==
  ASSUME NEW a \in {0, 1}, NEW b \in {0, 1}
  PROVE  (a + b) % 2 \in {0, 1} /\ (((a + b) % 2) + b) % 2 = a
OBVIOUS

\* Masking a byte twice gives it back.
LEMMA XorUndone ==
  ASSUME NEW x \in Byte, NEW m \in Byte
  PROVE  Xor(x, m) \in Byte /\ Xor(Xor(x, m), m) = x
<1> DEFINE W == {1, 2, 4, 8, 16, 32, 64, 128}
           y == Xor(x, m)
<1>1. \A w \in W : Bit(x, w) \in {0, 1} /\ Bit(m, w) \in {0, 1}
  BY BitsOfByte
<1>2. \A w \in W : Differ(x, m, w) \in {0, 1}
  BY <1>1, DifferOnce DEF Differ
<1>3. /\ y \in Byte
      /\ \A w \in W : Bit(y, w) = Differ(x, m, w)
  <2>1. y = 128 * Differ(x, m, 128) + 64 * Differ(x, m, 64) + 32 * Differ(x, m, 32)
              + 16 * Differ(x, m, 16) + 8 * Differ(x, m, 8) + 4 * Differ(x, m, 4)
              + 2 * Differ(x, m, 2) + Differ(x, m, 1)
    BY DEF Xor
  <2> HIDE DEF y
  <2> QED  BY <1>2, <2>1, ByteOfBits
<1> HIDE DEF y
<1>4. \A w \in W : Differ(y, m, w) = Bit(x, w)
  BY <1>1, <1>3, DifferOnce DEF Differ
<1>5. Xor(y, m) = x
  BY <1>4, BitsOfByte DEF Xor
<1> QED  BY <1>3, <1>5 DEF y

-----------------------------------------------------------------------------
(* demask_for_176_byte.                                                    *)

\* Where each byte of the result comes from.
ComesFromTable ==
  <<
     60,   4, 102, 112,  23, 162, 160,  89, 116, 105,  75, 143,  54, 175,  78, 100,
    156,  98,  81,  41, 114,  12, 142, 173,  45, 149, 163,   6,   9, 131,  61, 140,
    148, 141, 164, 138, 161,  18,  90,  76,   5, 111,  25, 166,  43, 126, 107,  36,
      1,  86,  28, 134, 125, 174, 133,  49, 118,  29,  91,  87,  92,  66, 158,   3,
    120, 150, 144, 132,  96, 139, 129,  71,  62,  67,   8,  73, 101, 115, 167,  64,
    135, 146, 152,  32, 106, 110,  30,  44, 157,  79, 119,  99,  50,  55, 121,  34,
    145, 130,  42,  68,  20,   0, 154,  57, 117, 109,  94,  31,  35,  63,  21,  26,
    168,  97,  16,  88,  24,  10,  70, 153, 103, 136,  22,  58,  69,  17,  13, 151,
     93,  48, 147, 108,  33, 165, 113, 169, 159,  46,  14,  84,  65,  40, 124, 170,
     56,  39,  72, 137,  38,  19,  80,  85, 123,  53,  77,  59,  82, 171,  52,  11,
    122,  37,  95,  51, 127, 128,  74,   2, 104, 172, 155,   7,  83,  47,  27,  15>>

\* The two tables are inverse to each other.
LEMMA InverseTables ==
  \A i \in 1 .. 176 :
    InterlTable[i] \in 0 .. 175 /\ ComesFromTable[InterlTable[i] + 1] = i - 1
BY SMTT(60) DEF InterlTable, ComesFromTable

\* The bytes of a table are its elements.
LEMMA BytesOfTable ==
  ASSUME NEW s, NEW i \in Position
  PROVE  i + 1 \in 1 .. 176 /\ Bytes(s)[i] = s[i + 1]
<1>1. Bytes(s)[i] = s[i + 1]
  BY DEF Bytes
<1> QED  BY <1>1 DEF Position

\* So interl_idx moves bytes to different places of the result.
LEMMA InterlIdxInjective ==
  /\ InterlIdx \in [Position -> Position]
  /\ \A i, k \in Position : InterlIdx[i] = InterlIdx[k] => i = k
<1>1. ASSUME NEW i \in Position
      PROVE  InterlIdx[i] \in Position /\ ComesFromTable[InterlIdx[i] + 1] = i
  <2>1. i + 1 \in 1 .. 176 /\ InterlIdx[i] = InterlTable[i + 1]
    BY BytesOfTable DEF InterlIdx
  <2>2. /\ InterlTable[i + 1] \in 0 .. 175
        /\ ComesFromTable[InterlTable[i + 1] + 1] = (i + 1) - 1
    BY <2>1, InverseTables
  <2>3. (i + 1) - 1 = i
    BY DEF Position
  <2> QED  BY <2>1, <2>2, <2>3 DEF Position
<1>2. InterlIdx \in [Position -> Position]
  BY <1>1 DEF InterlIdx, Bytes
<1>3. \A i, k \in Position : InterlIdx[i] = InterlIdx[k] => i = k
  BY <1>1, Zenon
<1> QED  BY <1>2, <1>3

\* The mask consists of bytes.
LEMMA MaskTableType == \A i \in 1 .. 176 : MaskTable[i] \in 0 .. 255
BY SMTT(60) DEF MaskTable

LEMMA MaskType ==
  ASSUME NEW i \in Position
  PROVE  Mask[i] \in Byte
<1>1. i + 1 \in 1 .. 176 /\ Mask[i] = MaskTable[i + 1]
  BY BytesOfTable DEF Mask
<1>2. MaskTable[i + 1] \in 0 .. 255
  BY <1>1, MaskTableType
<1> QED  BY <1>1, <1>2 DEF Byte

\* So each byte of the result has one source.
LEMMA OneSource ==
  ASSUME NEW i \in Position
  PROVE  /\ InterlIdx[i] \in Position
         /\ Sources[InterlIdx[i]] = {i}
<1>1. InterlIdx[i] \in Position
  BY InterlIdxInjective
<1>2. \A k \in Position : InterlIdx[k] = InterlIdx[i] => k = i
  BY InterlIdxInjective
<1> QED  BY <1>1, <1>2 DEF Sources

\* Each byte of the packet is in the result, masked.
LEMMA DemaskedByte ==
  ASSUME NEW x, NEW i \in Position
  PROVE  Demask(x)[InterlIdx[i]] = Xor(x[i], Mask[i])
<1>1. InterlIdx[i] \in Position /\ Sources[InterlIdx[i]] = {i}
  BY OneSource
<1>2. Max({i}) = i
  BY DEF Max, Position
<1> QED  BY <1>1, <1>2 DEF Demask

\* The result of demask_for_176_byte determines the packet, whatever its bytes.
THEOREM DemaskRecoverable ==
  ASSUME NEW x \in [Position -> Byte]
  PROVE  Remask(Demask(x)) = x
<1>1. ASSUME NEW i \in Position
      PROVE  Remask(Demask(x))[i] = x[i]
  <2>1. x[i] \in Byte /\ Mask[i] \in Byte
    BY MaskType
  <2>2. Remask(Demask(x))[i] = Xor(Xor(x[i], Mask[i]), Mask[i])
    BY DemaskedByte DEF Remask
  <2> QED  BY <2>1, <2>2, XorUndone
<1>2. DOMAIN Remask(Demask(x)) = Position
  BY DEF Remask
<1> QED  BY <1>1, <1>2 DEF Remask

-----------------------------------------------------------------------------
(* The digits of a string.                                                 *)

\* A set of naturals that is not empty has a least element.
LEMMA LeastElement ==
  ASSUME NEW U \in SUBSET Nat, U # {}
  PROVE  \E m \in U : \A k \in U : m <= k
<1> DEFINE R == OpToRel(<, Nat)
<1>1. \A i, j \in Nat : i < j => <<i, j>> \in R
  BY DEF OpToRel
<1>2. IsWellFoundedOn(R, Nat)
  BY NatLessThanWellFounded
<1> HIDE DEF R
<1>3. PICK m \in U : \A k \in U : <<k, m>> \notin R
  BY <1>2, WFMin
<1>4. \A k \in U : ~(k < m)
  BY <1>1, <1>3, Zenon
<1> QED  BY <1>4

\* Up to each place there is one digit more than up to the place before if a digit
\* stands there, and as many if a separator does.
LEMMA RankByPlace ==
  ASSUME NEW chars \in Seq(Digit \cup {Separator})
  PROVE  /\ Cardinality(Places(chars)) \in Nat
         /\ \A n \in Nat : Rank(chars, n) \in Nat
         /\ Rank(chars, 0) = 0
         /\ Rank(chars, Len(chars)) = Cardinality(Places(chars))
         /\ \A n \in Nat \ {0} : Rank(chars, n)
              = Rank(chars, n - 1) + (IF n \in Places(chars) THEN 1 ELSE 0)
<1> DEFINE P == Places(chars)
           upto(n) == {m \in P : m <= n}
<1>1. P \subseteq 1 .. Len(chars) /\ Len(chars) \in Nat
  BY DEF Places
<1> HIDE DEF P
<1>2. IsFiniteSet(P)
  <2>1. IsFiniteSet(1 .. Len(chars))
    BY <1>1, FS_Interval
  <2> QED  BY <1>1, <2>1, FS_Subset
<1>3. \A m \in P : m \in Nat /\ 1 <= m /\ m <= Len(chars)
  BY <1>1
<1>4. \A n : IsFiniteSet(upto(n)) /\ upto(n) \in SUBSET P
  BY <1>2, FS_Subset
<1>5. \A n : Cardinality(upto(n)) \in Nat
  BY <1>4, FS_CardinalityType
<1>6. upto(0) = {} /\ upto(Len(chars)) = P
  BY <1>3
<1>7. ASSUME NEW n \in Nat \ {0}
      PROVE  Cardinality(upto(n))
               = Cardinality(upto(n - 1)) + (IF n \in P THEN 1 ELSE 0)
  <2>1. n \notin upto(n - 1) /\ \A m \in P : m <= n <=> m <= n - 1 \/ m = n
    BY <1>3
  <2>2. CASE n \in P
    <3>1. upto(n) = upto(n - 1) \cup {n} /\ n \notin upto(n - 1)
      BY <2>1, <2>2
    <3> HIDE DEF upto
    <3>2. Cardinality(upto(n - 1) \cup {n}) = Cardinality(upto(n - 1)) + 1
      BY <1>4, <3>1, FS_AddElement
    <3> QED  BY <2>2, <3>1, <3>2
  <2>3. CASE n \notin P
    <3>1. upto(n) = upto(n - 1)
      BY <2>1, <2>3
    <3> HIDE DEF upto
    <3>2. Cardinality(upto(n - 1)) \in Nat
      BY <1>5
    <3> QED  BY <2>3, <3>1, <3>2
  <2> QED  BY <2>2, <2>3
<1>8. \A n : Rank(chars, n) = Cardinality(upto(n))
  BY DEF Rank, P
<1>9. Cardinality({}) = 0 /\ Cardinality(P) \in Nat
  BY <1>2, FS_EmptySet, FS_CardinalityType
<1> HIDE DEF upto
<1> QED  BY <1>5, <1>6, <1>7, <1>8, <1>9 DEF P

\* So the ranks of the digits are 1, 2 and so on.
LEMMA PlaceOfRank ==
  ASSUME NEW chars \in Seq(Digit \cup {Separator}),
         NEW k \in 1 .. Cardinality(Places(chars))
  PROVE  \E n \in Places(chars) : Rank(chars, n) = k
<1> DEFINE U == {n \in 0 .. Len(chars) : Rank(chars, n) >= k}
<1>1. Cardinality(Places(chars)) \in Nat /\ k \in Nat \ {0}
  BY RankByPlace
<1>2. Len(chars) \in Nat
  OBVIOUS
<1>3. Len(chars) \in U
  BY <1>1, <1>2, RankByPlace
<1>4. PICK m \in U : \A n \in U : m <= n
  <2>1. U \in SUBSET Nat
    BY <1>2
  <2> HIDE DEF U
  <2> QED  BY <1>3, <2>1, LeastElement
<1>5. m \in Nat \ {0}
  BY <1>1, <1>2, <1>4, RankByPlace
<1>6. Rank(chars, m) >= k /\ Rank(chars, m) \in Nat
  BY <1>4, <1>5, RankByPlace
<1>7. Rank(chars, m - 1) < k /\ Rank(chars, m - 1) \in Nat
  <2>1. m - 1 \in 0 .. Len(chars) /\ m - 1 \in Nat
    BY <1>2, <1>4, <1>5
  <2>2. m - 1 \notin U
    BY <1>4, <1>5
  <2>3. Rank(chars, m - 1) \in Nat
    BY <2>1, RankByPlace
  <2> QED  BY <1>1, <2>1, <2>2, <2>3
<1>8. Rank(chars, m) = Rank(chars, m - 1) + (IF m \in Places(chars) THEN 1 ELSE 0)
  BY <1>5, RankByPlace
<1>9. m \in Places(chars) /\ Rank(chars, m) = k
  BY <1>1, <1>6, <1>7, <1>8
<1> QED  BY <1>9

\* A string yields digits, as many as it has.
LEMMA DigitsType ==
  ASSUME NEW chars \in Seq(Digit \cup {Separator})
  PROVE  Digits(chars) \in [1 .. Cardinality(Places(chars)) -> Digit]
<1> DEFINE numbered == {<<Rank(chars, n), chars[n]>> : n \in Places(chars)}
<1>1. \A n \in Places(chars) : chars[n] \in Digit
  BY DEF Places
<1>2. \A d \in numbered : d[2] \in Digit
  BY <1>1
<1>3. ASSUME NEW k \in 1 .. Cardinality(Places(chars))
      PROVE  (CHOOSE d \in numbered : d[1] = k)[2] \in Digit
  <2>1. PICK n \in Places(chars) : Rank(chars, n) = k
    BY PlaceOfRank
  <2>2. <<Rank(chars, n), chars[n]>> \in numbered
    OBVIOUS
  <2>3. \E d \in numbered : d[1] = k
    BY <2>1, <2>2
  <2> HIDE DEF numbered
  <2> QED  BY <1>2, <2>3
<1> HIDE DEF numbered
<1>4. Digits(chars)
        = [k \in 1 .. Cardinality(Places(chars)) |-> (CHOOSE d \in numbered : d[1] = k)[2]]
  BY DEF Digits, numbered
<1> QED  BY <1>3, <1>4

\* The digits of one string are those of another, in the same order; f tells where.
SameDigits(s, t, f) ==
  /\ f \in Bijection(Places(s), Places(t))
  /\ \A m, n \in Places(s) : m <= n <=> f[m] <= f[n]
  /\ \A n \in Places(s) : t[f[n]] = s[n]

\* Then they have the same rank.
LEMMA SameRank ==
  ASSUME NEW s \in Seq(Digit \cup {Separator}), NEW t, NEW f,
         SameDigits(s, t, f), NEW n \in Places(s)
  PROVE  Rank(t, f[n]) = Rank(s, n)
<1> DEFINE P == Places(s)
           Q == Places(t)
           A == {m \in P : m <= n}
           B == {k \in Q : k <= f[n]}
           g == [m \in A |-> f[m]]
<1>1. /\ f \in [P -> Q]
      /\ \A m, k \in P : f[m] = f[k] => m = k
      /\ \A k \in Q : \E m \in P : f[m] = k
  BY DEF SameDigits, Bijection, Injection, Surjection, IsInjective
<1>2. IsFiniteSet(A)
  <2>1. IsFiniteSet(1 .. Len(s))
    BY FS_Interval
  <2>2. A \in SUBSET (1 .. Len(s))
    BY DEF Places
  <2> HIDE DEF A
  <2> QED  BY <2>1, <2>2, FS_Subset
<1>3. \A m \in P : m \in A <=> f[m] \in B
  BY <1>1 DEF SameDigits
<1> HIDE DEF P, Q
<1>4. /\ g \in [A -> B]
      /\ \A m, k \in A : g[m] = g[k] => m = k
      /\ \A k \in B : \E m \in A : g[m] = k
  BY <1>1, <1>3
<1> HIDE DEF A, B, g
<1>5. g \in Bijection(A, B)
  BY <1>4 DEF Bijection, Injection, Surjection, IsInjective
<1>6. Cardinality(B) = Cardinality(A)
  BY <1>2, <1>5, FS_Bijection DEF ExistsBijection
<1> QED  BY <1>6 DEF A, B, P, Q, Rank

\* hex_string_to_bytes (packet_parser.py:76-88) ignores what is not a digit: a packet
\* is parsed alike however many separators there are and wherever they stand, also
\* between the two digits of a byte.
THEOREM SeparatorsIgnored ==
  ASSUME NEW s \in Seq(Digit \cup {Separator}), NEW t, NEW f, SameDigits(s, t, f)
  PROVE  Parse(t) = Parse(s)
<1> DEFINE Numbered(c) == {<<Rank(c, n), c[n]>> : n \in Places(c)}
           Listed(N, l) == [k \in 1 .. l |-> (CHOOSE d \in N : d[1] = k)[2]]
<1>1. /\ f \in [Places(s) -> Places(t)]
      /\ \A k \in Places(t) : \E m \in Places(s) : f[m] = k
      /\ \A n \in Places(s) : t[f[n]] = s[n]
  BY DEF SameDigits, Bijection, Injection, Surjection
<1>2. \A n \in Places(s) : <<Rank(t, f[n]), t[f[n]]>> = <<Rank(s, n), s[n]>>
  BY <1>1, SameRank
<1>3. Numbered(t) = Numbered(s)
  BY <1>1, <1>2
<1>4. Cardinality(Places(t)) = Cardinality(Places(s))
  <2>1. IsFiniteSet(Places(s))
    <3>1. IsFiniteSet(1 .. Len(s)) /\ Places(s) \in SUBSET (1 .. Len(s))
      BY FS_Interval DEF Places
    <3> QED  BY <3>1, FS_Subset
  <2> QED  BY <2>1, FS_Bijection DEF SameDigits, ExistsBijection
<1>5. \A c : Digits(c) = Listed(Numbered(c), Cardinality(Places(c)))
  BY DEF Digits
<1> HIDE DEF Numbered, Listed
<1>6. Digits(t) = Digits(s)
  BY <1>3, <1>4, <1>5
<1> QED  BY <1>6 DEF Parse, RawBytes

\* The bytes of a string are bytes.
LEMMA RawBytesType ==
  ASSUME NEW chars \in Seq(Digit \cup {Separator}), NEW raw \in RawBytes(chars)
  PROVE  raw \in [Position -> Byte]
<1> DEFINE digits == Digits(chars)
           c == Cardinality(Places(chars))
<1>1. c \in Nat /\ digits \in [1 .. c -> Digit]
  BY DigitsType, RankByPlace
<1> HIDE DEF digits, c
<1>2. Len(digits) = c
  BY <1>1
<1>3. /\ Len(digits) = 352
      /\ raw = [i \in Position |-> 16 * digits[2 * i + 1] + digits[2 * i + 2]]
  BY DEF RawBytes, digits
<1>4. \A j \in 1 .. 352 : digits[j] \in Digit
  <2>1. c = 352
    BY <1>2, <1>3
  <2> QED  BY <1>1, <2>1
<1>5. \A a, b \in Digit : 16 * a + b \in Byte
  BY DEF Digit, Byte
<1>6. ASSUME NEW i \in Position
      PROVE  16 * digits[2 * i + 1] + digits[2 * i + 2] \in Byte
  <2>1. 2 * i + 1 \in 1 .. 352 /\ 2 * i + 2 \in 1 .. 352
    BY DEF Position
  <2> QED  BY <1>4, <1>5, <2>1
<1> QED  BY <1>3, <1>6

-----------------------------------------------------------------------------
(* The parser, on what is made for it.                                     *)

\* Every place of the result is where interl_idx sends some byte.
LEMMA InverseTablesBack ==
  \A j \in 1 .. 176 :
    ComesFromTable[j] \in 0 .. 175 /\ InterlTable[ComesFromTable[j] + 1] = j - 1
BY SMTT(60) DEF InterlTable, ComesFromTable

LEMMA InterlIdxSurjective ==
  ASSUME NEW j \in Position
  PROVE  \E i \in Position : InterlIdx[i] = j
<1>1. j + 1 \in 1 .. 176 /\ (j + 1) - 1 = j
  BY DEF Position
<1> DEFINE i == ComesFromTable[j + 1]
<1>2. i \in 0 .. 175 /\ InterlTable[i + 1] = j
  BY <1>1, InverseTablesBack
<1> HIDE DEF i
<1>3. i \in Position
  BY <1>2 DEF Position
<1>4. InterlIdx[i] = InterlTable[i + 1]
  BY <1>3, BytesOfTable DEF InterlIdx
<1> QED  BY <1>2, <1>3, <1>4

\* demask_for_176_byte undoes the way back: every 176 bytes are the result of it on
\* some packet.
LEMMA RemaskUndone ==
  ASSUME NEW y \in [Position -> Byte]
  PROVE  Remask(y) \in [Position -> Byte] /\ Demask(Remask(y)) = y
<1>1. ASSUME NEW i \in Position
      PROVE  /\ y[InterlIdx[i]] \in Byte /\ Mask[i] \in Byte
             /\ Remask(y)[i] = Xor(y[InterlIdx[i]], Mask[i])
  BY MaskType, InterlIdxInjective DEF Remask
<1>2. Remask(y) \in [Position -> Byte]
  <2>1. \A i \in Position : Xor(y[InterlIdx[i]], Mask[i]) \in Byte
    BY <1>1, XorUndone
  <2> QED  BY <2>1 DEF Remask
<1>3. ASSUME NEW j \in Position
      PROVE  Demask(Remask(y))[j] = y[j]
  <2>1. PICK i \in Position : InterlIdx[i] = j
    BY InterlIdxSurjective
  <2>2. Demask(Remask(y))[j] = Xor(Xor(y[InterlIdx[i]], Mask[i]), Mask[i])
    BY <1>1, <2>1, DemaskedByte
  <2> QED  BY <1>1, <2>1, <2>2, XorUndone
<1>4. Demask(Remask(y)) \in [Position -> {Demask(Remask(y))[j] : j \in Position}]
  BY DEF Demask
<1> QED  BY <1>2, <1>3, <1>4

\* The n-th digit of a string without separators has rank n.
LEMMA RankWithoutSeparators ==
  ASSUME NEW chars \in Seq(Digit)
  PROVE  /\ chars \in Seq(Digit \cup {Separator})
         /\ Places(chars) = 1 .. Len(chars)
         /\ Cardinality(Places(chars)) = Len(chars)
         /\ \A n \in 1 .. Len(chars) : Rank(chars, n) = n
<1>1. Len(chars) \in Nat /\ DOMAIN chars = 1 .. Len(chars)
  OBVIOUS
<1>2. \A n \in 1 .. Len(chars) : chars[n] \in Digit
  OBVIOUS
<1>3. Places(chars) = 1 .. Len(chars)
  BY <1>1, <1>2 DEF Places, Digit, Separator
<1>4. Cardinality(1 .. Len(chars)) = Len(chars)
  BY <1>1, FS_Interval
<1>5. ASSUME NEW n \in 1 .. Len(chars)
      PROVE  Rank(chars, n) = n
  <2>1. {m \in Places(chars) : m <= n} = 1 .. n /\ n \in Nat
    BY <1>1, <1>3
  <2>2. Cardinality(1 .. n) = n
    BY <2>1, FS_Interval
  <2> QED  BY <2>1, <2>2 DEF Rank
<1> QED  BY <1>3, <1>4, <1>5

\* Such a string is its own digits.
LEMMA DigitsWithoutSeparators ==
  ASSUME NEW chars \in Seq(Digit)
  PROVE  Digits(chars) = chars
<1> DEFINE numbered == {<<Rank(chars, n), chars[n]>> : n \in Places(chars)}
           l == Len(chars)
<1>1. numbered = {<<n, chars[n]>> : n \in 1 .. l}
  BY RankWithoutSeparators
<1>2. ASSUME NEW k \in 1 .. l
      PROVE  (CHOOSE d \in numbered : d[1] = k)[2] = chars[k]
  <2>1. <<k, chars[k]>> \in numbered
    BY <1>1
  <2>2. \A d \in numbered : d[1] = k => d[2] = chars[k]
    BY <1>1
  <2> HIDE DEF numbered
  <2> QED  BY <2>1, <2>2
<1>3. Digits(chars) = [k \in 1 .. l |-> (CHOOSE d \in numbered : d[1] = k)[2]]
  BY RankWithoutSeparators DEF Digits
<1> HIDE DEF numbered
<1>4. chars = [k \in 1 .. l |-> chars[k]]
  OBVIOUS
<1> QED  BY <1>2, <1>3, <1>4

\* A byte is what its two digits say.
LEMMA TwoDigits ==
  ASSUME NEW n \in Byte
  PROVE  n \div 16 \in Digit /\ n % 16 \in Digit /\ 16 * (n \div 16) + (n % 16) = n
BY SMTT(30) DEF Byte, Digit

\* A function on 1 .. n is a sequence of n elements.
LEMMA SequenceOfLength ==
  ASSUME NEW S, NEW n \in Nat, NEW s \in [1 .. n -> S]
  PROVE  s \in Seq(S) /\ Len(s) = n
OBVIOUS

\* The digits of bytes are read as the bytes they were written for.
LEMMA BytesReadBack ==
  ASSUME NEW x \in [Position -> Byte]
  PROVE  HexString(x) \in Seq(Digit) /\ RawBytes(HexString(x)) = {x}
<1> DEFINE s == HexString(x)
<1>1. ASSUME NEW i \in Position
      PROVE  /\ 2 * i + 1 \in 1 .. 352 /\ 2 * i + 2 \in 1 .. 352
             /\ s[2 * i + 1] = x[i] \div 16 /\ s[2 * i + 2] = x[i] % 16
  <2>1. /\ 2 * i + 1 \in 1 .. 352 /\ 2 * i + 2 \in 1 .. 352
        /\ ((2 * i + 1) - 1) \div 2 = i /\ ((2 * i + 2) - 1) \div 2 = i
        /\ (2 * i + 1) % 2 = 1 /\ (2 * i + 2) % 2 = 0
    BY SMTT(30) DEF Position
  <2> DEFINE h(n) == LET byte == x[(n - 1) \div 2] IN
                       IF n % 2 = 1 THEN byte \div 16 ELSE byte % 16
  <2>2. \A n \in 1 .. 352 : s[n] = h(n)
    BY DEF HexString
  <2>3. s[2 * i + 1] = h(2 * i + 1) /\ s[2 * i + 2] = h(2 * i + 2)
    BY <2>1, <2>2
  <2>4. h(2 * i + 1) = x[i] \div 16
    BY <2>1
  <2>5. h(2 * i + 2) = x[i] % 16
    BY <2>1
  <2> QED  BY <2>1, <2>3, <2>4, <2>5
<1>2. ASSUME NEW n \in 1 .. 352
      PROVE  s[n] \in Digit
  <2> DEFINE byte == x[(n - 1) \div 2]
  <2>1. (n - 1) \div 2 \in Position
    BY DEF Position
  <2>2. s[n] = IF n % 2 = 1 THEN byte \div 16 ELSE byte % 16
    BY DEF HexString
  <2>3. byte \in Byte
    BY <2>1
  <2> HIDE DEF byte, s
  <2>4. byte \div 16 \in Digit /\ byte % 16 \in Digit
    BY <2>3, TwoDigits
  <2> QED  BY <2>2, <2>4
<1>3. s \in Seq(Digit) /\ Len(s) = 352
  <2>1. s = [n \in 1 .. 352 |-> s[n]]
    BY DEF HexString
  <2> HIDE DEF s
  <2> DEFINE l == 352
  <2>2. s \in [1 .. l -> Digit] /\ l \in Nat
    BY <1>2, <2>1
  <2> HIDE DEF l
  <2>3. s \in Seq(Digit) /\ Len(s) = l
    BY <2>2, SequenceOfLength
  <2> QED  BY <2>3 DEF l
<1> HIDE DEF s
<1>4. Digits(s) = s
  BY <1>3, DigitsWithoutSeparators
<1>5. \A i \in Position : 16 * s[2 * i + 1] + s[2 * i + 2] = x[i]
  BY <1>1, TwoDigits
<1>6. RawBytes(s) = {[i \in Position |-> 16 * s[2 * i + 1] + s[2 * i + 2]]}
  BY <1>3, <1>4 DEF RawBytes
<1>7. [i \in Position |-> 16 * s[2 * i + 1] + s[2 * i + 2]] = x
  BY <1>5
<1> QED  BY <1>3, <1>6, <1>7 DEF s

\* parse_packet (packet_parser.py:148-203) reads what was meant: of any 176 bytes y,
\* masked and interleaved for it and written in hexadecimal with separators anywhere,
\* it tells the kind that y[0] says and the drone of y[6], ..., y[9].  In particular a
\* key packet and a data packet made for one drone are told apart and yield the same
\* drone, so that the load balancer sends them to one server.
THEOREM ParserReadsWhatWasSent ==
  ASSUME NEW y \in [Position -> Byte], NEW t, NEW f,
         SameDigits(HexString(Remask(y)), t, f)
  PROVE  Parse(t) = Classify(y)
<1> DEFINE x == Remask(y)
           s == HexString(x)
<1>1. x \in [Position -> Byte] /\ Demask(x) = y
  BY RemaskUndone
<1> HIDE DEF x
<1>2. s \in Seq(Digit) /\ RawBytes(s) = {x}
  BY <1>1, BytesReadBack
<1> HIDE DEF s
<1>3. Parse(s) = Classify(y)
  BY <1>1, <1>2 DEF Parse
<1>4. Parse(t) = Parse(s)
  BY <1>2, RankWithoutSeparators, SeparatorsIgnored DEF s, x
<1> QED  BY <1>3, <1>4

-----------------------------------------------------------------------------
(* Theorems of the specification.                                          *)

\* Of each packet in progress, its bytes can be had back from what the parser made
\* of them, for every set of strings and however long they are.
THEOREM NothingIsLost == Spec => []NothingLost
<1>1. Useful \subseteq Recoverable
  <2> SUFFICES ASSUME NEW p \in Useful
               PROVE  p \in Recoverable
    OBVIOUS
  <2>1. p \in Input /\ Parse(Text[p]).kind \in {"key_packet", "data_packet"}
    BY UsefulAssumption
  <2>2. Text[p] \in Seq(Digit \cup {Separator})
    BY <2>1, TextAssumption
  <2>3. RawBytes(Text[p]) # {}
    BY <2>1 DEF Parse, Classify
  <2>4. PICK raw \in RawBytes(Text[p]) : TRUE
    BY <2>3
  <2>5. raw \in [Position -> Byte]
    BY <2>2, RawBytesType
  <2>6. Remask(Demask(raw)) = raw
    BY <2>5, DemaskRecoverable
  <2> QED  BY <2>5, <2>6 DEF Recoverable
<1>2. IInv => NothingLost
  <2> SUFFICES ASSUME IInv, NEW r \in Req, Carries(r)
               PROVE  req[r].packet \in Useful
    BY <1>1 DEF NothingLost
  <2>1. req[r] \in Charging
    BY DEF Carries
  <2> QED  BY <2>1 DEF Charging
<1> QED  BY <1>2, Invariance, PTL

=============================================================================
