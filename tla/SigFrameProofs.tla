--------------------------- MODULE SigFrameProofs ---------------------------
(***************************************************************************)
(* The codec of SigFrame for every header without special bytes, every     *)
(* length and content of the data, any number of frames one after the      *)
(* other in the same buffer, and every size of the buffer, also one that   *)
(* is too small.                                                           *)
(***************************************************************************)
EXTENDS SigFrame, FiniteSetTheorems, TLAPS

Special == {TAG, ESC}

\* The header is in the buffer whenever a frame is begun.
HeaderKept ==
    pc \notin {"encode", "overrun"} => \A p \in 1 .. Len(Header) : buf[p] = Header[p]

\* What has been written is in the buffer.
Room ==
    /\ pc \in {"crc", "encode"} => size < BufLen
    /\ pc = "decode" => Place(Checked, Len(Checked) + 1) < BufLen

\* What externalProtocolAddCrcCode finds.
Filled ==
    pc = "crc" => /\ size = Len(Content)
                  /\ \A p \in 1 .. Len(Content) : buf[p] = Content[p]

\* The loop of externalProtocolEncode when j bytes of s have been escaped: it is at the
\* next one, or at the second byte of the escape it has just made.  The bytes not yet
\* looked at follow unescaped.
EncodedTo(s, j) ==
    /\ i + 1 = Place(s, j + 1)
         \/ (i + 1 = Place(s, j + 1) - 1 /\ j >= 1 /\ s[j] \in Special)
    /\ size = Place(s, j + 1) - 1 + Len(s) - j
    /\ \A k \in 1 .. j : EscapedAt(buf, Place(s, k), s[k])
    /\ \A k \in j + 1 .. Len(s) : buf[Place(s, j + 1) + k - (j + 1)] = s[k]

Encoding == pc = "encode" => \E j \in 0 .. Len(Checked) : EncodedTo(Checked, j)

\* The loop of externalProtocolDecode: i bytes of s are restored, the escaping of the
\* others follows, and behind it the closing tag.
DecodedTo(s) ==
    /\ rbuf \in [0 .. Place(s, Len(s) + 1) -> 0 .. 255]
    /\ i \in 0 .. Len(s)
    /\ rsize = i + Place(s, Len(s) + 1) - Place(s, i + 1)
    /\ \A k \in 1 .. i : rbuf[k] = s[k]
    /\ \A k \in i + 1 .. Len(s) : EscapedAt(rbuf, Place(s, k) - Place(s, i + 1) + i + 1, s[k])
    /\ rbuf[rsize + 1] = TAG

Decoding == pc = "decode" => DecodedTo(Checked)

CodecInv ==
    /\ TypeOK /\ Room /\ OverrunOnlyIfTooLong
    /\ HeaderKept /\ Filled /\ Encoding /\ FrameIsEscaped /\ Decoding /\ RoundTrip

-----------------------------------------------------------------------------
(* The places of the escaped bytes.                                        *)

\* The bytes before the j-th that are escaped: a finite set.
LEMMA EscapedBefore ==
    ASSUME NEW s, NEW j \in Nat
    PROVE  LET A == {k \in 1 .. j - 1 : s[k] \in {TAG, ESC}}
           IN  IsFiniteSet(A) /\ Cardinality(A) \in Nat
<1> DEFINE A == {k \in 1 .. j - 1 : s[k] \in {TAG, ESC}}
<1>1. IsFiniteSet(1 .. j - 1)
  BY FS_Interval
<1>2. A \in SUBSET (1 .. j - 1)
  OBVIOUS
<1>3. IsFiniteSet(A)
  BY <1>1, <1>2, FS_Subset
<1>4. Cardinality(A) \in Nat
  BY <1>3, FS_CardinalityType
<1> QED
  BY <1>3, <1>4

LEMMA PlaceType ==
    ASSUME NEW s, NEW j \in Nat PROVE Place(s, j) \in Nat /\ Place(s, j) >= j
<1>1. Cardinality({k \in 1 .. j - 1 : s[k] \in {TAG, ESC}}) \in Nat
  BY EscapedBefore
<1> QED
  BY <1>1 DEF Place

LEMMA PlaceFirst == ASSUME NEW s PROVE Place(s, 1) = 1
<1>1. {k \in 1 .. 1 - 1 : s[k] \in {TAG, ESC}} = {}
  OBVIOUS
<1> QED
  BY <1>1, FS_EmptySet DEF Place

\* The byte behind a special one stands two further on, behind another one.
LEMMA PlaceNext ==
    ASSUME NEW s, NEW j \in Nat, j >= 1
    PROVE  /\ s[j] \in Special => Place(s, j + 1) = Place(s, j) + 2
           /\ s[j] \notin Special => Place(s, j + 1) = Place(s, j) + 1
<1> DEFINE A == {k \in 1 .. j - 1 : s[k] \in {TAG, ESC}}
           B == {k \in 1 .. j + 1 - 1 : s[k] \in {TAG, ESC}}
<1>1. IsFiniteSet(A) /\ Cardinality(A) \in Nat
  BY EscapedBefore
<1>2. CASE s[j] \in Special
  <2>1. B = A \union {j} /\ j \notin A
    BY <1>2 DEF Special
  <2>2. Cardinality(B) = Cardinality(A) + 1
    BY <1>1, <2>1, FS_AddElement
  <2> QED
    BY <1>1, <1>2, <2>2 DEF Place
<1>3. CASE s[j] \notin Special
  <2>1. B = A
    BY <1>3 DEF Special
  <2> QED
    BY <1>1, <1>3, <2>1 DEF Place
<1> QED
  BY <1>2, <1>3

\* From the j-th byte to the k-th it is at least k - j places and at most twice that.
LEMMA PlaceGap ==
    ASSUME NEW s, NEW j \in Nat, NEW k \in Nat, 1 <= j, j <= k
    PROVE  Place(s, j) + (k - j) <= Place(s, k) /\ Place(s, k) <= Place(s, j) + 2 * (k - j)
<1> DEFINE A == {l \in 1 .. j - 1 : s[l] \in {TAG, ESC}}
           B == {l \in 1 .. k - 1 : s[l] \in {TAG, ESC}}
<1>1. IsFiniteSet(A) /\ Cardinality(A) \in Nat /\ IsFiniteSet(B) /\ Cardinality(B) \in Nat
  BY EscapedBefore
<1>2. A \in SUBSET B
  OBVIOUS
<1>3. Cardinality(A) <= Cardinality(B)
  BY <1>1, <1>2, FS_Subset
<1>4. IsFiniteSet(j .. k - 1) /\ Cardinality(j .. k - 1) = k - j
  <2>1. /\ IsFiniteSet(j .. k - 1)
        /\ Cardinality(j .. k - 1) = IF j > k - 1 THEN 0 ELSE (k - 1) - j + 1
    BY FS_Interval
  <2> QED
    BY <2>1
<1>5. /\ IsFiniteSet(A \union (j .. k - 1))
      /\ Cardinality(A \union (j .. k - 1)) \in Nat
      /\ Cardinality(A \union (j .. k - 1)) <= Cardinality(A) + (k - j)
  <2>1. /\ IsFiniteSet(A \union (j .. k - 1))
        /\ Cardinality(A \union (j .. k - 1))
             = Cardinality(A) + Cardinality(j .. k - 1) - Cardinality(A \intersect (j .. k - 1))
    BY <1>1, <1>4, FS_Union
  <2>2. Cardinality(A \intersect (j .. k - 1)) = 0
    <3>1. A \intersect (j .. k - 1) = {}
      OBVIOUS
    <3> QED
      BY <3>1, FS_EmptySet
  <2>3. Cardinality(A \union (j .. k - 1)) \in Nat
    BY <2>1, FS_CardinalityType
  <2> QED
    BY <1>1, <1>4, <2>1, <2>2, <2>3
<1>6. B \in SUBSET (A \union (j .. k - 1))
  OBVIOUS
<1>7. Cardinality(B) <= Cardinality(A \union (j .. k - 1))
  BY <1>5, <1>6, FS_Subset
<1>8. Place(s, j) = j + Cardinality(A) /\ Place(s, k) = k + Cardinality(B)
  BY DEF Place
<1> QED
  BY <1>1, <1>3, <1>5, <1>7, <1>8

\* An escape ends before the next one begins.
LEMMA PlaceBefore ==
    ASSUME NEW s, NEW k \in Nat, NEW m \in Nat, 1 <= k, k < m
    PROVE  /\ Place(s, k) \in Nat /\ 1 <= Place(s, k) /\ Place(s, k) < Place(s, m)
           /\ s[k] \in Special => Place(s, k) + 1 < Place(s, m)
<1>1. k + 1 \in Nat /\ 1 <= k + 1 /\ k + 1 <= m /\ m - (k + 1) \in Nat
  OBVIOUS
<1>2. /\ Place(s, k) \in Nat /\ Place(s, k) >= k /\ Place(s, k + 1) \in Nat
      /\ Place(s, m) \in Nat
  BY <1>1, PlaceType
<1>3. /\ s[k] \in Special => Place(s, k + 1) = Place(s, k) + 2
      /\ s[k] \notin Special => Place(s, k + 1) = Place(s, k) + 1
  BY PlaceNext
<1>4. Place(s, k + 1) + (m - (k + 1)) <= Place(s, m)
  BY <1>1, PlaceGap
<1>5. Place(s, k + 1) <= Place(s, m)
  BY <1>1, <1>2, <1>4
<1> QED
  BY <1>2, <1>3, <1>5

\* Before the first special byte everything keeps its place.
LEMMA PlacePlain ==
    ASSUME NEW s, NEW j \in Nat, \A k \in 1 .. j - 1 : s[k] \notin Special
    PROVE  Place(s, j) = j
<1>1. {k \in 1 .. j - 1 : s[k] \in {TAG, ESC}} = {}
  BY DEF Special
<1> QED
  BY <1>1, FS_EmptySet DEF Place

-----------------------------------------------------------------------------
(* The check byte.                                                         *)

LEMMA XorAllType ==
    ASSUME NEW s, Len(s) \in Nat PROVE XorAll(s) \in 0 .. 255
<1> DEFINE P(w) == Cardinality({j \in 1 .. Len(s) : (s[j] \div w) % 2 = 1})
<1>1. \A w : P(w) \in Nat
  <2> TAKE w
  <2>1. IsFiniteSet(1 .. Len(s))
    BY FS_Interval
  <2>2. {j \in 1 .. Len(s) : (s[j] \div w) % 2 = 1} \in SUBSET (1 .. Len(s))
    OBVIOUS
  <2> QED
    BY <2>1, <2>2, FS_Subset, FS_CardinalityType
<1>2. XorAll(s) = 1 * (P(1) % 2) + 2 * (P(2) % 2) + 4 * (P(4) % 2) + 8 * (P(8) % 2)
                  + 16 * (P(16) % 2) + 32 * (P(32) % 2) + 64 * (P(64) % 2)
                  + 128 * (P(128) % 2)
  BY DEF XorAll
<1>3. \A c \in Nat : c % 2 \in {0, 1}
  OBVIOUS
<1> DEFINE R(w) == P(w) % 2
<1>4. \A w : R(w) \in {0, 1}
  <2> HIDE DEF P
  <2> QED
    BY <1>1, <1>3
<1>5. XorAll(s) = 1 * R(1) + 2 * R(2) + 4 * R(4) + 8 * R(8) + 16 * R(16) + 32 * R(32)
                  + 64 * R(64) + 128 * R(128)
  BY <1>2
<1> HIDE DEF R
\* One bit after the other.
<1> DEFINE x1 == 1 * R(1)
           x2 == x1 + 2 * R(2)
           x3 == x2 + 4 * R(4)
           x4 == x3 + 8 * R(8)
           x5 == x4 + 16 * R(16)
           x6 == x5 + 32 * R(32)
           x7 == x6 + 64 * R(64)
           x8 == x7 + 128 * R(128)
<1>6. x1 \in 0 .. 1
  BY <1>4
<1>7. x2 \in 0 .. 3
  <2> HIDE DEF x1
  <2>1. \A x \in 0 .. 1, b \in {0, 1} : x + 2 * b \in 0 .. 3
    OBVIOUS
  <2> QED
    BY <1>4, <1>6, <2>1, Zenon
<1>8. x3 \in 0 .. 7
  <2> HIDE DEF x2
  <2>1. \A x \in 0 .. 3, b \in {0, 1} : x + 4 * b \in 0 .. 7
    OBVIOUS
  <2> QED
    BY <1>4, <1>7, <2>1, Zenon
<1>9. x4 \in 0 .. 15
  <2> HIDE DEF x3
  <2>1. \A x \in 0 .. 7, b \in {0, 1} : x + 8 * b \in 0 .. 15
    OBVIOUS
  <2> QED
    BY <1>4, <1>8, <2>1, Zenon
<1>10. x5 \in 0 .. 31
  <2> HIDE DEF x4
  <2>1. \A x \in 0 .. 15, b \in {0, 1} : x + 16 * b \in 0 .. 31
    OBVIOUS
  <2> QED
    BY <1>4, <1>9, <2>1, Zenon
<1>11. x6 \in 0 .. 63
  <2> HIDE DEF x5
  <2>1. \A x \in 0 .. 31, b \in {0, 1} : x + 32 * b \in 0 .. 63
    OBVIOUS
  <2> QED
    BY <1>4, <1>10, <2>1, Zenon
<1>12. x7 \in 0 .. 127
  <2> HIDE DEF x6
  <2>1. \A x \in 0 .. 63, b \in {0, 1} : x + 64 * b \in 0 .. 127
    OBVIOUS
  <2> QED
    BY <1>4, <1>11, <2>1, Zenon
<1>13. x8 \in 0 .. 255
  <2> HIDE DEF x7
  <2>1. \A x \in 0 .. 127, b \in {0, 1} : x + 128 * b \in 0 .. 255
    OBVIOUS
  <2> QED
    BY <1>4, <1>12, <2>1, Zenon
<1> QED
  BY <1>5, <1>13

-----------------------------------------------------------------------------
LEMMA SeqElement == ASSUME NEW S, NEW s \in Seq(S), NEW p \in 1 .. Len(s) PROVE s[p] \in S
  OBVIOUS

(* What a frame carries.                                                   *)

LEMMA DataType == ASSUME NEW d \in Payload
                  PROVE  /\ d \in Seq(0 .. 255) /\ Len(d) \in Nat
                         /\ DOMAIN d = 1 .. Len(d)
                         /\ \A k \in DOMAIN d : d[k] \in 0 .. 255
<1>1. CASE d = <<>>
  BY <1>1
<1>2. CASE d \in Data
  <2>1. PICK n \in Lengths : d \in [1 .. n -> Byte]
    BY <1>2 DEF Data
  <2>2. Byte \subseteq 0 .. 255 /\ n \in Nat
    BY ConstantAssumption
  <2>3. d \in [1 .. n -> 0 .. 255]
    BY <2>1, <2>2
  <2>4. d \in Seq(0 .. 255) /\ Len(d) = n
    BY <2>2, <2>3
  <2> QED
    BY <2>2, <2>3, <2>4
<1> QED
  BY <1>1, <1>2 DEF Payload

LEMMA ContentFacts ==
    ASSUME data \in Payload
    PROVE  /\ Content \in Seq(0 .. 255) /\ Len(Content) = Len(Header) + Len(data)
           /\ Checked \in Seq(0 .. 255) /\ Len(Checked) = Len(Content) + 1
           /\ \A p \in 1 .. Len(Header) : Content[p] = Header[p]
           /\ \A p \in Len(Header) + 1 .. Len(Content) : Content[p] = data[p - Len(Header)]
           /\ \A p \in 1 .. Len(Content) : Checked[p] = Content[p]
           /\ Checked[Len(Content) + 1] = XorAll(Content)
           /\ Len(Header) \in Nat /\ Len(data) \in Nat
<1>1. data \in Seq(0 .. 255) /\ Len(data) \in Nat
  BY DataType
<1>2. Header \in Seq(0 .. 255) /\ Len(Header) \in Nat
  BY ConstantAssumption
<1>3. /\ Content \in Seq(0 .. 255) /\ Len(Content) = Len(Header) + Len(data)
      /\ \A p \in 1 .. Len(Header) : Content[p] = Header[p]
      /\ \A p \in Len(Header) + 1 .. Len(Content) : Content[p] = data[p - Len(Header)]
  BY <1>1, <1>2 DEF Content
<1>4. XorAll(Content) \in 0 .. 255
  <2>1. Len(Content) \in Nat
    BY <1>3
  <2> QED
    BY <2>1, XorAllType
<1>5. /\ Checked \in Seq(0 .. 255) /\ Len(Checked) = Len(Content) + 1
      /\ \A p \in 1 .. Len(Content) : Checked[p] = Content[p]
      /\ Checked[Len(Content) + 1] = XorAll(Content)
  BY <1>3, <1>4 DEF Checked
<1> QED
  BY <1>1, <1>2, <1>3, <1>5

\* The header keeps its place.
LEMMA CheckedPlaces ==
    ASSUME data \in Payload
    PROVE  /\ \A k \in 1 .. Len(Header) : Checked[k] = Header[k] /\ Checked[k] \notin Special
           /\ \A k \in 1 .. Len(Header) + 1 : Place(Checked, k) = k
           /\ Place(Checked, Len(Checked) + 1) \in Nat
<1> DEFINE h == Len(Header)
           n == Len(Checked)
<1>1. h \in Nat /\ n \in Nat /\ n = h + Len(data) + 1 /\ Len(data) \in Nat
  BY ContentFacts
<1>2. \A k \in 1 .. h : Checked[k] = Header[k] /\ Checked[k] \notin Special
  <2>1. \A k \in 1 .. h : Header[k] \notin Special
    BY ConstantAssumption DEF Special
  <2>2. /\ Len(Content) = h + Len(data)
        /\ \A k \in 1 .. h : Content[k] = Header[k]
        /\ \A k \in 1 .. Len(Content) : Checked[k] = Content[k]
    BY ContentFacts
  <2> QED
    BY <1>1, <2>1, <2>2
<1>3. \A k \in 1 .. h + 1 : Place(Checked, k) = k
  <2> TAKE k \in 1 .. h + 1
  <2>1. k \in Nat /\ \A l \in 1 .. k - 1 : Checked[l] \notin Special
    BY <1>1, <1>2
  <2> QED
    BY <2>1, PlacePlain
<1>4. Place(Checked, n + 1) \in Nat
  BY <1>1, PlaceType
<1> QED
  BY <1>2, <1>3, <1>4

\* A frame is longer than what it carries, by its two tags at least.
LEMMA FrameLong ==
    ASSUME NEW d \in Payload, NEW s, s = Append(Header \o d, XorAll(Header \o d))
    PROVE  /\ Len(s) = Len(Header) + Len(d) + 1 /\ Len(Header) \in Nat /\ Len(d) \in Nat
           /\ Place(s, Len(s) + 1) \in Nat /\ Place(s, Len(s) + 1) >= Len(s) + 1
<1>1. Header \in Seq(0 .. 255) /\ d \in Seq(0 .. 255) /\ Len(Header) \in Nat /\ Len(d) \in Nat
  BY DataType, ConstantAssumption
<1>2. /\ Header \o d \in Seq(0 .. 255) /\ Len(Header \o d) = Len(Header) + Len(d)
      /\ Len(Header \o d) \in Nat
  BY <1>1
<1>3. XorAll(Header \o d) \in 0 .. 255
  BY <1>2, XorAllType
<1>4. Len(s) = Len(Header) + Len(d) + 1
  BY <1>2, <1>3
<1>5. Len(s) + 1 \in Nat /\ Len(s) + 1 >= 1
  BY <1>1, <1>4
<1> QED
  BY <1>1, <1>4, <1>5, PlaceType

-----------------------------------------------------------------------------
\* Moving bytes keeps the type of a buffer.
LEMMA ShiftType ==
    ASSUME NEW l \in Int, NEW f \in [0 .. l -> 0 .. 255], NEW k \in Nat
    PROVE  ShiftUp(f, k) \in [0 .. l -> 0 .. 255] /\ ShiftDown(f, k) \in [0 .. l -> 0 .. 255]
<1>1. ASSUME NEW p \in 0 .. l PROVE (IF p > k THEN f[p - 1] ELSE f[p]) \in 0 .. 255
  <2>1. CASE p > k
    <3>1. p - 1 \in 0 .. l
      BY <2>1
    <3> QED
      BY <2>1, <3>1
  <2> QED
    BY <2>1
<1>2. DOMAIN f = 0 .. l
  OBVIOUS
<1>3. ShiftUp(f, k) \in [0 .. l -> 0 .. 255]
  BY <1>1, <1>2 DEF ShiftUp
<1>4. ShiftDown(f, k) \in [0 .. l -> 0 .. 255]
  BY <1>2 DEF ShiftDown
<1> QED
  BY <1>3, <1>4

-----------------------------------------------------------------------------
(* The loop that escapes.                                                  *)

\* The places before the one the loop has reached, and the room behind it.
LEMMA EncodeRoom ==
    ASSUME TypeOK, NEW j \in 0 .. Len(Checked), EncodedTo(Checked, j)
    PROVE  /\ Len(Checked) \in Nat
           /\ Place(Checked, j + 1) \in Nat /\ Place(Checked, j + 1) >= j + 1
           /\ size = Place(Checked, j + 1) - 1 + Len(Checked) - j
           /\ \A k \in 1 .. j :
                /\ Place(Checked, k) \in Nat /\ 1 <= Place(Checked, k)
                /\ Place(Checked, k) < Place(Checked, j + 1)
                /\ Checked[k] \in Special => Place(Checked, k) + 1 < Place(Checked, j + 1)
<1> DEFINE s == Checked
           n == Len(s)
           q == Place(s, j + 1)
<1>1. data \in Payload /\ size \in Nat
  BY DEF TypeOK
<1>2. n \in Nat /\ BufLen \in Nat
  BY <1>1, ContentFacts, ConstantAssumption
<1>3. q \in Nat /\ q >= j + 1
  <2>1. j + 1 \in Nat
    BY <1>2
  <2> QED
    BY <2>1, PlaceType
<1>4. size = q - 1 + n - j
  BY DEF EncodedTo
<1>8. ASSUME NEW k \in 1 .. j
      PROVE  /\ Place(s, k) \in Nat /\ 1 <= Place(s, k) /\ Place(s, k) < q
             /\ s[k] \in Special => Place(s, k) + 1 < q
  <2>1. k \in Nat /\ j + 1 \in Nat /\ 1 <= k /\ k < j + 1
    BY <1>2
  <2> QED
    BY <2>1, PlaceBefore
<1> QED
  BY <1>2, <1>3, <1>4, <1>8

\* A byte that is not special is passed; one more byte is done.
LEMMA EncodePlain ==
    ASSUME TypeOK, NEW j \in 0 .. Len(Checked), EncodedTo(Checked, j),
           i + 1 = Place(Checked, j + 1), j < Len(Checked),
           Checked[j + 1] \notin Special, Checked' = Checked,
           buf' = buf, size' = size, i' = i + 1
    PROVE  EncodedTo(Checked, j + 1)'
<1> DEFINE s == Checked
           n == Len(s)
           q == Place(s, j + 1)
<1>1. n \in Nat /\ j \in Nat /\ q \in Nat /\ i \in Nat
  BY EncodeRoom DEF TypeOK
<1>2. Place(s, j + 1 + 1) = q + 1
  <2>1. j + 1 \in Nat /\ j + 1 >= 1
    BY <1>1
  <2> QED
    BY <2>1, PlaceNext
<1>3. size = q - 1 + n - j /\ i + 1 = q
  BY DEF EncodedTo
<1>4. i' + 1 = q + 1 /\ size' = (q + 1) - 1 + n - (j + 1)
  <2> HIDE DEF s, n, q
  <2> QED
    BY <1>1, <1>3
<1>5. \A k \in j + 1 .. n : buf[q + k - (j + 1)] = s[k]
  BY DEF EncodedTo
<1>6. EscapedAt(buf, q, s[j + 1])
  <2>0. j + 1 \in j + 1 .. n
    BY <1>1
  <2>1. buf[q + (j + 1) - (j + 1)] = s[j + 1]
    BY <1>5, <2>0, Zenon
  <2>2. q + (j + 1) - (j + 1) = q
    <3> HIDE DEF q
    <3> QED
      BY <1>1
  <2> QED
    BY <2>1, <2>2 DEF EscapedAt, Special
<1>7. \A k \in 1 .. j + 1 : EscapedAt(buf, Place(s, k), s[k])
  <2>1. \A k \in 1 .. j : EscapedAt(buf, Place(s, k), s[k])
    BY DEF EncodedTo
  <2> QED
    BY <1>1, <1>6, <2>1
<1>8. ASSUME NEW k \in j + 1 + 1 .. n PROVE buf[(q + 1) + k - (j + 1 + 1)] = s[k]
  <2>1. (q + 1) + k - (j + 1 + 1) = q + k - (j + 1) /\ k \in j + 1 .. n
    <3> HIDE DEF q, n
    <3> QED
      BY <1>1
  <2> QED
    BY <1>5, <2>1
<1> HIDE DEF q
<1>9. /\ i' + 1 = Place(s, j + 1 + 1)
      /\ size' = Place(s, j + 1 + 1) - 1 + Len(s) - (j + 1)
      /\ \A k \in 1 .. j + 1 : EscapedAt(buf', Place(s, k), s[k])
      /\ \A k \in j + 1 + 1 .. Len(s) : buf'[Place(s, j + 1 + 1) + k - (j + 1 + 1)] = s[k]
  BY <1>2, <1>4, <1>7, <1>8
<1> QED
  BY <1>9 DEF EncodedTo, EscapedAt

\* A special byte becomes two; the loop goes on with the second of them.
LEMMA EncodeSpecial ==
    ASSUME TypeOK, NEW j \in 0 .. Len(Checked), EncodedTo(Checked, j),
           i + 1 = Place(Checked, j + 1), j < Len(Checked),
           Checked[j + 1] \in Special, Checked' = Checked,
           buf' = [ShiftUp(buf, i + 1) EXCEPT ![i + 1] = ESC, ![i + 2] = Second(Checked[j + 1])],
           size' = size + 1, i' = i + 1, size + 1 < BufLen
    PROVE  EncodedTo(Checked, j + 1)'
<1> DEFINE s == Checked
           n == Len(s)
           q == Place(s, j + 1)
<1>1. n \in Nat /\ j \in Nat /\ q \in Nat /\ i \in Nat /\ q >= 1 /\ BufLen \in Nat /\ j < n
  BY EncodeRoom, ConstantAssumption DEF TypeOK
<1>2. Place(s, j + 1 + 1) = q + 2
  <2>1. j + 1 \in Nat /\ j + 1 >= 1
    BY <1>1
  <2> QED
    BY <2>1, PlaceNext
<1>3. size = q - 1 + n - j /\ i + 1 = q /\ size + 1 < BufLen
  BY EncodeRoom DEF EncodedTo
<1>4. i' + 1 = (q + 2) - 1 /\ size' = (q + 2) - 1 + n - (j + 1)
  <2> HIDE DEF s, n, q
  <2> QED
    BY <1>1, <1>3
<1>5. \A p \in 0 .. BufLen - 1 :
        buf'[p] = IF p = q + 1 THEN Second(s[j + 1])
                  ELSE IF p = q THEN ESC
                  ELSE IF p > q THEN buf[p - 1] ELSE buf[p]
  <2>1. buf \in [0 .. BufLen - 1 -> 0 .. 255]
    BY DEF TypeOK
  <2>2. i + 2 = q + 1
    <3> HIDE DEF q
    <3> QED
      BY <1>1, <1>3
  <2> HIDE DEF q, s
  <2> QED
    BY <1>1, <1>3, <2>1, <2>2 DEF ShiftUp, s
<1>6. q \in 0 .. BufLen - 1 /\ q + 1 \in 0 .. BufLen - 1
  <2> HIDE DEF q, n
  <2> QED
    BY <1>1, <1>3
<1>7. EscapedAt(buf', q, s[j + 1])
  <2>1. buf'[q] = ESC /\ buf'[q + 1] = Second(s[j + 1])
    <3>1. q # q + 1
      <4> HIDE DEF q
      <4> QED
        BY <1>1
    <3> HIDE DEF q, s
    <3> QED
      BY <1>5, <1>6, <3>1, Zenon
  <2> QED
    BY <2>1 DEF EscapedAt, Special
<1>8. ASSUME NEW k \in 1 .. j PROVE EscapedAt(buf', Place(s, k), s[k])
  <2>1. /\ Place(s, k) \in Nat /\ 1 <= Place(s, k) /\ Place(s, k) < q
        /\ s[k] \in Special => Place(s, k) + 1 < q
    BY EncodeRoom
  <2>2. EscapedAt(buf, Place(s, k), s[k])
    BY DEF EncodedTo
  <2>3. buf'[Place(s, k)] = buf[Place(s, k)]
    <3> HIDE DEF q
    <3> QED
      BY <1>1, <1>5, <1>6, <2>1
  <2>4. s[k] \in Special => buf'[Place(s, k) + 1] = buf[Place(s, k) + 1]
    <3> HAVE s[k] \in Special
    <3> DEFINE p == Place(s, k) + 1
    <3>1. p \in 0 .. BufLen - 1 /\ p # q + 1 /\ p # q /\ ~(p > q)
      <4> HIDE DEF q, s
      <4> QED
        BY <1>1, <1>6, <2>1
    <3> HIDE DEF p, q, s
    <3>2. buf'[p] = buf[p]
      BY <1>5, <3>1, Zenon
    <3> QED
      BY <3>2 DEF p
  <2> QED
    BY <2>2, <2>3, <2>4 DEF EscapedAt, Special
<1>9. \A k \in 1 .. j + 1 : EscapedAt(buf', Place(s, k), s[k])
  BY <1>1, <1>7, <1>8
<1>10. ASSUME NEW k \in j + 1 + 1 .. n PROVE buf'[(q + 2) + k - (j + 1 + 1)] = s[k]
  <2> DEFINE p == (q + 2) + k - (j + 1 + 1)
  <2>1. /\ p - 1 = q + k - (j + 1) /\ k \in j + 1 .. n /\ p > q + 1
        /\ p \in 0 .. BufLen - 1
    <3> HIDE DEF q, n
    <3> QED
      BY <1>1, <1>3
  <2>2. buf[q + k - (j + 1)] = s[k]
    BY <2>1 DEF EncodedTo
  <2>3. buf'[p] = buf[p - 1]
    <3> HIDE DEF p, q
    <3> QED
      BY <1>1, <1>5, <2>1
  <2> QED
    BY <2>1, <2>2, <2>3
<1> HIDE DEF q
<1>11. /\ i' + 1 = Place(s, j + 1 + 1) - 1 /\ j + 1 >= 1 /\ s[j + 1] \in Special
       /\ size' = Place(s, j + 1 + 1) - 1 + Len(s) - (j + 1)
       /\ \A k \in 1 .. j + 1 : EscapedAt(buf', Place(s, k), s[k])
       /\ \A k \in j + 1 + 1 .. Len(s) : buf'[Place(s, j + 1 + 1) + k - (j + 1 + 1)] = s[k]
  <2>1. j + 1 >= 1 /\ s[j + 1] \in Special
    BY <1>1
  <2>2. \A k \in j + 1 + 1 .. Len(s) : buf'[(q + 2) + k - (j + 1 + 1)] = s[k]
    BY <1>10
  <2> HIDE DEF s
  <2> QED
    BY <1>2, <1>4, <1>9, <2>1, <2>2, Zenon
<1> QED
  BY <1>11 DEF EncodedTo, EscapedAt

\* The second byte of an escape is not special; the loop passes it.
LEMMA EncodeSecond ==
    ASSUME TypeOK, NEW j \in 0 .. Len(Checked), EncodedTo(Checked, j),
           i + 1 # Place(Checked, j + 1), Checked' = Checked,
           buf' = buf, size' = size, i' = i + 1
    PROVE  EncodedTo(Checked, j)'
<1>1. i \in Nat /\ Place(Checked, j + 1) \in Nat
  BY EncodeRoom DEF TypeOK
<1>2. i + 1 = Place(Checked, j + 1) - 1
  BY DEF EncodedTo
<1>3. i' + 1 = Place(Checked, j + 1)
  BY <1>1, <1>2
<1> QED
  BY <1>3 DEF EncodedTo, EscapedAt

\* What the loop finds at i: the next byte of the content, or such a second byte.
LEMMA EncodeLooks ==
    ASSUME TypeOK, NEW j \in 0 .. Len(Checked), EncodedTo(Checked, j)
    PROVE  /\ i + 1 = Place(Checked, j + 1) /\ i < size =>
                 j < Len(Checked) /\ buf[i + 1] = Checked[j + 1]
           /\ i + 1 # Place(Checked, j + 1) => buf[i + 1] \notin Special /\ i # size
           /\ i + 1 = Place(Checked, j + 1) /\ i = size => j = Len(Checked)
<1> DEFINE s == Checked
           n == Len(s)
           q == Place(s, j + 1)
<1>1. n \in Nat /\ j \in Nat /\ q \in Nat /\ i \in Nat /\ j <= n /\ size = q - 1 + n - j
  BY EncodeRoom DEF TypeOK
<1>2. i + 1 = q /\ i < size => j < n
  <2> HIDE DEF q, n
  <2> QED
    BY <1>1
<1>3. i + 1 = q /\ i = size => j = n
  <2> HIDE DEF q, n
  <2> QED
    BY <1>1
<1>4. j < n => buf[q] = s[j + 1]
  <2> HAVE j < n
  <2>1. j + 1 \in j + 1 .. n
    BY <1>1
  <2>2. buf[q + (j + 1) - (j + 1)] = s[j + 1]
    BY <2>1, Zenon DEF EncodedTo
  <2>3. q + (j + 1) - (j + 1) = q
    <3> HIDE DEF q
    <3> QED
      BY <1>1
  <2> QED
    BY <2>2, <2>3
<1>5. ASSUME i + 1 # q PROVE buf[i + 1] \notin Special /\ i # size
  <2>1. i + 1 = q - 1 /\ j >= 1 /\ s[j] \in Special
    BY <1>5 DEF EncodedTo
  <2>2. q = Place(s, j) + 2 /\ Place(s, j) \in Nat
    BY <1>1, <2>1, PlaceNext, PlaceType
  <2>3. EscapedAt(buf, Place(s, j), s[j])
    <3>1. j \in 1 .. j
      BY <1>1, <2>1
    <3> QED
      BY <3>1 DEF EncodedTo
  <2>4. buf[Place(s, j) + 1] = Second(s[j])
    BY <2>1, <2>3 DEF EscapedAt, Special
  <2>5. i + 1 = Place(s, j) + 1
    <3> HIDE DEF q, s
    <3> QED
      BY <1>1, <2>1, <2>2
  <2>6. Second(s[j]) \notin Special
    BY DEF Second, Special, TAG, ESC, ESC_TAG, ESC_ESC
  <2>7. i # size
    <3> HIDE DEF q, n
    <3> QED
      BY <1>1, <2>1
  <2> QED
    BY <2>4, <2>5, <2>6, <2>7
<1> QED
  BY <1>2, <1>3, <1>4, <1>5

\* A step behind the buffer: nothing but data and pc has changed.
LEMMA OverrunStep ==
    ASSUME CodecInv, Overrun, data' \in Payload, FrameSize' > BufLen
    PROVE  CodecInv'
<1>1. pc' = "overrun" /\ UNCHANGED <<buf, size, i, rbuf, rsize, accepted>>
  BY DEF Overrun
<1>2. TypeOK'
  BY <1>1 DEF CodecInv, TypeOK
<1>3. OverrunOnlyIfTooLong'
  BY DEF OverrunOnlyIfTooLong
<1> QED
  BY <1>1, <1>2, <1>3
  DEF CodecInv, Room, HeaderKept, Filled, Encoding, FrameIsEscaped, Decoding, RoundTrip

\* There is no room for the second byte of an escape only if the frame is too long.
LEMMA EncodeOverrun ==
    ASSUME CodecInv, externalProtocolEncode, buf[i + 1] \in {TAG, ESC}, ~Fits(size + 1)
    PROVE  CodecInv'
<1> DEFINE s == Checked
           n == Len(s)
           e == Place(s, n + 1)
<1>1. TypeOK /\ pc = "encode" /\ i < size /\ data' = data /\ Overrun
  BY DEF CodecInv, externalProtocolEncode, Insert
<1>2. Checked' = Checked
  BY <1>1 DEF Checked, Content
<1>3. PICK j \in 0 .. Len(Checked) : EncodedTo(Checked, j)
  BY <1>1 DEF CodecInv, Encoding
<1> DEFINE q == Place(s, j + 1)
<1>4. i + 1 = q /\ j < n /\ s[j + 1] \in Special
  BY <1>1, <1>3, EncodeLooks DEF Special
<1>5. n \in Nat /\ j \in Nat /\ q \in Nat /\ size = q - 1 + n - j /\ data \in Payload
  BY <1>1, <1>3, EncodeRoom DEF TypeOK
<1>6. Place(s, j + 1 + 1) = q + 2
  <2>1. j + 1 \in Nat /\ j + 1 >= 1
    BY <1>5
  <2> QED
    BY <1>4, <2>1, PlaceNext
<1>7. q + 2 + ((n + 1) - (j + 1 + 1)) <= e /\ e \in Nat
  <2>1. j + 1 + 1 \in Nat /\ n + 1 \in Nat /\ 1 <= j + 1 + 1 /\ j + 1 + 1 <= n + 1
    BY <1>4, <1>5
  <2>2. Place(s, j + 1 + 1) + ((n + 1) - (j + 1 + 1)) <= e
    <3> HIDE DEF s, n
    <3> QED
      BY <2>1, PlaceGap
  <2>3. e \in Nat
    BY <1>5, CheckedPlaces
  <2> QED
    BY <1>6, <2>2, <2>3
<1>8. e + 1 > BufLen
  <2>1. \A a, b, c, d, f \in Nat :
            a + 2 + ((b + 1) - (c + 1 + 1)) <= d /\ ~(a - 1 + b - c + 1 < f) => d + 1 > f
    OBVIOUS
  <2>2. BufLen \in Nat /\ ~(q - 1 + n - j + 1 < BufLen)
    BY <1>5, ConstantAssumption DEF Fits
  <2> HIDE DEF s, n, q, e
  <2> QED
    BY <1>5, <1>7, <2>1, <2>2
<1>9. FrameSize' = e + 1
  BY <1>2 DEF FrameSize, Place
<1> QED
  BY <1>1, <1>5, <1>8, <1>9, OverrunStep

LEMMA EncodeStep == ASSUME CodecInv, externalProtocolEncode PROVE CodecInv'
<1> SUFFICES ASSUME buf[i + 1] \in {TAG, ESC} => Fits(size + 1) PROVE CodecInv'
  BY EncodeOverrun
<1> USE DEF externalProtocolEncode, Insert
<1>1. TypeOK /\ pc = "encode" /\ pc' = "encode" /\ i < size /\ data' = data /\ i' = i + 1
      /\ UNCHANGED <<rbuf, rsize, accepted>>
  BY DEF CodecInv
<1>2. Checked' = Checked
  BY <1>1 DEF Checked, Content
<1>3. PICK j \in 0 .. Len(Checked) : EncodedTo(Checked, j)
  BY <1>1 DEF CodecInv, Encoding
<1>4. size < BufLen /\ Len(Checked) \in Nat /\ BufLen \in Nat
  BY <1>1, <1>3, EncodeRoom, ConstantAssumption DEF CodecInv, Room
<1>e. buf[i + 1] \in {TAG, ESC} =>
        /\ buf' = [ShiftUp(buf, i + 1) EXCEPT ![i + 1] = ESC, ![i + 2] = Second(buf[i + 1])]
        /\ size' = size + 1 /\ size + 1 < BufLen
  BY DEF Fits
<1>p. buf[i + 1] \notin {TAG, ESC} => UNCHANGED <<buf, size>>
  OBVIOUS
<1>5. TypeOK' /\ Room'
  <2>0. /\ buf \in [0 .. BufLen - 1 -> 0 .. 255]
        /\ size \in 0 .. BufLen /\ i \in 0 .. BufLen
    BY <1>1 DEF TypeOK
  <2>1. i' \in 0 .. BufLen
    BY <1>1, <1>4, <2>0
  <2>2. CASE buf[i + 1] \in {TAG, ESC}
    <3>1. ShiftUp(buf, i + 1) \in [0 .. BufLen - 1 -> 0 .. 255]
      <4>1. BufLen - 1 \in Int /\ i + 1 \in Nat
        BY <1>4, <2>0
      <4> QED
        BY <2>0, <4>1, ShiftType
    <3>2. ESC \in 0 .. 255 /\ Second(buf[i + 1]) \in 0 .. 255
      BY DEF ESC, Second, ESC_TAG, ESC_ESC
    <3>3. buf' \in [0 .. BufLen - 1 -> 0 .. 255]
      BY <1>e, <2>2, <3>1, <3>2
    <3>4. size' \in 0 .. BufLen /\ size' < BufLen
      BY <1>e, <1>4, <2>0, <2>2
    <3> QED
      BY <1>1, <2>1, <3>3, <3>4 DEF TypeOK, Room
  <2>3. CASE buf[i + 1] \notin {TAG, ESC}
    BY <1>p, <1>1, <1>4, <2>1, <2>3 DEF TypeOK, Room
  <2> QED
    BY <2>2, <2>3
<1>6. \E k \in 0 .. Len(Checked) : EncodedTo(Checked, k)'
  <2>1. CASE i + 1 = Place(Checked, j + 1)
    <3>1. j < Len(Checked) /\ buf[i + 1] = Checked[j + 1]
      BY <1>1, <1>3, <2>1, EncodeLooks
    <3>2. j + 1 \in 0 .. Len(Checked)
      BY <1>4, <3>1
    <3>3. CASE Checked[j + 1] \in Special
      <4>1. /\ buf' = [ShiftUp(buf, i + 1) EXCEPT ![i + 1] = ESC,
                                                  ![i + 2] = Second(Checked[j + 1])]
            /\ size' = size + 1 /\ size + 1 < BufLen
        BY <1>e, <3>1, <3>3 DEF Special
      <4>2. EncodedTo(Checked, j + 1)'
        BY <1>1, <1>2, <1>3, <2>1, <3>1, <3>3, <4>1, EncodeSpecial
      <4> QED
        BY <3>2, <4>2
    <3>4. CASE Checked[j + 1] \notin Special
      <4>1. buf' = buf /\ size' = size
        BY <1>p, <3>1, <3>4 DEF Special
      <4>2. EncodedTo(Checked, j + 1)'
        BY <1>1, <1>2, <1>3, <2>1, <3>1, <3>4, <4>1, EncodePlain
      <4> QED
        BY <3>2, <4>2
    <3> QED
      BY <3>3, <3>4
  <2>2. CASE i + 1 # Place(Checked, j + 1)
    <3>1. buf[i + 1] \notin Special
      BY <1>1, <1>3, <2>2, EncodeLooks
    <3>2. buf' = buf /\ size' = size
      BY <1>p, <3>1 DEF Special
    <3>3. EncodedTo(Checked, j)'
      BY <1>1, <1>2, <1>3, <2>2, <3>2, EncodeSecond
    <3> QED
      BY <3>3
  <2> QED
    BY <2>1, <2>2
<1>7. Encoding'
  BY <1>2, <1>6 DEF Encoding
<1> QED
  BY <1>1, <1>5, <1>7
  DEF CodecInv, OverrunOnlyIfTooLong, HeaderKept, Filled, FrameIsEscaped, Decoding, RoundTrip

-----------------------------------------------------------------------------
(* The loop that undoes the escaping.                                      *)

\* The places behind the one the loop has reached.
LEMMA DecodeRoom ==
    ASSUME data \in Payload, DecodedTo(Checked)
    PROVE  /\ Len(Checked) \in Nat /\ i \in Nat /\ i <= Len(Checked)
           /\ Place(Checked, i + 1) \in Nat /\ Place(Checked, i + 1) >= i + 1
           /\ Place(Checked, Len(Checked) + 1) \in Nat
           /\ Place(Checked, i + 1) + (Len(Checked) - i) <= Place(Checked, Len(Checked) + 1)
           /\ \A k \in i + 1 .. Len(Checked) :
                /\ Place(Checked, k) \in Nat
                /\ Place(Checked, i + 1) + (k - (i + 1)) <= Place(Checked, k)
                /\ Place(Checked, k) < Place(Checked, Len(Checked) + 1)
                /\ Checked[k] \in Special =>
                       Place(Checked, k) + 1 < Place(Checked, Len(Checked) + 1)
<1> DEFINE s == Checked
           n == Len(s)
           q == Place(s, i + 1)
           e == Place(s, n + 1)
<1>1. n \in Nat /\ i \in Nat /\ i <= n
  <2>1. n \in Nat
    BY ContentFacts
  <2>2. i \in 0 .. n
    BY DEF DecodedTo
  <2> QED
    BY <2>1, <2>2
<1>2. q \in Nat /\ q >= i + 1
  <2>1. i + 1 \in Nat
    BY <1>1
  <2> QED
    BY <2>1, PlaceType
<1>3. e \in Nat
  BY CheckedPlaces
<1>4. q + (n - i) <= e
  <2>1. i + 1 \in Nat /\ n + 1 \in Nat /\ 1 <= i + 1 /\ i + 1 <= n + 1
    BY <1>1
  <2>2. q + ((n + 1) - (i + 1)) <= e
    BY <2>1, PlaceGap
  <2>3. (n + 1) - (i + 1) = n - i
    BY <1>1
  <2> QED
    BY <2>2, <2>3
<1>5. ASSUME NEW k \in i + 1 .. n
      PROVE  /\ Place(s, k) \in Nat /\ q + (k - (i + 1)) <= Place(s, k) /\ Place(s, k) < e
             /\ s[k] \in Special => Place(s, k) + 1 < e
  <2>1. /\ k \in Nat /\ n + 1 \in Nat /\ 1 <= k /\ k < n + 1
        /\ i + 1 \in Nat /\ 1 <= i + 1 /\ i + 1 <= k
    BY <1>1
  <2>2. Place(s, k) \in Nat /\ Place(s, k) < e /\ (s[k] \in Special => Place(s, k) + 1 < e)
    BY <2>1, PlaceBefore
  <2>3. q + (k - (i + 1)) <= Place(s, k)
    BY <2>1, PlaceGap
  <2> QED
    BY <2>2, <2>3
<1> QED
  BY <1>1, <1>2, <1>3, <1>4, <1>5

\* A byte that is not escaped is passed.
LEMMA DecodePlain ==
    ASSUME data \in Payload, DecodedTo(Checked), i < Len(Checked),
           Checked[i + 1] \notin Special, Checked' = Checked,
           rbuf' = rbuf, rsize' = rsize, i' = i + 1
    PROVE  DecodedTo(Checked)'
<1> DEFINE s == Checked
           n == Len(s)
           q == Place(s, i + 1)
           e == Place(s, n + 1)
<1>1. n \in Nat /\ i \in Nat /\ i < n /\ q \in Nat /\ e \in Nat /\ rsize = i + e - q
  BY DecodeRoom DEF DecodedTo
<1>2. Place(s, i + 1 + 1) = q + 1
  <2>1. i + 1 \in Nat /\ i + 1 >= 1
    BY <1>1
  <2> QED
    BY <2>1, PlaceNext
<1>3. i' \in 0 .. n /\ rsize' = i' + e - Place(s, i' + 1)
  <2> HIDE DEF s, n, q, e
  <2> QED
    BY <1>1, <1>2
<1>4. ASSUME NEW k \in i + 1 .. n
      PROVE  Place(s, k) \in Nat /\ EscapedAt(rbuf, Place(s, k) - q + i + 1, s[k])
  BY DecodeRoom DEF DecodedTo
<1>5. rbuf[i + 1] = s[i + 1]
  <2>1. i + 1 \in i + 1 .. n
    BY <1>1
  <2>2. EscapedAt(rbuf, q - q + i + 1, s[i + 1])
    BY <1>4, <2>1
  <2>3. q - q + i + 1 = i + 1
    <3> HIDE DEF q
    <3> QED
      BY <1>1
  <2> QED
    BY <2>2, <2>3 DEF EscapedAt, Special
<1>6. \A k \in 1 .. i + 1 : rbuf[k] = s[k]
  <2>1. \A k \in 1 .. i : rbuf[k] = s[k]
    BY DEF DecodedTo
  <2> QED
    BY <1>1, <1>5, <2>1
<1>7. ASSUME NEW k \in i + 1 + 1 .. n
      PROVE  EscapedAt(rbuf, Place(s, k) - (q + 1) + (i + 1) + 1, s[k])
  <2>1. k \in i + 1 .. n
    BY <1>1
  <2>2. Place(s, k) \in Nat /\ EscapedAt(rbuf, Place(s, k) - q + i + 1, s[k])
    BY <1>4, <2>1
  <2>3. Place(s, k) - (q + 1) + (i + 1) + 1 = Place(s, k) - q + i + 1
    <3> HIDE DEF q, s
    <3> QED
      BY <1>1, <2>2
  <2> QED
    BY <2>2, <2>3
<1>8. rbuf \in [0 .. e -> 0 .. 255] /\ rbuf[rsize + 1] = TAG
  BY DEF DecodedTo
<1>9. \A k \in i + 1 + 1 .. n :
         EscapedAt(rbuf, Place(s, k) - Place(s, i + 1 + 1) + (i + 1) + 1, s[k])
  BY <1>2, <1>7
<1> HIDE DEF q, e
<1> QED
  BY <1>3, <1>6, <1>8, <1>9 DEF DecodedTo, EscapedAt, e

\* An escape becomes the byte it stands for, and the rest moves down.
LEMMA DecodeSpecial ==
    ASSUME data \in Payload, DecodedTo(Checked), i < Len(Checked),
           Checked[i + 1] \in Special, Checked' = Checked,
           rbuf' \in [0 .. Place(Checked, Len(Checked) + 1) -> 0 .. 255],
           \A p \in 0 .. Place(Checked, Len(Checked) + 1) :
              rbuf'[p] = IF p = i + 1 THEN Checked[i + 1]
                         ELSE IF p >= i + 2 /\ p + 1 <= Place(Checked, Len(Checked) + 1)
                         THEN rbuf[p + 1] ELSE rbuf[p],
           rsize' = rsize - 1, i' = i + 1
    PROVE  DecodedTo(Checked)'
<1> DEFINE s == Checked
           n == Len(s)
           q == Place(s, i + 1)
           e == Place(s, n + 1)
<1>0. \A p \in 0 .. e : rbuf'[p] = IF p = i + 1 THEN s[i + 1]
                                   ELSE IF p >= i + 2 /\ p + 1 <= e THEN rbuf[p + 1] ELSE rbuf[p]
  OBVIOUS
<1>1. /\ n \in Nat /\ i \in Nat /\ i < n /\ q \in Nat /\ e \in Nat /\ rsize = i + e - q
      /\ q >= i + 1
  BY DecodeRoom DEF DecodedTo
<1>2. Place(s, i + 1 + 1) = q + 2 /\ q + 1 < e
  <2>1. i + 1 \in Nat /\ i + 1 >= 1 /\ i + 1 \in i + 1 .. n
    BY <1>1
  <2>2. Place(s, i + 1 + 1) = q + 2
    BY <2>1, PlaceNext
  <2>3. q + 1 < e
    BY <2>1, DecodeRoom
  <2> QED
    BY <2>2, <2>3
<1>3. i' \in 0 .. n /\ rsize' = i' + e - Place(s, i' + 1)
  <2> HIDE DEF s, n, q, e
  <2> QED
    BY <1>1, <1>2
<1>4. i + 1 \in 0 .. e /\ \A k \in 1 .. i : k \in 0 .. e /\ k # i + 1 /\ ~(k >= i + 2)
  <2> HIDE DEF s, n, q, e
  <2> QED
    BY <1>1, <1>2
<1>5. \A k \in 1 .. i + 1 : rbuf'[k] = s[k]
  <2>1. rbuf'[i + 1] = s[i + 1]
    <3> HIDE DEF s, n, q, e
    <3> QED
      BY <1>0, <1>4, Zenon
  <2>2. \A k \in 1 .. i : rbuf[k] = s[k]
    BY DEF DecodedTo
  <2>3. \A k \in 1 .. i : rbuf'[k] = rbuf[k]
    <3> HIDE DEF s, n, q, e
    <3> QED
      BY <1>0, <1>4, Zenon
  <2> HIDE DEF s
  <2> QED
    BY <1>1, <2>1, <2>2, <2>3
<1>6. ASSUME NEW p \in Nat, p >= i + 2, p + 1 <= e PROVE rbuf'[p] = rbuf[p + 1]
  <2>1. p \in 0 .. e /\ p # i + 1
    <3> HIDE DEF e
    <3> QED
      BY <1>1, <1>6
  <2> HIDE DEF e, s, n
  <2>2. rbuf'[p] = IF p = i + 1 THEN s[i + 1]
                   ELSE IF p >= i + 2 /\ p + 1 <= e THEN rbuf[p + 1] ELSE rbuf[p]
    BY <1>0, <2>1, Zenon
  <2> QED
    BY <1>6, <2>1, <2>2, Zenon
<1>7. ASSUME NEW k \in i + 1 + 1 .. n
      PROVE  EscapedAt(rbuf', Place(s, k) - (q + 2) + (i + 1) + 1, s[k])
  <2> DEFINE r == Place(s, k)
             a == r - (q + 2) + (i + 1) + 1
  <2>1. k \in i + 1 .. n /\ k >= i + 2
    BY <1>1
  <2>2. r \in Nat /\ r < e /\ (s[k] \in Special => r + 1 < e)
    BY <2>1, DecodeRoom
  <2>3. q + 2 <= r
    <3>1. /\ k \in Nat /\ i + 1 + 1 \in Nat /\ 1 <= i + 1 + 1 /\ i + 1 + 1 <= k
      BY <1>1, <2>1
    <3>2. Place(s, i + 1 + 1) + (k - (i + 1 + 1)) <= r
      BY <3>1, PlaceGap
    <3>3. k - (i + 1 + 1) \in Nat
      BY <3>1
    <3> HIDE DEF r, q, s
    <3> QED
      BY <1>1, <1>2, <2>2, <3>2, <3>3
  <2>4. EscapedAt(rbuf, r - q + i + 1, s[k])
    BY <2>1 DEF DecodedTo
  <2>5. /\ a \in Nat /\ a >= i + 2 /\ a + 1 = r - q + i + 1 /\ a + 1 <= e
        /\ a + 1 \in Nat /\ a + 1 >= i + 2 /\ (s[k] \in Special => a + 1 + 1 <= e)
    <3> HIDE DEF r, q, e, s
    <3> QED
      BY <1>1, <2>2, <2>3
  <2> HIDE DEF a, r, q, e, s
  <2>6. EscapedAt(rbuf, a + 1, s[k])
    BY <2>4, <2>5
  <2>7. rbuf'[a] = rbuf[a + 1]
    BY <1>6, <2>5
  <2>8. s[k] \in Special => rbuf'[a + 1] = rbuf[a + 1 + 1]
    BY <1>6, <2>5
  <2>9. EscapedAt(rbuf', a, s[k])
    BY <2>6, <2>7, <2>8 DEF EscapedAt, Special
  <2> QED
    BY <2>9 DEF a, r
<1>8. rbuf'[rsize' + 1] = TAG
  <2>1. rbuf[rsize + 1] = TAG
    BY DEF DecodedTo
  <2>2. rsize \in Nat /\ rsize >= i + 2 /\ rsize + 1 <= e /\ rsize' + 1 = rsize
    <3> HIDE DEF q, e, n
    <3> QED
      BY <1>1, <1>2
  <2> HIDE DEF e
  <2> QED
    BY <1>6, <2>1, <2>2
<1>9. \A k \in i + 1 + 1 .. n :
         EscapedAt(rbuf', Place(s, k) - Place(s, i + 1 + 1) + (i + 1) + 1, s[k])
  BY <1>2, <1>7
<1> HIDE DEF q, e
<1> QED
  BY <1>3, <1>5, <1>8, <1>9 DEF DecodedTo, EscapedAt, e

\* What the loop finds at i.
LEMMA DecodeLooks ==
    ASSUME data \in Payload, DecodedTo(Checked)
    PROVE  /\ i < rsize => i < Len(Checked)
           /\ i = rsize => i = Len(Checked)
           /\ rsize <= Place(Checked, Len(Checked) + 1) - 1 /\ rsize \in Nat
           /\ i < Len(Checked) => EscapedAt(rbuf, i + 1, Checked[i + 1])
<1> DEFINE s == Checked
           n == Len(s)
           q == Place(s, i + 1)
           e == Place(s, n + 1)
<1>1. /\ n \in Nat /\ i \in Nat /\ i <= n /\ q \in Nat /\ e \in Nat /\ rsize = i + e - q
      /\ q >= i + 1 /\ q + (n - i) <= e
  BY DecodeRoom DEF DecodedTo
<1>2. i = n => q = e
  OBVIOUS
<1>3. /\ i < rsize => i < n
      /\ i = rsize => i = n
      /\ rsize <= e - 1 /\ rsize \in Nat
  <2> HIDE DEF s, n, q, e
  <2> QED
    BY <1>1, <1>2
<1>4. i < n => EscapedAt(rbuf, i + 1, s[i + 1])
  <2> HAVE i < n
  <2>1. i + 1 \in i + 1 .. n
    BY <1>1
  <2>2. EscapedAt(rbuf, q - q + i + 1, s[i + 1])
    BY <2>1 DEF DecodedTo
  <2>3. q - q + i + 1 = i + 1
    <3> HIDE DEF q
    <3> QED
      BY <1>1
  <2> QED
    BY <2>2, <2>3
<1> QED
  BY <1>3, <1>4

LEMMA DecodeStep == ASSUME CodecInv, externalProtocolDecode PROVE CodecInv'
<1> DEFINE s == Checked
           n == Len(s)
           e == Place(s, n + 1)
<1>1. /\ TypeOK /\ pc = "decode" /\ pc' = "decode" /\ i < rsize /\ data' = data /\ i' = i + 1
      /\ UNCHANGED <<buf, size, accepted>>
  BY DEF CodecInv, externalProtocolDecode
<1>2. Checked' = Checked
  BY <1>1 DEF Checked, Content
<1>3. data \in Payload /\ DecodedTo(Checked)
  BY <1>1 DEF CodecInv, Decoding, TypeOK
<1>4. i < n /\ rsize <= e - 1 /\ rsize \in Nat /\ EscapedAt(rbuf, i + 1, s[i + 1])
  BY <1>1, <1>3, DecodeLooks
<1>5. n \in Nat /\ i \in Nat /\ e \in Nat /\ e <= BufLen - 1 /\ BufLen \in Nat
  <2>1. n \in Nat /\ i \in Nat /\ e \in Nat /\ BufLen \in Nat /\ e < BufLen
    BY <1>1, <1>3, DecodeRoom, CheckedPlaces, ConstantAssumption DEF CodecInv, Room
  <2> HIDE DEF e, n
  <2> QED
    BY <2>1
<1>6. rbuf \in [0 .. e -> 0 .. 255]
  BY <1>3 DEF DecodedTo
<1>7. ASSUME s[i + 1] \in Special PROVE DecodedTo(Checked)'
  <2>1. rbuf[i + 1] = ESC /\ rbuf[i + 2] = Second(s[i + 1])
    <3>1. rbuf[i + 1] = ESC /\ rbuf[i + 1 + 1] = Second(s[i + 1])
      BY <1>4, <1>7 DEF EscapedAt, Special
    <3>2. i + 1 + 1 = i + 2
      BY <1>5
    <3> QED
      BY <3>1, <3>2
  <2>2. Second(s[i + 1]) \in {ESC_TAG, ESC_ESC} /\ Unescaped(Second(s[i + 1])) = s[i + 1]
    BY <1>7 DEF Second, Unescaped, Special, TAG, ESC, ESC_TAG, ESC_ESC
  <2>3. rbuf' = [ShiftDown(rbuf, i + 2) EXCEPT ![i + 1] = s[i + 1]] /\ rsize' = rsize - 1
    BY <2>1, <2>2 DEF externalProtocolDecode
  <2>4. s[i + 1] \in 0 .. 255
    BY <1>7 DEF Special, TAG, ESC
  <2>5. ShiftDown(rbuf, i + 2) \in [0 .. e -> 0 .. 255]
    <3>1. e \in Int /\ i + 2 \in Nat
      BY <1>5
    <3> HIDE DEF e
    <3> QED
      BY <1>6, <3>1, ShiftType
  <2> HIDE DEF e
  <2>6. rbuf' \in [0 .. e -> 0 .. 255]
    BY <2>3, <2>4, <2>5
  <2>7. ASSUME NEW p \in 0 .. e
        PROVE  rbuf'[p] = IF p = i + 1 THEN s[i + 1]
                          ELSE IF p >= i + 2 /\ p + 1 <= e THEN rbuf[p + 1] ELSE rbuf[p]
    <3>1. rbuf'[p] = IF p = i + 1 THEN s[i + 1] ELSE ShiftDown(rbuf, i + 2)[p]
      BY <2>3, <2>5
    <3>2. DOMAIN rbuf = 0 .. e /\ (p + 1 \in 0 .. e <=> p + 1 <= e)
      BY <1>5, <1>6
    <3>3. ShiftDown(rbuf, i + 2)[p] = IF p >= i + 2 /\ p + 1 <= e THEN rbuf[p + 1] ELSE rbuf[p]
      BY <3>2 DEF ShiftDown
    <3> QED
      BY <3>1, <3>3
  <2>8. DecodedTo(Checked)'
    BY <1>1, <1>2, <1>3, <1>4, <1>7, <2>3, <2>6, <2>7, DecodeSpecial DEF e
  <2> QED
    BY <2>3, <2>6, <2>8
<1>8. ASSUME s[i + 1] \notin Special PROVE DecodedTo(Checked)'
  <2>1. rbuf[i + 1] = s[i + 1] /\ s[i + 1] # ESC
    BY <1>4, <1>8 DEF EscapedAt, Special
  <2>2. rbuf' = rbuf /\ rsize' = rsize
    BY <2>1 DEF externalProtocolDecode
  <2>3. DecodedTo(Checked)'
    BY <1>1, <1>2, <1>3, <1>4, <1>8, <2>2, DecodePlain
  <2> QED
    BY <2>2, <2>3
<1>9. /\ DecodedTo(Checked)'
      /\ data' \in Payload
  BY <1>1, <1>3, <1>7, <1>8
<1>10. Decoding'
  BY <1>9 DEF Decoding
<1>11. TypeOK'
  <2>1. rbuf' \in [0 .. e -> 0 .. 255]
    BY <1>2, <1>9 DEF DecodedTo
  <2>2. rsize' \in {rsize, rsize - 1}
    BY DEF externalProtocolDecode
  <2> HIDE DEF e, n
  <2>3. /\ e + 1 \in 0 .. BufLen /\ (e + 1) - 1 = e
        /\ rsize' \in 0 .. BufLen /\ i' \in 0 .. BufLen
    BY <1>1, <1>4, <1>5, <2>2
  <2>4. rbuf' \in [0 .. (e + 1) - 1 -> 0 .. 255]
    BY <2>1, <2>3
  <2>5. \E m \in 0 .. BufLen : rbuf' \in [0 .. m - 1 -> 0 .. 255]
    BY <2>3, <2>4, Zenon
  <2> QED
    BY <1>1, <2>3, <2>5 DEF TypeOK
<1>12. /\ TypeOK' /\ Decoding' /\ pc' = "decode"
       /\ \A p \in 1 .. Len(Header) : buf'[p] = Header[p]
  BY <1>1, <1>10, <1>11 DEF CodecInv, HeaderKept
<1>13. Room'
  BY <1>1, <1>2 DEF CodecInv, Room, Place
<1> QED
  BY <1>12, <1>13
  DEF CodecInv, OverrunOnlyIfTooLong, HeaderKept, Filled, Encoding, FrameIsEscaped, RoundTrip

-----------------------------------------------------------------------------
(* The other steps.                                                        *)

\* The data is put behind the header.
LEMMA FillStep == ASSUME CodecInv, NEW d \in Data, Fill(d) PROVE CodecInv'
<1> DEFINE h == Len(Header)
<1>d. d \in Payload /\ data' = d /\ pc = "fill"
  BY DEF Payload, Fill
<1>2. /\ h \in Nat /\ Len(d) \in Nat /\ BufLen \in Nat /\ Header \in Seq(0 .. 255)
      /\ d \in Seq(0 .. 255) /\ DOMAIN d = 1 .. Len(d)
  BY <1>d, DataType, ConstantAssumption
<1>o. CASE ~Fits(h + Len(d))
  <2>1. Checked' = Append(Header \o d, XorAll(Header \o d))
    BY <1>d DEF Checked, Content
  <2> DEFINE s == Append(Header \o d, XorAll(Header \o d))
             e == Place(s, Len(s) + 1)
  <2>2. e \in Nat /\ e >= Len(s) + 1 /\ Len(s) = h + Len(d) + 1
    BY <1>d, FrameLong
  <2>3. FrameSize' = e + 1
    BY <2>1 DEF FrameSize, Place
  <2>4. ~(h + Len(d) < BufLen)
    BY <1>o DEF Fits
  <2> HIDE DEF s, e, h
  <2>5. FrameSize' > BufLen
    BY <1>2, <2>2, <2>3, <2>4
  <2>6. Overrun
    BY <1>o DEF Fill, h
  <2> QED
    BY <1>d, <2>5, <2>6, OverrunStep
<1> SUFFICES ASSUME Fits(h + Len(d)) PROVE CodecInv'
  BY <1>o
<1>1. /\ TypeOK /\ pc' = "crc" /\ data' = d /\ size' = h + Len(d)
      /\ UNCHANGED <<i, rbuf, rsize, accepted>>
      /\ \A p \in 1 .. h : buf[p] = Header[p]
      /\ buf' = [p \in DOMAIN buf |->
                  LET q == p - h IN IF q \in DOMAIN d THEN d[q] ELSE buf[p]]
  BY DEF CodecInv, Fill, HeaderKept
<1>3. /\ buf \in [0 .. BufLen - 1 -> 0 .. 255]
      /\ i \in 0 .. BufLen /\ rsize \in 0 .. BufLen /\ accepted \in BOOLEAN
      /\ \E m \in 0 .. BufLen : rbuf \in [0 .. m - 1 -> 0 .. 255]
  BY <1>1 DEF TypeOK
<1>4. h + Len(d) \in 0 .. BufLen - 1
  BY <1>2 DEF Fits
<1>5. /\ Content' = Header \o d /\ Len(Header \o d) = h + Len(d)
      /\ \A p \in 1 .. h : (Header \o d)[p] = Header[p]
      /\ \A p \in h + 1 .. h + Len(d) : (Header \o d)[p] = d[p - h]
  BY <1>1, <1>2 DEF Content
<1>6. ASSUME NEW p \in 0 .. BufLen - 1
      PROVE  /\ p <= h => buf'[p] = buf[p]
             /\ p \in h + 1 .. h + Len(d) => buf'[p] = d[p - h]
             /\ buf'[p] \in 0 .. 255
  <2>1. buf'[p] = IF p - h \in DOMAIN d THEN d[p - h] ELSE buf[p]
    BY <1>1, <1>3
  <2>2. p - h \in DOMAIN d <=> p \in h + 1 .. h + Len(d)
    BY <1>2
  <2>3. p - h \in DOMAIN d => d[p - h] \in 0 .. 255
    BY <1>d, DataType
  <2>4. p <= h => p \notin h + 1 .. h + Len(d)
    BY <1>2
  <2> HIDE DEF h
  <2> QED
    BY <1>3, <2>1, <2>2, <2>3, <2>4
<1>7. buf' \in [0 .. BufLen - 1 -> 0 .. 255]
  <2>1. buf' = [p \in 0 .. BufLen - 1 |-> buf'[p]]
    <3>1. DOMAIN buf = 0 .. BufLen - 1
      BY <1>3
    <3> QED
      BY <1>1, <3>1
  <2> QED
    BY <1>6, <2>1
<1>8. \A p \in 1 .. h : buf'[p] = Header[p]
  <2> TAKE p \in 1 .. h
  <2>1. p \in 0 .. BufLen - 1 /\ p <= h
    BY <1>2, <1>4
  <2> QED
    BY <1>1, <1>6, <2>1
<1>9. \A p \in 1 .. h + Len(d) : buf'[p] = (Header \o d)[p]
  <2> TAKE p \in 1 .. h + Len(d)
  <2>1. p \in 0 .. BufLen - 1 /\ (p \in 1 .. h \/ p \in h + 1 .. h + Len(d))
    BY <1>2, <1>4
  <2> QED
    BY <1>5, <1>6, <1>8, <2>1
<1>10. TypeOK' /\ Room'
  <2>2. size' \in 0 .. BufLen /\ size' < BufLen
    BY <1>1, <1>2, <1>4
  <2> QED
    BY <1>d, <1>1, <1>3, <1>7, <2>2 DEF TypeOK, Room
<1>11. Filled' /\ HeaderKept'
  BY <1>1, <1>5, <1>8, <1>9 DEF Filled, HeaderKept
<1> QED
  BY <1>1, <1>10, <1>11
  DEF CodecInv, OverrunOnlyIfTooLong, Encoding, FrameIsEscaped, Decoding, RoundTrip

\* The check byte is that of the content, and nothing is escaped yet.
LEMMA AddCrcStep == ASSUME CodecInv, externalProtocolAddCrcCode PROVE CodecInv'
<1> DEFINE n == Len(Checked)
<1>d. /\ TypeOK /\ pc = "crc" /\ data' = data /\ data \in Payload
      /\ size = Len(Content) /\ \A p \in 1 .. Len(Content) : buf[p] = Content[p]
  BY DEF CodecInv, externalProtocolAddCrcCode, Filled, TypeOK
<1>2. Checked' = Checked
  BY <1>d DEF Checked, Content
<1>3. /\ Content \in Seq(0 .. 255) /\ Len(Content) \in Nat /\ n = Len(Content) + 1
      /\ BufLen \in Nat
      /\ \A p \in 1 .. Len(Content) : Checked[p] = Content[p]
      /\ Checked[Len(Content) + 1] = XorAll(Content)
  BY <1>d, ContentFacts, ConstantAssumption
<1>o. CASE ~Fits(size + 1)
  <2> DEFINE e == Place(Checked, n + 1)
  <2>1. e \in Nat /\ e >= n + 1
    BY <1>d, FrameLong DEF Checked, Content
  <2>2. FrameSize' = e + 1
    BY <1>2 DEF FrameSize, Place
  <2>3. ~(size + 1 < BufLen)
    BY <1>o DEF Fits
  <2> HIDE DEF n, e
  <2>4. FrameSize' > BufLen
    BY <1>d, <1>3, <2>1, <2>2, <2>3
  <2>5. Overrun
    BY <1>o DEF externalProtocolAddCrcCode
  <2> QED
    BY <1>d, <2>4, <2>5, OverrunStep
<1> SUFFICES ASSUME Fits(size + 1) PROVE CodecInv'
  BY <1>o
<1>1. /\ TypeOK /\ pc = "crc" /\ pc' = "encode" /\ data' = data /\ i' = 0 /\ size' = size + 1
      /\ UNCHANGED <<rbuf, rsize, accepted>>
      /\ size = Len(Content) /\ \A p \in 1 .. Len(Content) : buf[p] = Content[p]
      /\ buf' = [buf EXCEPT ![size + 1] = XorAll(Bytes(buf, size))]
  BY <1>d DEF externalProtocolAddCrcCode
<1>4. Bytes(buf, size) = Content
  <2>1. Content = [p \in 1 .. Len(Content) |-> Content[p]]
    BY <1>3
  <2> QED
    BY <1>1, <2>1 DEF Bytes
<1>5. XorAll(Content) \in 0 .. 255
  BY <1>3, XorAllType
<1>6. buf \in [0 .. BufLen - 1 -> 0 .. 255] /\ size + 1 \in 0 .. BufLen - 1
  BY <1>1, <1>3 DEF TypeOK, Fits
<1>7. TypeOK' /\ Room'
  <2>1. buf' \in [0 .. BufLen - 1 -> 0 .. 255]
    BY <1>1, <1>4, <1>5, <1>6
  <2>3. size' \in 0 .. BufLen /\ i' \in 0 .. BufLen /\ size' < BufLen
    BY <1>1, <1>3, <1>6
  <2> QED
    BY <1>1, <2>1, <2>3 DEF TypeOK, Room
<1>8. \A k \in 1 .. n : buf'[k] = Checked[k]
  <2> TAKE k \in 1 .. n
  <2>1. k = size + 1 \/ (k \in 1 .. Len(Content) /\ k # size + 1 /\ k \in 0 .. BufLen - 1)
    BY <1>1, <1>3, <1>6
  <2>2. k = size + 1 => buf'[k] = Checked[k]
    BY <1>1, <1>3, <1>4, <1>6
  <2>3. k # size + 1 => buf'[k] = Checked[k]
    BY <1>1, <1>3, <1>6, <2>1
  <2> QED
    BY <2>2, <2>3
<1>9. EncodedTo(Checked, 0)'
  <2>1. Place(Checked, 0 + 1) = 1
    BY PlaceFirst
  <2> HIDE DEF n
  <2>2. n \in Nat /\ \A k \in 0 + 1 .. n : 1 + k - (0 + 1) = k
    BY <1>3
  <2>3. /\ i' + 1 = 1 /\ size' = 1 - 1 + n - 0
        /\ \A k \in 0 + 1 .. n : buf'[1 + k - (0 + 1)] = Checked[k]
    BY <1>1, <1>3, <1>8, <2>2
  <2> QED
    BY <1>2, <2>1, <2>3 DEF EncodedTo, EscapedAt, n
<1>10. Encoding'
  <2>1. 0 \in 0 .. Len(Checked)
    BY <1>3
  <2> QED
    BY <1>2, <1>9, <2>1 DEF Encoding
<1> QED
  BY <1>1, <1>7, <1>10
  DEF CodecInv, OverrunOnlyIfTooLong, HeaderKept, Filled, FrameIsEscaped, Decoding, RoundTrip

\* When the loop has ended everything is escaped; the tags disturb none of it.
LEMMA AddHeaderStep == ASSUME CodecInv, externalProtocolAddHeader PROVE CodecInv'
<1> DEFINE s == Checked
           n == Len(s)
           e == Place(s, n + 1)
<1>d. TypeOK /\ pc = "encode" /\ i = size /\ data' = data /\ data \in Payload
  BY DEF CodecInv, TypeOK, externalProtocolAddHeader
<1>2. Checked' = Checked
  BY <1>d DEF Checked, Content
<1>3. PICK j \in 0 .. Len(Checked) : EncodedTo(Checked, j)
  BY <1>d DEF CodecInv, Encoding
<1>4. j = n
  BY <1>d, <1>3, EncodeLooks
<1>5. /\ n \in Nat /\ e \in Nat /\ e >= 1 /\ size = e - 1
      /\ \A k \in 1 .. n : /\ Place(s, k) \in Nat /\ 1 <= Place(s, k) /\ Place(s, k) < e
                           /\ s[k] \in Special => Place(s, k) + 1 < e
                           /\ EscapedAt(buf, Place(s, k), s[k])
  <2>1. /\ n \in Nat /\ e \in Nat /\ e >= n + 1 /\ size = e - 1 + n - n
        /\ \A k \in 1 .. n : /\ Place(s, k) \in Nat /\ 1 <= Place(s, k) /\ Place(s, k) < e
                             /\ s[k] \in Special => Place(s, k) + 1 < e
    BY <1>d, <1>3, <1>4, EncodeRoom
  <2>2. \A k \in 1 .. n : EscapedAt(buf, Place(s, k), s[k])
    BY <1>3, <1>4 DEF EncodedTo
  <2>3. e >= 1 /\ size = e - 1
    <3> HIDE DEF n, e
    <3> QED
      BY <2>1
  <2> QED
    BY <2>1, <2>2, <2>3
<1>6. buf \in [0 .. BufLen - 1 -> 0 .. 255] /\ BufLen \in Nat /\ size \in Nat
  BY <1>d, ConstantAssumption DEF TypeOK
<1>o. CASE ~Fits(size + 1)
  <2>1. FrameSize' = e + 1
    BY <1>2 DEF FrameSize, Place
  <2>2. ~(size + 1 < BufLen)
    BY <1>o DEF Fits
  <2>3. Overrun
    BY <1>o DEF externalProtocolAddHeader
  <2> HIDE DEF e, n
  <2>4. FrameSize' > BufLen
    BY <1>5, <1>6, <2>1, <2>2
  <2> QED
    BY <1>d, <2>3, <2>4, OverrunStep
<1> SUFFICES ASSUME Fits(size + 1) PROVE CodecInv'
  BY <1>o
<1>1. /\ TypeOK /\ pc' = "send" /\ size' = size + 2
      /\ data' = data /\ UNCHANGED <<i, rbuf, rsize, accepted>>
      /\ buf' = [buf EXCEPT ![0] = TAG, ![size + 1] = TAG]
  BY <1>d DEF externalProtocolAddHeader
<1>7. /\ size + 1 = e /\ e \in 0 .. BufLen - 1 /\ 0 \in 0 .. BufLen - 1 /\ e # 0
  <2> HIDE DEF e, n
  <2> QED
    BY <1>5, <1>6 DEF Fits
<1>8. /\ buf'[0] = TAG /\ buf'[e] = TAG
      /\ \A p \in 1 .. e - 1 : buf'[p] = buf[p]
  <2> HIDE DEF e, n
  <2>1. \A p \in 1 .. e - 1 : p \in 0 .. BufLen - 1 /\ p # 0 /\ p # e
    BY <1>5, <1>6, <1>7
  <2> QED
    BY <1>1, <1>6, <1>7, <2>1
<1>9. ASSUME NEW k \in 1 .. n PROVE EscapedAt(buf', Place(s, k), s[k])
  <2>1. /\ Place(s, k) \in 1 .. e - 1
        /\ s[k] \in Special => Place(s, k) + 1 \in 1 .. e - 1
    <3> HIDE DEF e, s
    <3> QED
      BY <1>5
  <2>2. EscapedAt(buf, Place(s, k), s[k])
    BY <1>5
  <2> HIDE DEF e, s, n
  <2>3. /\ buf'[Place(s, k)] = buf[Place(s, k)]
        /\ s[k] \in Special => buf'[Place(s, k) + 1] = buf[Place(s, k) + 1]
    BY <1>8, <2>1
  <2> QED
    BY <2>2, <2>3 DEF EscapedAt, Special
<1>10. FrameIsEscaped'
  <2>1. size' = e + 1 /\ size' - 1 = e
    <3> HIDE DEF e, n
    <3> QED
      BY <1>1, <1>5
  <2> QED
    BY <1>2, <1>8, <1>9, <2>1 DEF FrameIsEscaped, FrameSize, Escaped, EscapedAt
<1>11. HeaderKept'
  <2>1. ASSUME NEW p \in 1 .. Len(Header) PROVE buf'[p] = Header[p]
    <3>1. s[p] = Header[p] /\ s[p] \notin Special
      BY <1>1, CheckedPlaces DEF TypeOK
    <3>2. Place(s, p) = p /\ p \in 1 .. n
      <4>1. p \in 1 .. Len(Header) + 1 /\ p \in 1 .. n
        BY <1>1, ContentFacts DEF TypeOK
      <4> QED
        BY <1>1, <4>1, CheckedPlaces DEF TypeOK
    <3>3. EscapedAt(buf', p, s[p])
      BY <1>9, <3>2
    <3> QED
      BY <3>1, <3>3 DEF EscapedAt, Special
  <2> QED
    BY <2>1 DEF HeaderKept
<1>12. TypeOK'
  <2>1. TAG \in 0 .. 255
    BY DEF TAG
  <2>2. buf' \in [0 .. BufLen - 1 -> 0 .. 255]
    BY <1>1, <1>6, <2>1
  <2>3. size' \in 0 .. BufLen
    BY <1>1, <1>6 DEF Fits
  <2> QED
    BY <1>1, <2>2, <2>3 DEF TypeOK
<1> QED
  BY <1>1, <1>10, <1>11, <1>12
  DEF CodecInv, Room, OverrunOnlyIfTooLong, Filled, Encoding, Decoding, RoundTrip

\* The receiver begins with the whole frame escaped.
LEMMA SendStep == ASSUME CodecInv, Send PROVE CodecInv'
<1> DEFINE s == Checked
           n == Len(s)
           e == Place(s, n + 1)
<1>1. /\ TypeOK /\ pc = "send" /\ pc' = "decode" /\ i' = 0 /\ rsize' = size - 2
      /\ data' = data /\ UNCHANGED <<buf, size, accepted>>
      /\ rbuf' = [p \in 0 .. size - 1 |-> buf[p]]
  BY DEF CodecInv, Send
<1>2. Checked' = Checked
  BY <1>1 DEF Checked, Content
<1>3. Escaped(buf, s) /\ size = e + 1 /\ buf[size - 1] = TAG
  BY <1>1 DEF CodecInv, FrameIsEscaped, FrameSize
<1>4. /\ n \in Nat /\ e \in Nat /\ e <= BufLen - 1 /\ BufLen \in Nat
      /\ buf \in [0 .. BufLen - 1 -> 0 .. 255]
  <2>1. /\ n \in Nat /\ e \in Nat /\ BufLen \in Nat /\ size \in 0 .. BufLen
        /\ buf \in [0 .. BufLen - 1 -> 0 .. 255]
    BY <1>1, ContentFacts, CheckedPlaces, ConstantAssumption DEF TypeOK
  <2> HIDE DEF n, e
  <2> QED
    BY <1>3, <2>1
<1>5. e >= 1 /\ size - 1 = e
  <2>1. n + 1 \in Nat /\ n + 1 >= 1
    BY <1>4
  <2>2. e >= n + 1
    BY <2>1, PlaceType
  <2> HIDE DEF e, n
  <2> QED
    BY <1>3, <1>4, <2>1, <2>2
<1>6. rbuf' \in [0 .. e -> 0 .. 255] /\ \A p \in 0 .. e : rbuf'[p] = buf[p]
  <2> HIDE DEF e, n
  <2>1. \A p \in 0 .. e : p \in 0 .. BufLen - 1
    BY <1>4
  <2> QED
    BY <1>1, <1>4, <1>5, <2>1
<1>7. Place(s, 0 + 1) = 1
  BY PlaceFirst
<1>8. rsize' = 0 + e - 1 /\ rbuf'[rsize' + 1] = TAG /\ 0 \in 0 .. n
  <2> HIDE DEF e, n
  <2>1. rsize' = 0 + e - 1 /\ rsize' + 1 = e /\ e \in 0 .. e /\ 0 \in 0 .. n
    BY <1>1, <1>3, <1>4, <1>5
  <2> QED
    BY <1>3, <1>5, <1>6, <2>1
<1>9. ASSUME NEW k \in 1 .. n PROVE EscapedAt(rbuf', Place(s, k) - 1 + 0 + 1, s[k])
  <2>1. k \in Nat /\ n + 1 \in Nat /\ 1 <= k /\ k < n + 1
    BY <1>4
  <2>2. /\ Place(s, k) \in Nat /\ 1 <= Place(s, k) /\ Place(s, k) < e
        /\ s[k] \in Special => Place(s, k) + 1 < e
    BY <2>1, PlaceBefore
  <2>3. EscapedAt(buf, Place(s, k), s[k])
    BY <1>3 DEF Escaped
  <2> HIDE DEF e, n, s
  <2>4. /\ Place(s, k) \in 0 .. e /\ Place(s, k) - 1 + 0 + 1 = Place(s, k)
        /\ s[k] \in Special => Place(s, k) + 1 \in 0 .. e
    BY <1>4, <2>2
  <2>5. EscapedAt(rbuf', Place(s, k), s[k])
    BY <1>6, <2>3, <2>4 DEF EscapedAt, Special
  <2> QED
    BY <2>4, <2>5
<1>10. DecodedTo(Checked)'
  <2>1. 0 + 1 .. n = 1 .. n /\ 1 .. 0 = {}
    BY <1>4
  <2>2. \A k \in 0 + 1 .. n : EscapedAt(rbuf', Place(s, k) - Place(s, 0 + 1) + 0 + 1, s[k])
    BY <1>7, <1>9, <2>1
  <2>3. \A k \in 1 .. 0 : rbuf'[k] = s[k]
    BY <2>1
  <2> QED
    BY <1>1, <1>2, <1>6, <1>7, <1>8, <2>2, <2>3 DEF DecodedTo, EscapedAt
<1>11. Decoding' /\ HeaderKept'
  BY <1>1, <1>10 DEF Decoding, HeaderKept, CodecInv
<1>12. TypeOK'
  <2> HIDE DEF e, n
  <2>1. e + 1 \in 0 .. BufLen /\ (e + 1) - 1 = e /\ rsize' \in 0 .. BufLen /\ i' \in 0 .. BufLen
    BY <1>1, <1>3, <1>4, <1>5
  <2>2. rbuf' \in [0 .. (e + 1) - 1 -> 0 .. 255]
    BY <1>6, <2>1
  <2>3. \E m \in 0 .. BufLen : rbuf' \in [0 .. m - 1 -> 0 .. 255]
    BY <2>1, <2>2, Zenon
  <2> QED
    BY <1>1, <2>1, <2>3 DEF TypeOK
<1>13. Room'
  <2>1. Place(Checked, Len(Checked) + 1)' = e
    BY <1>2 DEF Place
  <2>2. e < BufLen
    <3> HIDE DEF e, n
    <3> QED
      BY <1>4
  <2> QED
    BY <1>1, <2>1, <2>2 DEF Room
<1> QED
  BY <1>1, <1>11, <1>12, <1>13
  DEF CodecInv, OverrunOnlyIfTooLong, Filled, Encoding, FrameIsEscaped, RoundTrip

\* When the loop has ended the receiver has the content and its check byte; the closing
\* tag behind them is never equal to a signed byte.
LEMMA CheckCrcStep == ASSUME CodecInv, externalProtocolCheckCrc PROVE CodecInv'
<1> DEFINE s == Checked
           n == Len(s)
<1>1. /\ TypeOK /\ pc = "decode" /\ pc' = "done" /\ i = rsize
      /\ data' = data /\ UNCHANGED <<buf, size, i, rbuf, rsize>>
      /\ accepted' = (Signed(XorAll(Bytes(rbuf, rsize))) # rbuf[rsize + 1])
  BY DEF CodecInv, externalProtocolCheckCrc
<1>2. Checked' = Checked
  BY <1>1 DEF Checked, Content
<1>3. data \in Payload /\ DecodedTo(Checked)
  BY <1>1 DEF CodecInv, Decoding, TypeOK
<1>4. rsize = n /\ n \in Nat /\ s \in Seq(0 .. 255)
  BY <1>1, <1>3, DecodeLooks, ContentFacts
<1>5. rbuf[rsize + 1] = TAG /\ \A k \in 1 .. n : rbuf[k] = s[k]
  BY <1>1, <1>3, <1>4 DEF DecodedTo
<1>6. Bytes(rbuf, rsize) = s
  <2>1. s = [k \in 1 .. n |-> s[k]]
    BY <1>4
  <2> HIDE DEF s
  <2> QED
    BY <1>4, <1>5, <2>1 DEF Bytes
<1>7. XorAll(s) \in 0 .. 255
  BY <1>4, XorAllType
<1>8. Signed(XorAll(s)) # TAG
  <2> HIDE DEF s
  <2> QED
    BY <1>7 DEF Signed, TAG
<1>9. accepted' = TRUE
  BY <1>1, <1>5, <1>6, <1>8
<1>10. RoundTrip' /\ HeaderKept'
  BY <1>1, <1>2, <1>6, <1>9 DEF RoundTrip, Bytes, HeaderKept, CodecInv
<1>11. TypeOK'
  BY <1>1, <1>9 DEF TypeOK
<1> QED
  BY <1>1, <1>10, <1>11
  DEF CodecInv, Room, OverrunOnlyIfTooLong, Filled, Encoding, FrameIsEscaped, Decoding

\* An empty frame and no data have their types.
LEMMA NoBytes == /\ <<>> \in Payload
                 /\ \E m \in 0 .. BufLen : <<>> \in [0 .. m - 1 -> 0 .. 255]
<1>1. \A S : <<>> \in [{} -> S]
  OBVIOUS
<1>2. 0 .. 0 - 1 = {} /\ 0 \in 0 .. BufLen
  BY ConstantAssumption
<1>3. <<>> \in [0 .. 0 - 1 -> 0 .. 255]
  BY <1>1, <1>2
<1>4. <<>> \in Payload
  BY DEF Payload
<1> QED
  BY <1>2, <1>3, <1>4, Zenon

LEMMA NextCameraStep == ASSUME CodecInv, NextCamera PROVE CodecInv'
<1>1. /\ TypeOK /\ pc = "done" /\ pc' = "fill" /\ size' = 0 /\ i' = 0 /\ rsize' = 0
      /\ data' = <<>> /\ rbuf' = <<>> /\ UNCHANGED <<buf, accepted>>
  BY DEF CodecInv, NextCamera
<1>2. 0 \in 0 .. BufLen
  BY ConstantAssumption
<1>3. TypeOK'
  BY <1>1, <1>2, NoBytes DEF TypeOK
<1>4. HeaderKept'
  BY <1>1 DEF CodecInv, HeaderKept
<1> QED
  BY <1>1, <1>3, <1>4
  DEF CodecInv, Room, OverrunOnlyIfTooLong, Filled, Encoding, FrameIsEscaped, Decoding, RoundTrip

LEMMA CodecInit == Init => CodecInv
<1> SUFFICES ASSUME Init PROVE CodecInv
  OBVIOUS
<1> DEFINE h == Len(Header)
<1>1. /\ h \in Nat /\ DOMAIN Header = 1 .. h /\ BufLen \in Nat
      /\ h < BufLen /\ \A p \in 1 .. h : Header[p] \in 0 .. 255
  <2>1. Header \in Seq(0 .. 255)
    BY ConstantAssumption
  <2>2. h \in Nat /\ DOMAIN Header = 1 .. h
    BY <2>1
  <2>3. ASSUME NEW p \in 1 .. h PROVE Header[p] \in 0 .. 255
    BY <2>1, SeqElement
  <2> QED
    BY <2>2, <2>3, ConstantAssumption
<1>2. h \in 0 .. BufLen - 1 /\ 0 \in 0 .. BufLen
  BY <1>1
<1>3. \A p \in 1 .. h : p \in 0 .. BufLen - 1
  BY <1>2, <1>1
<1>4. buf = [p \in 0 .. BufLen - 1 |-> IF p \in DOMAIN Header THEN Header[p] ELSE 0]
  BY DEF Init
<1>5. buf \in [0 .. BufLen - 1 -> 0 .. 255]
  <2>1. \A p \in 0 .. BufLen - 1 :
           (IF p \in DOMAIN Header THEN Header[p] ELSE 0) \in 0 .. 255
    BY <1>1
  <2> QED
    BY <1>4, <2>1
<1>6. \A p \in 1 .. h : buf[p] = Header[p]
  BY <1>1, <1>3, <1>4
<1>7. TypeOK
  <2>1. /\ size \in 0 .. BufLen /\ i \in 0 .. BufLen
        /\ rsize \in 0 .. BufLen /\ data = <<>> /\ rbuf = <<>> /\ pc = "fill"
        /\ accepted = TRUE
    BY <1>2 DEF Init
  <2> QED
    BY <1>5, <2>1, NoBytes DEF TypeOK
<1> QED
  BY <1>6, <1>7
  DEF Init, CodecInv, Room, OverrunOnlyIfTooLong, HeaderKept, Filled, Encoding, FrameIsEscaped, Decoding, RoundTrip

-----------------------------------------------------------------------------
LEMMA CodecStep == CodecInv /\ [Next]_vars => CodecInv'
<1> SUFFICES ASSUME CodecInv, [Next]_vars PROVE CodecInv'
  OBVIOUS
<1>1. CASE UNCHANGED vars
  <2>1. /\ UNCHANGED <<buf, size, i, data, rbuf, rsize, accepted, pc>>
        /\ Content' = Content /\ Checked' = Checked
    BY <1>1 DEF vars, Content, Checked
  <2>2. TypeOK' /\ HeaderKept' /\ Filled'
    BY <2>1 DEF CodecInv, TypeOK, HeaderKept, Filled
  <2>6. Room' /\ OverrunOnlyIfTooLong'
    BY <2>1 DEF CodecInv, Room, OverrunOnlyIfTooLong, FrameSize, Place
  <2>3. Encoding'
    BY <2>1 DEF CodecInv, Encoding, EncodedTo, EscapedAt
  <2>4. FrameIsEscaped' /\ RoundTrip'
    BY <2>1 DEF CodecInv, FrameIsEscaped, FrameSize, Place, Escaped, EscapedAt, RoundTrip, Bytes
  <2>5. Decoding'
    BY <2>1 DEF CodecInv, Decoding, DecodedTo, EscapedAt
  <2> QED
    BY <2>2, <2>3, <2>4, <2>5, <2>6 DEF CodecInv
<1> QED
  BY <1>1, FillStep, AddCrcStep, EncodeStep, AddHeaderStep, SendStep, DecodeStep,
     CheckCrcStep, NextCameraStep DEF Next, Undefined

LEMMA CodecAlways == Spec => []CodecInv
  BY CodecInit, CodecStep, PTL DEF Spec

\* The buffer is written behind its end only for a frame that is itself longer than
\* the buffer, whatever the number of lanes and however many bytes are escaped.
THEOREM OverrunsExplained == Spec => []OverrunOnlyIfTooLong
<1>1. CodecInv => OverrunOnlyIfTooLong
  BY DEF CodecInv
<1> QED
  BY <1>1, CodecAlways, PTL

\* Every frame is the escaped header, data and check byte between two tags, also when
\* the buffer holds what is left of the frames before.
THEOREM FramesEscaped == Spec => []FrameIsEscaped
<1>1. CodecInv => FrameIsEscaped
  BY DEF CodecInv
<1> QED
  BY <1>1, CodecAlways, PTL

\* What the receiver restores is what was sent, and it accepts it.
THEOREM RoundTrips == Spec => []RoundTrip
<1>1. CodecInv => RoundTrip
  BY DEF CodecInv
<1> QED
  BY <1>1, CodecAlways, PTL
=============================================================================
