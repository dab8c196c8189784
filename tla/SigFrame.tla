------------------------------ MODULE SigFrame ------------------------------
(***************************************************************************)
(* The frames of the signal machine's protocol (fvd-new/sig_service.c).    *)
(* ReportedRealStatic writes one frame per camera into one buffer on its   *)
(* stack: the header once, then for each camera the data, a check byte,    *)
(* the escaping in place, and the two tags around it.  RequestPro undoes   *)
(* the escaping of a received frame, which is here one of these frames.    *)
(* The other two reports end with the same three calls, on buffers used    *)
(* once.  The loops are modelled turn by turn, the inner ones that move    *)
(* bytes in one step.  Nobody checks the number of lanes in the            *)
(* configuration, so the data may be longer than the buffer: a step that   *)
(* writes behind it ends in "overrun", and what the program does from      *)
(* there on is undefined.                                                  *)
(***************************************************************************)
EXTENDS Integers, Sequences, FiniteSets

CONSTANTS
    Byte,    (* values the data of a camera may have                       *)
    Header,  (* bytes 1 .. of the frame header, behind the tag             *)
    Lengths, (* lengths of a camera's data: one byte, and ten per lane     *)
    BufLen   (* size of mysbuf                                             *)

\* The tag, the escape byte, and what follows it.
TAG == 192
ESC == 219
ESC_TAG == 220
ESC_ESC == 221

ASSUME ConstantAssumption ==
    /\ Byte \subseteq 0 .. 255 /\ Lengths \subseteq Nat /\ BufLen \in Nat
    /\ Header \in Seq(0 .. 255) /\ Len(Header) < BufLen
    /\ \A i \in DOMAIN Header : Header[i] \notin {TAG, ESC}

Data == UNION {[1 .. n -> Byte] : n \in Lengths}
Payload == Data \union {<<>>}

VARIABLES
    buf,      \* mysbuf; the codec is called with buff = mysbuf + 1
    size, i,  \* as in the code
    data,     \* history: what this camera's frame carries
    rbuf,     \* the frame received, rsize its size
    rsize,
    accepted, \* what RequestPro makes of it
    pc

vars == <<buf, size, i, data, rbuf, rsize, accepted, pc>>

\* f shifted up by one from index k on, and shifted down onto index k.
ShiftUp(f, k) == [p \in DOMAIN f |-> IF p > k THEN f[p - 1] ELSE f[p]]
ShiftDown(f, k) ==
    [p \in DOMAIN f |-> IF p >= k /\ p + 1 \in DOMAIN f THEN f[p + 1] ELSE f[p]]

\* The check byte, the exclusive or of all bytes of s: each of its bits is the
\* parity of that bit in s.
XorAll(s) ==
    LET Bit(w) == w * (Cardinality({j \in 1 .. Len(s) : (s[j] \div w) % 2 = 1}) % 2)
    IN  Bit(1) + Bit(2) + Bit(4) + Bit(8) + Bit(16) + Bit(32) + Bit(64) + Bit(128)

\* What buff and its length say, buff being the byte behind the tag.
Bytes(f, to) == [j \in 1 .. to |-> f[j]]

\* A step writes up to index p of the buffer, or behind it.
Fits(p) == p < BufLen
Overrun == pc' = "overrun" /\ UNCHANGED <<buf, size, i, rbuf, rsize, accepted>>

-----------------------------------------------------------------------------
(* The sending side.                                                       *)

\* The data of the next open camera, behind the header that is already there.
Fill(d) ==
    /\ pc = "fill"
    /\ data' = d
    /\ \/ /\ Fits(Len(Header) + Len(d))
          /\ size' = Len(Header) + Len(d)
          /\ buf' = [p \in DOMAIN buf |->
                      LET q == p - Len(Header) IN IF q \in DOMAIN d THEN d[q] ELSE buf[p]]
          /\ pc' = "crc"
          /\ UNCHANGED <<i, rbuf, rsize, accepted>>
       \/ ~Fits(Len(Header) + Len(d)) /\ Overrun

externalProtocolAddCrcCode ==
    /\ pc = "crc"
    /\ \/ /\ Fits(size + 1)
          /\ buf' = [buf EXCEPT ![size + 1] = XorAll(Bytes(buf, size))]
          /\ size' = size + 1
          /\ i' = 0 /\ pc' = "encode"
          /\ UNCHANGED <<rbuf, rsize, accepted>>
       \/ ~Fits(size + 1) /\ Overrun
    /\ UNCHANGED data

\* The second byte of an escape.
Second(b) == IF b = TAG THEN ESC_TAG ELSE ESC_ESC

\* The byte at i becomes two.
Insert(b) ==
    \/ /\ Fits(size + 1)
       /\ buf' = [ShiftUp(buf, i + 1) EXCEPT ![i + 1] = ESC, ![i + 2] = Second(b)]
       /\ size' = size + 1
       /\ i' = i + 1
       /\ UNCHANGED <<rbuf, rsize, accepted, pc>>
    \/ ~Fits(size + 1) /\ Overrun

\* Mutant: the escape byte itself is not escaped.
externalProtocolEncode_TagOnly ==
    /\ pc = "encode" /\ i < size
    /\ \/ buf[i + 1] = TAG /\ Insert(buf[i + 1])
       \/ buf[i + 1] # TAG /\ i' = i + 1 /\ UNCHANGED <<buf, size, rbuf, rsize, accepted, pc>>
    /\ UNCHANGED data

\* One turn of the loop; size grows with every escape.
externalProtocolEncode ==
    /\ pc = "encode" /\ i < size
    /\ \/ buf[i + 1] \in {TAG, ESC} /\ Insert(buf[i + 1])
       \/ /\ buf[i + 1] \notin {TAG, ESC}
          /\ i' = i + 1
          /\ UNCHANGED <<buf, size, rbuf, rsize, accepted, pc>>
    /\ UNCHANGED data

\* Mutant: a NUL is written behind the closing tag.
externalProtocolAddHeader_Nul ==
    /\ pc = "encode" /\ i = size
    /\ \/ /\ Fits(size + 2)
          /\ buf' = [buf EXCEPT ![0] = TAG, ![size + 1] = TAG, ![size + 2] = 0]
          /\ size' = size + 2
          /\ pc' = "send"
          /\ UNCHANGED <<i, rbuf, rsize, accepted>>
       \/ ~Fits(size + 2) /\ Overrun
    /\ UNCHANGED data

externalProtocolAddHeader ==
    /\ pc = "encode" /\ i = size
    /\ \/ /\ Fits(size + 1)
          /\ buf' = [buf EXCEPT ![0] = TAG, ![size + 1] = TAG]
          /\ size' = size + 2
          /\ pc' = "send"
          /\ UNCHANGED <<i, rbuf, rsize, accepted>>
       \/ ~Fits(size + 1) /\ Overrun
    /\ UNCHANGED data

\* SendDataByTcp, and RequestPro with the same bytes; its codec is called with
\* rbuf + 1 and the size without the tags.
Send ==
    /\ pc = "send"
    /\ rbuf' = [p \in 0 .. size - 1 |-> buf[p]]
    /\ rsize' = size - 2
    /\ i' = 0 /\ pc' = "decode"
    /\ UNCHANGED <<buf, size, data, accepted>>

-----------------------------------------------------------------------------
(* The receiving side.                                                     *)

\* Mutant: the escaped escape byte becomes a tag.
Unescaped_Tag(b) == TAG

Unescaped(b) == IF b = ESC_TAG THEN TAG ELSE ESC

externalProtocolDecode ==
    /\ pc = "decode" /\ i < rsize
    /\ IF rbuf[i + 1] = ESC /\ rbuf[i + 2] \in {ESC_TAG, ESC_ESC}
       THEN /\ rbuf' = [ShiftDown(rbuf, i + 2) EXCEPT ![i + 1] = Unescaped(rbuf[i + 2])]
            /\ rsize' = rsize - 1
       ELSE UNCHANGED <<rbuf, rsize>>
    /\ i' = i + 1
    /\ UNCHANGED <<buf, size, data, accepted, pc>>

Signed(b) == IF b < 128 THEN b ELSE b - 256

\* CheckCrc compares the signed sum with the byte behind the check byte; RequestPro
\* takes equality for an error.
externalProtocolCheckCrc ==
    /\ pc = "decode" /\ i = rsize
    /\ accepted' = (Signed(XorAll(Bytes(rbuf, rsize))) # rbuf[rsize + 1])
    /\ pc' = "done"
    /\ UNCHANGED <<buf, size, i, data, rbuf, rsize>>

\* The loop goes on with the next open camera, or a later report starts.
NextCamera ==
    /\ pc = "done"
    /\ pc' = "fill"
    /\ size' = 0 /\ i' = 0 /\ data' = <<>> /\ rbuf' = <<>> /\ rsize' = 0
    /\ UNCHANGED <<buf, accepted>>

\* Undefined behaviour, which is not followed.
Undefined == pc = "overrun" /\ UNCHANGED vars

\* mysbuf zeroed, and the header written.
Init ==
    /\ buf = [p \in 0 .. BufLen - 1 |-> IF p \in DOMAIN Header THEN Header[p] ELSE 0]
    /\ size = 0 /\ i = 0 /\ data = <<>> /\ rbuf = <<>> /\ rsize = 0
    /\ accepted = TRUE
    /\ pc = "fill"

Next ==
    \/ \E d \in Data : Fill(d)
    \/ externalProtocolAddCrcCode \/ externalProtocolEncode \/ externalProtocolAddHeader
    \/ Send \/ externalProtocolDecode \/ externalProtocolCheckCrc \/ NextCamera
    \/ Undefined

Spec == Init /\ [][Next]_vars

-----------------------------------------------------------------------------
(* Properties.                                                             *)

\* The variables keep their types.
TypeOK ==
    /\ buf \in [0 .. BufLen - 1 -> 0 .. 255]
    /\ size \in 0 .. BufLen /\ i \in 0 .. BufLen
    /\ data \in Payload
    /\ pc \in {"fill", "crc", "encode", "send", "decode", "done", "overrun"}
    /\ \E n \in 0 .. BufLen : rbuf \in [0 .. n - 1 -> 0 .. 255]
    /\ rsize \in 0 .. BufLen /\ accepted \in BOOLEAN

\* What the frame has to carry.
Content == Header \o data
Checked == Append(Content, XorAll(Content))

\* Where the escaping of the j-th byte of s begins, and what stands there: f is, from
\* index 1 on, the escaping of s if every byte of s is where it belongs.
Place(s, j) == j + Cardinality({k \in 1 .. j - 1 : s[k] \in {TAG, ESC}})
EscapedAt(f, p, b) ==
    IF b \in {TAG, ESC} THEN f[p] = ESC /\ f[p + 1] = Second(b) ELSE f[p] = b
Escaped(f, s) == \A j \in 1 .. Len(s) : EscapedAt(f, Place(s, j), s[j])

\* The size of the whole frame with its two tags.
FrameSize == Place(Checked, Len(Checked) + 1) + 1

\* Nothing is written behind the buffer as long as the frame itself fits: moving
\* the bytes behind an escape, and what earlier frames left behind, need no room
\* of their own.  A frame that does not fit is the only way to overrun.
OverrunOnlyIfTooLong == pc = "overrun" => FrameSize > BufLen

\* Every frame that is sent is the escaped header, data and check byte between two
\* tags: the growing size of the in-place escaping, and what the frames of the
\* cameras before left in the buffer, do no harm.
FrameIsEscaped ==
    pc = "send" => /\ buf[0] = TAG
                   /\ Escaped(buf, Checked)
                   /\ size = FrameSize
                   /\ buf[size - 1] = TAG

\* RequestPro gets back what was sent, and does not take it for an error.
RoundTrip == pc = "done" => Bytes(rbuf, rsize) = Checked /\ accepted
=============================================================================
