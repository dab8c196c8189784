----------------------------- MODULE MCSigFrame -----------------------------
(* An instance of SigFrame for TLC: the special bytes, one that follows an *)
(* escape, and a header with which the check byte can be special too, so   *)
(* that the longest frame occurs.                                          *)
EXTENDS SigFrame, SequencesExt, Bitwise
MCHeader == <<27>>

\* The check byte and the escaping as the code computes them, byte after byte, are
\* what XorAll and Escaped say.
Fold(s) == FoldLeft(LAMBDA a, b : a ^^ b, 0, s)
Escape(s) ==
    FlattenSeq([j \in DOMAIN s |->
        IF s[j] \in {TAG, ESC} THEN <<ESC, Second(s[j])>> ELSE <<s[j]>>])

ASSUME ReferenceAssumption ==
    \A d \in Data \union [1 .. 2 -> {0, 1, 127, 128, 170, 255}] :
        /\ XorAll(d) = Fold(d)
        /\ Len(Escape(d)) = Place(d, Len(d) + 1) - 1 /\ Escaped(Escape(d), d)
=============================================================================
