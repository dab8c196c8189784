---------------------------- MODULE MCClientList ----------------------------
(* Small instances of ClientList for TLC.                                  *)
EXTENDS ClientList, TLC

CONSTANTS h1, h2, n1, n2, n3, c0, c1, p1, p2, p3, p4

\* Host h1 has a short dotted address: what follows its NUL in the buffer
\* recv_buf does not initialise varies.  The address of h2 fills the buffer.
MCAddr == {<<h1, 0>>, <<h1, 1>>, <<h2, 0>>}
MCAddrTwo == {<<h1, 0>>, <<h2, 0>>}
MCSymmetry == Permutations({n1, n2, n3}) \union Permutations({p1, p2, p3, p4})
=============================================================================
