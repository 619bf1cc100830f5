------------------------------ MODULE MCFakeTcp ------------------------------
(* Two connections, for a SYN and its repetition, or one. *)
EXTENDS FakeTcp

LOCAL INSTANCE TLC

CONSTANTS c1, c2

MCConn == {c1, c2}
MCSymmetry == Permutations(MCConn)

\* The numbers of the host's stream wrap behind its second byte, those of the
\* guest's behind its first or not at all, or behind its second.
MCW == Seq0 + 2
MCIsns == {0, MCW - 2}
MCIsnLate == {MCW - 3}
=============================================================================
