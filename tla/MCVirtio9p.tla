----------------------------- MODULE MCVirtio9p -----------------------------
(***************************************************************************)
(* The rings of Virtio9p with two entries and indices that wrap at four,   *)
(* and three tags: more requests than chains, a tag that is used again     *)
(* while its first chain is still with the device, and every wrap.         *)
(***************************************************************************)
EXTENDS Virtio9p

CONSTANTS t1, t2, t3

MCTag == {t1, t2, t3}
=============================================================================
