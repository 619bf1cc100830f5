---------------------------- MODULE MCNinePHandler ----------------------------
(* Two directories, one of them unpacked with a file in it, and a link. *)
EXTENDS NinePHandler, FiniteSets

LOCAL INSTANCE TLC

CONSTANTS fid, newfid, d1, d2

MCFids == {fid, newfid}
MCDescriptors == {d1, d2}
MCSymmetry == Permutations(MCFids) \cup Permutations(MCDescriptors)

\* Where metadata may have been left behind, one descriptor is looked at.
MCBound ==
  mishaps["save"] + mishaps["host"] + mishaps["move"] = 0 \/ Cardinality(open) <= 1

MCPaths == {<<>>, <<"d">>, <<"e">>, <<"d", "x">>, <<"e", "x">>}

MCUnpacked ==
  [p \in MCPaths |-> CASE p \in {<<>>, <<"d">>} -> "dir"
                       [] p = <<"d", "x">> -> "file"
                       [] p = <<"e">> -> "hostlink"
                       [] OTHER -> "none"]
=============================================================================
