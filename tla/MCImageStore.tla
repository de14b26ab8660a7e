---------------------------- MODULE MCImageStore ----------------------------
(* Two processes, and two images that share their base layer.                *)
EXTENDS ImageStore, TLC

CONSTANTS p1, p2, r1, r2

TwoProcs == {p1, p2}
ProcSymmetry == Permutations(TwoProcs)
OneTag == {r1}
TwoTags == {r1, r2}
SharedBase == {[layers |-> <<"base", "top">>, squash |-> "squashed"],
               [layers |-> <<"base">>, squash |-> "squashedBase"]}
=============================================================================
