---------------------------- MODULE MCVFSSession ----------------------------
(* Instances of VFSSession for TLC. *)
EXTENDS VFSSession

MCPaths == {<<>>, <<"d">>, <<"e">>, <<"d", "f">>, <<"e", "f">>, <<"l">>,
            <<"v">>, <<"v", "m">>, <<"v", "m", "f">>}
MCMounts == {<<>>, <<"v", "m">>}
MCMemory == {<<"v", "m">>}
\* A dangling link, a directory with a file in it and a directory with a mount
\* in it, beside the two mounts' own directories.
MCInitTree ==
  [files |-> [p \in MCPaths |-> CASE p = <<"d", "f">> -> 5 [] p = <<"l">> -> 6
                                  [] OTHER -> None],
   dirs |-> [p \in MCPaths |-> CASE p = <<>> -> 1 [] p = <<"d">> -> 2 [] p = <<"v">> -> 3
                                 [] p = <<"v", "m">> -> 4 [] OTHER -> None]]
MCKnown == {<<>>, <<"d">>, <<"d", "f">>, <<"v">>}
\* One mount, with a directory the guest has looked up and a file it has not.
MCOneMount == {<<>>}
MCOneMountPaths == {<<>>, <<"d">>, <<"e">>, <<"d", "f">>, <<"e", "f">>}
MCOneMountTree ==
  [files |-> [p \in MCOneMountPaths |-> IF p = <<"d", "f">> THEN 3 ELSE None],
   dirs |-> [p \in MCOneMountPaths |-> CASE p = <<>> -> 1 [] p = <<"d">> -> 2 [] OTHER -> None]]
MCFewKnown == {<<>>, <<"d">>}
MCRules == {[ops |-> {"mkdir"}, paths |-> {<<"e", "f">>}, action |-> "block", phase |-> "before"],
            [ops |-> {"remove"}, paths |-> {<<"d">>}, action |-> "block", phase |-> "after"]}
=============================================================================
