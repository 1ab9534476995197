--------------------------- MODULE MCNodeRegistry ---------------------------
(***************************************************************************)
(* Small instances of NodeRegistry for TLC.                                *)
(***************************************************************************)
EXTENDS NodeRegistry

\* Two names for nodes below two directories, one of which may turn out to be
\* a link to the other.
TwoNames == {<<"x", "n">>, <<"y", "n">>}

\* The second name leads back up from a directory that may not be there yet.
DottedNames == {<<"x", "n">>, <<"y", "m", "..", "n">>}

OneLink == {<<<<"x">>, <<"y">>>>}

\* The environment of a user with a data directory, and one of a bare container
\* where nothing is set.
NoEnv == [p2p_dir |-> {}, xdg |-> {}, home |-> {}, app_var |-> "", package |-> "",
          exe |-> "run"]
Apart == {[NoEnv EXCEPT !.xdg = {Root}, !.package = "acme/chat"], NoEnv}

\* $NOETA_P2P_DIR is a directory the program also opens by name.
Shared == {[NoEnv EXCEPT !.p2p_dir = {<<"y", "n">>}]}

Segments == [raw \in {"acme/chat", "run"} |->
                IF raw = "acme/chat" THEN "acme-chat" ELSE "run"]
=============================================================================
