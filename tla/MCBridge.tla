------------------------------ MODULE MCBridge -------------------------------
(* A small instance of the bridge. *)
EXTENDS Bridge

MCBlocks == {<<"text">>, <<"solved">>, <<"solved", "f1">>, <<"solved", "f2">>}
=============================================================================
