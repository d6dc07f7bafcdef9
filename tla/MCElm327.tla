------------------------------ MODULE MCElm327 ------------------------------
(* Small instances of Elm327 for TLC. *)
EXTENDS Elm327

OneList == {<<"0C">>}
NoLists == {}
=============================================================================
