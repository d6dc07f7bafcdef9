-------------------------- MODULE MCElm327Security --------------------------
(* Small instances of Elm327Security for TLC. *)
EXTENDS Elm327Security

NoLists == {}
OneList == {<<"0C">>}
=============================================================================
