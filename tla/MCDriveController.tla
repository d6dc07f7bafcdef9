------------------------- MODULE MCDriveController --------------------------
(* Small instances of DriveController for TLC. *)
EXTENDS DriveController

NoLists == {}
=============================================================================
