---------------------------- MODULE MCDiskWatcher ----------------------------
(***************************************************************************)
(* A volume of four units that is under pressure below two free and wants  *)
(* three; candidates of one and two units, or none at all.                 *)
(***************************************************************************)
EXTENDS DiskWatcher

MCLibraries == {<<>>, <<1>>, <<2, 1>>, <<1, 2, 1>>}
=============================================================================
