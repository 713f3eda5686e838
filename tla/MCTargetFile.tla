---------------------------- MODULE MCTargetFile ----------------------------
(* Small instances of TargetFile for TLC.                                  *)
EXTENDS TargetFile
=============================================================================
