-------------------------- MODULE MCSimpleTargetSet --------------------------
(* Small instances of SimpleTargetSet for TLC.                             *)
EXTENDS SimpleTargetSet
=============================================================================
