----------------------------- MODULE MCLvl4Stream -----------------------------
(* A small instance of Lvl4Stream for TLC.                                *)
EXTENDS Lvl4Stream
=============================================================================
