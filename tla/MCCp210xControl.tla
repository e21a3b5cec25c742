-------------------------- MODULE MCCp210xControl --------------------------
(* Two values tell a setting from the one before it.                       *)
EXTENDS Cp210xControl
=============================================================================
