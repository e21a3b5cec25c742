----------------------------- MODULE MCSession -----------------------------
(* Sessions of one device of every kind: in MCSession.cfg one session,     *)
(* with every way a pipe can fail; in MCSessionReopen.cfg two after each   *)
(* other.                                                                  *)
EXTENDS Session
=============================================================================
