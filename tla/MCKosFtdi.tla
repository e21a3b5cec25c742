----------------------------- MODULE MCKosFtdi -----------------------------
(* Of each kind of request one at least: the lock, the chunk sizes, both   *)
(* bulk transfers, RTS up and down, a question; three bytes with packets   *)
(* of one are up to three chunks.                                          *)
EXTENDS KosFtdi

MCOpcode == {2, 3, 6, 7, 8, 9, 12, 13, 21}
=============================================================================
