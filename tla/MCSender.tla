------------------------------ MODULE MCSender ------------------------------
(* Sender with LineStatus for TLC: transfers of two bytes, packets of one  *)
(* part, of two, and one byte too long for the buffer; two modem signals.  *)
EXTENDS LineStatus

MCPacket == {<<2, 3>>, <<1, 2, 3>>, <<1, 1, 1, 1, 1>>}
MCSignals == <<"CTS", "DSR">>
=============================================================================
