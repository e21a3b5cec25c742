----------------------------- MODULE MCUsbSerial -----------------------------
(* Two threads of programs, and devices plugged in one after the other, so *)
(* that the tty of the first is still open when the second takes a number. *)
EXTENDS UsbSerial
=============================================================================
