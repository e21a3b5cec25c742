------------------------------ MODULE MCLinePort ------------------------------
(* LinePort for TLC: settings that differ in one thing or in several, with *)
(* B0, 38400, a format of 5 bits, mark parity and both kinds of flow       *)
(* control among them.  A TIRA has flow control and rate forced, so two    *)
(* are enough for it.  Failures and TIOCSSERIALs are explored apart.       *)
EXTENDS LinePort

T(size, parity, stop, flow, rate) ==
    [size |-> size, parity |-> parity, stop |-> stop, flow |-> flow, rate |-> rate]

MCDriver == {"ftdi_sio", "ftdi_tira", "pl2303", "cp210x"}
Odd == {"PARENB", "PARODD"}
MCTermios == [d \in MCDriver |->
    {T(8, {}, 1, "none", 1)} \union
    CASE d = "ftdi_sio" -> {T(7, Odd, 1, "rtscts", 0), T(8, {}, 2, "xonxoff", 2)}
      [] d = "ftdi_tira" -> {T(7, Odd, 1, "rtscts", 0)}
      [] OTHER -> {T(8, {}, 1, "none", 0), T(5, {}, 2, "rtscts", 2), T(8, Odd \union {"CMSPAR"}, 1, "xonxoff", 1)}]
B(f, s) == [fails |-> f, serials |-> s]
MCBounds == [d \in MCDriver |-> CASE d = "ftdi_sio" -> {B(1, 0), B(0, 1)}
                                  [] d = "ftdi_tira" -> {B(0, 1)}
                                  [] OTHER -> {B(1, 0)}]

Symmetric == Permutations(Lines)
=============================================================================
