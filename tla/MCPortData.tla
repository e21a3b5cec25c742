------------------------------ MODULE MCPortData ------------------------------
(* PortData and DriverSetup for TLC: packets of at most 4 bytes, and       *)
(* interfaces of every driver, with more endpoints than ports, more ports  *)
(* than endpoints, sizes of 0 and reserved interfaces.                     *)
EXTENDS PortData

Ep(kind, maxp) == [kind |-> kind, maxp |-> maxp]
Dev(id, eps, other, number, interfaces, version, jtag_board) ==
    [id |-> id, eps |-> eps, other |-> other, number |-> number, interfaces |-> interfaces,
     version |-> version, jtag_board |-> jtag_board]
Pair(maxp) == <<Ep("bulk_in", maxp), Ep("bulk_out", maxp)>>

MCDevice == {Dev("ftdi", Pair(4), <<>>, 0, 1, 256, FALSE),              \* SIO
             Dev("ftdi", Pair(0), <<>>, 0, 1, 1536, FALSE),             \* FT232R, size 0
             Dev("mtxorb_0153", Pair(0), <<>>, 0, 1, 1536, FALSE),
             Dev("olimex_ocd", Pair(4), <<>>, 0, 2, 1792, FALSE),
             Dev("ftdi_2232c", Pair(4), <<>>, 0, 2, 1280, TRUE),
             Dev("ftdi_2232c", Pair(4), <<>>, 0, 2, 1280, FALSE),
             Dev("st_4232", Pair(4), <<>>, 2, 4, 2048, FALSE),
             Dev("prolific", Pair(4), <<Ep("int_in", 4)>>, 1, 2, 512, FALSE),
             Dev("prolific", <<Ep("int_in", 4)>>, <<>>, 0, 2, 512, FALSE),
             Dev("cp2102", Pair(4), <<>>, 0, 1, 256, FALSE),
             Dev("generic", Pair(4) \o Pair(4) \o Pair(4), <<>>, 0, 1, 256, FALSE),
             Dev("carelink", <<Ep("bulk_in", 4), Ep("bulk_in", 4)>>, <<>>, 0, 1, 256, FALSE),
             Dev("novatel_gps", <<Ep("bulk_in", 4)>>, <<>>, 0, 1, 256, FALSE),
             Dev("unknown", Pair(4), <<>>, 0, 1, 256, FALSE)}

ASSUME DevicesHaveOneSize == OneSize

MCPacket == {<<m, l>> \o d : m \in {{}, {"CTS"}}, l \in {{}, {"BI", "PE", "TEMT"}, {"FE", "OE"}},
                             d \in {<<>>, <<{"CTS"}, {"OE"}>>}}
            \union {<<{}>>, <<{"CTS", "DCD"}, {}, {"PE"}>>}

MCStatus == {{}, {"CTS"}, {"CTS", "BI", "PE"}, {"DCD", "OE"}}
=============================================================================
