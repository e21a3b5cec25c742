---------------------------- MODULE MCBaudDivisor ----------------------------
(* Rates: every slow one, the standard ones, both sides of each change of  *)
(* prescaler and of the two ends of the range, and cubes for what lies     *)
(* between.                                                                *)
EXTENDS LinuxRates

MCRate == (46 .. 160)
          \union {200, 300, 600, 1200, 2400, 4800, 9600, 19200, 38400, 57600,
                  115200, 230400, 460800, 921600, 1000000, 1500000, 2000000}
          \union {366, 367, 2929, 2930, 23437, 23438}
          \union {183, 184, 1333333, 1333334, 2500000, 2999999, 3000000}
          \union {k * k * k : k \in 6 .. 144}

(* The same, with B0, the rates of the tables of pl2303.c and cp210x.c and *)
(* both sides of each limit, and rates above what the chips reach.         *)
MCLinuxRate == {0} \union MCRate \union baud_sup
               \union {quantised[i][1] + d : i \in DOMAIN quantised, d \in {0, 1}}
               \union {quantised[i][2] : i \in DOMAIN quantised}
               \union {1199, 93750, 93751, 3000001, 6000000, 8000000, 12000000, 12000001}

(* None, 240 and 26 for ordinary rates, 5 for one above 3000000, 20000 for *)
(* the slowest, and one so large that no rate is left.                     *)
MCCustomDivisor == {0, 5, 26, 240, 20000, 60000001}

(* The codes that ch340_div.c and linux-3-18/messages.txt record from a    *)
(* trace of real devices: B282h and CC83h, 4138h and 1Ah.                  *)
ASSUME TracedCodes == /\ MY_ch341_get_divisor(9600) = 45698
                      /\ MY_ch341_get_divisor(115200) = 52355
                      /\ ftdi_232bm_baud_to_divisor(9600) = 16696
                      /\ ftdi_232bm_baud_to_divisor(115200) = 26
=============================================================================
