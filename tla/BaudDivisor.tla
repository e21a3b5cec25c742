----------------------------- MODULE BaudDivisor -----------------------------
(***************************************************************************)
(* The rate of the line: what SETUP_LINE (usbuart.c) sends to a CH34x, by  *)
(* ch341_get_divisor (ch340_div.c), and to an FTDI chip, by                *)
(* ftdi_232bm_baud_to_divisor (ftdi.c), for the rate a program asks for.   *)
(* The other settings of the line are not part of this state.              *)
(*                                                                         *)
(* The C code computes with unsigned numbers of 32 bits.  For the rates    *)
(* below no product leaves that range, and NoWrap says that no difference  *)
(* does: the integers here then have the same values.                      *)
(***************************************************************************)
EXTENDS Integers, Bitwise

CONSTANT Rate       \* rates programs ask for; 0 would be divided by

ASSUME RateAssumption == Rate \subseteq 1 .. 3999999

VARIABLES chip,           \* which chip the device has
          dDteRate,       \* LineCoding.dDteRate
          wValue, wIndex  \* of the control request that sets the rate

vars == <<chip, dDteRate, wValue, wIndex>>

Word(n) == n % 65536      \* an argument of type WORD
EINVAL == 123

-----------------------------------------------------------------------------
(* ch340_div.c.                                                            *)

CH341_CLKRATE == 48000000
CH341_CLK_DIV(ps, fact) == 2^(12 - 3 * ps - fact)
CH341_MIN_RATE(ps) == CH341_CLKRATE \div (CH341_CLK_DIV(ps, 1) * 512)

(* The prescalers whose slowest rate lies below the speed; the loop takes  *)
(* the largest one.                                                        *)
Prescalers(speed) == {ps \in 0 .. 3 : speed > CH341_MIN_RATE(ps)}
Prescaler(speed) == CHOOSE ps \in Prescalers(speed) :
                       \A q \in Prescalers(speed) : q <= ps

(* The highest base clock (fact = 1), halved if its divisor is too small   *)
(* or too large.                                                           *)
BaseClock(speed) ==
    LET ps == Prescaler(speed)
        clk_div == CH341_CLK_DIV(ps, 1)
        div == CH341_CLKRATE \div (clk_div * speed)
    IN  IF div < 9 \/ div > 255
        THEN [ps |-> ps, fact |-> 0, div |-> div \div 2]
        ELSE [ps |-> ps, fact |-> 1, div |-> div]

(* The rate of a setting, in sixteenths of a bit per second.               *)
Rate16(ps, fact, div) ==
    (16 * CH341_CLKRATE) \div (CH341_CLK_DIV(ps, fact) * div)

(* How far the rates of divisor div and of the next one are from the speed.*)
Above(s, speed) == Rate16(s.ps, s.fact, s.div) - 16 * speed
Below(s, speed) == 16 * speed - Rate16(s.ps, s.fact, s.div + 1)

(* A mistake: the divisor that was rounded down is kept.                   *)
Closer_Down(s, speed) == s

Closer(s, speed) ==
    IF Above(s, speed) >= Below(s, speed) THEN [s EXCEPT !.div = @ + 1] ELSE s

(* The lower base clock is preferred if it gives the same rate.            *)
LowerClock(s) == IF s.fact = 1 /\ s.div % 2 = 0
                 THEN [s EXCEPT !.fact = 0, !.div = @ \div 2] ELSE s

ch341_get_divisor(speed) ==
    IF Prescalers(speed) = {} \/ BaseClock(speed).div < 2 THEN -EINVAL
    ELSE LET s == LowerClock(Closer(BaseClock(speed), speed))
         IN  (256 - s.div) * 256 + s.fact * 4 + s.ps

(* Result | BIT(7): the bit is clear in a code and set in -EINVAL.         *)
MY_ch341_get_divisor(speed) ==
    LET result == ch341_get_divisor(speed)
    IN  IF result < 0 THEN result ELSE result + 128

-----------------------------------------------------------------------------
(* ftdi.c.                                                                 *)

divfrac == [i \in 0 .. 7 |-> <<0, 3, 2, 4, 1, 5, 6, 7>>[i + 1]]

(* A mistake: the two shortest divisors are sent as they are.              *)
Divisor_NoSpecialCodes(baud, base) ==
    LET divisor3 == (base \div 2) \div baud
    IN  (divisor3 \div 8) | (divfrac[divisor3 % 8] * 2^14)

ftdi_232bm_baud_base_to_divisor(baud, base) ==
    LET divisor3 == (base \div 2) \div baud
        divisor == (divisor3 \div 8) | (divfrac[divisor3 % 8] * 2^14)
    IN  IF divisor = 1 THEN 0 ELSE IF divisor = 16385 THEN 1 ELSE divisor

ftdi_232bm_baud_to_divisor(baud) ==
    ftdi_232bm_baud_base_to_divisor(baud, 48000000)

-----------------------------------------------------------------------------
Init == /\ chip \in {"CH34x", "FTDI"}
        /\ dDteRate = 0 /\ wValue = 0 /\ wIndex = 0

(* The request for the rate that SETUP_LINE makes.                         *)
SETUP_LINE_CH34x(speed) ==
    /\ chip = "CH34x"
    /\ dDteRate' = speed
    /\ wValue' = 19 * 256 + 18       \* registers DIVISOR and PRESCALER
    /\ wIndex' = Word(MY_ch341_get_divisor(speed))
    /\ UNCHANGED chip

SETUP_LINE_FTDI(speed) ==
    /\ chip = "FTDI"
    /\ dDteRate' = speed
    /\ wValue' = Word(ftdi_232bm_baud_to_divisor(speed))
    /\ wIndex' = Word(ftdi_232bm_baud_to_divisor(speed) \div 65536)
    /\ UNCHANGED chip

Next == \E speed \in Rate : SETUP_LINE_CH34x(speed) \/ SETUP_LINE_FTDI(speed)

Spec == Init /\ [][Next]_vars
-----------------------------------------------------------------------------
(* Properties.                                                             *)

(* The settings ch340_div.c documents for the chip.                        *)
Legal == {s \in [ps : 0 .. 3, fact : 0 .. 1, div : 2 .. 256] :
             s.fact = 1 => s.div >= 9}

(* What the registers of a CH34x mean: the divisor register counts up to   *)
(* 256, the prescaler register has bit 7 set.                              *)
Registers == [ps |-> wIndex % 4, fact |-> (wIndex \div 4) % 2,
              div |-> 256 - wIndex \div 256]

Distance(s) == LET d == Rate16(s.ps, s.fact, s.div) - 16 * dDteRate
               IN  IF d < 0 THEN -d ELSE d

Ch34xSupported == chip = "CH34x" /\ dDteRate \in 46 .. 3000000

(* Whatever rate is asked for, the registers hold a setting the chip       *)
(* allows, and no setting it allows is closer to that rate.  Between       *)
(* 48 MHz / (4 * 9) and 48 MHz / (4 * 8) ch341_get_divisor goes to the     *)
(* lower clock without trying divisor 9 of the higher one: there only the  *)
(* first half is claimed.                                                  *)
Ch34xNearest == Ch34xSupported =>
    /\ Registers \in Legal /\ (wIndex \div 8) % 32 = 16
    /\ dDteRate \notin 1333334 .. 1499999 =>
          \A s \in Legal : Distance(Registers) <= Distance(s)

(* Both sides of the comparison that picks the closer divisor are          *)
(* differences of unsigned numbers: neither is ever negative.              *)
NoWrap == Ch34xSupported => /\ Above(BaseClock(dDteRate), dDteRate) >= 0
                            /\ Below(BaseClock(dDteRate), dDteRate) >= 0

(* The divisor an FTDI chip reads from the two words of the request, in    *)
(* eighths: 14 bits of whole part, three scattered bits of fraction, and   *)
(* the codes 0 and 1 that stand for 1 and 1.5.                             *)
Eighths == <<0, 4, 2, 1, 3, 5, 6, 7>>
FtdiDivisor == LET code == wValue + 65536 * (wIndex % 2)
               IN  IF code = 0 THEN 8 ELSE IF code = 1 THEN 12
                   ELSE 8 * (code % 2^14) + Eighths[code \div 2^14 + 1]

(* For every rate the chip has a divisor for, the request splits and       *)
(* encodes exactly the largest divisor, in eighths, that is not slower     *)
(* than the rate.                                                          *)
FtdiRoundTrip ==
    /\ chip = "FTDI"
    /\ dDteRate \in 184 .. 1500000 \/ dDteRate \in {2000000, 3000000}
    => /\ FtdiDivisor * dDteRate <= 24000000
       /\ (FtdiDivisor + 1) * dDteRate > 24000000

(* The CH34x gets the nearest setting, without unsigned wrap-around on the *)
(* way.                                                                    *)
Ch34xEncodes == NoWrap /\ Ch34xNearest
=============================================================================
