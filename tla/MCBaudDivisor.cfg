\* The chips of the driver and of linux-3-18, over the supported rates.
SPECIFICATION AllSpec
CONSTANTS
    Rate <- MCRate
    LinuxRate <- MCLinuxRate
    CustomDivisor <- MCCustomDivisor
    Interface = 2
INVARIANTS
    Ch34xEncodes
    LinuxEncodes
    RateAccepted
    KosEncodes
