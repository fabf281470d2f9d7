------------------------------- MODULE MCGpioI2c -------------------------------
\* Bytes of four bits; a device at address 5, and nobody at 2; an even register, an odd
\* one, and one whose number is too large for a byte.
EXTENDS GpioI2c

\* The bits of a number.
Number(n) == {b \in 0..7 : (n \div 2^b) % 2 = 1}

mcAddress == Number(5)
mcDevAddrs == {Number(5), Number(2)}
mcRegs == {Number(2), Number(13), Number(20)}
mcValues == {Number(7), Number(12)}
mcFirstRegisters == {[r \in Byte |-> {b \in 0..3 : (b \in r) # (b \in Number(5))}]}

=============================================================================
