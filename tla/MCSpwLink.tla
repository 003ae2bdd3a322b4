----------------------------- MODULE MCSpwLink -----------------------------
EXTENDS SpwLink

CONSTANTS A, B

\* Transmission at 200 Mbit/s: an acknowledgement of 5 bytes, a message of 70
\* with its header, another acknowledgement; and the same with a message of 1500.
ShortLongShort == <<200, 3000, 200>>
ThreePackets == {ShortLongShort, <<200, 60000, 200>>}
ThreeShortPackets == {ShortLongShort}
==============================================================================
