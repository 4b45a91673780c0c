--------------------------- MODULE MCAcmReceiver ---------------------------
EXTENDS AcmReceiver

MCKhz == [c \in Codecs |-> 1]
MCPt == [A |-> 1, B |-> 2, cng |-> 13, avt |-> 101]
Every10ms(codec, n) == [codec |-> codec, at |-> 10 * n]
MCStreams ==
    {[n \in 0..4 |-> Every10ms("A", n)],
     [n \in 0..4 |-> Every10ms(IF n < 2 THEN "A" ELSE "B", n)],
     [n \in 0..3 |-> Every10ms(<<"B", "cng", "avt", "A">>[n + 1], n)]}
=============================================================================
