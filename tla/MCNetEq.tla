------------------------------ MODULE MCNetEq ------------------------------
EXTENDS NetEq

MCFormat ==
    [p \in SpeechTypes \cup NoiseTypes |->
        [khz |-> IF p = "B" THEN 16 ELSE 8, channels |-> IF p = "S" THEN 2 ELSE 1]]

Packet(pt, at, len) ==
    [pt |-> pt, ssrc |-> 1, at |-> at, len |-> len, cn |-> FALSE, fec |-> FALSE]

\* Packets of one codec: 20 ms each, the third with a copy of the second; 10 ms.
Talk == [n \in 0..2 |-> [Packet("A", 4 * n, 4) EXCEPT !.fec = n = 2]]
Short == [n \in 0..3 |-> Packet("A", 2 * n, 2)]
Long == [n \in 0..2 |-> Packet("A", 6 * n, 6)]
\* Comfort noise between packets, of RFC 3389 and of the codec's own.
Pause == <<Packet("A", 0, 4), Packet("cng", 4, 0), Packet("cng", 10, 0), Packet("A", 14, 4)>>
OwnPause == <<Packet("A", 0, 4), [Packet("A", 4, 4) EXCEPT !.cn = TRUE], Packet("A", 12, 4)>>
\* Another codec, and another source that starts with comfort noise.
Switch == <<Packet("A", 0, 4), Packet("A", 4, 4), Packet("B", 8, 4), Packet("B", 12, 4)>>
Other(p) == [p EXCEPT !.ssrc = 2]
Takeover == <<Packet("A", 0, 4), Packet("cng", 4, 0), Other(Packet("cng", 8, 0)), Other(Packet("A", 12, 4))>>

\* A source that is silent at first, and changes its type of comfort noise.
Opening ==
    <<Packet("cng", 0, 0), Packet("cng2", 4, 0), Packet("cng2", 8, 0), Packet("A", 12, 4)>>

FromZero(s) == [n \in 0 .. (Len(s) - 1) |-> s[n + 1]]
MCStreams == {Talk, Short, Long} \cup {FromZero(s) : s \in {Pause, OwnPause, Switch, Takeover, Opening}}

\* Two channels, 10 ms each.
MCStereo == {[n \in 0..3 |-> Packet("S", 2 * n, 2)]}
=============================================================================
