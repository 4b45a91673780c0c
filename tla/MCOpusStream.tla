---------------------------- MODULE MCOpusStream ----------------------------
(* Small instances of OpusStream: a 20 ms SILK packet with redundant data,  *)
(* a 120 ms packet of two frames, a 2.5 ms CELT packet, a damaged one.      *)
EXTENDS OpusStream

Pkt(n, f, c, l, o) ==
    [samples |-> n, frames |-> f, celt |-> c, lbrr |-> l, ok |-> o]

MCPackets == { Pkt(960, 1, FALSE, TRUE, TRUE), Pkt(2880, 2, FALSE, FALSE, TRUE),
               Pkt(120, 1, TRUE, TRUE, TRUE), Pkt(960, 1, FALSE, TRUE, FALSE) }

Client(calls, channels) == [calls |-> calls, channels |-> channels]

\* NetEq and capi.cc, each in mono and in stereo, and the split interface.
MCClients == {Client(calls, n) : calls \in {NetEqCalls, CapiCalls}, n \in 1..2}
                 \cup {Client(SplitCalls, 2)}

\* A stereo handle of the C API.
MCStereoCapi == {Client(CapiCalls, 2)}
=============================================================================
