----------------------------- MODULE MCCodecApi -----------------------------
(* Small instances of CodecApi: room for two Opus handles, one packet with  *)
(* redundant data, one long packet, one damaged packet.                     *)
EXTENDS CodecApi

Pkt(n, f, c, l, o) ==
    [samples |-> n, frames |-> f, celt |-> c, lbrr |-> l, ok |-> o]

MCAddr   == 1..8
MCFrames == {Pkt(960, 1, FALSE, TRUE, TRUE), Pkt(2880, 2, FALSE, FALSE, TRUE),
             Pkt(960, 1, FALSE, TRUE, FALSE)}
MCRaw     == {480}
MCOptions == {<<"AUDIO_ENCODER_FEC", 0>>}
MCIds     == {PCMA, OPUS, G722, AUDIO_UNKNOWN}
MCCounts  == {0, 2}
=============================================================================
