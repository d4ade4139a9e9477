---------------------------- MODULE MCSkbVerdict ----------------------------
(* Streams of up to MaxFrames frames for TLC, with a frame header of 2 bytes. *)
EXTENDS SkbVerdict

F(type, sid, ends, len) ==
    [type |-> type, sid |-> sid, ends |-> ends, len |-> len, fate |-> "ok"]

\* Header blocks, whole, in pieces and broken, and frames of settings and data.
MCFrames ==
    {F("headers", 1, TRUE, 1), F("headers", 1, FALSE, 1), F("continuation", 1, FALSE, 0),
     F("continuation", 1, TRUE, 1), F("continuation", 2, TRUE, 1),
     F("settings", 0, FALSE, 1), F("other", 1, FALSE, 1)}

\* A frame longer than the receive buffer, a block longer than can be collected.
Long == F("other", 1, FALSE, 7)
Wide == F("continuation", 1, TRUE, 2)

MCStreams ==
    UNION {[1..n -> MCFrames] : n \in 1..MaxFrames}
        \cup {<<Long>>} \cup {<<f, Long>> : f \in MCFrames} \cup {<<Long, f>> : f \in MCFrames}
        \cup {<<f, Wide>> : f \in MCFrames}
=============================================================================
