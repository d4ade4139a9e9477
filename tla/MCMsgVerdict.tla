---------------------------- MODULE MCMsgVerdict ----------------------------
(* Streams of up to MaxFrames frames for TLC, with a frame header of 2 bytes. *)
EXTENDS MsgVerdict

F(type, sid, ends, len) ==
    [type |-> type, sid |-> sid, ends |-> ends, len |-> len, fate |-> "ok"]
Bad(f, fate) == [f EXCEPT !.fate = fate]

\* Header blocks of two streams, whole, in pieces and broken, the frames that
\* must not carry one, and frames of settings and of data.
MCFrames ==
    {F("headers", 1, TRUE, 1), F("headers", 1, FALSE, 1), F("headers", 0, TRUE, 0),
     F("continuation", 1, FALSE, 0), F("continuation", 1, TRUE, 1),
     F("continuation", 2, TRUE, 1), F("settings", 0, FALSE, 1), F("other", 1, FALSE, 2)}

\* Frames and blocks that cannot be read, or are too long to be.
MCBadFrames ==
    {F("headers", 1, TRUE, 1), F("headers", 1, FALSE, 1), F("continuation", 1, TRUE, 1),
     F("continuation", 1, FALSE, 3), F("headers", 1, TRUE, 5),
     Bad(F("headers", 1, TRUE, 1), "hpack"), Bad(F("headers", 1, FALSE, 1), "padding"),
     Bad(F("continuation", 1, TRUE, 1), "hpack")}

MCStreams == UNION {[1..n -> MCFrames] : n \in 1..MaxFrames}
MCBadStreams == UNION {[1..n -> MCBadFrames] : n \in 1..MaxFrames}
=============================================================================
