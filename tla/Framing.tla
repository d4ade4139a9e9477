------------------------------ MODULE Framing ------------------------------
(***************************************************************************)
(* How beeper cuts an HTTP/2 byte stream into frames and header blocks:    *)
(* the outcome of parse_msg and parse_skb (beeper/src/http2/parser.bpf.c)  *)
(* at the start of a frame, for however many bytes of the stream are at    *)
(* hand.  A stream is a sequence of frames; offsets count bytes.           *)
(***************************************************************************)
EXTENDS Integers, Sequences, FiniteSets, FiniteSetsExt, SequencesExt

CONSTANTS
    HdrLen,    \* HTTP2_FRAME_HDR_LEN
    MaxBytes,  \* MAX_BYTES, the bytes the parser walks at most
    BlockMax,  \* BLOCK_MAXLEN, the bytes a collected block has at most
    EndWidth,  \* 2^16, the values the end of a block is kept in
    Sids,      \* stream ids, 0 among them
    Lens       \* payload lengths

ASSUME FramingOK ==
    /\ HdrLen \in Nat \ {0} /\ MaxBytes \in Nat /\ BlockMax \in Nat
    /\ EndWidth \in Nat /\ EndWidth > MaxBytes
    /\ 0 \in Sids /\ Sids \subseteq Nat /\ Lens \subseteq Nat

\* A frame: what its header says, and whether its payload can be read.
\* "settings" is a SETTINGS frame without the ACK flag, "other" a frame of a
\* type that is skipped; `ends' is the END_HEADERS flag.  The fate "padding" is
\* padding longer than the payload, "hpack" a block malformed from there on.
Frame ==
    {f \in [type : {"headers", "continuation", "settings", "other"}, sid : Sids,
            ends : BOOLEAN, len : Lens, fate : {"ok", "padding", "hpack"}] :
        /\ f.fate = "padding" => f.type = "headers"
        /\ f.fate = "hpack" => f.type \in {"headers", "continuation"} /\ f.len > 0}

FrameLen(f) == HdrLen + f.len

\* The offset of the k-th frame of a stream, and the length of the stream.
Offset(fs, k) ==
    LET upto[j \in 1..k] == IF j = 1 THEN 0 ELSE upto[j - 1] + FrameLen(fs[j - 1])
    IN  upto[k]
Total(fs) == Offset(fs, Len(fs) + 1)

-----------------------------------------------------------------------------
(* The parser.  A result is a code and a number of bytes: those consumed by  *)
(* an "ok", those needed by an "again" (frame.need), those of the frame for  *)
(* the others.                                                               *)

Result(code, bytes) == [code |-> code, bytes |-> bytes]
Codes == {"ok", "short", "again", "proto", "badmsg", "toobig"}

_violates_block_rules(f) ==
    \/ f.type = "continuation"
    \/ f.type = "headers" /\ f.sid = 0

_reject_frame(f, avail) ==
    Result(IF FrameLen(f) <= avail THEN "proto" ELSE "again", FrameLen(f))

_is_parsed_frame(f) == f.type \in {"headers", "continuation", "settings"}

\* Mutant: any CONTINUATION frame carries any block on.
CarriesOnAnyStream(fs, k, j) == fs[j].type = "continuation"

\* Whether frame j may be the next of the block frame k opens.
CarriesOn(fs, k, j) == fs[j].type = "continuation" /\ fs[j].sid = fs[k].sid

BlockLen(fs, k, j) == Offset(fs, j + 1) - Offset(fs, k) - (j - k + 1) * HdrLen

\* What _collect_block does at the j-th frame of the stream, with `avail' bytes
\* of it from the k-th on, which is `off' bytes into the buffer: it fails, ends
\* the block, or goes on to the next frame.
AtFrame(fs, k, j, off, avail) ==
    LET o    == Offset(fs, j) - Offset(fs, k)
        f    == fs[j]
        last == o + FrameLen(f)
    IN  IF off + o > MaxBytes THEN Result("toobig", o)
        ELSE IF o + HdrLen > avail THEN Result("again", o + HdrLen)
        ELSE IF j > k /\ ~CarriesOn(fs, k, j) THEN Result("proto", FrameLen(fs[k]))
        ELSE IF last > avail THEN Result("again", last)
        ELSE IF f.fate = "padding" THEN Result("badmsg", last)
        ELSE IF BlockLen(fs, k, j) > BlockMax THEN Result("toobig", last)
        ELSE Result(IF f.ends THEN "ok" ELSE "more", last)

\* Mutants: frames that have not arrived are not waited for, and
\* the frames that could not all be pulled in are waited for.
CollectBlockAtOnce(fs, k, off, avail, size) ==
    LET stops == {j \in k..(Len(fs) + 1) : AtFrame(fs, k, j, off, avail).code # "more"}
        r     == AtFrame(fs, k, Min(stops), off, avail)
    IN  IF r.code = "again" THEN Result("toobig", r.bytes) ELSE r

CollectBlockAgain(fs, k, off, avail, size) ==
    LET stops == {j \in k..(Len(fs) + 1) : AtFrame(fs, k, j, off, avail).code # "more"}
    IN  AtFrame(fs, k, Min(stops), off, avail)

\* _collect_block and its caller's check: a block whose frames have all arrived
\* but could not all be pulled in would never be read.
_collect_block(fs, k, off, avail, size) ==
    LET stops == {j \in k..(Len(fs) + 1) : AtFrame(fs, k, j, off, avail).code # "more"}
        r     == AtFrame(fs, k, Min(stops), off, avail)
    IN  IF r.code = "again" /\ r.bytes <= size THEN Result("toobig", r.bytes) ELSE r

\* The frames of a block that was read from frame k on, `bytes' long.
LastFrame(fs, k, bytes) ==
    CHOOSE j \in k..Len(fs) : Offset(fs, j + 1) = Offset(fs, k) + bytes

_parse_block(fs, k, off, avail, size) ==
    LET r == _collect_block(fs, k, off, avail, size)
    IN  IF r.code = "ok" /\ \E j \in k..LastFrame(fs, k, r.bytes) : fs[j].fate = "hpack"
        THEN Result("badmsg", r.bytes)
        ELSE r

\* The end of the block in a frame, in the 16 bits it is kept in.
_http2_block(f) == FrameLen(f) % EndWidth

\* A frame that is read on its own.  A block whose end was cut to 16 bits may
\* not even be looked at.
_parse_frame(f, off) ==
    IF off > MaxBytes THEN Result("toobig", FrameLen(f))
    ELSE IF f.fate = "padding" THEN Result("badmsg", FrameLen(f))
    ELSE IF off + _http2_block(f) > MaxBytes THEN Result("toobig", FrameLen(f))
    ELSE Result(IF f.fate = "hpack" /\ _http2_block(f) > HdrLen THEN "badmsg" ELSE "ok",
                FrameLen(f))

\* The part of parse_msg and parse_skb that follows the frame header, with
\* `size' bytes of the message and `avail' of them within reach once pulled in.
ParseFrom(fs, k, off, size, avail) ==
    LET f == fs[k]
    IN  IF _violates_block_rules(f) THEN _reject_frame(f, size)
        ELSE IF ~_is_parsed_frame(f) THEN Result("ok", FrameLen(f))
        ELSE IF FrameLen(f) > size THEN Result("again", FrameLen(f))
        ELSE IF f.type = "headers" /\ ~f.ends THEN _parse_block(fs, k, off, avail, size)
        ELSE _parse_frame(f, off)

\* The frame header is read out of the part of the message that is `linear',
\* which parse_msg takes as it is and parse_skb pulls in.
parse_msg(fs, k, size, linear, avail) ==
    IF linear < HdrLen THEN Result("short", 0) ELSE ParseFrom(fs, k, 0, size, avail)

parse_skb(fs, k, off, size, avail) ==
    IF off > MaxBytes THEN Result("toobig", 0)
    ELSE IF size < HdrLen THEN Result("short", 0)
    ELSE ParseFrom(fs, k, off, size, avail)

-----------------------------------------------------------------------------
(* What there is to read, independently of how it is cut and pulled in.      *)

\* Frames k to j are one header block, or one frame of settings.
IsUnit(fs, k, j) ==
    \/ fs[k].type = "settings" /\ j = k
    \/ /\ fs[k].type = "headers" /\ fs[k].sid # 0
       /\ \A i \in (k + 1)..j : fs[i].type = "continuation" /\ fs[i].sid = fs[k].sid
       /\ \A i \in k..j : fs[i].ends <=> i = j

Units(fs) == {u \in (1..Len(fs)) \X (1..Len(fs)) : u[1] <= u[2] /\ IsUnit(fs, u[1], u[2])}

\* Frames k to j are the beginning of a header block, which goes on.
IsOpenBlock(fs, k, j) ==
    /\ fs[k].type = "headers" /\ fs[k].sid # 0
    /\ \A i \in (k + 1)..j : fs[i].type = "continuation" /\ fs[i].sid = fs[k].sid
    /\ \A i \in k..j : ~fs[i].ends

IsOpen(fs, j) == \E k \in 1..j : IsOpenBlock(fs, k, j)

\* Frame k cannot be read, or begins a block that is longer than the parser can
\* collect, along with the header of the frame behind it if the block goes on.
Unreadable(fs, k) ==
    \/ fs[k].fate # "ok"
    \/ FrameLen(fs[k]) > MaxBytes
    \/ \E j \in k..Len(fs) :
          /\ IsUnit(fs, k, j) \/ IsOpenBlock(fs, k, j)
          /\ \/ BlockLen(fs, k, j) > BlockMax
             \/ Offset(fs, j + 1) - Offset(fs, k)
                    + (IF IsOpenBlock(fs, k, j) THEN HdrLen ELSE 0) > MaxBytes

\* Frame k, or the block it begins, ends beyond the bytes the parser walks if it
\* begins `off' bytes into them.
OutOfReach(fs, k, off) ==
    \E j \in k..Len(fs) :
        /\ j = k \/ IsUnit(fs, k, j) \/ IsOpenBlock(fs, k, j)
        /\ off + Offset(fs, j + 1) - Offset(fs, k) > MaxBytes
=============================================================================
