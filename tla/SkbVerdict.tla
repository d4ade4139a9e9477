----------------------------- MODULE SkbVerdict -----------------------------
(***************************************************************************)
(* What a client sends, at the sk_skb hook: the preface and the stream of  *)
(* frames behind it arrive in sk_buffs cut anywhere, skb_parser cuts them  *)
(* into messages, and skb_verdict runs the parser on each                  *)
(* (utils/src/prog.bpf.c).                                                 *)
(*                                                                         *)
(* The kernel's stream parser is external.  It asks for the length of the  *)
(* message at the front with each sk_buff that arrives until it is told    *)
(* one, waits until that many bytes have arrived, and then hands over the  *)
(* whole of the sk_buffs the message lies in, which may begin before it    *)
(* and end behind it.  It gives the connection up, with an error for its   *)
(* socket, if the message does not reach into the sk_buff it is told the   *)
(* length with, or is longer than the receive buffer (__strp_recv of       *)
(* net/strparser/strparser.c).                                             *)
(***************************************************************************)
EXTENDS Framing

CONSTANTS
    Streams,            \* the streams a peer may send
    MaxFrames,          \* bound: the frames of a stream
    MaxSkbs,            \* bound: the sk_buffs it arrives in
    PrefaceLen,         \* HTTP2_PREFACE_LEN
    PeekLen,            \* the bytes of a frame header h2_msg_len looks at
    MAX_CONTINUATIONS,  \* the CONTINUATION frames it puts into one message
    RcvBuf              \* sk_rcvbuf, the bytes a message has at most

ASSUME SkbVerdictOK ==
    /\ \A s \in Streams : s \in Seq(Frame) /\ Len(s) \in 1..MaxFrames
    /\ PeekLen \in 1..HdrLen /\ MAX_CONTINUATIONS \in Nat /\ MaxSkbs \in Nat \ {0}
    /\ PrefaceLen \in Nat \ {0} /\ RcvBuf \in Nat

VARIABLES
    frames,    \* the stream
    cuts,      \* where the sk_buffs that arrived so far end, 0 included
    taken,     \* the bytes that were cut into messages, the preface included
    upgraded,  \* whether the connection is among upgraded_conns
    aborted,   \* whether the stream parser has given the connection up
    decoded,   \* history: the units that were read, by first and last frame
    rejected   \* history: the frames an error was reported for, and the error

vars == <<frames, cuts, taken, upgraded, aborted, decoded, rejected>>

Arrived == Max(cuts)

\* Where frame k begins, behind the preface.
At(k) == PrefaceLen + Offset(frames, k)
Length == At(Len(frames) + 1)

-----------------------------------------------------------------------------
\* Frame j is the last of the message frame k begins.
LastOfMessage(k, j) ==
    \/ frames[j].type # "headers" /\ j = k
    \/ frames[j].ends
    \/ j - k = MAX_CONTINUATIONS

\* Mutants: a frame that breaks into the block is a part of the message, and
\* a block goes on until another frame follows it.
MsgLenThroughBreak(k, upto) ==
    LET ends == {j \in k..Len(frames) : At(j) + PeekLen <= upto /\ LastOfMessage(k, j)}
    IN  IF ends = {} THEN 0 ELSE Offset(frames, Min(ends) + 1) - Offset(frames, k)

MsgLenAtNextFrame(k, upto) ==
    LET ends == {j \in (k + 1)..Len(frames) :
                   At(j) + PeekLen <= upto /\ frames[j].type # "continuation"}
    IN  IF ends = {} THEN 0 ELSE Offset(frames, Min(ends)) - Offset(frames, k)

\* The length of the message frame k begins, 0 while it cannot be told from the
\* first `upto' bytes: up to the frame that ends the block, or the one that
\* breaks into it.
h2_msg_len(k, upto) ==
    LET ends == {j \in k..Len(frames) :
                   /\ At(j) + PeekLen <= upto
                   /\ \/ j > k /\ frames[j].type # "continuation"
                      \/ LastOfMessage(k, j)}
    IN  IF ends = {} THEN 0
        ELSE LET j == Min(ends)
             IN  IF j > k /\ frames[j].type # "continuation"
                 THEN Offset(frames, j) - Offset(frames, k)
                 ELSE Offset(frames, j + 1) - Offset(frames, k)

\* The offset of a message in the sk_buff it is handed over with, and the bytes
\* from it to the end of that sk_buff.
SkbOffset(at) == at - Max({c \in cuts : c <= at})
SkbSize(at, len) == Min({c \in cuts : c >= at + len}) - at

\* The preface is looked for in one sk_buff, where a message begins.
AtPreface == taken = 0 /\ SkbSize(0, 1) >= PrefaceLen

\* Mutant: the preface is not cut off from what came along with it.
SkbParserNoPreface(upto) ==
    IF upgraded /\ \E k \in 1..Len(frames) : At(k) = taken
    THEN h2_msg_len(CHOOSE k \in 1..Len(frames) : At(k) = taken, upto)
    ELSE SkbSize(taken, 1)

\* The length of the message at the front, asked with `upto' bytes at hand: of an
\* HTTP/2 message once the connection is upgraded, else the preface on its own or
\* what the sk_buff holds.
skb_parser(upto) ==
    IF upgraded /\ \E k \in 1..Len(frames) : At(k) = taken
    THEN h2_msg_len(CHOOSE k \in 1..Len(frames) : At(k) = taken, upto)
    ELSE IF AtPreface THEN PrefaceLen
    ELSE SkbSize(taken, 1)

Init ==
    /\ frames \in Streams
    /\ cuts = {0} /\ taken = 0 /\ upgraded = FALSE /\ aborted = FALSE
    /\ decoded = <<>> /\ rejected = {}

\* An sk_buff arrives.
Arrive(n) ==
    /\ n \in 1..(Length - Arrived)
    /\ Cardinality(cuts) <= MaxSkbs
    /\ cuts' = cuts \cup {Arrived + n}
    /\ UNCHANGED <<frames, taken, upgraded, aborted, decoded, rejected>>

\* The stream parser is told the length of the message at the front with the
\* sk_buff that ends at c, and with none before.
Told(c) ==
    /\ c > taken /\ skb_parser(c) > 0
    /\ \A b \in cuts : taken < b /\ b < c => skb_parser(b) = 0

\* The n bytes reach into that sk_buff, and fit the receive buffer.
Fits(n, c) == n <= RcvBuf /\ \A b \in cuts : b < c => b < taken + n

\* The message at the front has arrived, and is n bytes long.
Ready(n) ==
    /\ ~aborted /\ n \in 1..(Arrived - taken)
    /\ \E c \in cuts : Told(c) /\ n = skb_parser(c) /\ Fits(n, c)

\* The stream parser gives up on a length it was told.
Abort ==
    /\ ~aborted
    /\ \E c \in cuts : Told(c) /\ ~Fits(skb_parser(c), c)
    /\ aborted' = TRUE
    /\ UNCHANGED <<frames, cuts, taken, upgraded, decoded, rejected>>

\* What parse_skb may return for it, depending on how much of the sk_buff can be
\* pulled in.
Results(k, n) ==
    LET size == SkbSize(taken, n)
    IN  {parse_skb(frames, k, SkbOffset(taken), size, avail) :
            avail \in Min({size, MaxBytes})..size}

\* A frame or a block was read, or a frame skipped.
Accept(k, r) ==
    /\ r.code = "ok"
    /\ decoded' = IF _is_parsed_frame(frames[k])
                  THEN Append(decoded, <<k, LastFrame(frames, k, r.bytes)>>)
                  ELSE decoded
    /\ UNCHANGED rejected

\* An error is reported.
Reject(k, r) ==
    /\ r.code # "ok"
    /\ rejected' = rejected \cup {<<k, r.code>>}
    /\ UNCHANGED decoded

\* skb_verdict on a message of a connection that is not upgraded: parse_http1_skb
\* finds the preface, which upgrades it, or nothing that is of HTTP/2.
HTTP1Verdict(n) ==
    /\ ~upgraded
    /\ upgraded' = AtPreface
    /\ UNCHANGED <<decoded, rejected>>

HTTP2Verdict(n) ==
    /\ upgraded
    /\ \E k \in 1..Len(frames) :
          At(k) = taken /\ \E r \in Results(k, n) : Accept(k, r) \/ Reject(k, r)
    /\ UNCHANGED upgraded

\* Mutant: the bytes the parser returns are consumed, even with an error.
VerdictByResult ==
    \E n \in {skb_parser(c) : c \in {b \in cuts : b > taken}} :
        /\ Ready(n)
        /\ HTTP1Verdict(n) \/ HTTP2Verdict(n)
        /\ IF ~upgraded THEN taken' = taken + n
           ELSE \E k \in 1..Len(frames) :
                   At(k) = taken /\ \E r \in Results(k, n) : taken' = taken + r.bytes
        /\ UNCHANGED <<frames, cuts, aborted>>

\* skb_verdict runs on the message at the front.  Whatever the parser returns,
\* the message is passed on.
Verdict ==
    \E n \in {skb_parser(c) : c \in {b \in cuts : b > taken}} :
        /\ Ready(n)
        /\ HTTP1Verdict(n) \/ HTTP2Verdict(n)
        /\ taken' = taken + n
        /\ UNCHANGED <<frames, cuts, aborted>>

Next == Verdict \/ Abort \/ \E n \in 1..Length : Arrive(n)

\* The stream parser runs as sk_buffs arrive; the peer may stop sending.
Spec == Init /\ [][Next]_vars /\ WF_vars(Verdict \/ Abort)

-----------------------------------------------------------------------------
TypeOK ==
    /\ frames \in Streams
    /\ cuts \subseteq 0..Length /\ taken \in 0..Arrived
    /\ upgraded \in BOOLEAN /\ aborted \in BOOLEAN
    /\ decoded \in Seq((1..Len(frames)) \X (1..Len(frames)))
    /\ rejected \subseteq (1..Len(frames)) \X Codes

\* Whether the preface lies in one sk_buff, as it has to.
WholePreface == cuts \intersect 1..(PrefaceLen - 1) = {}

\* Behind a preface that arrived in one sk_buff, the units of the stream that the
\* messages cut so far hold are the ones that were read, each once and in order,
\* but for those refused as too big, however the stream arrives and whatever came
\* along with the preface.  Behind another nothing is read, and nothing reported.
DecodesUnits ==
    /\ Range(decoded) =
        {u \in Units(frames) :
            /\ WholePreface /\ At(u[2] + 1) <= taken
            /\ <<u[1], "toobig">> \notin rejected}
    /\ \A i \in 2..Len(decoded) : decoded[i - 1][1] < decoded[i][1]
    /\ ~WholePreface => rejected = {}

\* Another frame breaks into the header block frame k opens.
IsBroken(k) ==
    \E j \in k..(Len(frames) - 1) : IsOpenBlock(frames, k, j) /\ ~CarriesOn(frames, k, j + 1)

\* A message is never handed over a second time, so the parser has to be right
\* about the one it refuses: it is too big only if a frame or a block exceeds the
\* limits, or ends beyond MAX_BYTES of the sk_buff it begins in, and any other
\* error, being told to wait included, is for a frame that breaks the rules or a
\* block that is broken, and never for one that was cut too early.
RefusesOnlyBroken ==
    \A r \in rejected :
        IF r[2] = "toobig"
        THEN Unreadable(frames, r[1]) \/ OutOfReach(frames, r[1], SkbOffset(At(r[1])))
        ELSE _violates_block_rules(frames[r[1]]) \/ IsBroken(r[1])

\* The header of the frame that breaks into the block frame k opens comes, in part
\* or whole, in a later sk_buff than the end of the block.
BrokenApart(k) ==
    /\ _violates_block_rules(frames[k]) \/ IsBroken(k)
    /\ \E j \in (k + 1)..Len(frames) :
          /\ frames[j].type # "continuation" /\ \A i \in k..(j - 1) : ~frames[i].ends
          /\ cuts \intersect At(j)..(At(j) + PeekLen - 1) # {}

\* No stream of a peer that keeps the rules makes the kernel give the connection
\* up, however it is cut: it does so only at a header block which a frame breaks
\* that arrives apart from it, or at a message longer than the receive buffer.
AbortsOnlyOnBroken ==
    aborted => \/ skb_parser(Arrived) > RcvBuf
               \/ upgraded /\ \E k \in 1..Len(frames) : At(k) = taken /\ BrokenApart(k)

\* Some frame is held back that has arrived and leaves no header block open.
HeldBack ==
    \E k \in 1..Len(frames) :
        /\ taken < At(k + 1) /\ At(k + 1) <= Arrived
        /\ ~IsOpen(frames, k)

\* What is complete is cut into messages and read without more arriving: unless
\* the stream parser gives the connection up, it never waits behind a frame that
\* has arrived.
NoStall == HeldBack ~> ~HeldBack \/ aborted
=============================================================================
