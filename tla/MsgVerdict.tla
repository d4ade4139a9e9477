----------------------------- MODULE MsgVerdict -----------------------------
(***************************************************************************)
(* One direction of an upgraded connection at the sk_msg hook: a peer that *)
(* writes a stream of frames in pieces of any size, the kernel that holds  *)
(* them back and passes them on, and the verdict program that runs the     *)
(* parser on what is in hand (msg_verdict of utils/src/prog.bpf.c, and of  *)
(* example/src/monitor.bpf.c with ResetsCork FALSE).                       *)
(*                                                                         *)
(* The kernel is external.  What the programs rely on: a write joins the   *)
(* bytes that are corked, or starts a message; the verdict runs on the     *)
(* message unless bytes of it are still owed to an earlier verdict; the    *)
(* message is held if the verdict corked it to more bytes than it has, and *)
(* otherwise passed on up to the bytes applied to, after which the verdict *)
(* runs again on what is left, with the cork of the run before.            *)
(***************************************************************************)
EXTENDS Framing

CONSTANTS
    Streams,      \* the streams a peer may write
    MaxFrames,    \* bound: the frames of a stream
    ResetsCork,   \* whether the verdict clears the cork before it parses
    Fragments,    \* whether the linear part of a message may be a part of it
    GarbageMax    \* bound: the length a frame header read off its place claims

ASSUME MsgVerdictOK ==
    /\ \A s \in Streams : s \in Seq(Frame) /\ Len(s) \in 1..MaxFrames
    /\ ResetsCork \in BOOLEAN /\ Fragments \in BOOLEAN /\ GarbageMax \in Nat

VARIABLES
    frames,   \* the stream
    written,  \* the bytes of it the peer wrote
    passed,   \* the bytes the kernel passed on
    pc,       \* "idle", "verdict" or "push", within a sendmsg
    cork,     \* msg->cork_bytes
    missing,  \* the bytes a held message waits for
    apply,    \* the bytes the last verdict applies to that are still to pass
    decoded,  \* history: the units that were read, by first and last frame
    failed    \* history: whether a verdict gave up on a message

vars == <<frames, written, passed, pc, cork, missing, apply, decoded, failed>>

Size == written - passed
Aligned == \E k \in 1..Len(frames) : Offset(frames, k) = passed
Here == CHOOSE k \in 1..Len(frames) : Offset(frames, k) = passed

\* What parse_msg may return: at the start of a frame, depending on how much
\* of the message is linear before and after it is pulled in; off its place,
\* whatever the bytes it takes for a frame header say.
Results ==
    IF Aligned
    THEN {parse_msg(frames, Here, Size, linear, avail) :
             linear \in (IF Fragments THEN 0 ELSE Size)..Size,
             avail \in Min({Size, MaxBytes})..Size}
    ELSE [code : Codes, bytes : HdrLen..(HdrLen + GarbageMax)]

Init ==
    /\ frames \in Streams
    /\ written = 0 /\ passed = 0 /\ pc = "idle"
    /\ cork = 0 /\ missing = 0 /\ apply = 0
    /\ decoded = <<>> /\ failed = FALSE

\* The peer writes n bytes.
Write(n) ==
    /\ pc = "idle"
    /\ n \in 1..(Total(frames) - written)
    /\ written' = written + n
    /\ \/ /\ missing > n
          /\ missing' = missing - n
          /\ UNCHANGED <<pc, cork>>
       \/ /\ missing <= n
          /\ missing' = 0
          /\ cork' = IF missing = 0 THEN 0 ELSE cork
          /\ pc' = IF apply > 0 THEN "push" ELSE "verdict"
    /\ UNCHANGED <<frames, passed, apply, decoded, failed>>

\* The verdict returns having corked the message to c bytes and applied to n.
Return(c, n) ==
    /\ cork' = c
    /\ \/ c > Size /\ pc' = "idle" /\ missing' = c - Size /\ apply' = 0
       \/ c <= Size /\ pc' = "push" /\ missing' = 0 /\ apply' = n
    /\ UNCHANGED <<frames, written, passed>>

\* Mutant: the cork of the run before stays.
CorkKept == cork

Cork == IF ResetsCork THEN 0 ELSE cork

\* Mutant: the message is corked to the payload alone.
WaitForPayload(r) ==
    /\ pc = "verdict" /\ r.code \in {"short", "again"}
    /\ Return(IF r.code = "short" THEN HdrLen ELSE r.bytes - HdrLen, 0)
    /\ UNCHANGED <<decoded, failed>>

\* More bytes are needed: the message is corked.
Wait(r) ==
    /\ pc = "verdict" /\ r.code \in {"short", "again"}
    /\ Return(IF r.code = "short" THEN HdrLen ELSE r.bytes, 0)
    /\ UNCHANGED <<decoded, failed>>

\* A frame breaks the rules for header blocks: it alone is skipped.
Reject(r) ==
    /\ pc = "verdict" /\ r.code = "proto"
    /\ Return(Cork, r.bytes)
    /\ UNCHANGED <<decoded, failed>>

\* Any other error: the message is passed on, as far as the kernel takes the
\* verdict to apply.
GiveUp(r) ==
    /\ pc = "verdict" /\ r.code \in {"badmsg", "toobig"}
    /\ \E n \in 1..Size : Return(Cork, n)
    /\ failed' = TRUE
    /\ UNCHANGED decoded

\* Mutant: a block is applied to up to the end of its first frame.
AcceptFirstFrame(r) ==
    /\ pc = "verdict" /\ r.code = "ok"
    /\ Return(Cork, IF Aligned THEN FrameLen(frames[Here]) ELSE r.bytes)
    /\ decoded' = IF Aligned /\ _is_parsed_frame(frames[Here])
                  THEN Append(decoded, <<Here, LastFrame(frames, Here, r.bytes)>>)
                  ELSE decoded
    /\ UNCHANGED failed

\* A frame or a block was read, or a frame skipped that may still be arriving.
Accept(r) ==
    /\ pc = "verdict" /\ r.code = "ok"
    /\ Return(Cork, r.bytes)
    /\ decoded' = IF Aligned /\ _is_parsed_frame(frames[Here])
                  THEN Append(decoded, <<Here, LastFrame(frames, Here, r.bytes)>>)
                  ELSE decoded
    /\ UNCHANGED failed

Verdict == \E r \in Results : Wait(r) \/ Reject(r) \/ GiveUp(r) \/ Accept(r)

\* Mutant: what the verdict applies to is taken to have arrived.
PushApplied ==
    /\ pc = "push"
    /\ LET n == IF apply > 0 THEN apply ELSE Size
       IN  /\ passed' = passed + n
           /\ apply' = 0
           /\ pc' = IF n < Size THEN "verdict" ELSE "idle"
    /\ UNCHANGED <<frames, written, cork, missing, decoded, failed>>

\* The kernel passes on the bytes the verdict applies to, all if it named none.
Push ==
    /\ pc = "push"
    /\ LET n == IF apply > 0 /\ apply < Size THEN apply ELSE Size
       IN  /\ passed' = passed + n
           /\ apply' = IF apply > n THEN apply - n ELSE 0
           /\ pc' = IF n < Size THEN "verdict" ELSE "idle"
    /\ UNCHANGED <<frames, written, cork, missing, decoded, failed>>

Next == Verdict \/ Push \/ \E n \in 1..Total(frames) : Write(n)

\* A sendmsg runs the verdict and pushes to its end; the peer may stop writing.
Spec == Init /\ [][Next]_vars /\ WF_vars(Verdict) /\ WF_vars(Push)

-----------------------------------------------------------------------------
TypeOK ==
    /\ frames \in Streams
    /\ written \in 0..Total(frames) /\ passed \in 0..written
    /\ pc \in {"idle", "verdict", "push"}
    /\ cork \in Nat /\ missing \in Nat /\ apply \in Nat
    /\ decoded \in Seq((1..Len(frames)) \X (1..Len(frames)))
    /\ failed \in BOOLEAN

\* Up to the first message the verdict gives up on, the units of the stream
\* that it is past are the ones that were read, each once and in order: no way
\* of writing the stream, no broken block before it, makes the parser miss a
\* block or read one twice, either of which would corrupt the dynamic table.
DecodesUnits ==
    ~failed =>
        /\ Range(decoded) = {u \in Units(frames) : Offset(frames, u[2] + 1) <= passed + apply}
        /\ \A i \in 2..Len(decoded) : decoded[i - 1][1] < decoded[i][1]

\* The verdict gives up only on what the peer made unreadable or too long, never
\* on a block because of how its frames happened to arrive.
GivesUpOnlyOnUnreadable ==
    failed => \E k \in 1..Len(frames) : Offset(frames, k) < written /\ Unreadable(frames, k)

\* No byte of a unit reaches the other end before the unit has been read.
ReadBeforePassed ==
    ~failed => \A u \in Units(frames) :
        passed > Offset(frames, u[1]) => u \in Range(decoded)

\* Some frame is held back that has arrived and leaves no header block open.
HeldBack ==
    \E k \in 1..Len(frames) :
        /\ passed < Offset(frames, k + 1) /\ Offset(frames, k + 1) <= written
        /\ ~IsOpen(frames, k)

\* What is complete is passed on without the peer writing more: the cork never
\* holds back a frame that has arrived, or a header block all of whose frames have.
NoStall == HeldBack ~> ~HeldBack
=============================================================================
