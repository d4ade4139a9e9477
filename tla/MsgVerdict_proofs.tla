--------------------------- MODULE MsgVerdict_proofs ---------------------------
(***************************************************************************)
(* The sk_msg verdict reads every unit of the stream it lets pass, once,   *)
(* in order and before any byte of it gets through, until the peer sends   *)
(* what cannot be read.                                                    *)
(***************************************************************************)
EXTENDS MsgVerdict, Framing_proofs

-----------------------------------------------------------------------------
(* What the verdict runs on.                                                 *)

\* The stream, its length, and the frame a message begins with.
LEMMA StreamFacts ==
    ASSUME TypeOK
    PROVE  /\ frames \in Seq(Frame) /\ Len(frames) \in Nat /\ Total(frames) \in Nat
           /\ written \in Nat /\ passed \in Nat /\ Size \in Nat
           /\ written <= Total(frames) /\ passed <= written
           /\ \A k \in 1..(Len(frames) + 1) : Offset(frames, k) \in Nat
<1>1. frames \in Seq(Frame)
  BY MsgVerdictOK DEF TypeOK
<1>2. Len(frames) \in Nat
  BY <1>1, LenProperties
<1>3. \A k \in 1..(Len(frames) + 1) : Offset(frames, k) \in Nat
  BY <1>1, OffsetFacts
<1>4. Len(frames) + 1 \in 1..(Len(frames) + 1)
  BY <1>2
<1>5. Total(frames) \in Nat
  BY <1>3, <1>4 DEF Total
<1>6. QED
  BY <1>1, <1>2, <1>3, <1>5 DEF TypeOK, Size

\* A message that begins at a frame begins at one frame.
LEMMA HereIs ==
    ASSUME TypeOK, NEW k \in 1..Len(frames), passed = Offset(frames, k)
    PROVE  Aligned /\ Here = k
<1>1. frames \in Seq(Frame) /\ Len(frames) \in Nat
  BY StreamFacts
<1>2. \A i \in 1..Len(frames) : i \in 1..(Len(frames) + 1)
  BY <1>1
<1>3. \A i \in 1..Len(frames) : Offset(frames, i) = passed => i = k
  BY <1>1, <1>2, OffsetOrder
<1>4. QED
  BY <1>3 DEF Aligned, Here

\* What parse_msg returns at the start of a frame.
LEMMA AlignedResult ==
    ASSUME TypeOK, Aligned, NEW r \in Results
    PROVE  /\ Here \in 1..Len(frames) /\ passed = Offset(frames, Here)
           /\ r.code \in {"ok", "short", "again", "proto", "badmsg", "toobig"}
           /\ r.code = "short" /\ ~Fragments => HdrLen > Size
           /\ r.code = "ok" /\ _is_parsed_frame(frames[Here]) => \E j \in Here..Len(frames) :
                /\ IsUnit(frames, Here, j)
                /\ r.bytes = Offset(frames, j + 1) - Offset(frames, Here)
                /\ r.bytes <= Size
           /\ r.code = "ok" /\ ~_is_parsed_frame(frames[Here])
                => r.bytes = FrameLen(frames[Here])
           /\ r.code = "again" => r.bytes \in Int /\ r.bytes > Size
           /\ r.code = "proto" => /\ r.bytes = FrameLen(frames[Here]) /\ r.bytes <= Size
                                  /\ \A j \in Here..Len(frames) : ~IsUnit(frames, Here, j)
           /\ r.code \in {"badmsg", "toobig"} => \E i \in Here..Len(frames) :
                Unreadable(frames, i) /\ Offset(frames, i) < written
<1>1. /\ frames \in Seq(Frame) /\ Len(frames) \in Nat /\ Total(frames) \in Nat
      /\ written \in Nat /\ passed \in Nat /\ Size \in Nat
      /\ written <= Total(frames) /\ passed <= written
  BY StreamFacts
<1>2. Here \in 1..Len(frames) /\ Offset(frames, Here) = passed
  BY DEF Aligned, Here
<1>3. PICK linear \in (IF Fragments THEN 0 ELSE Size)..Size, avail \in Min({Size, MaxBytes})..Size :
          r = parse_msg(frames, Here, Size, linear, avail)
  BY DEF Results
<1> DEFINE k == Here
           size == Size
<1>4. /\ size <= Total(frames) - Offset(frames, k) /\ Offset(frames, k) + size = written
      /\ HdrLen \in Nat \ {0} /\ MaxBytes \in Nat
  BY <1>1, <1>2, FramingOK DEF Size
<1>5. Min({size, MaxBytes}) \in {size, MaxBytes}
  BY <1>1, <1>4, MinFacts
<1>6. avail \in Nat /\ avail <= size /\ avail >= Min({size, MaxBytes})
  BY <1>1, <1>3, <1>4, <1>5
<1>7. CASE linear < HdrLen
  <2>1. r = Result("short", 0)
    BY <1>3, <1>7 DEF parse_msg
  <2>2. ~Fragments => HdrLen > Size
    BY <1>1, <1>3, <1>7
  <2>3. QED
    BY <1>2, <2>1, <2>2 DEF Result
<1>8. CASE ~(linear < HdrLen)
  <2>1. r = ParseFrom(frames, k, 0, size, avail)
    BY <1>3, <1>8 DEF parse_msg
  <2> HIDE DEF k, size
  <2>2. Says(frames, k, 0, size, r)
    <3>1. k \in 1..Len(frames) /\ size \in Nat /\ 0 \in Nat
      BY <1>1, <1>2 DEF k, size
    <3>2. QED
      BY <1>1, <1>4, <1>6, <2>1, <3>1, ParseFacts
  <2>3. OutOfReach(frames, k, 0) => Unreadable(frames, k)
    BY <1>1, <1>2, UnreachedUnreadable DEF k
  <2>4. r.code \in {"badmsg", "toobig"} => \E i \in k..Len(frames) :
          Unreadable(frames, i) /\ Offset(frames, i) < written
    <3>1. k \in k..Len(frames)
      BY <1>1, <1>2 DEF k
    <3>2. QED
      BY <1>4, <2>2, <2>3, <3>1 DEF Says, Unreadable
  <2>5. QED
    BY <1>2, <2>2, <2>4 DEF Says, k, size
<1>9. QED
  BY <1>7, <1>8

\* A result whose bytes are used has a number of them.
LEMMA ResultType ==
    ASSUME TypeOK, NEW r \in Results
    PROVE  /\ r.code \in Codes
           /\ r.code \in {"ok", "again", "proto"} => r.bytes \in Nat
           /\ Aligned /\ r.code = "ok" /\ _is_parsed_frame(frames[Here])
                => /\ Here \in 1..Len(frames)
                   /\ LastFrame(frames, Here, r.bytes) \in 1..Len(frames)
<1>0. HdrLen \in Nat /\ GarbageMax \in Nat
  BY FramingOK, MsgVerdictOK
<1>1. CASE Aligned
  <2>1. /\ frames \in Seq(Frame) /\ Len(frames) \in Nat /\ Size \in Nat
        /\ \A k \in 1..(Len(frames) + 1) : Offset(frames, k) \in Nat
    BY StreamFacts
  <2>2. /\ Here \in 1..Len(frames) /\ passed = Offset(frames, Here)
        /\ r.code \in {"ok", "short", "again", "proto", "badmsg", "toobig"}
        /\ r.code = "ok" /\ _is_parsed_frame(frames[Here]) => \E j \in Here..Len(frames) :
             /\ r.bytes = Offset(frames, j + 1) - Offset(frames, Here)
        /\ r.code = "ok" /\ ~_is_parsed_frame(frames[Here])
             => r.bytes = FrameLen(frames[Here])
        /\ r.code = "again" => r.bytes \in Int /\ r.bytes > Size
        /\ r.code = "proto" => r.bytes = FrameLen(frames[Here])
    BY <1>1, AlignedResult
  <2>3. PICK k \in 1..Len(frames) : k = Here
    BY <2>2
  <2>4. FrameLen(frames[k]) \in Nat
    BY <2>1, FrameFacts
  <2>5. ASSUME NEW j \in k..Len(frames), r.bytes = Offset(frames, j + 1) - Offset(frames, k)
        PROVE  r.bytes \in Nat /\ LastFrame(frames, k, r.bytes) \in 1..Len(frames)
    <3>1. k \in 1..(Len(frames) + 1) /\ j + 1 \in 1..(Len(frames) + 1) /\ k < j + 1
      BY <2>1
    <3>2. Offset(frames, k) < Offset(frames, j + 1)
      BY <2>1, <3>1, OffsetOrder
    <3>3. Offset(frames, k) \in Nat /\ Offset(frames, j + 1) \in Nat
      BY <2>1, <3>1
    <3>4. LastFrame(frames, k, r.bytes) = j
      BY <2>1, <2>5, LastFrameFound
    <3>5. QED
      BY <2>1, <2>5, <3>2, <3>3, <3>4
  <2>6. r.code = "ok" /\ _is_parsed_frame(frames[k])
          => r.bytes \in Nat /\ LastFrame(frames, k, r.bytes) \in 1..Len(frames)
    BY <2>2, <2>3, <2>5
  <2>7. r.code = "again" => r.bytes \in Nat
    BY <2>1, <2>2
  <2>8. QED
    BY <2>2, <2>3, <2>4, <2>6, <2>7 DEF Codes
<1>2. CASE ~Aligned
  <2>1. r \in [code : Codes, bytes : HdrLen..(HdrLen + GarbageMax)]
    BY <1>2 DEF Results
  <2>2. r.code \in Codes /\ r.bytes \in HdrLen..(HdrLen + GarbageMax)
    BY <2>1
  <2>3. QED
    BY <1>0, <1>2, <2>2
<1>3. QED
  BY <1>1, <1>2

\* How a verdict returns.
LEMMA ReturnType ==
    ASSUME TypeOK, NEW c \in Nat, NEW n \in Nat, Return(c, n)
    PROVE  /\ frames' = frames /\ written' = written /\ passed' = passed
           /\ pc' \in {"idle", "push"} /\ cork' \in Nat /\ missing' \in Nat /\ apply' \in Nat
<1>1. Size \in Nat
  BY StreamFacts
<1>2. CASE c > Size /\ pc' = "idle" /\ missing' = c - Size /\ apply' = 0
  BY <1>1, <1>2 DEF Return
<1>3. CASE c <= Size /\ pc' = "push" /\ missing' = 0 /\ apply' = n
  BY <1>3 DEF Return
<1>4. QED
  BY <1>2, <1>3 DEF Return

\* A verdict reaches no further than its exits say.
LEMMA VerdictType ==
    ASSUME TypeOK, Verdict
    PROVE  TypeOK'
<1>0. /\ HdrLen \in Nat /\ Cork \in Nat /\ Size \in Nat
      /\ decoded \in Seq((1..Len(frames)) \X (1..Len(frames)))
  BY FramingOK, StreamFacts DEF Cork, TypeOK
<1>1. PICK r \in Results : Wait(r) \/ Reject(r) \/ GiveUp(r) \/ Accept(r)
  BY DEF Verdict
<1>2. r.code \in {"ok", "again", "proto"} => r.bytes \in Nat
  BY ResultType
<1>3. SUFFICES /\ \E c \in Nat, n \in Nat : Return(c, n)
               /\ decoded' \in Seq((1..Len(frames)) \X (1..Len(frames)))
               /\ failed' \in BOOLEAN
  <2>1. /\ frames' = frames /\ written' = written /\ passed' = passed
        /\ pc' \in {"idle", "push"} /\ cork' \in Nat /\ missing' \in Nat /\ apply' \in Nat
    BY <1>3, ReturnType
  <2>2. QED
    BY <1>3, <2>1 DEF TypeOK
<1>4. CASE Wait(r)
  <2>1. (IF r.code = "short" THEN HdrLen ELSE r.bytes) \in Nat
    BY <1>0, <1>2, <1>4 DEF Wait
  <2>2. 0 \in Nat
    OBVIOUS
  <2>3. QED
    BY <1>0, <1>4, <2>1, <2>2 DEF Wait, TypeOK
<1>5. CASE Reject(r)
  BY <1>0, <1>2, <1>5 DEF Reject, TypeOK
<1>6. CASE GiveUp(r)
  <2>1. PICK n \in 1..Size : Return(Cork, n)
    BY <1>6 DEF GiveUp
  <2>2. n \in Nat
    BY <1>0
  <2>3. QED
    BY <1>0, <1>6, <2>1, <2>2 DEF GiveUp
<1>7. CASE Accept(r)
  <2>1. Return(Cork, r.bytes) /\ r.bytes \in Nat /\ failed' = failed
    BY <1>2, <1>7 DEF Accept
  <2>2. decoded' \in Seq((1..Len(frames)) \X (1..Len(frames)))
    <3>1. CASE Aligned /\ _is_parsed_frame(frames[Here])
      <4>1. Here \in 1..Len(frames) /\ LastFrame(frames, Here, r.bytes) \in 1..Len(frames)
        BY <1>7, <3>1, ResultType DEF Accept
      <4>2. decoded' = Append(decoded, <<Here, LastFrame(frames, Here, r.bytes)>>)
        BY <1>7, <3>1 DEF Accept
      <4>3. QED
        BY <1>0, <4>1, <4>2, AppendProperties
    <3>2. CASE ~(Aligned /\ _is_parsed_frame(frames[Here]))
      BY <1>0, <1>7, <3>2 DEF Accept
    <3>3. QED
      BY <3>1, <3>2
  <2>3. QED
    BY <1>0, <2>1, <2>2 DEF TypeOK
<1>8. QED
  BY <1>1, <1>4, <1>5, <1>6, <1>7

\* A write adds to what the peer wrote of the stream.
LEMMA WriteType ==
    ASSUME TypeOK, NEW n \in Nat, Write(n)
    PROVE  TypeOK'
<1>1. /\ Total(frames) \in Nat /\ written \in Nat /\ passed \in Nat
      /\ written <= Total(frames) /\ passed <= written
  BY StreamFacts
<1>2. n \in 1..(Total(frames) - written) /\ written' = written + n
  BY DEF Write
<1>3. written' \in 0..Total(frames) /\ passed \in 0..written'
  BY <1>1, <1>2
<1>4. frames' = frames /\ passed' = passed /\ apply' = apply /\ decoded' = decoded /\ failed' = failed
  BY DEF Write
<1>5. pc' \in {"idle", "verdict", "push"} /\ cork' \in Nat /\ missing' \in Nat
  <2>1. missing \in Nat /\ cork \in Nat
    BY DEF TypeOK
  <2>2. CASE missing > n /\ missing' = missing - n /\ UNCHANGED <<pc, cork>>
    BY <1>2, <2>1, <2>2 DEF TypeOK
  <2>3. CASE /\ missing' = 0 /\ cork' = (IF missing = 0 THEN 0 ELSE cork)
             /\ pc' = IF apply > 0 THEN "push" ELSE "verdict"
    BY <2>1, <2>3
  <2>4. QED
    BY <2>2, <2>3 DEF Write
<1>6. QED
  BY <1>3, <1>4, <1>5 DEF TypeOK

\* How far the kernel passes a message on.
Pushed == IF apply > 0 /\ apply < Size THEN apply ELSE Size

\* It passes on no more than there is.
LEMMA PushFacts ==
    ASSUME TypeOK, Push
    PROVE  /\ Pushed \in 0..Size /\ passed' = passed + Pushed /\ passed' \in 0..written
           /\ apply' = (IF apply > Pushed THEN apply - Pushed ELSE 0) /\ apply' \in Nat
           /\ pc' = (IF Pushed < Size THEN "verdict" ELSE "idle")
           /\ UNCHANGED <<frames, written, cork, missing, decoded, failed>>
<1>1. written \in Nat /\ passed \in Nat /\ Size \in Nat /\ passed <= written /\ apply \in Nat
  BY StreamFacts DEF TypeOK
<1>2. Pushed \in 0..Size
  BY <1>1 DEF Pushed
<1>3. /\ passed' = passed + Pushed
      /\ apply' = (IF apply > Pushed THEN apply - Pushed ELSE 0)
      /\ pc' = (IF Pushed < Size THEN "verdict" ELSE "idle")
      /\ UNCHANGED <<frames, written, cork, missing, decoded, failed>>
  BY DEF Push, Pushed
<1>4. passed' \in 0..written /\ apply' \in Nat
  BY <1>1, <1>2, <1>3 DEF Size
<1>5. QED
  BY <1>2, <1>3, <1>4

\* So the bytes and the history keep their types.
LEMMA PushType ==
    ASSUME TypeOK, Push
    PROVE  TypeOK'
<1>1. /\ passed' \in 0..written /\ apply' \in Nat
      /\ pc' = (IF Pushed < Size THEN "verdict" ELSE "idle")
      /\ UNCHANGED <<frames, written, cork, missing, decoded, failed>>
  BY PushFacts
<1>2. pc' \in {"idle", "verdict", "push"}
  BY <1>1
<1>3. QED
  BY <1>1, <1>2 DEF TypeOK

\* A peer begins with a stream none of which is written.
LEMMA InitType == Init => TypeOK
<1> SUFFICES ASSUME Init PROVE TypeOK
  OBVIOUS
<1>2. frames \in Seq(Frame)
  BY MsgVerdictOK DEF Init
<1>3. Len(frames) \in Nat /\ Len(frames) + 1 \in 1..(Len(frames) + 1)
  BY <1>2, LenProperties
<1>4. Total(frames) \in Nat
  BY <1>2, <1>3, OffsetFacts DEF Total
<1>5. written \in 0..Total(frames) /\ passed \in 0..written
  BY <1>4 DEF Init
<1>6. decoded \in Seq((1..Len(frames)) \X (1..Len(frames)))
  BY DEF Init
<1>7. QED
  BY <1>5, <1>6 DEF Init, TypeOK

\* Every step keeps the types.
LEMMA NextType ==
    ASSUME TypeOK, [Next]_vars
    PROVE  TypeOK'
<1>1. CASE Verdict
  BY <1>1, VerdictType
<1>2. CASE Push
  BY <1>2, PushType
<1>3. ASSUME NEW n \in 1..Total(frames), Write(n) PROVE TypeOK'
  <2>1. n \in Nat
    BY StreamFacts
  <2>2. QED
    BY <1>3, <2>1, WriteType
<1>4. CASE UNCHANGED vars
  BY <1>4 DEF vars, TypeOK
<1>5. QED
  BY <1>1, <1>2, <1>3, <1>4 DEF Next

\* The bytes written and passed on stay those of the stream, and what is read is
\* frames of it: whatever the verdict answers, the kernel never passes on more
\* than it holds, and is never left a negative number of bytes to wait for.
THEOREM TypeCorrect == Spec => []TypeOK
<1>1. Init => TypeOK
  BY InitType
<1>2. TypeOK /\ [Next]_vars => TypeOK'
  BY NextType
<1>3. QED
  BY <1>1, <1>2, PTL DEF Spec

-----------------------------------------------------------------------------
(* The verdict keeps in step with the frames.                                *)

\* What passed and is applied to ends with a whole frame, and within no unit.
Boundary(k) == passed + apply = Offset(frames, k) /\ NoneAcross(frames, k)

\* The units up to there are those that were read,
ReadUpTo(k) == Range(decoded) = UnitsBefore(frames, k)

\* in the order of the stream.
InOrder == \A i \in 2..Len(decoded) : decoded[i - 1][1] < decoded[i][1]

\* A verdict is due when what an earlier one applies to has passed; a message is
\* held only if none applies to it.
Phases ==
    /\ pc = "verdict" => apply = 0 /\ Size > 0
    /\ pc = "push" => apply > 0 /\ Size > 0 /\ missing = 0
    /\ pc = "idle" /\ missing > 0 => apply = 0

InStep ==
    failed \/ /\ \E k \in 1..(Len(frames) + 1) : Boundary(k) /\ ReadUpTo(k)
              /\ InOrder /\ Phases

\* Nothing is read of a stream that none of is written.
LEMMA InitInStep == Init => InStep
<1> SUFFICES ASSUME Init PROVE InStep
  OBVIOUS
<1>1. TypeOK
  BY InitType
<1>2. frames \in Seq(Frame) /\ Len(frames) \in Nat
  BY <1>1, StreamFacts
<1>3. 1 \in 1..(Len(frames) + 1) /\ Offset(frames, 1) = 0
  BY <1>2, OffsetFacts
<1>4. \A u \in Units(frames) : u[1] \in 1..Len(frames) /\ u[2] \in 1..Len(frames)
  BY UnitsAre
<1>5. NoneAcross(frames, 1) /\ UnitsBefore(frames, 1) = {}
  BY <1>2, <1>4 DEF NoneAcross, UnitsBefore
<1>6. Range(decoded) = {}
  BY DEF Init, Range
<1>7. Boundary(1) /\ ReadUpTo(1)
  <2>1. passed + apply = 0
    BY DEF Init
  <2>2. QED
    BY <1>3, <1>5, <1>6, <2>1 DEF Boundary, ReadUpTo
<1>8. InOrder
  <2>1. Len(decoded) = 0
    BY DEF Init
  <2>2. QED
    BY <2>1 DEF InOrder
<1>9. Phases
  BY DEF Init, Phases
<1>10. QED
  BY <1>3, <1>7, <1>8, <1>9 DEF InStep

\* A message in step begins at a frame when the verdict runs.
LEMMA VerdictAtFrame ==
    ASSUME TypeOK, InStep, ~failed, pc = "verdict"
    PROVE  /\ Aligned /\ Here \in 1..Len(frames) /\ passed = Offset(frames, Here)
           /\ NoneAcross(frames, Here) /\ ReadUpTo(Here) /\ InOrder /\ apply = 0 /\ Size > 0
<1>1. /\ frames \in Seq(Frame) /\ Len(frames) \in Nat /\ Total(frames) \in Nat
      /\ written \in Nat /\ passed \in Nat /\ written <= Total(frames)
  BY StreamFacts
<1>2. PICK k \in 1..(Len(frames) + 1) : Boundary(k) /\ ReadUpTo(k)
  BY DEF InStep
<1>3. InOrder /\ apply = 0 /\ Size > 0
  BY DEF InStep, Phases
<1>4. passed = Offset(frames, k)
  BY <1>1, <1>2, <1>3 DEF Boundary
<1>5. k # Len(frames) + 1
  BY <1>1, <1>3, <1>4 DEF Size, Total
<1>6. k \in 1..Len(frames)
  BY <1>1, <1>5
<1>7. Aligned /\ Here = k
  BY <1>4, <1>6, HereIs
<1>8. QED
  BY <1>2, <1>3, <1>4, <1>6, <1>7 DEF Boundary

\* A verdict that skips a frame, or reads a unit, is on to the frame behind it.
LEMMA Advances ==
    ASSUME TypeOK, NEW k \in 1..(Len(frames) + 1), passed \in Nat, NEW n \in Nat, n > 0,
           Return(0, n), passed + n = Offset(frames, k), NoneAcross(frames, k), Size > 0
    PROVE  k \in 1..(Len(frames') + 1) /\ Boundary(k)' /\ Phases'
<1>1. Size \in Nat
  BY StreamFacts
<1>2. /\ frames' = frames /\ written' = written /\ passed' = passed
      /\ pc' = "push" /\ missing' = 0 /\ apply' = n
  BY <1>1 DEF Return
<1>3. Size' = Size
  BY <1>2 DEF Size
<1>4. QED
  BY <1>2, <1>3 DEF Boundary, Phases

\* The verdict of a whole message keeps in step: it waits for a frame that has
\* not arrived, and goes on behind one that has.
LEMMA VerdictInStep ==
    ASSUME TypeOK, InStep, Verdict, ResetsCork = TRUE, Fragments = FALSE
    PROVE  InStep'
<1>1. PICK r \in Results : Wait(r) \/ Reject(r) \/ GiveUp(r) \/ Accept(r)
  BY DEF Verdict
<1>2. SUFFICES ASSUME ~failed, ~GiveUp(r) PROVE InStep'
  BY <1>1 DEF Wait, Reject, GiveUp, Accept, InStep
<1>3. pc = "verdict"
  BY <1>1 DEF Wait, Reject, GiveUp, Accept
<1>4. PICK k \in 1..Len(frames) : k = Here
  BY <1>2, <1>3, VerdictAtFrame
<1>5. /\ Aligned /\ passed = Offset(frames, k) /\ NoneAcross(frames, k) /\ ReadUpTo(k)
      /\ InOrder /\ apply = 0 /\ Size > 0
  BY <1>2, <1>3, <1>4, VerdictAtFrame
<1>6. /\ frames \in Seq(Frame) /\ Len(frames) \in Nat /\ passed \in Nat /\ Size \in Nat
      /\ \A i \in 1..(Len(frames) + 1) : Offset(frames, i) \in Nat
      /\ k \in 1..(Len(frames) + 1) /\ k + 1 \in 1..(Len(frames) + 1)
  BY StreamFacts
<1>7. /\ r.code = "short" => HdrLen > Size
      /\ r.code = "ok" /\ _is_parsed_frame(frames[k]) => \E j \in k..Len(frames) :
           /\ IsUnit(frames, k, j)
           /\ r.bytes = Offset(frames, j + 1) - Offset(frames, k)
           /\ r.bytes <= Size
      /\ r.code = "ok" /\ ~_is_parsed_frame(frames[k]) => r.bytes = FrameLen(frames[k])
      /\ r.code = "again" => r.bytes \in Int /\ r.bytes > Size
      /\ r.code = "proto" => /\ r.bytes = FrameLen(frames[k]) /\ r.bytes <= Size
                             /\ \A j \in k..Len(frames) : ~IsUnit(frames, k, j)
  BY <1>4, <1>5, AlignedResult
<1>8. Cork = 0 /\ HdrLen \in Nat
  BY FramingOK DEF Cork
<1>9. /\ FrameLen(frames[k]) \in Nat /\ FrameLen(frames[k]) > 0
      /\ passed + FrameLen(frames[k]) = Offset(frames, k + 1)
  BY <1>5, <1>6, FrameFacts, OffsetFacts
<1>10. ASSUME Return(0, FrameLen(frames[k])), decoded' = decoded,
              \A j \in k..Len(frames) : ~IsUnit(frames, k, j)
       PROVE  InStep'
  <2>1. NoneAcross(frames, k + 1) /\ UnitsBefore(frames, k + 1) = UnitsBefore(frames, k)
    BY <1>5, <1>6, <1>10, FramePassed
  <2>2. k + 1 \in 1..(Len(frames') + 1) /\ Boundary(k + 1)' /\ Phases'
    BY <1>5, <1>6, <1>9, <1>10, <2>1, Advances
  <2>3. frames' = frames
    BY <1>10 DEF Return
  <2>4. ReadUpTo(k + 1)' /\ InOrder'
    BY <1>5, <1>10, <2>1, <2>3 DEF ReadUpTo, InOrder
  <2>5. QED
    BY <2>2, <2>4 DEF InStep
<1>11. CASE Wait(r)
  <2>1. PICK c \in Int : c > Size /\ Return(c, 0)
    <3>1. CASE r.code = "short"
      BY <1>7, <1>8, <1>11, <3>1 DEF Wait
    <3>2. CASE r.code = "again"
      BY <1>7, <1>11, <3>2 DEF Wait
    <3>3. QED
      BY <1>11, <3>1, <3>2 DEF Wait
  <2>2. pc' = "idle" /\ apply' = 0 /\ frames' = frames /\ written' = written /\ passed' = passed
    BY <1>6, <2>1 DEF Return
  <2>3. decoded' = decoded
    BY <1>11 DEF Wait
  <2>4. k \in 1..(Len(frames') + 1) /\ Boundary(k)' /\ ReadUpTo(k)'
    BY <1>5, <1>6, <2>2, <2>3 DEF Boundary, ReadUpTo
  <2>5. InOrder' /\ Phases'
    BY <1>5, <2>2, <2>3 DEF InOrder, Phases
  <2>6. QED
    BY <2>4, <2>5 DEF InStep
<1>12. CASE Reject(r)
  <2>1. Return(0, FrameLen(frames[k])) /\ decoded' = decoded
    BY <1>7, <1>8, <1>12 DEF Reject
  <2>2. \A j \in k..Len(frames) : ~IsUnit(frames, k, j)
    BY <1>7, <1>12 DEF Reject
  <2>3. QED
    BY <1>10, <2>1, <2>2
<1>13. CASE Accept(r) /\ ~_is_parsed_frame(frames[k])
  <2>1. Return(0, FrameLen(frames[k])) /\ decoded' = decoded
    BY <1>4, <1>7, <1>8, <1>13 DEF Accept
  <2>2. \A j \in k..Len(frames) : ~IsUnit(frames, k, j)
    BY <1>13 DEF IsUnit, _is_parsed_frame
  <2>3. QED
    BY <1>10, <2>1, <2>2
<1>14. CASE Accept(r) /\ _is_parsed_frame(frames[k])
  <2>1. PICK j \in k..Len(frames) : /\ IsUnit(frames, k, j)
                                    /\ r.bytes = Offset(frames, j + 1) - Offset(frames, k)
    BY <1>7, <1>14 DEF Accept
  <2>2. Return(0, r.bytes)
    BY <1>8, <1>14 DEF Accept
  <2>3. LastFrame(frames, k, r.bytes) = j
    BY <1>6, <2>1, LastFrameFound
  <2>4. decoded' = Append(decoded, <<k, j>>)
    BY <1>4, <1>5, <1>14, <2>3 DEF Accept
  <2>5. /\ j \in 1..Len(frames) /\ j + 1 \in 1..(Len(frames) + 1) /\ k < j + 1
        /\ decoded \in Seq((1..Len(frames)) \X (1..Len(frames)))
    BY <1>6 DEF TypeOK
  <2>6. Offset(frames, k) < Offset(frames, j + 1) /\ Offset(frames, j + 1) \in Nat
    BY <1>6, <2>5, OffsetOrder
  <2>7. r.bytes \in Nat /\ r.bytes > 0 /\ passed + r.bytes = Offset(frames, j + 1)
    <3>1. Offset(frames, k) \in Nat /\ passed = Offset(frames, k)
      BY <1>5, <1>6
    <3>2. QED
      BY <2>1, <2>6, <3>1
  <2>8. /\ NoneAcross(frames, j + 1)
        /\ UnitsBefore(frames, j + 1) = UnitsBefore(frames, k) \cup {<<k, j>>}
    BY <1>5, <1>6, <2>1, UnitPassed
  <2>9. j + 1 \in 1..(Len(frames') + 1) /\ Boundary(j + 1)' /\ Phases'
    BY <1>5, <1>6, <2>2, <2>5, <2>7, <2>8, Advances
  <2>10. frames' = frames
    BY <2>2 DEF Return
  <2>11. ReadUpTo(j + 1)'
    <3> DEFINE P == (1..Len(frames)) \X (1..Len(frames))
    <3>0. <<k, j>> \in P /\ decoded \in Seq(P)
      BY <2>5
    <3> HIDE DEF P
    <3>1. Range(Append(decoded, <<k, j>>)) = Range(decoded) \cup {<<k, j>>}
      BY <3>0, RangeAppend
    <3>2. QED
      BY <1>5, <2>4, <2>8, <2>10, <3>1 DEF ReadUpTo
  <2>12. InOrder'
    <3>1. /\ Len(decoded) \in Nat /\ Len(decoded') = Len(decoded) + 1
          /\ \A i \in 1..Len(decoded) : decoded'[i] = decoded[i]
          /\ decoded'[Len(decoded) + 1] = <<k, j>>
      BY <2>4, <2>5, AppendProperties, LenProperties
    <3>2. ASSUME NEW i \in 2..(Len(decoded) + 1) PROVE decoded'[i - 1][1] < decoded'[i][1]
      <4>1. i - 1 \in 1..Len(decoded) /\ decoded'[i - 1] = decoded[i - 1]
        BY <3>1
      <4>2. CASE i \in 2..Len(decoded)
        BY <1>5, <3>1, <4>1, <4>2 DEF InOrder
      <4>3. CASE i \notin 2..Len(decoded)
        <5>1. i = Len(decoded) + 1 /\ decoded'[i] = <<k, j>>
          BY <3>1, <4>3
        <5>2. decoded[i - 1] \in Range(decoded)
          BY <2>5, <4>1, LenProperties DEF Range
        <5>3. decoded[i - 1] \in UnitsBefore(frames, k)
          BY <1>5, <5>2 DEF ReadUpTo
        <5>4. decoded[i - 1] \in Units(frames) /\ decoded[i - 1][2] < k
          BY <5>3 DEF UnitsBefore
        <5>5. /\ decoded[i - 1][1] \in 1..Len(frames) /\ decoded[i - 1][2] \in 1..Len(frames)
              /\ decoded[i - 1][1] <= decoded[i - 1][2]
          BY <5>4, UnitsAre
        <5>6. decoded[i - 1][1] < k
          BY <1>6, <5>4, <5>5
        <5>7. QED
          BY <4>1, <5>1, <5>6
      <4>4. QED
        BY <4>2, <4>3
    <3>3. QED
      BY <3>1, <3>2 DEF InOrder
  <2>13. QED
    BY <2>9, <2>11, <2>12 DEF InStep
<1>15. QED
  BY <1>1, <1>2, <1>11, <1>12, <1>13, <1>14

\* The kernel passes on up to a boundary, and asks for a verdict there.
LEMMA PushInStep ==
    ASSUME TypeOK, InStep, Push
    PROVE  InStep'
<1>1. /\ Pushed \in 0..Size /\ passed' = passed + Pushed
      /\ apply' = (IF apply > Pushed THEN apply - Pushed ELSE 0)
      /\ pc' = (IF Pushed < Size THEN "verdict" ELSE "idle")
      /\ UNCHANGED <<frames, written, cork, missing, decoded, failed>>
  BY PushFacts
<1> SUFFICES ASSUME ~failed PROVE InStep'
  BY <1>1 DEF InStep
<1>2. pc = "push" /\ apply > 0 /\ Size > 0 /\ missing = 0 /\ InOrder
  BY DEF InStep, Phases, Push
<1>3. written \in Nat /\ passed \in Nat /\ Size \in Nat /\ apply \in Nat
  BY StreamFacts DEF TypeOK
<1>4. Pushed = IF apply < Size THEN apply ELSE Size
  BY <1>2 DEF Pushed
<1>5. passed' + apply' = passed + apply
  BY <1>1, <1>3, <1>4
<1>6. PICK k \in 1..(Len(frames) + 1) : Boundary(k) /\ ReadUpTo(k)
  BY DEF InStep
<1>7. Boundary(k)' /\ ReadUpTo(k)' /\ InOrder'
  BY <1>1, <1>2, <1>5, <1>6 DEF Boundary, ReadUpTo, InOrder
<1>8. Size' = Size - Pushed
  BY <1>1, <1>3 DEF Size
<1>9. Phases'
  <2>1. CASE Pushed < Size
    <3>1. pc' = "verdict" /\ apply' = 0 /\ Size' > 0
      BY <1>1, <1>3, <1>4, <1>8, <2>1
    <3>2. QED
      BY <3>1 DEF Phases
  <2>2. CASE ~(Pushed < Size)
    <3>1. pc' = "idle" /\ missing' = 0
      BY <1>1, <1>2, <2>2
    <3>2. QED
      BY <3>1 DEF Phases
  <2>3. QED
    BY <2>1, <2>2
<1>10. QED
  BY <1>1, <1>6, <1>7, <1>9 DEF InStep

\* A write adds to a held message, to one that a verdict still applies to, or to
\* one that is due a verdict.
LEMMA WriteInStep ==
    ASSUME TypeOK, InStep, NEW n \in Nat, Write(n)
    PROVE  InStep'
<1>1. /\ pc = "idle" /\ n \in 1..(Total(frames) - written) /\ written' = written + n
      /\ UNCHANGED <<frames, passed, apply, decoded, failed>>
  BY DEF Write
<1> SUFFICES ASSUME ~failed PROVE InStep'
  BY <1>1 DEF InStep
<1>2. /\ written \in Nat /\ passed \in Nat /\ passed <= written /\ Total(frames) \in Nat
      /\ apply \in Nat /\ missing \in Nat
  BY StreamFacts DEF TypeOK
<1>3. Size' > 0
  BY <1>1, <1>2 DEF Size
<1>4. PICK k \in 1..(Len(frames) + 1) : Boundary(k) /\ ReadUpTo(k)
  BY DEF InStep
<1>5. InOrder /\ Phases
  BY DEF InStep
<1>6. Boundary(k)' /\ ReadUpTo(k)' /\ InOrder'
  BY <1>1, <1>4, <1>5 DEF Boundary, ReadUpTo, InOrder
<1>7. Phases'
  <2>1. CASE missing > n /\ missing' = missing - n /\ UNCHANGED <<pc, cork>>
    <3>1. apply = 0
      BY <1>1, <1>2, <1>5, <2>1 DEF Phases
    <3>2. QED
      BY <1>1, <2>1, <3>1 DEF Phases
  <2>2. CASE missing' = 0 /\ pc' = IF apply > 0 THEN "push" ELSE "verdict"
    <3>1. CASE apply > 0
      BY <1>1, <1>3, <2>2, <3>1 DEF Phases
    <3>2. CASE ~(apply > 0)
      <4>1. pc' = "verdict" /\ apply' = 0
        BY <1>1, <1>2, <2>2, <3>2
      <4>2. QED
        BY <1>3, <4>1 DEF Phases
    <3>3. QED
      BY <3>1, <3>2
  <2>3. QED
    BY <2>1, <2>2 DEF Write
<1>8. QED
  BY <1>1, <1>4, <1>6, <1>7 DEF InStep

\* Every step of a verdict that clears the cork, on messages that are whole,
\* keeps in step.
LEMMA NextInStep ==
    ASSUME TypeOK, InStep, [Next]_vars, ResetsCork = TRUE, Fragments = FALSE
    PROVE  InStep'
<1>1. CASE Verdict
  BY <1>1, VerdictInStep
<1>2. CASE Push
  BY <1>2, PushInStep
<1>3. ASSUME NEW n \in 1..Total(frames), Write(n) PROVE InStep'
  <2>1. n \in Nat
    BY StreamFacts
  <2>2. QED
    BY <1>3, <2>1, WriteInStep
<1>4. CASE UNCHANGED vars
  BY <1>4 DEF vars, InStep, Boundary, ReadUpTo, InOrder, Phases, Size
<1>5. QED
  BY <1>1, <1>2, <1>3, <1>4 DEF Next

-----------------------------------------------------------------------------
(* What follows from it.                                                     *)

\* In step, the units the verdict is past are those that were read.
LEMMA StepDecodes == TypeOK /\ InStep => DecodesUnits
<1> SUFFICES ASSUME TypeOK, InStep, ~failed PROVE DecodesUnits
  BY DEF DecodesUnits
<1>1. frames \in Seq(Frame) /\ Len(frames) \in Nat
  BY StreamFacts
<1>2. PICK k \in 1..(Len(frames) + 1) : Boundary(k) /\ ReadUpTo(k)
  BY DEF InStep
<1>3. ASSUME NEW u \in Units(frames)
      PROVE  Offset(frames, u[2] + 1) <= passed + apply <=> u[2] < k
  <2>1. u[2] \in 1..Len(frames)
    BY UnitsAre
  <2>2. u[2] + 1 \in 1..(Len(frames) + 1)
    BY <1>1, <2>1
  <2>3. Offset(frames, u[2] + 1) <= Offset(frames, k) <=> u[2] + 1 <= k
    BY <1>1, <2>2, OffsetOrder
  <2>4. u[2] + 1 <= k <=> u[2] < k
    BY <1>1, <2>1
  <2>5. QED
    BY <1>2, <2>3, <2>4 DEF Boundary
<1>4. Range(decoded) = {u \in Units(frames) : Offset(frames, u[2] + 1) <= passed + apply}
  BY <1>2, <1>3 DEF ReadUpTo, UnitsBefore
<1>5. InOrder
  BY DEF InStep
<1>6. QED
  BY <1>4, <1>5 DEF DecodesUnits, InOrder

\* In step, a unit the first bytes of which have passed was read.
LEMMA StepReads == TypeOK /\ InStep => ReadBeforePassed
<1> SUFFICES ASSUME TypeOK, InStep, ~failed, NEW u \in Units(frames),
                    passed > Offset(frames, u[1])
             PROVE  u \in Range(decoded)
  BY DEF ReadBeforePassed
<1>1. /\ frames \in Seq(Frame) /\ Len(frames) \in Nat /\ passed \in Nat /\ apply \in Nat
      /\ \A i \in 1..(Len(frames) + 1) : Offset(frames, i) \in Nat
  BY StreamFacts DEF TypeOK
<1>2. PICK k \in 1..(Len(frames) + 1) : Boundary(k) /\ ReadUpTo(k)
  BY DEF InStep
<1>3. u[1] \in 1..Len(frames) /\ u[2] \in 1..Len(frames)
  BY UnitsAre
<1>4. u[1] \in 1..(Len(frames) + 1)
  BY <1>1, <1>3
<1>5. Offset(frames, u[1]) < Offset(frames, k)
  <2>1. Offset(frames, u[1]) \in Nat /\ passed + apply = Offset(frames, k)
    BY <1>1, <1>2, <1>4 DEF Boundary
  <2>2. QED
    BY <1>1, <2>1
<1>6. u[1] < k
  BY <1>1, <1>4, <1>5, OffsetOrder
<1>7. u[2] < k
  BY <1>2, <1>3, <1>6 DEF Boundary, NoneAcross
<1>8. QED
  BY <1>2, <1>7 DEF ReadUpTo, UnitsBefore

\* A verdict in step gives up on what cannot be read alone.
LEMMA NextGivesUp ==
    ASSUME TypeOK, InStep, GivesUpOnlyOnUnreadable, [Next]_vars
    PROVE  GivesUpOnlyOnUnreadable'
<1>1. frames' = frames /\ written' \in Nat /\ written \in Nat /\ written <= written'
  <2>1. TypeOK'
    BY NextType
  <2>2. written \in Nat /\ written' \in Nat
    BY <2>1, StreamFacts DEF TypeOK
  <2>3. CASE Verdict \/ Push \/ UNCHANGED vars
    BY <2>2, <2>3 DEF Verdict, Wait, Reject, GiveUp, Accept, Return, Push, vars
  <2>4. ASSUME NEW n \in 1..Total(frames), Write(n) PROVE frames' = frames /\ written <= written'
    BY <2>2, <2>4 DEF Write
  <2>5. QED
    BY <2>2, <2>3, <2>4 DEF Next
<1>2. SUFFICES ASSUME failed'
               PROVE  \E k \in 1..Len(frames) : Offset(frames, k) < written /\ Unreadable(frames, k)
  <2>1. \A k \in 1..Len(frames) : Offset(frames, k) < written => Offset(frames, k) < written'
    <3>1. \A k \in 1..Len(frames) : k \in 1..(Len(frames) + 1)
      BY StreamFacts
    <3>2. \A k \in 1..Len(frames) : Offset(frames, k) \in Nat
      BY <3>1, StreamFacts
    <3>3. QED
      BY <1>1, <3>2
  <2>2. QED
    BY <1>1, <1>2, <2>1 DEF GivesUpOnlyOnUnreadable
<1>3. CASE failed
  BY <1>3 DEF GivesUpOnlyOnUnreadable
<1>4. CASE ~failed
  <2>1. Verdict
    BY <1>2, <1>4 DEF Next, Push, Write, vars
  <2>2. PICK r \in Results : GiveUp(r)
    BY <1>2, <1>4, <2>1 DEF Verdict, Wait, Reject, Accept
  <2>3. Aligned /\ Here \in 1..Len(frames)
    BY <1>4, <2>2, VerdictAtFrame DEF GiveUp
  <2>4. \E i \in Here..Len(frames) : Unreadable(frames, i) /\ Offset(frames, i) < written
    BY <2>2, <2>3, AlignedResult DEF GiveUp
  <2>5. QED
    BY <2>3, <2>4
<1>5. QED
  BY <1>3, <1>4

\* The verdict that clears the cork, on messages that are in one piece where the
\* frame header is read, reads every block and every frame of settings that it
\* lets pass, once and in order, for any stream, however it is written, until it
\* gives up on what cannot be read: the table of prog.bpf.c misses no change.
THEOREM EveryUnitRead ==
    ASSUME ResetsCork = TRUE, Fragments = FALSE
    PROVE  Spec => []DecodesUnits
<1>1. Init => TypeOK /\ InStep
  BY InitType, InitInStep
<1>2. TypeOK /\ InStep /\ [Next]_vars => (TypeOK /\ InStep)'
  BY NextType, NextInStep
<1>3. TypeOK /\ InStep => DecodesUnits
  BY StepDecodes
<1>4. QED
  BY <1>1, <1>2, <1>3, PTL DEF Spec

\* Under the same conditions no byte of a block gets to the other end before the
\* block has been read.
THEOREM NonePassedUnread ==
    ASSUME ResetsCork = TRUE, Fragments = FALSE
    PROVE  Spec => []ReadBeforePassed
<1>1. Init => TypeOK /\ InStep
  BY InitType, InitInStep
<1>2. TypeOK /\ InStep /\ [Next]_vars => (TypeOK /\ InStep)'
  BY NextType, NextInStep
<1>3. TypeOK /\ InStep => ReadBeforePassed
  BY StepReads
<1>4. QED
  BY <1>1, <1>2, <1>3, PTL DEF Spec

\* Under the same conditions the verdict gives up on a message only for a frame or
\* block that cannot be read, or is longer than the parser walks, and never for
\* how the frames of a block arrived.
THEOREM GivesUpRightly ==
    ASSUME ResetsCork = TRUE, Fragments = FALSE
    PROVE  Spec => []GivesUpOnlyOnUnreadable
<1>1. Init => TypeOK /\ InStep /\ GivesUpOnlyOnUnreadable
  BY InitType, InitInStep DEF Init, GivesUpOnlyOnUnreadable
<1>2. TypeOK /\ InStep /\ GivesUpOnlyOnUnreadable /\ [Next]_vars
        => (TypeOK /\ InStep /\ GivesUpOnlyOnUnreadable)'
  BY NextType, NextInStep, NextGivesUp
<1>3. QED
  BY <1>1, <1>2, PTL DEF Spec
===============================================================================
