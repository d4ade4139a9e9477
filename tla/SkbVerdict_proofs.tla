--------------------------- MODULE SkbVerdict_proofs ---------------------------
(***************************************************************************)
(* The stream parser cuts what a peer sends behind the preface between its *)
(* units, and the sk_skb verdict reads each of them once and refuses       *)
(* nothing else, for any stream and however it arrives.                    *)
(***************************************************************************)
EXTENDS SkbVerdict, Framing_proofs

-----------------------------------------------------------------------------
(* The bytes.                                                                *)

\* The largest of a set of numbers that has one.
LEMMA MaxFacts ==
    ASSUME NEW L \in Nat, NEW T, T \subseteq 0..L, T # {}
    PROVE  Max(T) \in T /\ \A m \in T : m <= Max(T)
<1> DEFINE D == {L - x : x \in T}
<1>1. D \subseteq Nat /\ D # {}
  <2>1. \A x \in T : x \in 0..L
    OBVIOUS
  <2>2. \A x \in 0..L : L - x \in Nat
    OBVIOUS
  <2>3. QED
    BY <2>1, <2>2
<1>2. PICK n \in D : \A m \in D : n <= m
  BY <1>1, LeastNumber
<1>3. PICK x \in T : n = L - x
  BY <1>2
<1>4. \A m \in T : m <= x
  <2>1. SUFFICES ASSUME NEW m \in T PROVE m <= x
    OBVIOUS
  <2>2. L - x <= L - m
    BY <1>2, <1>3
  <2>3. x \in 0..L /\ m \in 0..L
    OBVIOUS
  <2>4. QED
    BY <2>2, <2>3
<1>5. \A m \in T : x >= m
  BY <1>4
<1>6. QED
  BY <1>3, <1>5 DEF Max

\* The types, and that the stream begins where the first sk_buff does.
Types == TypeOK /\ 0 \in cuts

\* The stream, what arrived of it, and where its frames begin.
LEMMA StreamFacts ==
    ASSUME Types
    PROVE  /\ frames \in Seq(Frame) /\ Len(frames) \in Nat /\ Length \in Nat
           /\ cuts \subseteq 0..Length /\ Arrived \in cuts /\ \A c \in cuts : c <= Arrived
           /\ taken \in Nat /\ taken <= Arrived /\ Arrived \in Nat /\ Arrived <= Length
           /\ PrefaceLen \in Nat \ {0} /\ Length = PrefaceLen + Total(frames)
           /\ \A k \in 1..(Len(frames) + 1) :
                 Offset(frames, k) \in Nat /\ At(k) = PrefaceLen + Offset(frames, k)
<1>1. frames \in Seq(Frame)
  BY SkbVerdictOK DEF Types, TypeOK
<1>2. Len(frames) \in Nat
  BY <1>1, LenProperties
<1>3. \A k \in 1..(Len(frames) + 1) :
         Offset(frames, k) \in Nat /\ At(k) = PrefaceLen + Offset(frames, k)
  BY <1>1, OffsetFacts DEF At
<1>4. Len(frames) + 1 \in 1..(Len(frames) + 1)
  BY <1>2
<1>5. PrefaceLen \in Nat \ {0} /\ Length \in Nat /\ Length = PrefaceLen + Total(frames)
  BY <1>3, <1>4, SkbVerdictOK DEF Length, At, Total
<1>6. cuts \subseteq 0..Length /\ cuts # {}
  BY DEF Types, TypeOK
<1>7. Arrived \in cuts /\ \A c \in cuts : c <= Arrived
  BY <1>5, <1>6, MaxFacts DEF Arrived
<1>8. Arrived \in Nat /\ Arrived <= Length
  BY <1>5, <1>6, <1>7
<1>9. taken \in Nat /\ taken <= Arrived
  BY <1>8 DEF Types, TypeOK
<1>10. QED
  BY <1>1, <1>2, <1>3, <1>5, <1>6, <1>7, <1>8, <1>9

\* The frames begin in their order, behind the preface.
LEMMA AtOrder ==
    ASSUME Types, NEW i \in 1..(Len(frames) + 1), NEW j \in 1..(Len(frames) + 1)
    PROVE  (At(i) = At(j) <=> i = j) /\ (At(i) <= At(j) <=> i <= j)
<1>1. frames \in Seq(Frame) /\ PrefaceLen \in Nat
  BY StreamFacts
<1>2. /\ Offset(frames, i) \in Nat /\ At(i) = PrefaceLen + Offset(frames, i)
      /\ Offset(frames, j) \in Nat /\ At(j) = PrefaceLen + Offset(frames, j)
  BY StreamFacts
<1>3. /\ Offset(frames, i) <= Offset(frames, j) <=> i <= j
      /\ Offset(frames, i) = Offset(frames, j) <=> i = j
  BY <1>1, OffsetOrder
<1>4. QED
  BY <1>1, <1>2, <1>3

\* The sk_buffs of a message that has arrived hold it, and no more than arrived.
LEMMA SkbFacts ==
    ASSUME Types, NEW n \in 1..(Arrived - taken)
    PROVE  /\ SkbOffset(taken) \in Nat /\ SkbSize(taken, n) \in Nat /\ SkbSize(taken, n) >= n
           /\ taken + SkbSize(taken, n) \in cuts /\ taken + SkbSize(taken, n) <= Length
           /\ \A c \in cuts : c >= taken + n => taken + SkbSize(taken, n) <= c
<1>1. /\ Length \in Nat /\ cuts \subseteq 0..Length /\ Arrived \in cuts
      /\ taken \in Nat /\ Arrived \in Nat /\ 0 \in cuts
  BY StreamFacts DEF Types
<1> DEFINE Ahead == {c \in cuts : c >= taken + n}
           Behind == {c \in cuts : c <= taken}
<1>2. Arrived \in Ahead /\ Ahead \subseteq Nat /\ Ahead \subseteq cuts
  <2>1. Arrived >= taken + n
    BY <1>1
  <2>2. 0..Length \subseteq Nat
    BY <1>1
  <2>3. QED
    BY <1>1, <2>1, <2>2
<1>3. 0 \in Behind /\ Behind \subseteq 0..Length
  <2>1. 0 <= taken
    BY <1>1
  <2>2. QED
    BY <1>1, <2>1
<1>4. Min(Ahead) \in Ahead /\ \A c \in Ahead : Min(Ahead) <= c
  BY <1>2, MinFacts
<1>5. Max(Behind) \in Behind
  BY <1>1, <1>3, MaxFacts
<1>6. SkbSize(taken, n) = Min(Ahead) - taken
  BY DEF SkbSize
<1>7. SkbOffset(taken) = taken - Max(Behind)
  BY DEF SkbOffset
<1>8. PICK a \in cuts : a = Min(Ahead) /\ a >= taken + n /\ \A c \in cuts : c >= taken + n => a <= c
  BY <1>4
<1>9. PICK b \in cuts : b = Max(Behind) /\ b <= taken
  BY <1>5
<1>10. a \in 0..Length /\ b \in 0..Length
  BY <1>1
<1> HIDE DEF Ahead, Behind
<1>11. SkbSize(taken, n) = a - taken /\ SkbOffset(taken) = taken - b
  BY <1>6, <1>7, <1>8, <1>9
<1>12. taken + SkbSize(taken, n) = a
  BY <1>1, <1>10, <1>11
<1>13. SkbOffset(taken) \in Nat /\ SkbSize(taken, n) \in Nat /\ SkbSize(taken, n) >= n
  BY <1>1, <1>8, <1>9, <1>10, <1>11
<1>14. QED
  BY <1>8, <1>10, <1>12, <1>13

-----------------------------------------------------------------------------
(* What the parser is handed and answers.                                    *)

\* A message that begins at a frame is as long as that frame says.
LEMMA MessageLen ==
    ASSUME Types, upgraded, NEW n \in Nat, Ready(n), NEW k \in 1..Len(frames), At(k) = taken
    PROVE  n \in 1..(Arrived - taken) /\ \E c \in cuts : n = h2_msg_len(k, c)
<1>1. PICK c \in cuts : n = skb_parser(c)
  BY DEF Ready
<1>2. PICK i \in 1..Len(frames) : /\ i = CHOOSE j \in 1..Len(frames) : At(j) = taken
                                  /\ At(i) = taken
  OBVIOUS
<1>3. i \in 1..(Len(frames) + 1) /\ k \in 1..(Len(frames) + 1)
  BY StreamFacts
<1>4. i = k
  BY <1>2, <1>3, AtOrder
<1>5. skb_parser(c) = h2_msg_len(k, c)
  BY <1>2, <1>4 DEF skb_parser
<1>6. QED
  BY <1>1, <1>5 DEF Ready

\* The parser is run on the frame the message begins with, in its sk_buffs.
LEMMA ParsedFrom ==
    ASSUME Types, NEW n \in 1..(Arrived - taken), NEW k \in 1..Len(frames), At(k) = taken,
           NEW r \in Results(k, n)
    PROVE  LET off  == SkbOffset(taken)
               size == SkbSize(taken, n)
           IN  \/ off > MaxBytes /\ r = Result("toobig", 0)
               \/ ~(off > MaxBytes) /\ size < HdrLen /\ r = Result("short", 0)
               \/ /\ ~(off > MaxBytes) /\ ~(size < HdrLen)
                  /\ \E avail \in Nat : /\ avail <= size /\ avail >= Min({size, MaxBytes})
                                        /\ size <= Total(frames) - Offset(frames, k)
                                        /\ r = ParseFrom(frames, k, off, size, avail)
<1> DEFINE off  == SkbOffset(taken)
           size == SkbSize(taken, n)
<1>1. PICK avail \in Min({size, MaxBytes})..size : r = parse_skb(frames, k, off, size, avail)
  BY DEF Results
<1>2. size \in Nat /\ taken + size <= Length /\ MaxBytes \in Nat
  BY SkbFacts, FramingOK
<1>3. Min({size, MaxBytes}) \in {size, MaxBytes}
  BY <1>2, MinFacts
<1>4. avail \in Nat /\ avail <= size /\ avail >= Min({size, MaxBytes})
  BY <1>1, <1>2, <1>3
<1>5. size <= Total(frames) - Offset(frames, k)
  <2>1. /\ k \in 1..(Len(frames) + 1) /\ Len(frames) + 1 \in 1..(Len(frames) + 1)
        /\ Length = PrefaceLen + Total(frames) /\ PrefaceLen \in Nat /\ frames \in Seq(Frame)
    BY StreamFacts
  <2>2. Offset(frames, k) \in Nat /\ At(k) = PrefaceLen + Offset(frames, k)
    BY <2>1, StreamFacts
  <2>3. Total(frames) \in Nat
    BY <2>1, OffsetFacts DEF Total
  <2> HIDE DEF size
  <2>4. QED
    BY <1>2, <2>1, <2>2, <2>3
<1>6. r = IF off > MaxBytes THEN Result("toobig", 0)
          ELSE IF size < HdrLen THEN Result("short", 0)
          ELSE ParseFrom(frames, k, off, size, avail)
  BY <1>1 DEF parse_skb
<1> HIDE DEF off, size
<1>7. \/ off > MaxBytes /\ r = Result("toobig", 0)
      \/ ~(off > MaxBytes) /\ size < HdrLen /\ r = Result("short", 0)
      \/ /\ ~(off > MaxBytes) /\ ~(size < HdrLen)
         /\ r = ParseFrom(frames, k, off, size, avail)
  BY <1>6
<1>8. QED
  BY <1>4, <1>5, <1>7 DEF off, size

\* A result is one the verdict knows; a frame or block that was read is a unit.
LEMMA ResultFacts ==
    ASSUME Types, NEW n \in 1..(Arrived - taken), NEW k \in 1..Len(frames), At(k) = taken,
           NEW r \in Results(k, n)
    PROVE  /\ r.code \in Codes
           /\ r.code = "ok" /\ _is_parsed_frame(frames[k]) =>
                \E j \in k..Len(frames) : /\ IsUnit(frames, k, j)
                                          /\ LastFrame(frames, k, r.bytes) = j
<1> DEFINE off  == SkbOffset(taken)
           size == SkbSize(taken, n)
<1>1. frames \in Seq(Frame) /\ off \in Nat /\ size \in Nat
  BY StreamFacts, SkbFacts
<1>2. CASE off > MaxBytes /\ r = Result("toobig", 0)
  BY <1>2 DEF Result, Codes
<1>3. CASE r = Result("short", 0)
  BY <1>3 DEF Result, Codes
<1>4. CASE \E avail \in Nat : /\ avail <= size /\ avail >= Min({size, MaxBytes})
                              /\ size <= Total(frames) - Offset(frames, k)
                              /\ r = ParseFrom(frames, k, off, size, avail)
  <2> HIDE DEF off, size
  <2>1. PICK avail \in Nat : /\ avail <= size /\ avail >= Min({size, MaxBytes})
                             /\ size <= Total(frames) - Offset(frames, k)
                             /\ r = ParseFrom(frames, k, off, size, avail)
    BY <1>4
  <2>2. Says(frames, k, off, size, r)
    BY <1>1, <2>1, ParseFacts
  <2>3. ASSUME NEW j \in k..Len(frames), r.bytes = Offset(frames, j + 1) - Offset(frames, k)
        PROVE  LastFrame(frames, k, r.bytes) = j
    BY <1>1, <2>3, LastFrameFound
  <2>4. QED
    BY <2>2, <2>3 DEF Says, Codes
<1>5. QED
  BY <1>2, <1>3, <1>4, ParsedFrom

-----------------------------------------------------------------------------
(* The frames of a message.                                                  *)

\* Frames k to e are a message as h2_msg_len cuts it: the frames behind the first
\* carry on a block that it opens, up to its end, a frame that breaks into it, or
\* the most it puts into one message.
Message(k, e) ==
    /\ \A i \in (k + 1)..e : frames[i].type = "continuation"
    /\ \A i \in k..(e - 1) : ~frames[i].ends
    /\ frames[k].type # "headers" => e = k
    /\ \/ frames[e].ends
       \/ frames[k].type # "headers"
       \/ e - k = MAX_CONTINUATIONS
       \/ e < Len(frames) /\ frames[e + 1].type # "continuation"

\* A message that has been cut is such frames.
LEMMA MessageFrames ==
    ASSUME Types, NEW k \in 1..Len(frames), NEW upto \in Nat, h2_msg_len(k, upto) # 0
    PROVE  \E e \in k..Len(frames) :
               h2_msg_len(k, upto) = Offset(frames, e + 1) - Offset(frames, k) /\ Message(k, e)
<1>0. /\ frames \in Seq(Frame) /\ Len(frames) \in Nat 
      /\ MAX_CONTINUATIONS \in Nat /\ PeekLen \in Nat
  BY StreamFacts, FramingOK, SkbVerdictOK
<1> DEFINE Breaks(j) == j > k /\ frames[j].type # "continuation"
           Ends == {j \in k..Len(frames) : /\ At(j) + PeekLen <= upto
                                           /\ Breaks(j) \/ LastOfMessage(k, j)}
           m == Min(Ends)
<1>1. h2_msg_len(k, upto) = IF Ends = {} THEN 0
                      ELSE IF Breaks(m) THEN Offset(frames, m) - Offset(frames, k)
                      ELSE Offset(frames, m + 1) - Offset(frames, k)
  BY DEF h2_msg_len
<1>2. Ends # {} /\ Ends \subseteq Nat
  BY <1>0, <1>1
<1>3. m \in Ends /\ \A j \in Ends : m <= j
  BY <1>2, MinFacts
<1> HIDE DEF m
<1>4. m \in k..Len(frames) /\ At(m) + PeekLen <= upto /\ (Breaks(m) \/ LastOfMessage(k, m))
  BY <1>3
<1>5. ASSUME NEW i \in k..(m - 1) PROVE ~Breaks(i) /\ ~LastOfMessage(k, i)
  <2>1. /\ i \in k..Len(frames) /\ ~(m <= i) /\ i <= m
        /\ i \in 1..(Len(frames) + 1) /\ m \in 1..(Len(frames) + 1)
    BY <1>0, <1>4
  <2>2. At(i) <= At(m) /\ At(i) \in Nat /\ At(m) \in Nat
    <3>1. PrefaceLen \in Nat /\ Offset(frames, i) \in Nat /\ Offset(frames, m) \in Nat
      BY <2>1, StreamFacts
    <3>2. At(i) = PrefaceLen + Offset(frames, i) /\ At(m) = PrefaceLen + Offset(frames, m)
      BY <2>1, StreamFacts
    <3>3. QED
      BY <2>1, <3>1, <3>2, AtOrder
  <2>3. At(i) + PeekLen <= upto
    BY <1>0, <1>4, <2>2
  <2>4. QED
    BY <1>3, <2>1, <2>3
<1>6. \A i \in k..(m - 1) :
         /\ i > k => frames[i].type = "continuation"
         /\ ~frames[i].ends /\ (i = k => frames[i].type = "headers")
  BY <1>5 DEF LastOfMessage
<1> HIDE DEF Ends
<1>7. CASE Breaks(m)
  <2>1. m - 1 \in k..Len(frames) /\ (m - 1) + 1 = m /\ m - 1 < Len(frames) /\ k \in k..(m - 1)
    BY <1>0, <1>4, <1>7
  <2>2. h2_msg_len(k, upto) = Offset(frames, (m - 1) + 1) - Offset(frames, k)
    BY <1>1, <1>2, <1>7, <2>1
  <2>3. Message(k, m - 1)
    <3>0. m \in Nat /\ k \in Nat
      BY <1>0, <1>4
    <3>1. \A i \in (k + 1)..(m - 1) : frames[i].type = "continuation"
      <4>1. \A i \in (k + 1)..(m - 1) : i \in k..(m - 1) /\ i > k
        BY <3>0
      <4>2. QED
        BY <1>6, <4>1
    <3>2. \A i \in k..((m - 1) - 1) : ~frames[i].ends
      <4>1. \A i \in k..((m - 1) - 1) : i \in k..(m - 1)
        BY <3>0
      <4>2. QED
        BY <1>6, <4>1
    <3>3. frames[k].type = "headers" /\ frames[(m - 1) + 1].type # "continuation"
      BY <1>6, <1>7, <2>1
    <3>4. QED
      BY <2>1, <3>1, <3>2, <3>3 DEF Message
  <2>4. QED
    BY <2>1, <2>2, <2>3
<1>8. CASE ~Breaks(m)
  <2>1. h2_msg_len(k, upto) = Offset(frames, m + 1) - Offset(frames, k) /\ LastOfMessage(k, m)
    BY <1>1, <1>2, <1>4, <1>8
  <2>2. Message(k, m)
    <3>1. \A i \in (k + 1)..m : frames[i].type = "continuation"
      <4>1. SUFFICES ASSUME NEW i \in (k + 1)..m PROVE frames[i].type = "continuation"
        OBVIOUS
      <4>2. i > k /\ (i = m \/ i \in k..(m - 1))
        BY <1>0, <1>4
      <4>3. QED
        BY <1>6, <1>8, <4>2
    <3>2. \A i \in k..(m - 1) : ~frames[i].ends
      BY <1>6
    <3>3. frames[k].type # "headers" => m = k
      <4>1. m # k => k \in k..(m - 1)
        BY <1>4
      <4>2. QED
        BY <1>6, <4>1
    <3>4. frames[m].ends \/ frames[k].type # "headers" \/ m - k = MAX_CONTINUATIONS
      BY <2>1 DEF LastOfMessage
    <3>5. QED
      BY <3>1, <3>2, <3>3, <3>4 DEF Message
  <2>3. QED
    BY <1>4, <2>1, <2>2
<1>9. QED
  BY <1>7, <1>8

\* The streams of a peer whose frames can be read, and whose blocks have no more
\* CONTINUATION frames than one message takes.
SoundStreams ==
    \A s \in Streams : \A k \in 1..Len(s) :
        /\ s[k].fate = "ok"
        /\ \A j \in k..Len(s) : IsOpenBlock(s, k, j) => j - k < MAX_CONTINUATIONS

\* A message that opens a header block is all of it, unless the block is broken.
LEMMA BlockOrBroken ==
    ASSUME Types, SoundStreams, NEW k \in 1..Len(frames), NEW e \in k..Len(frames),
           Message(k, e), frames[k].type = "headers", frames[k].sid # 0
    PROVE  IsUnit(frames, k, e) \/ IsBroken(k)
<1>0. Len(frames) \in Nat /\ frames \in Streams
  BY StreamFacts DEF Types, TypeOK
<1>1. /\ \A i \in (k + 1)..e : frames[i].type = "continuation"
      /\ \A i \in k..(e - 1) : ~frames[i].ends
      /\ \/ frames[e].ends
         \/ e - k = MAX_CONTINUATIONS
         \/ e < Len(frames) /\ frames[e + 1].type # "continuation"
  BY DEF Message
<1> DEFINE T == {i \in (k + 1)..e : frames[i].sid # frames[k].sid}
<1>2. CASE T # {}
  <2>1. T \subseteq Nat
    BY <1>0
  <2>2. PICK m \in T : \A i \in T : m <= i
    BY <1>2, <2>1, LeastNumber
  <2>3. /\ m \in (k + 1)..e /\ frames[m].sid # frames[k].sid
        /\ m - 1 \in k..(Len(frames) - 1) /\ (m - 1) + 1 = m
    BY <1>0
  <2>4. \A i \in (k + 1)..(m - 1) : i \in (k + 1)..e /\ ~(m <= i)
    BY <1>0, <2>3
  <2>5. \A i \in (k + 1)..(m - 1) :
           frames[i].type = "continuation" /\ frames[i].sid = frames[k].sid
    BY <1>1, <2>2, <2>4
  <2>6. \A i \in k..(m - 1) : i \in k..(e - 1)
    BY <1>0, <2>3
  <2>7. \A i \in k..(m - 1) : ~frames[i].ends
    BY <1>1, <2>6
  <2>8. IsOpenBlock(frames, k, m - 1)
    BY <2>5, <2>7 DEF IsOpenBlock
  <2>9. QED
    BY <2>3, <2>8 DEF IsBroken, CarriesOn
<1>3. CASE T = {}
  <2>1. \A i \in (k + 1)..e :
           frames[i].type = "continuation" /\ frames[i].sid = frames[k].sid
    BY <1>1, <1>3
  <2>2. \A i \in k..e : i # e => i \in k..(e - 1)
    BY <1>0
  <2>3. \A i \in k..e : i # e => ~frames[i].ends
    BY <1>1, <2>2
  <2>4. CASE frames[e].ends
    <3>1. \A i \in k..e : frames[i].ends <=> i = e
      BY <2>3, <2>4
    <3>2. QED
      BY <2>1, <3>1 DEF IsUnit
  <2>5. CASE ~frames[e].ends
    <3>1. IsOpenBlock(frames, k, e)
      BY <2>1, <2>3, <2>5 DEF IsOpenBlock
    <3>2. e - k < MAX_CONTINUATIONS
      BY <1>0, <3>1 DEF SoundStreams
    <3>3. e - k # MAX_CONTINUATIONS
      BY <1>0, <3>2, SkbVerdictOK
    <3>4. e < Len(frames) /\ frames[e + 1].type # "continuation"
      BY <1>1, <2>5, <3>3
    <3>5. e \in k..(Len(frames) - 1)
      BY <1>0, <3>4
    <3>6. QED
      BY <3>1, <3>4, <3>5 DEF IsBroken, CarriesOn
  <2>6. QED
    BY <2>4, <2>5
<1>4. QED
  BY <1>2, <1>3

\* A unit that begins a message is all of it.
LEMMA UnitIsMessage ==
    ASSUME Types, SoundStreams, NEW k \in 1..Len(frames), NEW e \in k..Len(frames),
           Message(k, e), NEW j \in k..Len(frames), IsUnit(frames, k, j)
    PROVE  j = e
<1>0. Len(frames) \in Nat /\ frames \in Streams
  BY StreamFacts DEF Types, TypeOK
<1>1. CASE frames[k].type # "headers"
  BY <1>1 DEF Message, IsUnit
<1>2. CASE frames[k].type = "headers"
  <2>1. /\ frames[k].sid # 0
        /\ \A i \in (k + 1)..j : frames[i].type = "continuation" /\ frames[i].sid = frames[k].sid
        /\ \A i \in k..j : frames[i].ends <=> i = j
    BY <1>2 DEF IsUnit
  <2>2. CASE j < e
    <3>1. j \in k..(e - 1) /\ j \in k..j
      BY <1>0, <2>2
    <3>2. QED
      BY <2>1, <3>1 DEF Message
  <2>3. CASE e < j
    <3>1. e + 1 \in (k + 1)..j /\ \A i \in k..e : i \in k..j /\ i # j
      BY <1>0, <2>3
    <3>2. \A i \in (k + 1)..e : i \in (k + 1)..j
      BY <1>0, <2>3
    <3>3. frames[e + 1].type = "continuation" /\ \A i \in k..e : ~frames[i].ends
      BY <2>1, <3>1
    <3>4. IsOpenBlock(frames, k, e)
      BY <1>2, <2>1, <3>2, <3>3 DEF IsOpenBlock
    <3>5. e - k < MAX_CONTINUATIONS
      BY <1>0, <3>4 DEF SoundStreams
    <3>6. e - k # MAX_CONTINUATIONS /\ e \in k..e
      BY <1>0, <3>5, SkbVerdictOK
    <3>7. QED
      BY <1>2, <3>3, <3>6 DEF Message
  <2>4. QED
    BY <1>0, <2>2, <2>3
<1>3. QED
  BY <1>1, <1>2

\* Behind a message no unit is cut, and one more is passed if the message is one.
LEMMA MessagePassed ==
    ASSUME Types, SoundStreams, NEW k \in 1..Len(frames), NEW e \in k..Len(frames),
           Message(k, e), NoneAcross(frames, k)
    PROVE  /\ NoneAcross(frames, e + 1)
           /\ UnitsBefore(frames, e + 1) = IF IsUnit(frames, k, e)
                                           THEN UnitsBefore(frames, k) \cup {<<k, e>>}
                                           ELSE UnitsBefore(frames, k)
<1>0. frames \in Seq(Frame) /\ Len(frames) \in Nat
  BY StreamFacts
<1>1. CASE IsUnit(frames, k, e)
  BY <1>0, <1>1, UnitPassed
<1>2. CASE ~IsUnit(frames, k, e)
  <2>1. ASSUME NEW u \in Units(frames), k <= u[2] PROVE e < u[1]
    <3>1. u[1] \in 1..Len(frames) /\ u[2] \in 1..Len(frames) /\ u[1] <= u[2] /\ IsUnit(frames, u[1], u[2])
      BY UnitsAre
    <3>2. ~(u[1] < k)
      BY <2>1 DEF NoneAcross
    <3>3. u[1] # k
      <4>1. SUFFICES ASSUME u[1] = k PROVE FALSE
        OBVIOUS
      <4>2. u[2] \in k..Len(frames) /\ IsUnit(frames, k, u[2])
        BY <1>0, <2>1, <3>1, <4>1
      <4>3. u[2] = e
        BY <4>2, UnitIsMessage
      <4>4. QED
        BY <1>2, <4>2, <4>3
    <3>4. ~(u[1] \in (k + 1)..e)
      <4>1. u[1] \in (k + 1)..e => frames[u[1]].type = "continuation"
        BY DEF Message
      <4>2. QED
        BY <3>1, <4>1 DEF IsUnit
    <3>5. QED
      BY <1>0, <3>1, <3>2, <3>3, <3>4
  <2>2. \A u \in Units(frames) : u[1] \in Nat /\ u[2] \in Nat /\ u[1] <= u[2]
    BY <1>0, UnitsAre
  <2>3. NoneAcross(frames, e + 1)
    <3>1. SUFFICES ASSUME NEW u \in Units(frames), u[1] < e + 1, e + 1 <= u[2] PROVE FALSE
      BY DEF NoneAcross
    <3>2. k <= u[2]
      BY <1>0, <2>2, <3>1
    <3>3. e < u[1]
      BY <2>1, <3>2
    <3>4. QED
      BY <1>0, <2>2, <3>1, <3>3
  <2>4. ASSUME NEW u \in Units(frames) PROVE u[2] < e + 1 <=> u[2] < k
    <3>1. k <= u[2] => e < u[1]
      BY <2>1
    <3>2. QED
      BY <1>0, <2>2, <3>1
  <2>5. QED
    BY <1>2, <2>3, <2>4 DEF UnitsBefore
<1>3. QED
  BY <1>1, <1>2

\* What a result says of a message: it was read if it is a unit, unless it is too
\* long or out of the parser's reach, and is refused only for that or being broken.
LEMMA MessageRead ==
    ASSUME Types, SoundStreams, NEW k \in 1..Len(frames), At(k) = taken,
           NEW e \in k..Len(frames), Message(k, e), NEW n \in 1..(Arrived - taken),
           n = Offset(frames, e + 1) - Offset(frames, k), NEW r \in Results(k, n)
    PROVE  /\ r.code = "ok" /\ _is_parsed_frame(frames[k]) =>
                IsUnit(frames, k, e) /\ LastFrame(frames, k, r.bytes) = e
           /\ r.code = "ok" /\ ~_is_parsed_frame(frames[k]) => ~IsUnit(frames, k, e)
           /\ r.code = "toobig" =>
                Unreadable(frames, k) \/ OutOfReach(frames, k, SkbOffset(taken))
           /\ r.code \notin {"ok", "toobig"} =>
                /\ ~IsUnit(frames, k, e)
                /\ _violates_block_rules(frames[k]) \/ IsBroken(k)
<1> DEFINE off  == SkbOffset(taken)
           size == SkbSize(taken, n)
<1>0. /\ frames \in Seq(Frame) /\ Len(frames) \in Nat /\ frames \in Streams
      /\ HdrLen \in Nat /\ MaxBytes \in Nat
  BY StreamFacts, FramingOK DEF Types, TypeOK
<1>1. off \in Nat /\ size \in Nat /\ size >= n /\ n \in Nat
  BY SkbFacts
<1>2. /\ k \in 1..(Len(frames) + 1) /\ e + 1 \in 1..(Len(frames) + 1) /\ k < e + 1
  BY <1>0
<1>3. n >= HdrLen
  <2>1. Offset(frames, k) + FrameLen(frames[k]) <= Offset(frames, e + 1)
    BY <1>0, <1>2, OffsetsGrow
  <2>2. FrameLen(frames[k]) \in Nat /\ FrameLen(frames[k]) >= HdrLen
    BY <1>0, FrameFacts
  <2>3. Offset(frames, k) \in Nat /\ Offset(frames, e + 1) \in Nat
    BY <1>2, StreamFacts
  <2>4. QED
    BY <1>0, <2>1, <2>2, <2>3
<1> HIDE DEF off, size
<1>4. CASE off > MaxBytes
  <2>1. r = Result("toobig", 0)
    BY <1>4, ParsedFrom DEF off, size
  <2>2. OutOfReach(frames, k, off)
    <3>1. off + (Offset(frames, k) - Offset(frames, k)) > MaxBytes
      BY <1>0, <1>1, <1>2, <1>4, StreamFacts
    <3>2. k \in k..(Len(frames) + 1)
      BY <1>0
    <3>3. QED
      BY <1>0, <1>1, <3>1, <3>2, WalkedOut
  <2>3. QED
    BY <2>1, <2>2 DEF Result, off
<1>5. CASE ~(off > MaxBytes)
  <2>1. ~(off > MaxBytes) /\ ~(size < HdrLen)
    BY <1>0, <1>1, <1>3, <1>5
  <2>2. PICK avail \in Nat : /\ avail <= size /\ avail >= Min({size, MaxBytes})
                             /\ size <= Total(frames) - Offset(frames, k)
                             /\ r = ParseFrom(frames, k, off, size, avail)
    BY <2>1, ParsedFrom DEF off, size
  <2>3. Says(frames, k, off, size, r)
    BY <1>0, <1>1, <2>2, ParseFacts
  <2>4. r.code = "ok" /\ _is_parsed_frame(frames[k]) =>
           IsUnit(frames, k, e) /\ LastFrame(frames, k, r.bytes) = e
    <3>1. SUFFICES ASSUME NEW j \in k..Len(frames), IsUnit(frames, k, j),
                          r.bytes = Offset(frames, j + 1) - Offset(frames, k)
                   PROVE  IsUnit(frames, k, e) /\ LastFrame(frames, k, r.bytes) = e
      BY <2>3 DEF Says
    <3>2. j = e
      BY <3>1, UnitIsMessage
    <3>3. LastFrame(frames, k, r.bytes) = e
      BY <1>0, <3>1, <3>2, LastFrameFound
    <3>4. QED
      BY <3>1, <3>2, <3>3
  <2>5. ~_is_parsed_frame(frames[k]) => ~IsUnit(frames, k, e)
    BY DEF _is_parsed_frame, IsUnit
  <2>6. r.code = "toobig" => Unreadable(frames, k) \/ OutOfReach(frames, k, off)
    BY <1>1, <2>3 DEF Says
  <2>7. r.code # "badmsg"
    <3>1. \A i \in k..Len(frames) : i \in 1..Len(frames)
      BY <1>0
    <3>2. \A i \in k..Len(frames) : frames[i].fate = "ok"
      BY <1>0, <3>1 DEF SoundStreams
    <3>3. QED
      BY <2>3, <3>2 DEF Says
  <2>8. r.code \in {"again", "proto"} => ~IsUnit(frames, k, e)
    <3>1. r.code = "again" /\ IsUnit(frames, k, e) => n > size
      BY <2>3 DEF Says
    <3>2. ~(n > size)
      BY <1>1
    <3>3. QED
      BY <2>3, <3>1, <3>2 DEF Says
  <2>9. r.code \in {"again", "proto"} => _violates_block_rules(frames[k]) \/ IsBroken(k)
    <3>1. SUFFICES ASSUME r.code \in {"again", "proto"}, ~_violates_block_rules(frames[k])
                   PROVE  IsBroken(k)
      OBVIOUS
    <3>2. _is_parsed_frame(frames[k]) /\ ~IsUnit(frames, k, e)
      BY <2>3, <2>8, <3>1 DEF Says
    <3>3. CASE frames[k].type = "headers"
      <4>1. frames[k].sid # 0
        BY <3>1, <3>3 DEF _violates_block_rules
      <4>2. QED
        BY <3>2, <3>3, <4>1, BlockOrBroken
    <3>4. CASE frames[k].type # "headers"
      <4>1. frames[k].type = "settings"
        BY <3>1, <3>2, <3>4 DEF _is_parsed_frame, _violates_block_rules
      <4>2. e = k
        BY <3>4 DEF Message
      <4>3. QED
        BY <3>2, <4>1, <4>2 DEF IsUnit
    <3>5. QED
      BY <3>3, <3>4
  <2>10. QED
    BY <2>3, <2>4, <2>5, <2>6, <2>7, <2>8, <2>9 DEF Says, off
<1>6. QED
  BY <1>4, <1>5

-----------------------------------------------------------------------------
(* The types.                                                                *)

\* Nothing of a stream has arrived at first.
LEMMA InitTypes == Init => Types
<1> SUFFICES ASSUME Init PROVE Types
  OBVIOUS
<1>1. frames \in Seq(Frame) /\ PrefaceLen \in Nat
  BY SkbVerdictOK DEF Init
<1>2. Len(frames) + 1 \in 1..(Len(frames) + 1)
  BY <1>1, LenProperties
<1>3. Length \in Nat
  BY <1>1, <1>2, OffsetFacts DEF Length, At
<1>4. cuts \subseteq 0..Length /\ cuts \subseteq 0..0 /\ cuts # {} /\ 0 \in cuts
  BY <1>3 DEF Init
<1>5. Max(cuts) \in cuts
  BY <1>4, MaxFacts
<1>6. Arrived = 0
  BY <1>5 DEF Arrived, Init
<1>7. taken \in 0..Arrived /\ rejected = {} /\ frames \in Streams
      /\ upgraded = FALSE /\ aborted = FALSE
  BY <1>6 DEF Init
<1>8. decoded \in Seq((1..Len(frames)) \X (1..Len(frames)))
  BY DEF Init
<1>9. QED
  BY <1>4, <1>7, <1>8 DEF Types, TypeOK

\* An sk_buff that arrives lies behind all that did.
LEMMA ArriveFacts ==
    ASSUME Types, NEW n \in Nat, Arrive(n)
    PROVE  /\ Arrived' = Arrived + n /\ n > 0 /\ Arrived' <= Length
           /\ cuts' = cuts \cup {Arrived + n} /\ Length' = Length
           /\ UNCHANGED <<frames, taken, upgraded, aborted, decoded, rejected>>
<1>1. /\ Length \in Nat /\ cuts \subseteq 0..Length /\ \A c \in cuts : c <= Arrived
      /\ Arrived \in Nat
  BY StreamFacts
<1>2. /\ n \in 1..(Length - Arrived) /\ cuts' = cuts \cup {Arrived + n}
      /\ UNCHANGED <<frames, taken, upgraded, aborted, decoded, rejected>>
  BY DEF Arrive
<1>3. Arrived + n \in 0..Length /\ n > 0
  BY <1>1, <1>2
<1>4. cuts' \subseteq 0..Length /\ cuts' # {}
  BY <1>1, <1>2, <1>3
<1>5. Max(cuts') \in cuts' /\ \A c \in cuts' : c <= Max(cuts')
  BY <1>1, <1>4, MaxFacts
<1>6. PICK a \in cuts' : a = Arrived' /\ \A c \in cuts' : c <= a
  BY <1>5 DEF Arrived
<1>7. a \in 0..Length /\ Arrived + n <= a
  BY <1>2, <1>4, <1>6
<1>8. a \in cuts => a <= Arrived
  BY <1>1
<1>9. a = Arrived + n
  <2>1. a \in cuts \/ a = Arrived + n
    BY <1>2
  <2>2. ~(a <= Arrived)
    BY <1>1, <1>2, <1>3, <1>7
  <2>3. QED
    BY <1>8, <2>1, <2>2
<1>10. Length' = Length
  BY <1>2 DEF Length, At
<1>11. QED
  BY <1>2, <1>3, <1>6, <1>9, <1>10

\* A verdict is run on a message that has arrived.
LEMMA VerdictStep ==
    ASSUME Types, Verdict
    PROVE  \E n \in Nat : /\ n \in 1..(Arrived - taken) /\ Ready(n)
                          /\ HTTP1Verdict(n) \/ HTTP2Verdict(n)
                          /\ taken' = taken + n /\ UNCHANGED <<frames, cuts, aborted>>
<1>1. taken \in Nat /\ Arrived \in Nat
  BY StreamFacts
<1>2. \E n : /\ Ready(n) /\ (HTTP1Verdict(n) \/ HTTP2Verdict(n))
             /\ taken' = taken + n /\ UNCHANGED <<frames, cuts, aborted>>
  BY DEF Verdict
<1>3. PICK n : /\ Ready(n) /\ (HTTP1Verdict(n) \/ HTTP2Verdict(n))
               /\ taken' = taken + n /\ UNCHANGED <<frames, cuts, aborted>>
  BY <1>2
<1>4. n \in 1..(Arrived - taken)
  BY <1>3 DEF Ready
<1>5. n \in Nat
  BY <1>1, <1>4
<1>6. QED
  BY <1>3, <1>4, <1>5

\* A step runs a verdict, or is the arrival of an sk_buff, or reads and takes nothing.
LEMMA StepCases ==
    ASSUME Types, [Next]_vars
    PROVE  \/ Verdict
           \/ \E n \in Nat : Arrive(n)
           \/ UNCHANGED <<frames, cuts, taken, upgraded, decoded, rejected>> /\ aborted' \in BOOLEAN
<1>1. \A n \in 1..Length : n \in Nat
  BY StreamFacts
<1>2. aborted \in BOOLEAN
  BY DEF Types, TypeOK
<1>3. CASE Abort
  BY <1>3 DEF Abort
<1>4. QED
  BY <1>1, <1>2, <1>3 DEF Next, vars

\* What is read or refused of a message is one of the stream's frames.
LEMMA VerdictTypes ==
    ASSUME Types, Verdict
    PROVE  Types'
<1>1. PICK n \in Nat : /\ n \in 1..(Arrived - taken) /\ Ready(n)
                       /\ HTTP1Verdict(n) \/ HTTP2Verdict(n)
                       /\ taken' = taken + n /\ UNCHANGED <<frames, cuts, aborted>>
  BY VerdictStep
<1>2. n \in 1..(Arrived - taken)
  BY <1>1
<1>3. taken \in Nat /\ Arrived \in Nat /\ Len(frames) \in Nat
  BY StreamFacts
<1>4. Arrived' = Arrived /\ Length' = Length
  BY <1>1 DEF Arrived, Length, At
<1>5. taken' \in 0..Arrived'
  <2>1. taken + n \in 0..Arrived
    BY <1>2, <1>3
  <2>2. QED
    BY <1>1, <1>4, <2>1
<1> DEFINE P == (1..Len(frames)) \X (1..Len(frames))
           Q == (1..Len(frames)) \X Codes
<1>6. decoded \in Seq(P) /\ rejected \subseteq Q
  BY DEF Types, TypeOK
<1>7. decoded' \in Seq(P) /\ rejected' \subseteq Q
  <2>1. CASE HTTP1Verdict(n)
    BY <1>6, <2>1 DEF HTTP1Verdict
  <2>2. CASE HTTP2Verdict(n)
    <3>1. PICK k \in 1..Len(frames) :
                 At(k) = taken /\ \E r \in Results(k, n) : Accept(k, r) \/ Reject(k, r)
      BY <2>2 DEF HTTP2Verdict
    <3>2. PICK r \in Results(k, n) : Accept(k, r) \/ Reject(k, r)
      BY <3>1
    <3>3. /\ r.code \in Codes
          /\ r.code = "ok" /\ _is_parsed_frame(frames[k]) =>
               \E j \in k..Len(frames) : /\ IsUnit(frames, k, j)
                                         /\ LastFrame(frames, k, r.bytes) = j
      BY <1>2, <3>1, ResultFacts
    <3>4. CASE Accept(k, r) /\ _is_parsed_frame(frames[k])
      <4>1. LastFrame(frames, k, r.bytes) \in 1..Len(frames)
        BY <1>3, <3>3, <3>4 DEF Accept
      <4>2. <<k, LastFrame(frames, k, r.bytes)>> \in P
        BY <4>1
      <4>3. decoded' = Append(decoded, <<k, LastFrame(frames, k, r.bytes)>>) /\ rejected' = rejected
        BY <3>4 DEF Accept
      <4> HIDE DEF P, Q
      <4>4. QED
        BY <1>6, <4>2, <4>3, AppendProperties
    <3>5. CASE Accept(k, r) /\ ~_is_parsed_frame(frames[k])
      BY <1>6, <3>5 DEF Accept
    <3>6. CASE Reject(k, r)
      <4>1. <<k, r.code>> \in Q
        BY <3>3
      <4> HIDE DEF P, Q
      <4>2. QED
        BY <1>6, <3>6, <4>1 DEF Reject
    <3>7. QED
      BY <3>2, <3>4, <3>5, <3>6
  <2>3. QED
    BY <1>1, <2>1, <2>2
<1>8. upgraded' \in BOOLEAN
  <2>1. CASE HTTP1Verdict(n)
    BY <2>1 DEF HTTP1Verdict, AtPreface
  <2>2. CASE HTTP2Verdict(n)
    BY <2>2 DEF HTTP2Verdict, Types, TypeOK
  <2>3. QED
    BY <1>1, <2>1, <2>2
<1>9. QED
  BY <1>1, <1>4, <1>5, <1>7, <1>8 DEF Types, TypeOK

\* Every step keeps the types.
LEMMA NextTypes ==
    ASSUME Types, [Next]_vars
    PROVE  Types'
<1>1. CASE Verdict
  BY <1>1, VerdictTypes
<1>2. ASSUME NEW n \in Nat, Arrive(n) PROVE Types'
  <2>1. Length \in Nat /\ Arrived \in Nat /\ taken \in Nat /\ taken <= Arrived
    BY StreamFacts
  <2>2. /\ Arrived' = Arrived + n /\ Arrived' <= Length
        /\ cuts' = cuts \cup {Arrived + n} /\ Length' = Length
        /\ UNCHANGED <<frames, taken, upgraded, aborted, decoded, rejected>>
    BY <1>2, <2>1, ArriveFacts
  <2>3. cuts' \subseteq 0..Length'
    <3>1. Arrived + n \in 0..Length
      BY <2>1, <2>2
    <3>2. QED
      BY <2>2, <3>1 DEF Types, TypeOK
  <2>4. taken' \in 0..Arrived'
    BY <2>1, <2>2
  <2>5. QED
    BY <2>2, <2>3, <2>4 DEF Types, TypeOK
<1>3. CASE UNCHANGED <<frames, cuts, taken, upgraded, decoded, rejected>> /\ aborted' \in BOOLEAN
  BY <1>3 DEF Types, TypeOK, Arrived, Length, At
<1>4. QED
  BY <1>1, <1>2, <1>3, StepCases

\* However the stream arrives and is cut, the stream parser takes no more than
\* arrived, and what is read or refused is some of the stream's frames.
THEOREM TypeCorrect == Spec => []TypeOK
<1>1. Init => Types
  BY InitTypes
<1>2. Types /\ [Next]_vars => Types'
  BY NextTypes
<1>3. Types => TypeOK
  BY DEF Types
<1>4. QED
  BY <1>1, <1>2, <1>3, PTL DEF Spec

-----------------------------------------------------------------------------
(* The stream parser cuts between units.                                     *)

\* Behind a preface that arrived whole, messages are cut between frames that are
\* not within a unit; behind another nothing is read.
CutBetween ==
    IF upgraded
    THEN WholePreface /\ \E k \in 1..(Len(frames) + 1) : taken = At(k) /\ NoneAcross(frames, k)
    ELSE decoded = <<>> /\ rejected = {} /\ (taken > 0 => ~WholePreface)

\* No unit lies across or before the beginning of the first frame.
LEMMA FirstFrame ==
    ASSUME Types
    PROVE  /\ 1 \in 1..(Len(frames) + 1) /\ At(1) = PrefaceLen
           /\ NoneAcross(frames, 1) /\ UnitsBefore(frames, 1) = {}
<1>1. frames \in Seq(Frame) /\ Len(frames) \in Nat /\ PrefaceLen \in Nat
  BY StreamFacts
<1>2. 1 \in 1..(Len(frames) + 1) /\ At(1) = PrefaceLen
  BY <1>1, OffsetFacts DEF At
<1>3. \A u \in Units(frames) : u[1] \in 1..Len(frames) /\ u[2] \in 1..Len(frames)
  BY UnitsAre
<1>4. \A u \in Units(frames) : ~(u[1] < 1) /\ ~(u[2] < 1)
  BY <1>1, <1>3
<1>5. QED
  BY <1>2, <1>4 DEF NoneAcross, UnitsBefore

\* The first message of a connection is the preface, if it arrived whole.
LEMMA HTTP1Cuts ==
    ASSUME Types, CutBetween, NEW n \in Nat, Ready(n), HTTP1Verdict(n),
           taken' = taken + n, UNCHANGED <<frames, cuts>>
    PROVE  /\ CutBetween' /\ decoded' = <<>> /\ rejected' = {}
           /\ upgraded' => taken' = At(1)
<1>1. /\ taken \in Nat /\ Arrived \in Nat /\ PrefaceLen \in Nat \ {0} /\ Length \in Nat
      /\ cuts \subseteq 0..Length
  BY StreamFacts
<1>2. /\ ~upgraded /\ upgraded' = AtPreface /\ decoded' = <<>> /\ rejected' = {}
      /\ n \in 1..(Arrived - taken) /\ (taken > 0 => ~WholePreface)
      /\ n = IF AtPreface THEN PrefaceLen ELSE SkbSize(taken, 1)
  BY DEF HTTP1Verdict, Ready, skb_parser, CutBetween
<1>3. WholePreface' = WholePreface /\ At(1)' = At(1) /\ taken' > 0
      /\ Len(frames') = Len(frames) /\ NoneAcross(frames', 1) = NoneAcross(frames, 1)
  BY <1>1, <1>2 DEF WholePreface, At
<1>4. 1 \in 1..(Arrived - taken)
  BY <1>1, <1>2
<1>5. /\ SkbSize(taken, 1) \in Nat /\ taken + SkbSize(taken, 1) \in cuts
      /\ \A c \in cuts : c >= taken + 1 => taken + SkbSize(taken, 1) <= c
      /\ SkbSize(taken, 1) >= 1
  BY <1>4, SkbFacts
<1>6. CASE AtPreface
  <2>1. taken = 0 /\ SkbSize(0, 1) >= PrefaceLen
    BY <1>6 DEF AtPreface
  <2>2. WholePreface
    <3>1. SUFFICES ASSUME NEW c \in cuts, c \in 1..(PrefaceLen - 1) PROVE FALSE
      BY DEF WholePreface
    <3>2. c >= taken + 1
      BY <1>1, <2>1, <3>1
    <3>3. SkbSize(0, 1) <= c /\ SkbSize(0, 1) \in Nat
      BY <1>5, <2>1, <3>2
    <3>4. QED
      BY <1>1, <2>1, <3>1, <3>3
  <2>3. taken' = At(1) /\ NoneAcross(frames, 1) /\ 1 \in 1..(Len(frames) + 1)
    <3>1. taken' = PrefaceLen
      BY <1>1, <1>2, <1>6, <2>1
    <3>2. QED
      BY <3>1, FirstFrame
  <2>4. upgraded' /\ WholePreface'
    BY <1>2, <1>3, <1>6, <2>2
  <2>5. CutBetween'
    BY <1>3, <2>3, <2>4 DEF CutBetween
  <2>6. QED
    BY <1>2, <2>3, <2>5
<1>7. CASE ~AtPreface
  <2>1. ~WholePreface
    <3>1. CASE taken > 0
      BY <1>2, <3>1
    <3>2. CASE ~(taken > 0)
      <4>1. taken = 0 /\ SkbSize(0, 1) \in Nat /\ SkbSize(0, 1) \in cuts /\ SkbSize(0, 1) >= 1
        BY <1>1, <1>5, <3>2
      <4>2. ~(SkbSize(0, 1) >= PrefaceLen)
        BY <1>7, <4>1 DEF AtPreface
      <4>3. SkbSize(0, 1) \in 1..(PrefaceLen - 1)
        BY <1>1, <4>1, <4>2
      <4>4. QED
        BY <4>1, <4>3 DEF WholePreface
    <3>3. QED
      BY <3>1, <3>2
  <2>2. ~upgraded' /\ ~WholePreface'
    BY <1>2, <1>3, <1>7, <2>1
  <2>3. QED
    BY <1>2, <2>2 DEF CutBetween
<1>8. QED
  BY <1>6, <1>7

\* A message of an upgraded connection is cut behind its last frame.
LEMMA HTTP2Cuts ==
    ASSUME Types, SoundStreams, CutBetween, NEW n \in Nat, Ready(n), HTTP2Verdict(n),
           taken' = taken + n, UNCHANGED <<frames, cuts>>
    PROVE  /\ CutBetween' /\ upgraded /\ upgraded'
           /\ \E k \in 1..Len(frames) : \E e \in k..Len(frames) :
                /\ At(k) = taken /\ NoneAcross(frames, k) /\ Message(k, e)
                /\ taken' = At(e + 1) /\ n \in 1..(Arrived - taken)
                /\ n = Offset(frames, e + 1) - Offset(frames, k)
                /\ \E r \in Results(k, n) : Accept(k, r) \/ Reject(k, r)
<1>1. upgraded /\ upgraded' = upgraded
  BY DEF HTTP2Verdict
<1>2. PICK k \in 1..Len(frames) :
             At(k) = taken /\ \E r \in Results(k, n) : Accept(k, r) \/ Reject(k, r)
  BY DEF HTTP2Verdict
<1>3. n \in 1..(Arrived - taken) /\ \E c \in cuts : n = h2_msg_len(k, c)
  BY <1>1, <1>2, MessageLen
<1>4. PICK e \in k..Len(frames) : n = Offset(frames, e + 1) - Offset(frames, k) /\ Message(k, e)
  <2>1. PICK c \in cuts : n = h2_msg_len(k, c)
    BY <1>3
  <2>2. c \in Nat /\ h2_msg_len(k, c) # 0
    BY <1>3, <2>1, StreamFacts
  <2>3. QED
    BY <2>1, <2>2, MessageFrames
<1>5. Len(frames) \in Nat /\ taken \in Nat /\ PrefaceLen \in Nat
  BY StreamFacts
<1>6. k \in 1..(Len(frames) + 1) /\ e + 1 \in 1..(Len(frames) + 1)
  BY <1>5
<1>7. taken' = At(e + 1)
  <2>1. /\ Offset(frames, k) \in Nat /\ At(k) = PrefaceLen + Offset(frames, k)
        /\ Offset(frames, e + 1) \in Nat /\ At(e + 1) = PrefaceLen + Offset(frames, e + 1)
    BY <1>6, StreamFacts
  <2>2. taken + n = At(e + 1)
    BY <1>2, <1>3, <1>4, <1>5, <2>1
  <2>3. QED
    BY <2>2
<1>8. NoneAcross(frames, k)
  <2>1. PICK i \in 1..(Len(frames) + 1) : taken = At(i) /\ NoneAcross(frames, i)
    BY <1>1 DEF CutBetween
  <2>2. i = k
    BY <1>2, <1>6, <2>1, AtOrder
  <2>3. QED
    BY <2>1, <2>2
<1>9. CutBetween'
  <2>1. NoneAcross(frames, e + 1)
    BY <1>4, <1>8, MessagePassed
  <2>2. /\ WholePreface' = WholePreface /\ At(e + 1)' = At(e + 1) /\ Len(frames') = Len(frames)
        /\ NoneAcross(frames', e + 1) = NoneAcross(frames, e + 1)
    BY DEF WholePreface, At
  <2>3. QED
    BY <1>1, <1>6, <1>7, <2>1, <2>2 DEF CutBetween
<1>10. QED
  BY <1>1, <1>2, <1>3, <1>4, <1>7, <1>8, <1>9

\* What arrives cuts no preface that was taken.
LEMMA ArriveCuts ==
    ASSUME Types, CutBetween, NEW n \in Nat, Arrive(n)
    PROVE  CutBetween'
<1>1. /\ cuts' = cuts \cup {Arrived + n} /\ n > 0
      /\ UNCHANGED <<frames, taken, upgraded, aborted, decoded, rejected>>
  BY ArriveFacts
<1>2. /\ Len(frames') = Len(frames)
      /\ \A k : At(k)' = At(k) /\ NoneAcross(frames', k) = NoneAcross(frames, k)
  BY <1>1 DEF At
<1>3. CASE ~upgraded
  <2>1. ~WholePreface => ~WholePreface'
    BY <1>1 DEF WholePreface
  <2>2. QED
    BY <1>1, <1>3, <2>1 DEF CutBetween
<1>4. CASE upgraded
  <2>1. PICK k \in 1..(Len(frames) + 1) : taken = At(k) /\ NoneAcross(frames, k)
    BY <1>4 DEF CutBetween
  <2>2. PrefaceLen \in Nat /\ taken \in Nat /\ taken <= Arrived /\ Arrived \in Nat
    BY StreamFacts
  <2>3. Offset(frames, k) \in Nat /\ At(k) = PrefaceLen + Offset(frames, k)
    BY StreamFacts
  <2>4. Arrived + n \notin 1..(PrefaceLen - 1)
    BY <2>1, <2>2, <2>3
  <2>5. WholePreface'
    BY <1>1, <1>4, <2>4 DEF CutBetween, WholePreface
  <2>6. QED
    BY <1>1, <1>2, <1>4, <2>1, <2>5 DEF CutBetween
<1>5. QED
  BY <1>3, <1>4

\* Every step cuts between units.
LEMMA NextCuts ==
    ASSUME Types, SoundStreams, CutBetween, [Next]_vars
    PROVE  CutBetween'
<1>1. CASE Verdict
  <2>1. PICK n \in Nat : /\ n \in 1..(Arrived - taken) /\ Ready(n)
                         /\ HTTP1Verdict(n) \/ HTTP2Verdict(n)
                         /\ taken' = taken + n /\ UNCHANGED <<frames, cuts, aborted>>
    BY <1>1, VerdictStep
  <2>2. QED
    BY <2>1, HTTP1Cuts, HTTP2Cuts
<1>2. ASSUME NEW n \in Nat, Arrive(n) PROVE CutBetween'
  BY <1>2, ArriveCuts
<1>3. CASE UNCHANGED <<frames, cuts, taken, upgraded, decoded, rejected>>
  BY <1>3 DEF CutBetween, WholePreface, At
<1>4. QED
  BY <1>1, <1>2, <1>3, StepCases

-----------------------------------------------------------------------------
(* What is read and refused.                                                 *)

\* The frames an error was reported for lie before the message at the front.
RejectedBefore == \A q \in rejected : At(q[1]) < taken

\* A message an error is reported for is taken.
LEMMA NextRejectedBefore ==
    ASSUME Types, RejectedBefore, [Next]_vars
    PROVE  RejectedBefore'
<1>1. \A q \in rejected : At(q[1]) \in Nat
  <2>1. SUFFICES ASSUME NEW q \in rejected PROVE At(q[1]) \in Nat
    OBVIOUS
  <2>2. q[1] \in 1..Len(frames) /\ Len(frames) \in Nat
    BY StreamFacts DEF Types, TypeOK
  <2>3. q[1] \in 1..(Len(frames) + 1)
    BY <2>2
  <2>4. Offset(frames, q[1]) \in Nat /\ At(q[1]) = PrefaceLen + Offset(frames, q[1])
    BY <2>3, StreamFacts
  <2>5. QED
    BY <2>4, StreamFacts
<1>2. ASSUME frames' = frames PROVE \A i : At(i)' = At(i)
  BY <1>2 DEF At
<1>3. CASE Verdict
  <2>1. PICK n \in Nat : /\ n \in 1..(Arrived - taken) /\ Ready(n)
                         /\ HTTP1Verdict(n) \/ HTTP2Verdict(n)
                         /\ taken' = taken + n /\ UNCHANGED <<frames, cuts, aborted>>
    BY <1>3, VerdictStep
  <2>2. taken \in Nat /\ taken < taken'
    BY <2>1, StreamFacts
  <2>3. \A q \in rejected : At(q[1]) < taken'
    BY <1>1, <2>2, <2>1 DEF RejectedBefore
  <2>4. rejected' = rejected \/ \E k \in 1..Len(frames), c \in Codes :
                                   At(k) = taken /\ rejected' = rejected \cup {<<k, c>>}
    <3>1. CASE HTTP1Verdict(n)
      BY <3>1 DEF HTTP1Verdict
    <3>2. CASE HTTP2Verdict(n)
      <4>1. PICK k \in 1..Len(frames) :
                   At(k) = taken /\ \E r \in Results(k, n) : Accept(k, r) \/ Reject(k, r)
        BY <3>2 DEF HTTP2Verdict
      <4>2. PICK r \in Results(k, n) : Accept(k, r) \/ Reject(k, r)
        BY <4>1
      <4>3. r.code \in Codes
        BY <2>1, <4>1, ResultFacts
      <4>4. QED
        BY <4>1, <4>2, <4>3 DEF Accept, Reject
    <3>3. QED
      BY <2>1, <3>1, <3>2
  <2>5. \A q \in rejected' : At(q[1]) < taken'
    <3>1. CASE rejected' = rejected
      BY <2>3, <3>1
    <3>2. CASE rejected' # rejected
      <4>1. PICK k \in 1..Len(frames), c \in Codes :
                   At(k) = taken /\ rejected' = rejected \cup {<<k, c>>}
        BY <2>4, <3>2
      <4>2. \A q \in rejected' : q \in rejected \/ q[1] = k
        BY <4>1
      <4>3. QED
        BY <2>2, <2>3, <4>1, <4>2
    <3>3. QED
      BY <3>1, <3>2
  <2>6. QED
    BY <1>2, <2>1, <2>5 DEF RejectedBefore
<1>4. ASSUME NEW n \in Nat, Arrive(n) PROVE RejectedBefore'
  BY <1>2, <1>4, ArriveFacts DEF RejectedBefore
<1>5. CASE UNCHANGED <<frames, cuts, taken, upgraded, decoded, rejected>>
  BY <1>2, <1>5 DEF RejectedBefore
<1>6. QED
  BY <1>3, <1>4, <1>5, StepCases

\* An error that is reported is one of the message's own.
LEMMA NextRefuses ==
    ASSUME Types, SoundStreams, CutBetween, RejectedBefore, RefusesOnlyBroken, [Next]_vars
    PROVE  RefusesOnlyBroken'
<1> DEFINE Right(q, off) ==
               IF q[2] = "toobig" THEN Unreadable(frames, q[1]) \/ OutOfReach(frames, q[1], off)
               ELSE _violates_block_rules(frames[q[1]]) \/ IsBroken(q[1])
<1>1. ASSUME frames' = frames, \A q \in rejected' : Right(q, SkbOffset(At(q[1]))')
      PROVE  RefusesOnlyBroken'
  BY <1>1 DEF RefusesOnlyBroken, IsBroken
<1>2. \A q \in rejected : Right(q, SkbOffset(At(q[1])))
  BY DEF RefusesOnlyBroken
<1>3. ASSUME frames' = frames, cuts' = cuts PROVE \A i : SkbOffset(At(i))' = SkbOffset(At(i))
  BY <1>3 DEF SkbOffset, At
<1>4. CASE Verdict
  <2>1. PICK n \in Nat : /\ n \in 1..(Arrived - taken) /\ Ready(n)
                         /\ HTTP1Verdict(n) \/ HTTP2Verdict(n)
                         /\ taken' = taken + n /\ UNCHANGED <<frames, cuts, aborted>>
    BY <1>4, VerdictStep
  <2>2. \A i : SkbOffset(At(i))' = SkbOffset(At(i))
    BY <1>3, <2>1
  <2>3. \A q \in rejected' : Right(q, SkbOffset(At(q[1])))
    <3>1. CASE HTTP1Verdict(n)
      BY <1>2, <3>1 DEF HTTP1Verdict
    <3>2. CASE HTTP2Verdict(n)
      <4>1. \E k \in 1..Len(frames) : \E e \in k..Len(frames) :
               /\ At(k) = taken /\ NoneAcross(frames, k) /\ Message(k, e)
               /\ taken' = At(e + 1) /\ n \in 1..(Arrived - taken)
               /\ n = Offset(frames, e + 1) - Offset(frames, k)
               /\ \E r \in Results(k, n) : Accept(k, r) \/ Reject(k, r)
        BY <2>1, <3>2, HTTP2Cuts
      <4>2. PICK k \in 1..Len(frames) : \E e \in k..Len(frames) :
               /\ At(k) = taken /\ Message(k, e) /\ n \in 1..(Arrived - taken)
               /\ n = Offset(frames, e + 1) - Offset(frames, k)
               /\ \E r \in Results(k, n) : Accept(k, r) \/ Reject(k, r)
        BY <4>1
      <4>3. PICK e \in k..Len(frames) :
               /\ At(k) = taken /\ Message(k, e) /\ n \in 1..(Arrived - taken)
               /\ n = Offset(frames, e + 1) - Offset(frames, k)
               /\ \E r \in Results(k, n) : Accept(k, r) \/ Reject(k, r)
        BY <4>2
      <4>4. PICK r \in Results(k, n) : Accept(k, r) \/ Reject(k, r)
        BY <4>3
      <4>5. /\ r.code = "toobig" =>
                 Unreadable(frames, k) \/ OutOfReach(frames, k, SkbOffset(At(k)))
            /\ r.code \notin {"ok", "toobig"} =>
                 _violates_block_rules(frames[k]) \/ IsBroken(k)
        BY <4>3, MessageRead
      <4>6. CASE Accept(k, r)
        BY <1>2, <4>6 DEF Accept
      <4>7. CASE Reject(k, r)
        <5>1. r.code # "ok" /\ rejected' = rejected \cup {<<k, r.code>>}
          BY <4>7 DEF Reject
        <5>2. Right(<<k, r.code>>, SkbOffset(At(k)))
          BY <4>5, <5>1
        <5> HIDE DEF Right
        <5>3. QED
          BY <1>2, <5>1, <5>2
      <4>8. QED
        BY <4>4, <4>6, <4>7
    <3>3. QED
      BY <2>1, <3>1, <3>2
  <2> HIDE DEF Right
  <2>4. QED
    BY <1>1, <2>1, <2>2, <2>3
<1>5. ASSUME NEW n \in Nat, Arrive(n) PROVE RefusesOnlyBroken'
  <2>1. UNCHANGED <<frames, rejected>>
    BY <1>5, ArriveFacts
  <2>2. \A q \in rejected : At(q[1]) \in Nat /\ At(q[1])' = At(q[1])
    <3>1. SUFFICES ASSUME NEW q \in rejected PROVE At(q[1]) \in Nat
      BY <2>1 DEF At
    <3>2. q[1] \in 1..Len(frames) /\ Len(frames) \in Nat
      BY StreamFacts DEF Types, TypeOK
    <3>3. q[1] \in 1..(Len(frames) + 1)
      BY <3>2
    <3>4. Offset(frames, q[1]) \in Nat /\ At(q[1]) = PrefaceLen + Offset(frames, q[1])
      BY <3>3, StreamFacts
    <3>5. QED
      BY <3>4, StreamFacts
  <2>3. ASSUME NEW q \in rejected PROVE SkbOffset(At(q[1]))' = SkbOffset(At(q[1]))
    <3>1. PICK at : at = At(q[1])
      OBVIOUS
    <3>2. at \in Nat /\ at < taken
      BY <2>2, <3>1 DEF RejectedBefore
    <3>3. {c \in cuts' : c <= at} = {c \in cuts : c <= at}
      <4>1. cuts' = cuts \cup {Arrived + n} /\ n > 0
        BY <1>5, ArriveFacts
      <4>2. taken \in Nat /\ taken <= Arrived /\ Arrived \in Nat
        BY StreamFacts
      <4>3. ~(Arrived + n <= at)
        BY <3>2, <4>1, <4>2
      <4>4. QED
        BY <4>1, <4>3
    <3>4. At(q[1])' = at
      BY <2>2, <3>1
    <3>5. QED
      BY <3>1, <3>3, <3>4 DEF SkbOffset
  <2> HIDE DEF Right
  <2>4. QED
    BY <1>1, <1>2, <2>1, <2>3
<1>6. CASE UNCHANGED <<frames, cuts, taken, upgraded, decoded, rejected>>
  <2> HIDE DEF Right
  <2>1. QED
    BY <1>1, <1>2, <1>3, <1>6
<1>7. QED
  BY <1>4, <1>5, <1>6, StepCases

\* The units before frame k but for those refused as too big.
ReadBefore(k) == {u \in UnitsBefore(frames, k) : <<u[1], "toobig">> \notin rejected}

\* The units that the messages cut so far hold are those that were read, in order.
ReadUpTo ==
    /\ upgraded => \A k \in 1..(Len(frames) + 1) :
                      taken = At(k) => Range(decoded) = ReadBefore(k)
    /\ \A i \in 2..Len(decoded) : decoded[i - 1][1] < decoded[i][1]

\* What is read of a message comes behind all that was read.
LEMMA UnitAppended ==
    ASSUME Types, ReadUpTo, NEW k \in 1..Len(frames), NEW e \in 1..Len(frames),
           Range(decoded) \subseteq UnitsBefore(frames, k),
           decoded' = Append(decoded, <<k, e>>)
    PROVE  /\ Range(decoded') = Range(decoded) \cup {<<k, e>>}
           /\ \A i \in 2..Len(decoded') : decoded'[i - 1][1] < decoded'[i][1]
<1> DEFINE P == (1..Len(frames)) \X (1..Len(frames))
           u == <<k, e>>
<1>1. decoded \in Seq(P) /\ u \in P /\ Len(frames) \in Nat
  BY StreamFacts DEF Types, TypeOK
<1> HIDE DEF P
<1>2. Range(decoded') = Range(decoded) \cup {u}
  BY <1>1, RangeAppend
<1>3. /\ Len(decoded) \in Nat /\ Len(decoded') = Len(decoded) + 1
      /\ \A i \in 1..Len(decoded) : decoded'[i] = decoded[i]
      /\ decoded'[Len(decoded) + 1] = u
  BY <1>1, AppendProperties, LenProperties
<1>4. \A i \in 1..Len(decoded) : decoded[i] \in Range(decoded)
  BY <1>1, LenProperties DEF Range
<1>5. \A i \in 1..Len(decoded) : decoded[i][1] < k
  <2>1. SUFFICES ASSUME NEW i \in 1..Len(decoded) PROVE decoded[i][1] < k
    OBVIOUS
  <2>2. PICK v \in Units(frames) : v = decoded[i] /\ v[2] < k
    BY <1>4 DEF UnitsBefore
  <2>3. v[1] \in 1..Len(frames) /\ v[2] \in 1..Len(frames) /\ v[1] <= v[2]
    BY UnitsAre
  <2>4. v[1] < k
    BY <1>1, <2>2, <2>3
  <2>5. QED
    BY <2>2, <2>4
<1>6. ASSUME NEW i \in 2..Len(decoded') PROVE decoded'[i - 1][1] < decoded'[i][1]
  <2>1. i - 1 \in 1..Len(decoded) /\ (i \in 2..Len(decoded) \/ i = Len(decoded) + 1)
    BY <1>3
  <2>2. CASE i \in 2..Len(decoded)
    <3>1. decoded'[i - 1] = decoded[i - 1] /\ decoded'[i] = decoded[i]
      BY <1>3, <2>1, <2>2
    <3>2. QED
      BY <2>2, <3>1 DEF ReadUpTo
  <2>3. CASE i = Len(decoded) + 1
    <3>1. decoded'[i - 1] = decoded[i - 1] /\ decoded'[i] = u /\ u[1] = k
      BY <1>3, <2>1, <2>3
    <3>2. QED
      BY <1>5, <2>1, <3>1
  <2>4. QED
    BY <2>1, <2>2, <2>3
<1>7. QED
  BY <1>2, <1>6

\* Behind a message that was read there are the units of before, and it if it is one.
LEMMA MessageAccepted ==
    ASSUME Types, RejectedBefore, NEW k \in 1..Len(frames), NEW e \in 1..Len(frames),
           At(k) = taken, Range(decoded) = ReadBefore(k),
           UnitsBefore(frames, e + 1) = UnitsBefore(frames, k) \cup {<<k, e>>},
           decoded' = Append(decoded, <<k, e>>), ReadUpTo
    PROVE  /\ Range(decoded') = ReadBefore(e + 1)
           /\ \A i \in 2..Len(decoded') : decoded'[i - 1][1] < decoded'[i][1]
<1>1. <<k, "toobig">> \notin rejected
  <2>1. k \in 1..(Len(frames) + 1)
    BY StreamFacts
  <2>2. taken \in Nat /\ At(k) = taken
    BY StreamFacts
  <2>3. ~(At(k) < taken)
    BY <2>2
  <2>4. QED
    BY <2>3 DEF RejectedBefore
<1>2. ReadBefore(e + 1) = ReadBefore(k) \cup {<<k, e>>}
  BY <1>1 DEF ReadBefore
<1>3. Range(decoded) \subseteq UnitsBefore(frames, k)
  BY DEF ReadBefore
<1>4. QED
  BY <1>2, <1>3, UnitAppended

\* Behind a message that was refused, or is no unit, there are those of before.
LEMMA MessageRefused ==
    ASSUME Types, NEW k \in 1..Len(frames), NEW e \in k..Len(frames), NEW code,
           UnitsBefore(frames, e + 1) = IF IsUnit(frames, k, e)
                                        THEN UnitsBefore(frames, k) \cup {<<k, e>>}
                                        ELSE UnitsBefore(frames, k),
           code # "toobig" => ~IsUnit(frames, k, e)
    PROVE  {u \in UnitsBefore(frames, e + 1) :
                <<u[1], "toobig">> \notin rejected \cup {<<k, code>>}} = ReadBefore(k)
<1>0. Len(frames) \in Nat
  BY StreamFacts
<1>1. \A u \in UnitsBefore(frames, k) : u[1] # k
  <2>1. SUFFICES ASSUME NEW u \in Units(frames), u[2] < k PROVE u[1] # k
    BY DEF UnitsBefore
  <2>2. u[1] \in 1..Len(frames) /\ u[2] \in 1..Len(frames) /\ u[1] <= u[2]
    BY UnitsAre
  <2>3. QED
    BY <1>0, <2>1, <2>2
<1>2. \A u \in UnitsBefore(frames, k) : <<u[1], "toobig">> # <<k, code>>
  BY <1>1
<1>3. CASE code = "toobig"
  <2>1. <<<<k, e>>[1], "toobig">> = <<k, code>>
    BY <1>3
  <2>2. QED
    BY <1>2, <2>1 DEF ReadBefore
<1>4. CASE code # "toobig"
  BY <1>2, <1>4 DEF ReadBefore
<1>5. QED
  BY <1>3, <1>4

\* A unit that a message holds is read, or refused as too big.
LEMMA NextReads ==
    ASSUME Types, SoundStreams, CutBetween, RejectedBefore, ReadUpTo, [Next]_vars
    PROVE  ReadUpTo'
<1> DEFINE Before(R, k) == {u \in UnitsBefore(frames, k) : <<u[1], "toobig">> \notin R}
           InOrder(d) == \A i \in 2..Len(d) : d[i - 1][1] < d[i][1]
<1>1. ASSUME frames' = frames, InOrder(decoded'), NEW k \in 1..(Len(frames) + 1),
             upgraded' => taken' = At(k), upgraded' => Range(decoded') = Before(rejected', k)
      PROVE  ReadUpTo'
  <2>1. \A i : At(i)' = At(i)
    BY <1>1 DEF At
  <2>2. \A i \in 1..(Len(frames) + 1) : At(i) = At(k) => i = k
    BY AtOrder
  <2>3. \A i \in 1..(Len(frames) + 1) :
           upgraded' /\ taken' = At(i) => Range(decoded') = Before(rejected', i)
    BY <1>1, <2>2
  <2> HIDE DEF InOrder
  <2>4. QED
    BY <1>1, <2>1, <2>3 DEF ReadUpTo, ReadBefore, InOrder
<1>2. CASE UNCHANGED <<frames, cuts, taken, upgraded, decoded, rejected>>
  BY <1>2 DEF ReadUpTo, ReadBefore, At
<1>3. ASSUME NEW n \in Nat, Arrive(n) PROVE ReadUpTo'
  BY <1>3, ArriveFacts DEF ReadUpTo, ReadBefore, At
<1>4. ASSUME NEW n \in Nat, Ready(n), HTTP1Verdict(n),
             taken' = taken + n, UNCHANGED <<frames, cuts>>
      PROVE  ReadUpTo'
  <2>1. decoded' = <<>> /\ (upgraded' => taken' = At(1))
    BY <1>4, HTTP1Cuts
  <2>2. Range(decoded') = {} /\ Len(decoded') = 0
    BY <2>1 DEF Range
  <2>3. Before(rejected', 1) = {} /\ 1 \in 1..(Len(frames) + 1)
    BY FirstFrame
  <2>4. InOrder(decoded')
    BY <2>2
  <2> HIDE DEF Before, InOrder
  <2>5. QED
    BY <1>1, <1>4, <2>1, <2>2, <2>3, <2>4
<1>5. ASSUME NEW n \in Nat, Ready(n), HTTP2Verdict(n),
             taken' = taken + n, UNCHANGED <<frames, cuts>>
      PROVE  ReadUpTo'
  <2>1. /\ upgraded
        /\ \E k \in 1..Len(frames) : \E e \in k..Len(frames) :
             /\ At(k) = taken /\ NoneAcross(frames, k) /\ Message(k, e)
             /\ taken' = At(e + 1) /\ n \in 1..(Arrived - taken)
             /\ n = Offset(frames, e + 1) - Offset(frames, k)
             /\ \E r \in Results(k, n) : Accept(k, r) \/ Reject(k, r)
    BY <1>5, HTTP2Cuts
  <2>2. PICK k \in 1..Len(frames) : \E e \in k..Len(frames) :
             /\ At(k) = taken /\ NoneAcross(frames, k) /\ Message(k, e)
             /\ taken' = At(e + 1) /\ n \in 1..(Arrived - taken)
             /\ n = Offset(frames, e + 1) - Offset(frames, k)
             /\ \E r \in Results(k, n) : Accept(k, r) \/ Reject(k, r)
    BY <2>1
  <2>3. PICK e \in k..Len(frames) :
             /\ At(k) = taken /\ NoneAcross(frames, k) /\ Message(k, e)
             /\ taken' = At(e + 1) /\ n \in 1..(Arrived - taken)
             /\ n = Offset(frames, e + 1) - Offset(frames, k)
             /\ \E r \in Results(k, n) : Accept(k, r) \/ Reject(k, r)
    BY <2>2
  <2>4. PICK r \in Results(k, n) : Accept(k, r) \/ Reject(k, r)
    BY <2>3
  <2>5. Len(frames) \in Nat
    BY StreamFacts
  <2>6. k \in 1..(Len(frames) + 1) /\ e \in 1..Len(frames) /\ e + 1 \in 1..(Len(frames) + 1)
    BY <2>5
  <2>7. /\ r.code = "ok" /\ _is_parsed_frame(frames[k]) =>
             IsUnit(frames, k, e) /\ LastFrame(frames, k, r.bytes) = e
        /\ r.code = "ok" /\ ~_is_parsed_frame(frames[k]) => ~IsUnit(frames, k, e)
        /\ r.code \notin {"ok", "toobig"} => ~IsUnit(frames, k, e)
    BY <2>3, MessageRead
  <2>8. Range(decoded) = ReadBefore(k) /\ InOrder(decoded)
    BY <2>1, <2>3, <2>6 DEF ReadUpTo
  <2>9. UnitsBefore(frames, e + 1) = IF IsUnit(frames, k, e)
                                     THEN UnitsBefore(frames, k) \cup {<<k, e>>}
                                     ELSE UnitsBefore(frames, k)
    BY <2>3, MessagePassed
  <2>10. Range(decoded') = Before(rejected', e + 1) /\ InOrder(decoded')
    <3>1. CASE Accept(k, r) /\ _is_parsed_frame(frames[k])
      <4>1. /\ IsUnit(frames, k, e) /\ decoded' = Append(decoded, <<k, e>>)
            /\ rejected' = rejected
        BY <2>7, <3>1 DEF Accept
      <4>2. UnitsBefore(frames, e + 1) = UnitsBefore(frames, k) \cup {<<k, e>>}
        BY <2>9, <4>1
      <4>3. Range(decoded') = ReadBefore(e + 1) /\ InOrder(decoded')
        BY <2>3, <2>6, <2>8, <4>1, <4>2, MessageAccepted
      <4>4. QED
        BY <4>1, <4>3 DEF ReadBefore
    <3>2. CASE Accept(k, r) /\ ~_is_parsed_frame(frames[k])
      <4>1. decoded' = decoded /\ rejected' = rejected /\ ~IsUnit(frames, k, e)
        BY <2>7, <3>2 DEF Accept
      <4>2. Before(rejected', e + 1) = ReadBefore(k)
        BY <2>9, <4>1 DEF ReadBefore
      <4> HIDE DEF Before, InOrder
      <4>3. QED
        BY <2>8, <4>1, <4>2
    <3>3. CASE Reject(k, r)
      <4>1. r.code # "ok" /\ decoded' = decoded /\ rejected' = rejected \cup {<<k, r.code>>}
        BY <3>3 DEF Reject
      <4>2. r.code # "toobig" => ~IsUnit(frames, k, e)
        BY <2>7, <4>1
      <4>3. Before(rejected \cup {<<k, r.code>>}, e + 1) = ReadBefore(k)
        BY <2>9, <4>2, MessageRefused
      <4> HIDE DEF Before, InOrder
      <4>4. QED
        BY <2>8, <4>1, <4>3
    <3>4. QED
      BY <2>4, <3>1, <3>2, <3>3
  <2> HIDE DEF Before, InOrder
  <2>11. QED
    BY <1>1, <1>5, <2>3, <2>6, <2>10
<1>6. CASE Verdict
  <2>1. PICK n \in Nat : /\ n \in 1..(Arrived - taken) /\ Ready(n)
                         /\ HTTP1Verdict(n) \/ HTTP2Verdict(n)
                         /\ taken' = taken + n /\ UNCHANGED <<frames, cuts, aborted>>
    BY <1>6, VerdictStep
  <2>2. QED
    BY <1>4, <1>5, <2>1
<1>7. QED
  BY <1>2, <1>3, <1>6, StepCases

\* Behind a preface that arrived whole, those are all the units, and behind
\* another there are none.
LEMMA ReadDecodes ==
    ASSUME Types, CutBetween, ReadUpTo
    PROVE  DecodesUnits
<1>1. /\ frames \in Seq(Frame) /\ Len(frames) \in Nat /\ PrefaceLen \in Nat \ {0}
      /\ taken \in Nat
  BY StreamFacts
<1>2. \A u \in Units(frames) : u[2] \in 1..Len(frames)
  BY UnitsAre
<1>3. \A i \in 2..Len(decoded) : decoded[i - 1][1] < decoded[i][1]
  BY DEF ReadUpTo
<1>4. CASE upgraded
  <2>1. PICK k \in 1..(Len(frames) + 1) : taken = At(k)
    BY <1>4 DEF CutBetween
  <2>2. WholePreface /\ Range(decoded) = ReadBefore(k)
    BY <1>4, <2>1 DEF CutBetween, ReadUpTo
  <2>3. ASSUME NEW u \in Units(frames) PROVE At(u[2] + 1) <= taken <=> u[2] < k
    <3>1. u[2] + 1 \in 1..(Len(frames) + 1) /\ u[2] \in Nat
      BY <1>1, <1>2
    <3>2. At(u[2] + 1) <= At(k) <=> u[2] + 1 <= k
      BY <3>1, AtOrder
    <3>3. QED
      BY <1>1, <2>1, <3>1, <3>2
  <2>4. QED
    BY <1>3, <2>2, <2>3 DEF DecodesUnits, UnitsBefore, ReadBefore
<1>5. CASE ~upgraded
  <2>1. decoded = <<>> /\ rejected = {} /\ (WholePreface => taken = 0)
    BY <1>1, <1>5 DEF CutBetween
  <2>2. ASSUME NEW u \in Units(frames), WholePreface PROVE ~(At(u[2] + 1) <= taken)
    <3>1. u[2] + 1 \in 1..(Len(frames) + 1)
      BY <1>1, <1>2
    <3>2. Offset(frames, u[2] + 1) \in Nat /\ At(u[2] + 1) = PrefaceLen + Offset(frames, u[2] + 1)
      BY <3>1, StreamFacts
    <3>3. QED
      BY <1>1, <2>1, <2>2, <3>2
  <2>3. Range(decoded) = {}
    BY <2>1 DEF Range
  <2>4. QED
    BY <1>3, <2>1, <2>2, <2>3 DEF DecodesUnits
<1>6. QED
  BY <1>4, <1>5

\* Of a peer whose frames can be read, and whose blocks fit one message, the
\* sk_skb verdict reads every block and every frame of settings that was cut off
\* the stream, once and in order, but for those it refused as too big, for any
\* stream behind a preface and however it arrives; without a preface it reads nothing.
THEOREM EveryUnitRead ==
    ASSUME SoundStreams
    PROVE  Spec => []DecodesUnits
<1>1. Init => Types /\ CutBetween /\ RejectedBefore /\ ReadUpTo
  BY InitTypes DEF Init, CutBetween, RejectedBefore, ReadUpTo
<1>2. Types /\ CutBetween /\ RejectedBefore /\ ReadUpTo /\ [Next]_vars
        => (Types /\ CutBetween /\ RejectedBefore /\ ReadUpTo)'
  BY NextTypes, NextCuts, NextRejectedBefore, NextReads
<1>3. Types /\ CutBetween /\ ReadUpTo => DecodesUnits
  BY ReadDecodes
<1>4. QED
  BY <1>1, <1>2, <1>3, PTL DEF Spec

\* Of such a peer the verdict refuses a message only for a frame or block that is
\* too long, or ends beyond MAX_BYTES of the sk_buff it begins in, for one that is
\* broken or for a frame that breaks the rules, and never for how the stream was
\* cut: a message is not handed over a second time.
THEOREM NoneRefusedWrongly ==
    ASSUME SoundStreams
    PROVE  Spec => []RefusesOnlyBroken
<1>1. Init => Types /\ CutBetween /\ RejectedBefore /\ RefusesOnlyBroken
  BY InitTypes DEF Init, CutBetween, RejectedBefore, RefusesOnlyBroken
<1>2. Types /\ CutBetween /\ RejectedBefore /\ RefusesOnlyBroken /\ [Next]_vars
        => (Types /\ CutBetween /\ RejectedBefore /\ RefusesOnlyBroken)'
  BY NextTypes, NextCuts, NextRejectedBefore, NextRefuses
<1>3. QED
  BY <1>1, <1>2, PTL DEF Spec

-----------------------------------------------------------------------------
(* What the stream parser gives up on.                                       *)

\* Frame j breaks into the block frame k opens, for h2_msg_len.
Breaks(k, j) == j > k /\ frames[j].type # "continuation"

\* The frames a message can be seen to end with, or before, in `upto' bytes.
Ends(k, upto) == {j \in k..Len(frames) : /\ At(j) + PeekLen <= upto
                                         /\ Breaks(k, j) \/ LastOfMessage(k, j)}

LenTo(k, j) == IF Breaks(k, j) THEN Offset(frames, j) - Offset(frames, k)
               ELSE Offset(frames, j + 1) - Offset(frames, k)

\* The length is that up to the first of them.
LEMMA LenFacts ==
    ASSUME Types, NEW k \in 1..Len(frames), NEW upto \in Nat
    PROVE  \/ Ends(k, upto) = {} /\ h2_msg_len(k, upto) = 0
           \/ \E m \in Ends(k, upto) :
                 /\ \A j \in Ends(k, upto) : m <= j
                 /\ h2_msg_len(k, upto) = LenTo(k, m) /\ LenTo(k, m) \in Nat /\ LenTo(k, m) > 0
<1>0. frames \in Seq(Frame) /\ Len(frames) \in Nat /\ k \in 1..(Len(frames) + 1)
  BY StreamFacts
<1>1. h2_msg_len(k, upto) = IF Ends(k, upto) = {} THEN 0 ELSE LenTo(k, Min(Ends(k, upto)))
  BY DEF h2_msg_len, Ends, LenTo, Breaks
<1>2. CASE Ends(k, upto) = {}
  BY <1>1, <1>2
<1>3. CASE Ends(k, upto) # {}
  <2>1. Ends(k, upto) \subseteq Nat
    BY <1>0 DEF Ends
  <2>2. PICK m \in Ends(k, upto) : m = Min(Ends(k, upto)) /\ \A j \in Ends(k, upto) : m <= j
    BY <1>3, <2>1, MinFacts
  <2>3. m \in k..Len(frames)
    BY DEF Ends
  <2>4. m \in 1..(Len(frames) + 1) /\ m + 1 \in 1..(Len(frames) + 1) /\ k < m + 1
    BY <1>0, <2>3
  <2>5. /\ Offset(frames, k) \in Nat /\ Offset(frames, m) \in Nat
        /\ Offset(frames, m + 1) \in Nat
    BY <1>0, <2>4, StreamFacts
  <2>6. Offset(frames, k) < Offset(frames, m + 1)
    BY <1>0, <2>4, OffsetOrder
  <2>7. k < m => Offset(frames, k) < Offset(frames, m)
    BY <1>0, <2>4, OffsetOrder
  <2>8. Breaks(k, m) => k < m
    BY <2>3 DEF Breaks
  <2>9. LenTo(k, m) \in Nat /\ LenTo(k, m) > 0
    BY <2>5, <2>6, <2>7, <2>8 DEF LenTo
  <2>10. QED
    BY <1>1, <1>3, <2>2, <2>9
<1>4. QED
  BY <1>2, <1>3

\* Of the frames before it none is one of them.
LEMMA EndsOrder ==
    ASSUME Types, NEW k \in 1..Len(frames), NEW upto \in Nat, NEW m \in Ends(k, upto),
           NEW j \in k..Len(frames), j <= m, Breaks(k, j) \/ LastOfMessage(k, j)
    PROVE  j \in Ends(k, upto)
<1>1. m \in k..Len(frames) /\ At(m) + PeekLen <= upto
  BY DEF Ends
<1>2. j \in 1..(Len(frames) + 1) /\ m \in 1..(Len(frames) + 1) /\ PeekLen \in Nat
  BY <1>1, StreamFacts, FramingOK, SkbVerdictOK
<1>3. /\ PrefaceLen \in Nat /\ Offset(frames, j) \in Nat /\ Offset(frames, m) \in Nat
      /\ At(j) = PrefaceLen + Offset(frames, j) /\ At(m) = PrefaceLen + Offset(frames, m)
  BY <1>2, StreamFacts
<1>4. At(j) <= At(m)
  BY <1>2, AtOrder
<1>5. At(j) + PeekLen <= upto
  BY <1>1, <1>2, <1>3, <1>4
<1>6. QED
  BY <1>5 DEF Ends

\* More bytes at hand do not change a length that could be told.
LEMMA LenStays ==
    ASSUME Types, NEW k \in 1..Len(frames), NEW a \in Nat, NEW b \in Nat, a <= b,
           h2_msg_len(k, a) # 0
    PROVE  h2_msg_len(k, b) = h2_msg_len(k, a)
<1>1. PICK m \in Ends(k, a) : /\ \A j \in Ends(k, a) : m <= j
                              /\ h2_msg_len(k, a) = LenTo(k, m)
  BY LenFacts
<1>2. m \in k..Len(frames) /\ At(m) + PeekLen <= a /\ (Breaks(k, m) \/ LastOfMessage(k, m))
  BY DEF Ends
<1>3. Len(frames) \in Nat /\ PeekLen \in Nat /\ At(m) \in Nat
  <2>1. m \in 1..(Len(frames) + 1) /\ PeekLen \in Nat
    BY <1>2, StreamFacts, FramingOK, SkbVerdictOK
  <2>2. Offset(frames, m) \in Nat /\ At(m) = PrefaceLen + Offset(frames, m)
    BY <2>1, StreamFacts
  <2>3. QED
    BY <2>1, <2>2, StreamFacts
<1>4. m \in Ends(k, b)
  <2>1. At(m) + PeekLen <= b
    BY <1>2, <1>3
  <2>2. QED
    BY <1>2, <2>1 DEF Ends
<1>5. PICK l \in Ends(k, b) : /\ \A j \in Ends(k, b) : l <= j
                              /\ h2_msg_len(k, b) = LenTo(k, l)
  BY <1>4, LenFacts
<1>6. l \in k..Len(frames) /\ (Breaks(k, l) \/ LastOfMessage(k, l)) /\ l <= m
  BY <1>4, <1>5 DEF Ends
<1>7. l \in Ends(k, a)
  BY <1>6, EndsOrder
<1>8. l = m
  BY <1>1, <1>2, <1>3, <1>6, <1>7
<1>9. QED
  BY <1>1, <1>5, <1>8

\* A block that another frame follows before its end is broken.
LEMMA BrokenInto ==
    ASSUME Types, NEW k \in 1..Len(frames), NEW m \in (k + 1)..Len(frames),
           frames[k].type = "headers", frames[m].type # "continuation",
           \A i \in k..(m - 1) : ~frames[i].ends
    PROVE  _violates_block_rules(frames[k]) \/ IsBroken(k)
<1>0. Len(frames) \in Nat
  BY StreamFacts
<1>1. CASE frames[k].sid = 0
  BY <1>1 DEF _violates_block_rules
<1>2. CASE frames[k].sid # 0
  <2> DEFINE T == {i \in (k + 1)..m : ~CarriesOn(frames, k, i)}
  <2>1. m \in T /\ T \subseteq Nat
    BY <1>0 DEF CarriesOn
  <2>2. PICK t \in T : \A i \in T : t <= i
    BY <2>1, LeastNumber
  <2>3. /\ t \in (k + 1)..m /\ ~CarriesOn(frames, k, t)
        /\ t - 1 \in k..(Len(frames) - 1) /\ (t - 1) + 1 = t
    BY <1>0
  <2>4. \A i \in (k + 1)..(t - 1) : i \in (k + 1)..m /\ ~(t <= i)
    BY <1>0, <2>3
  <2>5. \A i \in (k + 1)..(t - 1) : CarriesOn(frames, k, i)
    BY <2>2, <2>4
  <2>6. \A i \in k..(t - 1) : i \in k..(m - 1)
    BY <1>0, <2>3
  <2>7. IsOpenBlock(frames, k, t - 1)
    BY <1>2, <2>5, <2>6 DEF IsOpenBlock, CarriesOn
  <2>8. QED
    BY <2>3, <2>7 DEF IsBroken
<1>3. QED
  BY <1>1, <1>2

\* A message that ends before the sk_buff its length is told with is a block that
\* is broken by a frame that came apart from it.
LEMMA ToldTooLate ==
    ASSUME Types, NEW k \in 1..Len(frames), At(k) = taken, NEW b \in cuts, NEW c \in Nat,
           h2_msg_len(k, b) = 0, h2_msg_len(k, c) # 0, taken + h2_msg_len(k, c) <= b
    PROVE  BrokenApart(k)
<1>0. /\ frames \in Seq(Frame) /\ Len(frames) \in Nat /\ b \in Nat /\ taken \in Nat
      /\ PrefaceLen \in Nat /\ HdrLen \in Nat /\ PeekLen \in Nat /\ PeekLen <= HdrLen
  BY StreamFacts, FramingOK, SkbVerdictOK
<1>1. Ends(k, b) = {}
  BY <1>0, LenFacts
<1>2. PICK m \in Ends(k, c) : /\ \A j \in Ends(k, c) : m <= j
                              /\ h2_msg_len(k, c) = LenTo(k, m) /\ LenTo(k, m) \in Nat
  BY LenFacts
<1>3. m \in k..Len(frames) /\ (Breaks(k, m) \/ LastOfMessage(k, m))
  BY DEF Ends
<1>4. /\ k \in 1..(Len(frames) + 1) /\ m \in 1..(Len(frames) + 1)
      /\ m + 1 \in 1..(Len(frames) + 1) /\ m \in 1..Len(frames)
  BY <1>0, <1>3
<1>5. /\ Offset(frames, k) \in Nat /\ At(k) = PrefaceLen + Offset(frames, k)
      /\ Offset(frames, m) \in Nat /\ At(m) = PrefaceLen + Offset(frames, m)
  BY <1>4, StreamFacts
<1>6. ~(At(m) + PeekLen <= b)
  BY <1>1, <1>3 DEF Ends
<1>7. Breaks(k, m)
  <2>1. SUFFICES ASSUME ~Breaks(k, m) PROVE FALSE
    OBVIOUS
  <2>2. Offset(frames, m + 1) = Offset(frames, m) + FrameLen(frames[m])
    BY <1>0, <1>4, OffsetFacts
  <2>3. FrameLen(frames[m]) \in Nat /\ FrameLen(frames[m]) >= HdrLen
    BY <1>0, <1>4, FrameFacts
  <2>4. LenTo(k, m) = Offset(frames, m + 1) - Offset(frames, k)
    BY <2>1 DEF LenTo
  <2>5. taken + LenTo(k, m) = At(m) + FrameLen(frames[m])
    BY <1>0, <1>5, <2>2, <2>3, <2>4
  <2>6. At(m) + FrameLen(frames[m]) <= b /\ At(m) \in Nat
    BY <1>0, <1>2, <1>5, <2>5
  <2>7. QED
    BY <1>0, <1>6, <2>3, <2>6
<1>8. b \in At(m)..(At(m) + PeekLen - 1)
  <2>1. LenTo(k, m) = Offset(frames, m) - Offset(frames, k)
    BY <1>7 DEF LenTo
  <2>2. taken + LenTo(k, m) = At(m)
    BY <1>0, <1>5, <2>1
  <2>3. At(m) <= b
    BY <1>2, <2>2
  <2>4. At(m) \in Nat
    BY <1>0, <1>5
  <2>5. QED
    BY <1>0, <1>6, <2>3, <2>4
<1>9. ASSUME NEW i \in k..(m - 1) PROVE ~LastOfMessage(k, i)
  <2>1. i \in k..Len(frames) /\ i <= m /\ ~(m <= i)
    BY <1>0, <1>4
  <2>2. QED
    BY <1>2, <2>1, EndsOrder
<1>10. m \in (k + 1)..Len(frames) /\ k \in k..(m - 1) /\ frames[m].type # "continuation"
  BY <1>0, <1>3, <1>7 DEF Breaks
<1>11. frames[k].type = "headers" /\ \A i \in k..(m - 1) : ~frames[i].ends
  BY <1>9, <1>10 DEF LastOfMessage
<1>12. _violates_block_rules(frames[k]) \/ IsBroken(k)
  BY <1>10, <1>11, BrokenInto
<1>13. QED
  BY <1>8, <1>10, <1>11, <1>12 DEF BrokenApart

\* The length of the message at the front, if some of it has arrived.
LEMMA ParserFacts ==
    ASSUME Types, taken < Arrived, NEW upto \in Nat
    PROVE  /\ skb_parser(upto) \in Nat
           /\ \/ upgraded /\ \E k \in 1..Len(frames) :
                   At(k) = taken /\ \A c : skb_parser(c) = h2_msg_len(k, c)
              \/ \A c : skb_parser(c) = skb_parser(upto)
<1>1. PrefaceLen \in Nat /\ taken \in Nat /\ Arrived \in Nat
  BY StreamFacts
<1>2. SkbSize(taken, 1) \in Nat
  <2>1. 1 \in 1..(Arrived - taken)
    BY <1>1
  <2>2. QED
    BY <2>1, SkbFacts
<1>3. CASE upgraded /\ \E k \in 1..Len(frames) : At(k) = taken
  <2>1. PICK k \in 1..Len(frames) : /\ k = CHOOSE j \in 1..Len(frames) : At(j) = taken
                                    /\ At(k) = taken
    BY <1>3
  <2>2. \A c : skb_parser(c) = h2_msg_len(k, c)
    BY <1>3, <2>1 DEF skb_parser
  <2>3. h2_msg_len(k, upto) \in Nat
    BY LenFacts
  <2>4. QED
    BY <1>3, <2>1, <2>2, <2>3
<1>4. CASE ~(upgraded /\ \E k \in 1..Len(frames) : At(k) = taken)
  <2>1. \A c : skb_parser(c) = IF AtPreface THEN PrefaceLen ELSE SkbSize(taken, 1)
    BY <1>4 DEF skb_parser
  <2>2. QED
    BY <1>1, <1>2, <2>1
<1>5. QED
  BY <1>3, <1>4

\* Given up, there is a message at the front to blame.
GaveUp == aborted => taken < Arrived /\ AbortsOnlyOnBroken

\* It is given up on what it is told.
LEMMA AbortBlames ==
    ASSUME Types, Abort
    PROVE  GaveUp'
<1>1. PICK c \in cuts : Told(c) /\ ~Fits(skb_parser(c), c)
  BY DEF Abort
<1>2. /\ UNCHANGED <<frames, cuts, taken, upgraded, decoded, rejected>>
      /\ Arrived' = Arrived /\ skb_parser(Arrived)' = skb_parser(Arrived)
      /\ \A k : At(k)' = At(k) /\ BrokenApart(k)' = BrokenApart(k)
  <2>1. UNCHANGED <<frames, cuts, taken, upgraded, decoded, rejected>>
    BY DEF Abort
  <2>2. Arrived' = Arrived /\ \A k : At(k)' = At(k)
    BY <2>1 DEF Arrived, At
  <2>3. \A k : BrokenApart(k)' = BrokenApart(k)
    BY <2>1, <2>2 DEF BrokenApart, IsBroken
  <2>4. skb_parser(Arrived)' = skb_parser(Arrived)
    BY <2>1, <2>2 DEF skb_parser, h2_msg_len, LastOfMessage, AtPreface, SkbSize
  <2>5. QED
    BY <2>1, <2>2, <2>3, <2>4
<1>3. /\ c \in Nat /\ Arrived \in Nat /\ taken \in Nat /\ c <= Arrived /\ RcvBuf \in Nat
      /\ cuts \subseteq Nat
  <2>1. Length \in Nat /\ cuts \subseteq 0..Length /\ Arrived \in Nat /\ taken \in Nat
    BY StreamFacts
  <2>2. cuts \subseteq Nat
    BY <2>1
  <2>3. QED
    BY <2>1, <2>2, StreamFacts, SkbVerdictOK
<1>4. c > taken /\ skb_parser(c) > 0
  BY <1>1 DEF Told
<1>5. taken < Arrived
  BY <1>3, <1>4
<1>6. skb_parser(c) \in Nat
  BY <1>3, <1>5, ParserFacts
<1>7. CASE ~(skb_parser(c) <= RcvBuf)
  <2>1. skb_parser(Arrived) = skb_parser(c)
    <3>1. CASE \E k \in 1..Len(frames) : \A d : skb_parser(d) = h2_msg_len(k, d)
      <4>1. PICK k \in 1..Len(frames) : \A d : skb_parser(d) = h2_msg_len(k, d)
        BY <3>1
      <4>2. h2_msg_len(k, c) # 0
        BY <1>4, <1>6, <4>1
      <4>3. h2_msg_len(k, Arrived) = h2_msg_len(k, c)
        BY <1>3, <4>2, LenStays
      <4>4. QED
        BY <4>1, <4>3
    <3>2. CASE \A d : skb_parser(d) = skb_parser(c)
      BY <3>2
    <3>3. QED
      BY <1>3, <1>5, <3>1, <3>2, ParserFacts
  <2>2. skb_parser(Arrived) > RcvBuf
    BY <1>3, <1>6, <1>7, <2>1
  <2>3. QED
    BY <1>2, <1>5, <2>2 DEF GaveUp, AbortsOnlyOnBroken
<1>8. CASE skb_parser(c) <= RcvBuf
  <2>1. PICK b \in cuts : b < c /\ ~(b < taken + skb_parser(c))
    BY <1>1, <1>8 DEF Fits
  <2>2. b \in Nat /\ taken < b /\ taken + skb_parser(c) <= b
    BY <1>3, <1>4, <1>6, <2>1
  <2>3. skb_parser(b) = 0
    BY <1>1, <2>1, <2>2 DEF Told
  <2>4. ~\A d : skb_parser(d) = skb_parser(c)
    <3>1. skb_parser(b) # skb_parser(c)
      BY <1>4, <1>6, <2>3
    <3>2. QED
      BY <3>1
  <2>5. PICK k \in 1..Len(frames) :
               upgraded /\ At(k) = taken /\ \A d : skb_parser(d) = h2_msg_len(k, d)
    BY <1>3, <1>5, <2>4, ParserFacts
  <2>6. /\ h2_msg_len(k, b) = 0 /\ h2_msg_len(k, c) # 0
        /\ taken + h2_msg_len(k, c) <= b
    BY <1>4, <1>6, <2>2, <2>3, <2>5
  <2>7. BrokenApart(k)
    BY <1>3, <2>5, <2>6, ToldTooLate
  <2>8. QED
    BY <1>2, <1>5, <2>5, <2>7 DEF GaveUp, AbortsOnlyOnBroken
<1>9. QED
  BY <1>7, <1>8

\* One more number behind all others is not the least.
LEMMA MinStays ==
    ASSUME NEW T, T \subseteq Nat, T # {}, NEW x \in Nat, \A y \in T : y < x
    PROVE  Min(T \cup {x}) = Min(T)
<1>1. PICK a \in T : a = Min(T) /\ \A y \in T : a <= y
  BY MinFacts
<1>2. T \cup {x} \subseteq Nat /\ T \cup {x} # {}
  OBVIOUS
<1>3. PICK b \in T \cup {x} : b = Min(T \cup {x}) /\ \A y \in T \cup {x} : b <= y
  BY <1>2, MinFacts
<1>4. a \in Nat /\ b \in Nat /\ b <= a /\ a < x
  BY <1>1, <1>2, <1>3
<1>5. b \in T
  BY <1>3, <1>4
<1>6. a <= b
  BY <1>1, <1>5
<1>7. QED
  BY <1>1, <1>3, <1>4, <1>6

\* What arrives does not end the sk_buff of a message some of which had arrived.
LEMMA ArriveKeeps ==
    ASSUME Types, NEW n \in Nat, Arrive(n), NEW at \in Nat, at < Arrived
    PROVE  Min({c \in cuts' : c >= at + 1}) = Min({c \in cuts : c >= at + 1})
<1> DEFINE T == {c \in cuts : c >= at + 1}
<1>1. /\ Length \in Nat /\ cuts \subseteq 0..Length /\ Arrived \in cuts /\ Arrived \in Nat
      /\ \A c \in cuts : c <= Arrived
  BY StreamFacts
<1>2. cuts' = cuts \cup {Arrived + n} /\ n > 0
  BY ArriveFacts
<1>3. Arrived + n \in Nat /\ Arrived + n >= at + 1
  BY <1>1, <1>2
<1>4. {c \in cuts' : c >= at + 1} = T \cup {Arrived + n}
  BY <1>2, <1>3
<1>5. T \subseteq Nat /\ \A y \in T : y < Arrived + n
  <2>1. SUFFICES ASSUME NEW y \in T PROVE y \in Nat /\ y < Arrived + n
    OBVIOUS
  <2>2. y \in 0..Length /\ y <= Arrived
    BY <1>1
  <2>3. QED
    BY <1>1, <1>2, <2>2
<1>6. Arrived \in T
  BY <1>1
<1> HIDE DEF T
<1>7. Min(T \cup {Arrived + n}) = Min(T)
  BY <1>3, <1>5, <1>6, MinStays
<1>8. QED
  BY <1>4, <1>7 DEF T

\* What arrives later changes nothing about it.
LEMMA ArriveBlames ==
    ASSUME Types, GaveUp, NEW n \in Nat, Arrive(n)
    PROVE  GaveUp'
<1>1. /\ Arrived' = Arrived + n /\ n > 0 /\ cuts' = cuts \cup {Arrived + n}
      /\ UNCHANGED <<frames, taken, upgraded, aborted, decoded, rejected>>
  BY ArriveFacts
<1>2. /\ taken \in Nat /\ Arrived \in Nat /\ Arrived' \in Nat /\ Arrived <= Arrived'
      /\ RcvBuf \in Nat
  BY <1>1, StreamFacts, SkbVerdictOK
<1>3. \A k : At(k)' = At(k) /\ IsBroken(k)' = IsBroken(k)
  BY <1>1 DEF At, IsBroken
<1>4. SUFFICES ASSUME aborted PROVE taken' < Arrived' /\ AbortsOnlyOnBroken'
  BY <1>1 DEF GaveUp
<1>5. taken < Arrived /\ AbortsOnlyOnBroken
  BY <1>4 DEF GaveUp
<1>6. taken' < Arrived'
  BY <1>1, <1>2, <1>5
<1>7. CASE upgraded /\ \E k \in 1..Len(frames) : At(k) = taken /\ BrokenApart(k)
  <2>1. PICK k \in 1..Len(frames) : At(k) = taken /\ BrokenApart(k)
    BY <1>7
  <2>2. BrokenApart(k)'
    BY <1>1, <1>3, <2>1 DEF BrokenApart
  <2>3. QED
    BY <1>1, <1>3, <1>6, <1>7, <2>1, <2>2 DEF AbortsOnlyOnBroken
<1>8. CASE skb_parser(Arrived) > RcvBuf
  <2>1. SkbSize(taken, 1)' = SkbSize(taken, 1)
    BY <1>1, <1>2, <1>5, ArriveKeeps DEF SkbSize
  <2>2. AtPreface' = AtPreface
    <3>1. CASE taken = 0
      BY <1>1, <2>1, <3>1 DEF AtPreface
    <3>2. CASE taken # 0
      BY <1>1, <3>2 DEF AtPreface
    <3>3. QED
      BY <3>1, <3>2
  <2>3. ASSUME NEW k, NEW c PROVE h2_msg_len(k, c)' = h2_msg_len(k, c)
    <3>1. UNCHANGED frames
      BY <1>1
    <3>2. QED
      BY <3>1 DEF h2_msg_len, LastOfMessage, At
  <2>4. \A c : skb_parser(c)' = skb_parser(c)
    BY <1>1, <1>3, <2>1, <2>2, <2>3 DEF skb_parser
  <2>5. PICK a : a = Arrived'
    OBVIOUS
  <2>6. skb_parser(Arrived)' = skb_parser(a)
    BY <2>4, <2>5
  <2>7. skb_parser(a) = skb_parser(Arrived)
    <3>1. CASE \E k \in 1..Len(frames) : \A d : skb_parser(d) = h2_msg_len(k, d)
      <4>1. PICK k \in 1..Len(frames) : \A d : skb_parser(d) = h2_msg_len(k, d)
        BY <3>1
      <4>2. h2_msg_len(k, Arrived) # 0
        BY <1>2, <1>8, <4>1
      <4>3. h2_msg_len(k, a) = h2_msg_len(k, Arrived)
        BY <1>2, <2>5, <4>2, LenStays
      <4>4. QED
        BY <4>1, <4>3
    <3>2. CASE \A d : skb_parser(d) = skb_parser(Arrived)
      BY <3>2
    <3>3. QED
      BY <1>2, <1>5, <3>1, <3>2, ParserFacts
  <2>8. skb_parser(Arrived)' > RcvBuf
    BY <1>8, <2>6, <2>7
  <2>9. QED
    BY <1>6, <2>8 DEF AbortsOnlyOnBroken
<1>9. QED
  BY <1>4, <1>5, <1>7, <1>8 DEF AbortsOnlyOnBroken

\* Every step keeps the blame.
LEMMA NextGivesUp ==
    ASSUME Types, GaveUp, [Next]_vars
    PROVE  GaveUp'
<1>1. CASE Verdict
  BY <1>1 DEF Verdict, Ready, GaveUp
<1>2. ASSUME NEW n \in 1..Length, Arrive(n) PROVE GaveUp'
  <2>1. n \in Nat
    BY StreamFacts
  <2>2. QED
    BY <1>2, <2>1, ArriveBlames
<1>3. CASE UNCHANGED vars
  <2>1. /\ Arrived' = Arrived /\ \A k : At(k)' = At(k)
        /\ UNCHANGED <<frames, cuts, taken, upgraded, aborted>>
    BY <1>3 DEF vars, Arrived, At
  <2>2. \A k : BrokenApart(k)' = BrokenApart(k)
    BY <2>1 DEF BrokenApart, IsBroken
  <2>3. skb_parser(Arrived)' = skb_parser(Arrived)
    BY <2>1 DEF skb_parser, h2_msg_len, LastOfMessage, AtPreface, SkbSize
  <2>4. QED
    BY <2>1, <2>2, <2>3 DEF GaveUp, AbortsOnlyOnBroken
<1>4. QED
  BY <1>1, <1>2, <1>3, AbortBlames DEF Next

\* No stream of a peer that keeps the rules, and none of whose messages is longer
\* than the receive buffer, makes the kernel give the connection up, for any stream
\* and however it arrives: h2_msg_len tells each length with the sk_buff that
\* completes it, but for a block that is broken by a frame that comes apart.
THEOREM AbortsRightly == Spec => []AbortsOnlyOnBroken
<1>1. Init => Types /\ GaveUp
  BY InitTypes DEF Init, GaveUp
<1>2. Types /\ GaveUp /\ [Next]_vars => (Types /\ GaveUp)'
  BY NextTypes, NextGivesUp
<1>3. GaveUp => AbortsOnlyOnBroken
  BY DEF GaveUp, AbortsOnlyOnBroken
<1>4. QED
  BY <1>1, <1>2, <1>3, PTL DEF Spec
===============================================================================
