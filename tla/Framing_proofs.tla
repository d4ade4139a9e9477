----------------------------- MODULE Framing_proofs -----------------------------
(***************************************************************************)
(* How the parser cuts a stream: where its frames begin, and what the      *)
(* result of reading one says of them, for any stream and limits.          *)
(***************************************************************************)
EXTENDS Framing, SequenceTheorems, WellFoundedInduction, TLAPS

-----------------------------------------------------------------------------
(* Where frames begin.                                                       *)

\* Of any numbers there is a least one.
LEMMA LeastNumber ==
    ASSUME NEW T, T \subseteq Nat, T # {}
    PROVE  \E n \in T : \A m \in T : n <= m
<1>1. PICK n \in T : \A m \in T : ~(<<m, n>> \in OpToRel(<, Nat))
  BY NatLessThanWellFounded, WFMin
<1>2. \A m \in T : ~(m < n)
  BY <1>1 DEF OpToRel
<1>3. QED
  BY <1>2

\* The smallest of a set of numbers that has one.
LEMMA MinFacts ==
    ASSUME NEW T, T \subseteq Nat, T # {}
    PROVE  Min(T) \in T /\ \A m \in T : Min(T) <= m
  BY LeastNumber DEF Min

\* A frame is longer than its header.
LEMMA FrameFacts ==
    ASSUME NEW fs \in Seq(Frame), NEW k \in 1..Len(fs)
    PROVE  /\ fs[k] \in Frame /\ FrameLen(fs[k]) \in Nat /\ FrameLen(fs[k]) >= HdrLen
           /\ HdrLen \in Nat \ {0} /\ fs[k].len \in Nat /\ FrameLen(fs[k]) = HdrLen + fs[k].len
<1>1. fs[k] \in Frame
  BY ElementOfSeq
<1>2. fs[k].len \in Nat
  BY <1>1, FramingOK DEF Frame
<1>3. QED
  BY <1>1, <1>2, FramingOK DEF FrameLen

\* The offsets of the first frames of a stream are sums of lengths.
Sums(fs, g, k) == g = [j \in 1..k |-> IF j = 1 THEN 0 ELSE g[j - 1] + FrameLen(fs[j - 1])]

\* There are such sums, and they are numbers.
LEMMA SumsExist ==
    ASSUME NEW fs \in Seq(Frame), NEW k \in 1..(Len(fs) + 1)
    PROVE  \E g \in [1..k -> Nat] : Sums(fs, g, k)
<1>0. Len(fs) \in Nat
  BY LenProperties
<1> DEFINE T == {l \in 1..(Len(fs) + 1) : ~\E g \in [1..l -> Nat] : Sums(fs, g, l)}
<1>1. SUFFICES ASSUME T # {} PROVE FALSE
  OBVIOUS
<1>2. T \subseteq Nat
  BY <1>0
<1> HIDE DEF T
<1>3. PICK l \in T : \A m \in T : l <= m
  BY <1>1, <1>2, LeastNumber
<1>4. l \in 1..(Len(fs) + 1) /\ ~\E g \in [1..l -> Nat] : Sums(fs, g, l)
  BY DEF T
<1>5. CASE l = 1
  <2> DEFINE g == [j \in 1..1 |-> 0]
  <2>1. g \in [1..1 -> Nat] /\ Sums(fs, g, 1)
    BY DEF Sums
  <2>2. QED
    BY <1>4, <1>5, <2>1
<1>6. CASE l # 1
  <2>1. l - 1 \in 1..Len(fs) /\ l - 1 \in 1..(Len(fs) + 1) /\ l - 1 < l
    BY <1>0, <1>4, <1>6
  <2>9. l - 1 \notin T
    BY <1>0, <1>3, <1>4, <2>1
  <2>2. PICK g \in [1..(l - 1) -> Nat] : Sums(fs, g, l - 1)
    BY <2>1, <2>9 DEF T
  <2> DEFINE x == g[l - 1] + FrameLen(fs[l - 1])
             h == [j \in 1..l |-> IF j = l THEN x ELSE g[j]]
  <2>3. x \in Nat
    BY <2>1, <2>2, FrameFacts
  <2>4. \A j \in 1..l : j # l => j \in 1..(l - 1)
    BY <1>0, <1>4
  <2> HIDE DEF x
  <2>5. h \in [1..l -> Nat]
    BY <2>2, <2>3, <2>4
  <2>6. \A j \in 1..l : h[j] = IF j = 1 THEN 0 ELSE h[j - 1] + FrameLen(fs[j - 1])
    <3>1. SUFFICES ASSUME NEW j \in 1..l
                   PROVE  h[j] = IF j = 1 THEN 0 ELSE h[j - 1] + FrameLen(fs[j - 1])
      OBVIOUS
    <3>2. CASE j = l
      <4>1. h[j] = x /\ h[l - 1] = g[l - 1]
        BY <1>4, <2>1, <3>2
      <4>2. QED
        BY <1>6, <3>2, <4>1 DEF x
    <3>3. CASE j # l
      <4>1. j \in 1..(l - 1) /\ h[j] = g[j]
        BY <2>4, <3>3
      <4>2. g[j] = IF j = 1 THEN 0 ELSE g[j - 1] + FrameLen(fs[j - 1])
        BY <2>2, <4>1 DEF Sums
      <4>3. j # 1 => j - 1 \in 1..l /\ j - 1 # l
        BY <1>4, <4>1
      <4>4. j # 1 => h[j - 1] = g[j - 1]
        BY <4>3
      <4>5. QED
        BY <4>1, <4>2, <4>4
    <3>4. QED
      BY <3>2, <3>3
  <2>7. Sums(fs, h, l)
    BY <2>5, <2>6 DEF Sums
  <2>8. QED
    BY <1>4, <2>5, <2>7
<1>7. QED
  BY <1>5, <1>6

\* Sums agree wherever both are taken.
LEMMA SumsAgree ==
    ASSUME NEW fs, NEW g, NEW h, NEW k \in Nat, NEW l \in Nat,
           Sums(fs, g, k), Sums(fs, h, l), NEW n \in 1..k, n <= l
    PROVE  g[n] = h[n]
<1> DEFINE T == {i \in 1..k : i <= l /\ g[i] # h[i]}
<1>1. SUFFICES ASSUME T # {} PROVE FALSE
  OBVIOUS
<1>2. T \subseteq Nat
  OBVIOUS
<1> HIDE DEF T
<1>3. PICK i \in T : \A m \in T : i <= m
  BY <1>1, <1>2, LeastNumber
<1>4. i \in 1..k /\ i \in 1..l /\ g[i] # h[i]
  BY <1>3 DEF T
<1>5. /\ g[i] = IF i = 1 THEN 0 ELSE g[i - 1] + FrameLen(fs[i - 1])
      /\ h[i] = IF i = 1 THEN 0 ELSE h[i - 1] + FrameLen(fs[i - 1])
  BY <1>4 DEF Sums
<1>6. i # 1
  BY <1>4, <1>5
<1>7. i - 1 \in 1..k /\ i - 1 <= l /\ ~(i <= i - 1)
  BY <1>4, <1>6
<1>8. i - 1 \notin T
  BY <1>3, <1>7
<1>9. g[i - 1] = h[i - 1]
  BY <1>7, <1>8 DEF T
<1>10. QED
  BY <1>4, <1>5, <1>6, <1>9

\* The offset of a frame is the last of the sums up to it.
LEMMA OffsetIsSum ==
    ASSUME NEW fs \in Seq(Frame), NEW k \in 1..(Len(fs) + 1)
    PROVE  \E g \in [1..k -> Nat] : Sums(fs, g, k) /\ Offset(fs, k) = g[k]
<1>1. k \in Nat /\ k \in 1..k
  BY LenProperties
<1>2. PICK g \in [1..k -> Nat] : Sums(fs, g, k)
  BY SumsExist
<1> DEFINE u == CHOOSE upto : upto = [j \in 1..k |-> IF j = 1 THEN 0
                                        ELSE upto[j - 1] + FrameLen(fs[j - 1])]
<1>3. Offset(fs, k) = u[k]
  BY DEF Offset
<1>4. Sums(fs, u, k)
  BY <1>2 DEF Sums
<1> HIDE DEF u
<1>5. g[k] = u[k]
  BY <1>1, <1>2, <1>4, SumsAgree
<1>6. QED
  BY <1>2, <1>3, <1>5

\* The first frame begins the stream, and each next one is behind the one before.
LEMMA OffsetFacts ==
    ASSUME NEW fs \in Seq(Frame)
    PROVE  /\ Offset(fs, 1) = 0
           /\ \A k \in 1..(Len(fs) + 1) : Offset(fs, k) \in Nat
           /\ \A k \in 1..Len(fs) : Offset(fs, k + 1) = Offset(fs, k) + FrameLen(fs[k])
<1>0. Len(fs) \in Nat
  BY LenProperties
<1>1. Offset(fs, 1) = 0
  <2>1. 1 \in 1..(Len(fs) + 1)
    BY <1>0
  <2>2. PICK g \in [1..1 -> Nat] : Sums(fs, g, 1) /\ Offset(fs, 1) = g[1]
    BY <2>1, OffsetIsSum
  <2>3. QED
    BY <2>2 DEF Sums
<1>2. ASSUME NEW k \in 1..(Len(fs) + 1) PROVE Offset(fs, k) \in Nat
  BY <1>0, OffsetIsSum
<1>3. ASSUME NEW k \in 1..Len(fs) PROVE Offset(fs, k + 1) = Offset(fs, k) + FrameLen(fs[k])
  <2>1. k \in 1..(Len(fs) + 1) /\ k + 1 \in 1..(Len(fs) + 1) /\ k \in Nat /\ k + 1 \in Nat
    BY <1>0
  <2>2. PICK g \in [1..k -> Nat] : Sums(fs, g, k) /\ Offset(fs, k) = g[k]
    BY <2>1, OffsetIsSum
  <2>3. PICK h \in [1..(k + 1) -> Nat] : Sums(fs, h, k + 1) /\ Offset(fs, k + 1) = h[k + 1]
    BY <2>1, OffsetIsSum
  <2>4. h[k + 1] = IF k + 1 = 1 THEN 0 ELSE h[(k + 1) - 1] + FrameLen(fs[(k + 1) - 1])
    BY <2>1, <2>3 DEF Sums
  <2>5. k + 1 # 1 /\ (k + 1) - 1 = k /\ k \in 1..k /\ k <= k + 1
    BY <2>1
  <2>6. g[k] = h[k]
    BY <2>1, <2>2, <2>3, <2>5, SumsAgree
  <2>7. QED
    BY <2>2, <2>3, <2>4, <2>5, <2>6
<1>4. QED
  BY <1>1, <1>2, <1>3

\* A frame begins behind the end of any before it.
LEMMA OffsetsGrow ==
    ASSUME NEW fs \in Seq(Frame), NEW i \in 1..Len(fs), NEW j \in 1..(Len(fs) + 1), i < j
    PROVE  Offset(fs, i) + FrameLen(fs[i]) <= Offset(fs, j)
<1>0. Len(fs) \in Nat
  BY LenProperties
<1> DEFINE end == Offset(fs, i) + FrameLen(fs[i])
           T == {n \in 1..(Len(fs) + 1) : i < n /\ ~(end <= Offset(fs, n))}
<1>1. SUFFICES ASSUME T # {} PROVE FALSE
  OBVIOUS
<1>2. T \subseteq Nat
  BY <1>0
<1>9. Offset(fs, i + 1) = end
  BY OffsetFacts
<1>10. end \in Nat
  <2>1. i + 1 \in 1..(Len(fs) + 1)
    BY <1>0
  <2>2. QED
    BY <2>1, <1>9, OffsetFacts
<1> HIDE DEF T, end
<1>3. PICK n \in T : \A m \in T : n <= m
  BY <1>1, <1>2, LeastNumber
<1>4. n \in 1..(Len(fs) + 1) /\ i < n /\ ~(end <= Offset(fs, n))
  BY <1>3 DEF T
<1>5. n # i + 1
  BY <1>4, <1>9, <1>10
<1>6. n - 1 \in 1..Len(fs) /\ n - 1 \in 1..(Len(fs) + 1) /\ i < n - 1 /\ ~(n <= n - 1) /\ (n - 1) + 1 = n
  BY <1>0, <1>4, <1>5
<1>7. end <= Offset(fs, n - 1)
  BY <1>3, <1>6 DEF T
<1>8. Offset(fs, n) = Offset(fs, n - 1) + FrameLen(fs[n - 1])
  BY <1>6, OffsetFacts
<1>11. Offset(fs, n - 1) \in Nat /\ FrameLen(fs[n - 1]) \in Nat
  BY <1>6, OffsetFacts, FrameFacts
<1>12. QED
  BY <1>4, <1>7, <1>8, <1>10, <1>11

\* Offsets are in the order of the frames, and no two frames share one.
LEMMA OffsetOrder ==
    ASSUME NEW fs \in Seq(Frame), NEW i \in 1..(Len(fs) + 1), NEW j \in 1..(Len(fs) + 1)
    PROVE  /\ Offset(fs, i) < Offset(fs, j) <=> i < j
           /\ Offset(fs, i) <= Offset(fs, j) <=> i <= j
           /\ Offset(fs, i) = Offset(fs, j) <=> i = j
<1>0. Len(fs) \in Nat
  BY LenProperties
<1>1. ASSUME NEW a \in 1..(Len(fs) + 1), NEW b \in 1..(Len(fs) + 1), a < b
      PROVE  Offset(fs, a) < Offset(fs, b)
  <2>1. a \in 1..Len(fs)
    BY <1>0, <1>1
  <2>2. Offset(fs, a) + FrameLen(fs[a]) <= Offset(fs, b)
    BY <1>1, <2>1, OffsetsGrow
  <2>3. FrameLen(fs[a]) \in Nat /\ FrameLen(fs[a]) > 0
    BY <2>1, FrameFacts
  <2>4. QED
    BY <2>2, <2>3, OffsetFacts
<1>2. i < j => Offset(fs, i) < Offset(fs, j)
  BY <1>1
<1>3. j < i => Offset(fs, j) < Offset(fs, i)
  BY <1>1
<1>4. Offset(fs, i) \in Nat /\ Offset(fs, j) \in Nat
  BY OffsetFacts
<1>5. i = j => Offset(fs, i) = Offset(fs, j)
  OBVIOUS
<1>6. QED
  BY <1>0, <1>2, <1>3, <1>4, <1>5

\* The last frame of what was read from frame k on is found from its length.
LEMMA LastFrameFound ==
    ASSUME NEW fs \in Seq(Frame), NEW k \in 1..Len(fs), NEW j \in k..Len(fs)
    PROVE  LastFrame(fs, k, Offset(fs, j + 1) - Offset(fs, k)) = j
<1>0. Len(fs) \in Nat
  BY LenProperties
<1> DEFINE bytes == Offset(fs, j + 1) - Offset(fs, k)
<1>1. k \in 1..(Len(fs) + 1) /\ j + 1 \in 1..(Len(fs) + 1)
  BY <1>0
<1>2. Offset(fs, k) \in Nat /\ Offset(fs, j + 1) \in Nat
  BY <1>1, OffsetFacts
<1>3. Offset(fs, j + 1) = Offset(fs, k) + bytes
  BY <1>2
<1>4. ASSUME NEW i \in k..Len(fs), Offset(fs, i + 1) = Offset(fs, k) + bytes
      PROVE  i = j
  <2>1. i + 1 \in 1..(Len(fs) + 1)
    BY <1>0
  <2>2. i + 1 = j + 1
    BY <1>1, <1>3, <1>4, <2>1, OffsetOrder
  <2>3. QED
    BY <2>2
<1> HIDE DEF bytes
<1>5. LastFrame(fs, k, bytes) = j
  BY <1>3, <1>4 DEF LastFrame
<1>6. QED
  BY <1>5 DEF bytes

-----------------------------------------------------------------------------
(* Collecting a block.                                                       *)

\* What the parser has found out of a frame of a block when it stops there, or
\* goes on.
LEMMA AtFrameFacts ==
    ASSUME NEW fs \in Seq(Frame), NEW k \in 1..Len(fs), NEW j \in k..Len(fs),
           NEW off \in Nat, NEW avail \in Nat, NEW r, r = AtFrame(fs, k, j, off, avail)
    PROVE  LET o    == Offset(fs, j) - Offset(fs, k)
               last == o + FrameLen(fs[j])
               carried == j > k => CarriesOn(fs, k, j)
           IN  /\ r.code \in {"more", "ok", "again", "proto", "badmsg", "toobig"}
               /\ r.code \in {"more", "ok"} =>
                    /\ r.bytes = last /\ last <= avail /\ carried
                    /\ r.code = "ok" <=> fs[j].ends
               /\ r.code = "again" => /\ r.bytes > avail
                                      /\ \/ r.bytes = o + HdrLen
                                         \/ r.bytes = last /\ carried
               /\ r.code = "proto" => /\ j > k /\ ~CarriesOn(fs, k, j)
                                      /\ r.bytes = FrameLen(fs[k])
               /\ r.code = "badmsg" => fs[j].fate = "padding" /\ last <= avail
               /\ r.code = "toobig" => \/ off + o > MaxBytes
                                       \/ BlockLen(fs, k, j) > BlockMax /\ carried
<1> DEFINE o    == Offset(fs, j) - Offset(fs, k)
           last == o + FrameLen(fs[j])
           carries == CarriesOn(fs, k, j)
           block == BlockLen(fs, k, j)
           code(c) == r.code = c
<1>0. Len(fs) \in Nat
  BY LenProperties
<1>1. Offset(fs, j) \in Nat /\ Offset(fs, k) \in Nat /\ j \in 1..Len(fs)
  <2>1. j \in 1..(Len(fs) + 1) /\ k \in 1..(Len(fs) + 1) /\ j \in 1..Len(fs)
    BY <1>0
  <2>2. QED
    BY <2>1, OffsetFacts
<1>2. o \in Int /\ last \in Int /\ HdrLen \in Int /\ MaxBytes \in Int
  BY <1>1, FrameFacts, FramingOK
<1>3. fs[j].ends \in BOOLEAN
  BY <1>1, FrameFacts DEF Frame
<1>4. r = IF off + o > MaxBytes THEN Result("toobig", o)
          ELSE IF o + HdrLen > avail THEN Result("again", o + HdrLen)
          ELSE IF j > k /\ ~carries THEN Result("proto", FrameLen(fs[k]))
          ELSE IF last > avail THEN Result("again", last)
          ELSE IF fs[j].fate = "padding" THEN Result("badmsg", last)
          ELSE IF block > BlockMax THEN Result("toobig", last)
          ELSE Result(IF fs[j].ends THEN "ok" ELSE "more", last)
  BY DEF AtFrame
<1> HIDE DEF o, last, carries, block
<1>5. CASE off + o > MaxBytes
  BY <1>4, <1>5 DEF Result, o
<1>6. CASE ~(off + o > MaxBytes) /\ o + HdrLen > avail
  BY <1>2, <1>4, <1>6 DEF Result, o
<1>7. CASE ~(off + o > MaxBytes) /\ ~(o + HdrLen > avail) /\ j > k /\ ~carries
  BY <1>2, <1>4, <1>7 DEF Result, carries
<1> DEFINE through == /\ ~(off + o > MaxBytes) /\ ~(o + HdrLen > avail)
                      /\ ~(j > k /\ ~carries)
<1>8. CASE through /\ last > avail
  BY <1>2, <1>4, <1>8 DEF Result, last, carries, o
<1>9. CASE through /\ ~(last > avail) /\ fs[j].fate = "padding"
  BY <1>2, <1>4, <1>9 DEF Result, last, o
<1>10. CASE through /\ ~(last > avail) /\ ~(fs[j].fate = "padding") /\ block > BlockMax
  BY <1>2, <1>4, <1>10 DEF Result, block, carries
<1>11. CASE through /\ ~(last > avail) /\ ~(fs[j].fate = "padding") /\ ~(block > BlockMax)
  BY <1>2, <1>3, <1>4, <1>11 DEF Result, last, carries, o
<1>12. QED
  BY <1>5, <1>6, <1>7, <1>8, <1>9, <1>10, <1>11

\* Behind the last frame that has arrived it asks for more, or gives up.
LEMMA PastTheEnd ==
    ASSUME NEW fs \in Seq(Frame), NEW k \in 1..Len(fs), NEW off \in Nat, NEW avail \in Nat,
           avail <= Total(fs) - Offset(fs, k),
           NEW r, r = AtFrame(fs, k, Len(fs) + 1, off, avail)
    PROVE  LET o == Offset(fs, Len(fs) + 1) - Offset(fs, k)
           IN  \/ r = Result("toobig", o) /\ off + o > MaxBytes
               \/ r = Result("again", o + HdrLen) /\ o + HdrLen > avail
<1>0. Len(fs) \in Nat
  BY LenProperties
<1> DEFINE o == Offset(fs, Len(fs) + 1) - Offset(fs, k)
<1>1. o \in Int /\ o + HdrLen > avail
  <2>1. Len(fs) + 1 \in 1..(Len(fs) + 1) /\ k \in 1..(Len(fs) + 1)
    BY <1>0
  <2>2. Offset(fs, Len(fs) + 1) \in Nat /\ Offset(fs, k) \in Nat
    BY <2>1, OffsetFacts
  <2>3. HdrLen \in Nat \ {0}
    BY FramingOK
  <2>4. QED
    BY <2>2, <2>3 DEF Total
<1>2. r = IF off + o > MaxBytes THEN Result("toobig", o) ELSE Result("again", o + HdrLen)
  <2>1. o + HdrLen > avail
    BY <1>1
  <2>2. QED
    BY <2>1 DEF AtFrame
<1>3. QED
  BY <1>1, <1>2

\* The frames the parser looks at until it stops are the beginning of a block.
Stops(fs, k, off, avail) ==
    {j \in k..(Len(fs) + 1) : AtFrame(fs, k, j, off, avail).code # "more"}

LEMMA FirstStop ==
    ASSUME NEW fs \in Seq(Frame), NEW k \in 1..Len(fs), NEW off \in Nat, NEW avail \in Nat,
           avail <= Total(fs) - Offset(fs, k), fs[k].type = "headers", fs[k].sid # 0,
           NEW m, m = Min(Stops(fs, k, off, avail))
    PROVE  /\ m \in k..(Len(fs) + 1) /\ AtFrame(fs, k, m, off, avail).code # "more"
           /\ \A i \in k..(m - 1) : /\ i \in 1..Len(fs) /\ ~fs[i].ends
                                    /\ i > k => CarriesOn(fs, k, i)
           /\ m > k => /\ IsOpenBlock(fs, k, m - 1)
                       /\ Offset(fs, m) - Offset(fs, k) <= avail
<1>0. Len(fs) \in Nat
  BY LenProperties
<1>1. Len(fs) + 1 \in Stops(fs, k, off, avail)
  <2>1. PICK r : r = AtFrame(fs, k, Len(fs) + 1, off, avail)
    OBVIOUS
  <2>2. r.code # "more"
    BY <2>1, PastTheEnd DEF Result
  <2>3. QED
    BY <1>0, <2>1, <2>2 DEF Stops
<1>2. Stops(fs, k, off, avail) \subseteq Nat
  BY <1>0 DEF Stops
<1>3. m \in Stops(fs, k, off, avail) /\ \A i \in Stops(fs, k, off, avail) : m <= i
  BY <1>1, <1>2, MinFacts
<1>4. m \in k..(Len(fs) + 1) /\ AtFrame(fs, k, m, off, avail).code # "more"
  BY <1>3 DEF Stops
<1>5. ASSUME NEW i \in k..(m - 1)
      PROVE  /\ i \in 1..Len(fs) /\ ~fs[i].ends /\ (i > k => CarriesOn(fs, k, i))
             /\ Offset(fs, i) - Offset(fs, k) + FrameLen(fs[i]) <= avail
  <2>1. i \in 1..Len(fs) /\ i \in k..Len(fs) /\ i \in k..(Len(fs) + 1) /\ ~(m <= i)
    BY <1>0, <1>4
  <2>2. i \notin Stops(fs, k, off, avail)
    BY <1>3, <2>1
  <2>3. PICK r : r = AtFrame(fs, k, i, off, avail)
    OBVIOUS
  <2>4. r.code = "more"
    BY <2>1, <2>2, <2>3 DEF Stops
  <2>5. /\ i > k => CarriesOn(fs, k, i)
        /\ r.code = "ok" <=> fs[i].ends
        /\ Offset(fs, i) - Offset(fs, k) + FrameLen(fs[i]) <= avail
    BY <2>1, <2>3, <2>4, AtFrameFacts
  <2>6. QED
    BY <2>1, <2>4, <2>5
<1>6. ASSUME m > k PROVE IsOpenBlock(fs, k, m - 1) /\ Offset(fs, m) - Offset(fs, k) <= avail
  <2>1. \A i \in (k + 1)..(m - 1) : i \in k..(m - 1) /\ i > k
    OBVIOUS
  <2>2. \A i \in (k + 1)..(m - 1) : fs[i].type = "continuation" /\ fs[i].sid = fs[k].sid
    BY <1>5, <2>1 DEF CarriesOn
  <2>3. \A i \in k..(m - 1) : ~fs[i].ends
    BY <1>5
  <2>4. IsOpenBlock(fs, k, m - 1)
    BY <2>2, <2>3 DEF IsOpenBlock
  <2>5. m - 1 \in k..(m - 1) /\ m - 1 \in 1..Len(fs) /\ m - 1 \in 1..(Len(fs) + 1) /\ (m - 1) + 1 = m
    BY <1>0, <1>4, <1>6
  <2>6. k \in 1..(Len(fs) + 1)
    BY <1>0
  <2>7. /\ Offset(fs, m) = Offset(fs, m - 1) + FrameLen(fs[m - 1])
        /\ Offset(fs, m - 1) \in Nat /\ Offset(fs, k) \in Nat /\ FrameLen(fs[m - 1]) \in Nat
        /\ Offset(fs, m - 1) - Offset(fs, k) + FrameLen(fs[m - 1]) <= avail
    BY <1>5, <2>5, <2>6, OffsetFacts, FrameFacts
  <2>8. Offset(fs, m) - Offset(fs, k) <= avail
    BY <2>7
  <2>9. QED
    BY <2>4, <2>8
<1>7. QED
  BY <1>4, <1>5, <1>6

\* A block that goes on to a frame behind its beginning is open up to there, or
\* ends there.
LEMMA BlockGoesOn ==
    ASSUME NEW fs \in Seq(Frame), NEW k \in 1..Len(fs), NEW m \in k..Len(fs),
           fs[k].type = "headers", fs[k].sid # 0, m > k => IsOpenBlock(fs, k, m - 1),
           m > k => CarriesOn(fs, k, m)
    PROVE  IF fs[m].ends THEN IsUnit(fs, k, m) ELSE IsOpenBlock(fs, k, m)
<1>0. Len(fs) \in Nat
  BY LenProperties
<1>1. \A i \in (k + 1)..m : fs[i].type = "continuation" /\ fs[i].sid = fs[k].sid
  <2>1. SUFFICES ASSUME NEW i \in (k + 1)..m
                 PROVE  fs[i].type = "continuation" /\ fs[i].sid = fs[k].sid
    OBVIOUS
  <2>2. CASE i = m
    BY <2>2 DEF CarriesOn
  <2>3. CASE i # m
    <3>1. i \in (k + 1)..(m - 1) /\ m > k
      BY <2>3
    <3>2. QED
      BY <3>1 DEF IsOpenBlock
  <2>4. QED
    BY <2>2, <2>3
<1>2. \A i \in k..m : i # m => ~fs[i].ends
  <2>1. SUFFICES ASSUME NEW i \in k..m, i # m PROVE ~fs[i].ends
    OBVIOUS
  <2>2. i \in k..(m - 1) /\ m > k
    BY <2>1
  <2>3. QED
    BY <2>2 DEF IsOpenBlock
<1>3. CASE fs[m].ends
  BY <1>1, <1>2, <1>3 DEF IsUnit
<1>4. CASE ~fs[m].ends
  BY <1>1, <1>2, <1>4 DEF IsOpenBlock
<1>5. QED
  BY <1>3, <1>4

\* A unit is all that begins with its first frame, and none begins within it.
LEMMA UnitsApart ==
    ASSUME NEW fs \in Seq(Frame), NEW k \in 1..Len(fs), NEW j \in k..Len(fs), IsUnit(fs, k, j)
    PROVE  /\ \A b \in k..Len(fs) : IsUnit(fs, k, b) => b = j
           /\ \A a \in (k + 1)..j : \A b \in a..Len(fs) : ~IsUnit(fs, a, b)
<1>0. Len(fs) \in Nat
  BY LenProperties
<1>1. ASSUME NEW b \in k..Len(fs), IsUnit(fs, k, b), b # j PROVE FALSE
  <2>1. CASE fs[k].type = "settings"
    BY <1>1, <2>1 DEF IsUnit
  <2>2. CASE fs[k].type # "settings"
    <3>1. /\ \A i \in k..j : fs[i].ends <=> i = j
          /\ \A i \in k..b : fs[i].ends <=> i = b
      BY <1>1, <2>2 DEF IsUnit
    <3>2. j \in k..j /\ b \in k..b /\ (b \in k..j \/ j \in k..b)
      OBVIOUS
    <3>3. QED
      BY <1>1, <3>1, <3>2
  <2>3. QED
    BY <2>1, <2>2
<1>2. ASSUME NEW a \in (k + 1)..j, NEW b \in a..Len(fs), IsUnit(fs, a, b) PROVE FALSE
  <2>1. fs[a].type = "continuation"
    BY DEF IsUnit
  <2>2. QED
    BY <1>2, <2>1 DEF IsUnit
<1>3. QED
  BY <1>1, <1>2

\* A block of which too much would have to be pulled in cannot be read.
LEMMA TooLong ==
    ASSUME NEW fs \in Seq(Frame), NEW k \in 1..Len(fs), NEW m \in k..(Len(fs) + 1),
           fs[k].type = "headers", fs[k].sid # 0, m > k => IsOpenBlock(fs, k, m - 1),
           NEW bytes \in Int, bytes > MaxBytes,
           \/ bytes = Offset(fs, m) - Offset(fs, k) + HdrLen
           \/ /\ m <= Len(fs) /\ (m > k => CarriesOn(fs, k, m))
              /\ bytes = Offset(fs, m) - Offset(fs, k) + FrameLen(fs[m])
    PROVE  Unreadable(fs, k)
<1>0. Len(fs) \in Nat
  BY LenProperties
<1>1. k \in 1..(Len(fs) + 1) /\ m \in 1..(Len(fs) + 1) /\ HdrLen \in Nat /\ MaxBytes \in Nat
  BY <1>0, FramingOK
<1>2. Offset(fs, k) \in Nat /\ Offset(fs, m) \in Nat
  BY <1>1, OffsetFacts
<1>3. CASE bytes = Offset(fs, m) - Offset(fs, k) + HdrLen /\ m = k
  <2>1. FrameLen(fs[k]) \in Nat /\ FrameLen(fs[k]) >= HdrLen
    BY FrameFacts
  <2>2. FrameLen(fs[k]) > MaxBytes
    BY <1>1, <1>2, <1>3, <2>1
  <2>3. QED
    BY <2>2 DEF Unreadable
<1>4. CASE bytes = Offset(fs, m) - Offset(fs, k) + HdrLen /\ m > k
  <2>1. m - 1 \in k..Len(fs) /\ (m - 1) + 1 = m /\ IsOpenBlock(fs, k, m - 1)
    BY <1>0, <1>4
  <2>2. Offset(fs, (m - 1) + 1) - Offset(fs, k) + HdrLen > MaxBytes
    BY <1>4, <2>1
  <2>3. QED
    BY <2>1, <2>2 DEF Unreadable
<1>5. CASE /\ m <= Len(fs) /\ (m > k => CarriesOn(fs, k, m))
           /\ bytes = Offset(fs, m) - Offset(fs, k) + FrameLen(fs[m])
  <2>1. m \in 1..Len(fs) /\ m \in k..Len(fs)
    BY <1>0, <1>5
  <2>2. IF fs[m].ends THEN IsUnit(fs, k, m) ELSE IsOpenBlock(fs, k, m)
    BY <1>5, <2>1, BlockGoesOn
  <2>3. Offset(fs, m + 1) = Offset(fs, m) + FrameLen(fs[m]) /\ FrameLen(fs[m]) \in Nat
    BY <2>1, OffsetFacts, FrameFacts
  <2>4. Offset(fs, m + 1) - Offset(fs, k) > MaxBytes
    BY <1>2, <1>5, <2>3
  <2>5. Offset(fs, m + 1) - Offset(fs, k) \in Int
    BY <1>2, <2>3
  <2> DEFINE more == IF IsOpenBlock(fs, k, m) THEN HdrLen ELSE 0
  <2>6. more \in Nat
    BY <1>1
  <2> HIDE DEF more
  <2>7. Offset(fs, m + 1) - Offset(fs, k) + more > MaxBytes
    BY <1>1, <2>4, <2>5, <2>6
  <2>8. QED
    BY <2>1, <2>2, <2>7 DEF Unreadable, more
<1>6. QED
  BY <1>3, <1>4, <1>5

\* A walk that got beyond the bytes the parser walks left a frame of the block, or
\* its first, ending there.
LEMMA WalkedOut ==
    ASSUME NEW fs \in Seq(Frame), NEW k \in 1..Len(fs), NEW off \in Nat,
           NEW m \in k..(Len(fs) + 1), m > k => IsOpenBlock(fs, k, m - 1),
           off + (Offset(fs, m) - Offset(fs, k)) > MaxBytes
    PROVE  OutOfReach(fs, k, off)
<1>0. Len(fs) \in Nat /\ MaxBytes \in Nat
  BY LenProperties, FramingOK
<1>1. /\ k \in k..Len(fs) /\ k \in 1..(Len(fs) + 1) /\ k + 1 \in 1..(Len(fs) + 1)
      /\ m \in 1..(Len(fs) + 1)
  BY <1>0
<1>2. /\ Offset(fs, k) \in Nat /\ Offset(fs, m) \in Nat /\ Offset(fs, k + 1) \in Nat
      /\ Offset(fs, k + 1) = Offset(fs, k) + FrameLen(fs[k])
      /\ FrameLen(fs[k]) \in Nat
  BY <1>1, OffsetFacts, FrameFacts
<1>3. CASE m = k
  <2>1. off + Offset(fs, k + 1) - Offset(fs, k) > MaxBytes
    BY <1>0, <1>2, <1>3
  <2>2. QED
    BY <1>1, <2>1 DEF OutOfReach
<1>4. CASE m > k
  <2>1. m - 1 \in k..Len(fs) /\ IsOpenBlock(fs, k, m - 1) /\ (m - 1) + 1 = m
    BY <1>0, <1>4
  <2>2. off + Offset(fs, (m - 1) + 1) - Offset(fs, k) > MaxBytes
    BY <1>0, <1>2, <2>1
  <2>3. QED
    BY <2>1, <2>2 DEF OutOfReach
<1>5. QED
  BY <1>3, <1>4

\* At the start of the bytes the parser walks, what is out of reach cannot be read.
LEMMA UnreachedUnreadable ==
    ASSUME NEW fs \in Seq(Frame), NEW k \in 1..Len(fs), OutOfReach(fs, k, 0)
    PROVE  Unreadable(fs, k)
<1>0. Len(fs) \in Nat /\ MaxBytes \in Nat /\ HdrLen \in Nat
  BY LenProperties, FramingOK
<1>1. PICK j \in k..Len(fs) : /\ j = k \/ IsUnit(fs, k, j) \/ IsOpenBlock(fs, k, j)
                              /\ 0 + Offset(fs, j + 1) - Offset(fs, k) > MaxBytes
  BY DEF OutOfReach
<1>2. k \in 1..(Len(fs) + 1) /\ j + 1 \in 1..(Len(fs) + 1)
  BY <1>0
<1>3. /\ Offset(fs, k) \in Nat /\ Offset(fs, j + 1) \in Nat
      /\ Offset(fs, k + 1) = Offset(fs, k) + FrameLen(fs[k])
      /\ FrameLen(fs[k]) \in Nat
  BY <1>2, OffsetFacts, FrameFacts
<1>4. CASE j = k
  <2>1. FrameLen(fs[k]) > MaxBytes
    BY <1>0, <1>1, <1>3, <1>4
  <2>2. QED
    BY <2>1 DEF Unreadable
<1>5. CASE IsUnit(fs, k, j) \/ IsOpenBlock(fs, k, j)
  <2> DEFINE more == IF IsOpenBlock(fs, k, j) THEN HdrLen ELSE 0
  <2>1. more \in Nat
    BY <1>0
  <2> HIDE DEF more
  <2>2. Offset(fs, j + 1) - Offset(fs, k) + more > MaxBytes
    BY <1>0, <1>1, <1>3, <2>1
  <2>3. QED
    BY <1>5, <2>2 DEF Unreadable, more
<1>6. QED
  BY <1>1, <1>4, <1>5

\* What a result of collecting a block says of the stream: the block was read to
\* its end, which has arrived, or has not arrived, or is broken or unreadable.
LEMMA CollectFacts ==
    ASSUME NEW fs \in Seq(Frame), NEW k \in 1..Len(fs), NEW off \in Nat,
           NEW avail \in Nat, NEW size \in Nat, avail <= size, size <= Total(fs) - Offset(fs, k),
           fs[k].type = "headers", fs[k].sid # 0, ~fs[k].ends, FrameLen(fs[k]) <= size,
           NEW r, r = _collect_block(fs, k, off, avail, size)
    PROVE  /\ r.code \in {"ok", "again", "proto", "badmsg", "toobig"}
           /\ r.code = "ok" => \E j \in (k + 1)..Len(fs) :
                                  /\ IsUnit(fs, k, j) /\ r.bytes = Offset(fs, j + 1) - Offset(fs, k)
                                  /\ r.bytes <= avail
           /\ r.code = "again" =>
                 /\ r.bytes \in Int /\ r.bytes > size
                 /\ \A j \in k..Len(fs) :
                       IsUnit(fs, k, j) => Offset(fs, j + 1) - Offset(fs, k) > size
           /\ r.code = "proto" => /\ r.bytes = FrameLen(fs[k])
                                  /\ \A j \in k..Len(fs) : ~IsUnit(fs, k, j)
           /\ r.code = "badmsg" => \E i \in k..Len(fs) :
                                      fs[i].fate = "padding" /\ Offset(fs, i) < Offset(fs, k) + size
           /\ r.code = "toobig" /\ avail >= Min({size, MaxBytes}) =>
                 Unreadable(fs, k) \/ OutOfReach(fs, k, off)
<1>0. Len(fs) \in Nat
  BY LenProperties
<1>1. HdrLen \in Nat \ {0} /\ MaxBytes \in Nat
  BY FramingOK
<1>2. avail <= Total(fs) - Offset(fs, k)
  <2>1. k \in 1..(Len(fs) + 1) /\ Len(fs) + 1 \in 1..(Len(fs) + 1)
    BY <1>0
  <2>2. Total(fs) \in Nat /\ Offset(fs, k) \in Nat
    BY <2>1, OffsetFacts DEF Total
  <2>3. QED
    BY <2>2
<1>3. PICK m : m = Min(Stops(fs, k, off, avail))
  OBVIOUS
<1>4. /\ m \in k..(Len(fs) + 1) /\ AtFrame(fs, k, m, off, avail).code # "more"
      /\ \A i \in k..(m - 1) : /\ i \in 1..Len(fs) /\ ~fs[i].ends
                               /\ i > k => CarriesOn(fs, k, i)
      /\ m > k => IsOpenBlock(fs, k, m - 1) /\ Offset(fs, m) - Offset(fs, k) <= avail
  BY <1>2, <1>3, FirstStop
<1>5. PICK q : q = AtFrame(fs, k, m, off, avail)
  OBVIOUS
<1>6. r = IF q.code = "again" /\ q.bytes <= size THEN Result("toobig", q.bytes) ELSE q
  BY <1>3, <1>5 DEF _collect_block, Stops
<1>7. k \in 1..(Len(fs) + 1) /\ m \in 1..(Len(fs) + 1)
  BY <1>0, <1>4
<1>8. Offset(fs, k) \in Nat /\ Offset(fs, m) \in Nat
  BY <1>7, OffsetFacts
<1> DEFINE o == Offset(fs, m) - Offset(fs, k)
<1>9. o \in Int /\ (m = k => o = 0) /\ o <= avail
  BY <1>4, <1>8
<1>10. ASSUME NEW j \in k..Len(fs), j < m PROVE ~IsUnit(fs, k, j)
  <2>1. j \in k..(m - 1) /\ j \in k..j
    BY <1>0, <1>4, <1>10
  <2>2. QED
    BY <1>4, <2>1 DEF IsUnit
<1>11. off + o > MaxBytes => OutOfReach(fs, k, off)
  BY <1>4, WalkedOut
<1>12. CASE m = Len(fs) + 1
  <2>1. \/ q = Result("toobig", o) /\ off + o > MaxBytes
        \/ q = Result("again", o + HdrLen) /\ o + HdrLen > avail
    BY <1>2, <1>5, <1>12, PastTheEnd
  <2> HIDE DEF o
  <2>2. CASE q = Result("toobig", o) /\ off + o > MaxBytes
    <3>1. r = Result("toobig", o)
      BY <1>6, <2>2 DEF Result
    <3>2. r.code = "toobig"
      BY <3>1 DEF Result
    <3>3. QED
      BY <1>11, <2>2, <3>2 DEF o
  <2>3. CASE q = Result("again", o + HdrLen) /\ o + HdrLen > avail /\ o + HdrLen <= size
    <3>1. r = Result("toobig", o + HdrLen)
      BY <1>6, <2>3 DEF Result
    <3>2. r.code = "toobig"
      BY <3>1 DEF Result
    <3>3. ASSUME avail >= Min({size, MaxBytes}) PROVE Unreadable(fs, k)
      <4>1. Min({size, MaxBytes}) \in {size, MaxBytes}
        BY <1>1, MinFacts
      <4>2. o + HdrLen \in Int /\ o + HdrLen > MaxBytes
        BY <1>1, <1>9, <2>3, <3>3, <4>1
      <4>3. QED
        BY <1>4, <4>2, TooLong DEF o
    <3>4. QED
      BY <3>2, <3>3
  <2>4. CASE q = Result("again", o + HdrLen) /\ ~(o + HdrLen <= size)
    <3>1. r = q /\ r.code = "again" /\ r.bytes = o + HdrLen
      BY <1>6, <2>4 DEF Result
    <3>2. r.bytes \in Int /\ r.bytes > size
      BY <1>1, <1>9, <2>4, <3>1
    <3>3. \A j \in k..Len(fs) : j < m
      BY <1>0, <1>12
    <3>4. QED
      BY <1>10, <3>1, <3>2, <3>3
  <2>5. QED
    BY <2>1, <2>2, <2>3, <2>4
<1>13. CASE m # Len(fs) + 1
  <2>1. m \in k..Len(fs) /\ m \in 1..Len(fs)
    BY <1>0, <1>4, <1>13
  <2> DEFINE last == o + FrameLen(fs[m])
             carried == m > k => CarriesOn(fs, k, m)
  <2>2. /\ q.code \in {"more", "ok", "again", "proto", "badmsg", "toobig"}
        /\ q.code \in {"more", "ok"} =>
             /\ q.bytes = last /\ last <= avail /\ carried
             /\ q.code = "ok" <=> fs[m].ends
        /\ q.code = "again" => /\ q.bytes > avail
                               /\ \/ q.bytes = o + HdrLen
                                  \/ q.bytes = last /\ carried
        /\ q.code = "proto" => /\ m > k /\ ~CarriesOn(fs, k, m)
                               /\ q.bytes = FrameLen(fs[k])
        /\ q.code = "badmsg" => fs[m].fate = "padding" /\ last <= avail
        /\ q.code = "toobig" => \/ off + o > MaxBytes
                                \/ BlockLen(fs, k, m) > BlockMax /\ carried
    BY <1>5, <2>1, AtFrameFacts
  <2>3. q.code # "more"
    BY <1>4, <1>5
  <2>4. /\ FrameLen(fs[m]) \in Nat /\ last \in Int /\ FrameLen(fs[m]) > 0
        /\ Offset(fs, m + 1) - Offset(fs, k) = last
    <3>1. FrameLen(fs[m]) \in Nat /\ FrameLen(fs[m]) > 0
      BY <2>1, FrameFacts
    <3>2. Offset(fs, m + 1) = Offset(fs, m) + FrameLen(fs[m])
      BY <2>1, OffsetFacts
    <3>3. QED
      BY <1>8, <3>1, <3>2
  <2> HIDE DEF o, last
  <2>5. CASE q.code = "ok"
    <3>1. r = q /\ carried /\ fs[m].ends /\ r.bytes = last /\ last <= avail
      BY <1>6, <2>2, <2>5
    <3>2. m \in (k + 1)..Len(fs)
      BY <2>1, <3>1
    <3>3. IsUnit(fs, k, m)
      BY <1>4, <2>1, <3>1, BlockGoesOn
    <3>4. QED
      BY <2>4, <2>5, <3>1, <3>2, <3>3
  <2>6. CASE q.code = "again" /\ q.bytes <= size
    <3>1. r.code = "toobig"
      BY <1>6, <2>6 DEF Result
    <3>2. ASSUME avail >= Min({size, MaxBytes})
          PROVE  Unreadable(fs, k)
      <4>1. Min({size, MaxBytes}) \in {size, MaxBytes}
        BY <1>1, MinFacts
      <4>2. q.bytes \in Int /\ q.bytes > avail
        BY <1>1, <1>9, <2>2, <2>4, <2>6
      <4>3. q.bytes > MaxBytes
        BY <1>1, <2>6, <3>2, <4>1, <4>2
      <4>4. \/ q.bytes = o + HdrLen
            \/ m <= Len(fs) /\ (m > k => CarriesOn(fs, k, m)) /\ q.bytes = o + FrameLen(fs[m])
        BY <2>1, <2>2, <2>6 DEF last
      <4>5. QED
        BY <1>4, <4>2, <4>3, <4>4, TooLong DEF o
    <3>3. QED
      BY <3>1, <3>2
  <2>7. CASE q.code = "again" /\ ~(q.bytes <= size)
    <3>1. r = q /\ q.bytes \in Int
      BY <1>1, <1>6, <1>9, <2>2, <2>4, <2>7
    <3>2. q.bytes <= last
      <4>1. FrameLen(fs[m]) \in Nat /\ FrameLen(fs[m]) >= HdrLen
        BY <2>1, FrameFacts
      <4>2. q.bytes = o + HdrLen \/ q.bytes = last
        BY <2>2, <2>7
      <4>3. QED
        BY <1>1, <1>9, <4>1, <4>2 DEF last
    <3>3. ASSUME NEW j \in k..Len(fs), IsUnit(fs, k, j)
          PROVE  Offset(fs, j + 1) - Offset(fs, k) > size
      <4>1. m <= j
        BY <1>4, <1>10, <3>3
      <4>2. m + 1 \in 1..(Len(fs) + 1) /\ j + 1 \in 1..(Len(fs) + 1) /\ m + 1 <= j + 1
        BY <1>0, <2>1, <4>1
      <4>3. Offset(fs, m + 1) <= Offset(fs, j + 1)
        BY <4>2, OffsetOrder
      <4>4. Offset(fs, m + 1) \in Nat /\ Offset(fs, j + 1) \in Nat
        BY <4>2, OffsetFacts
      <4>5. QED
        BY <1>8, <2>4, <2>7, <3>1, <3>2, <4>3, <4>4
    <3>4. QED
      BY <2>7, <3>1, <3>3
  <2>8. CASE q.code = "proto"
    <3>1. r = q /\ m > k /\ ~CarriesOn(fs, k, m) /\ r.bytes = FrameLen(fs[k])
      BY <1>6, <2>2, <2>8
    <3>2. ASSUME NEW j \in k..Len(fs), IsUnit(fs, k, j) PROVE FALSE
      <4>1. /\ \A i \in (k + 1)..j : fs[i].type = "continuation" /\ fs[i].sid = fs[k].sid
            /\ \A i \in k..j : fs[i].ends <=> i = j
        BY <3>2 DEF IsUnit
      <4>2. CASE m <= j
        BY <2>1, <3>1, <4>1, <4>2 DEF CarriesOn
      <4>3. CASE ~(m <= j)
        <5>1. j \in k..(m - 1) /\ j \in k..j
          BY <2>1, <4>3
        <5>2. QED
          BY <1>4, <4>1, <5>1
      <4>4. QED
        BY <4>2, <4>3
    <3>3. QED
      BY <2>8, <3>1, <3>2
  <2>9. CASE q.code = "badmsg"
    <3>1. r = q /\ fs[m].fate = "padding" /\ last <= avail
      BY <1>6, <2>2, <2>9
    <3>2. Offset(fs, m) < Offset(fs, k) + size
      BY <1>8, <2>4, <3>1 DEF last, o
    <3>3. QED
      BY <2>1, <2>9, <3>1, <3>2
  <2>10. CASE q.code = "toobig"
    <3>1. r = q
      BY <1>6, <2>10
    <3>2. CASE BlockLen(fs, k, m) > BlockMax /\ carried
      <4>1. IF fs[m].ends THEN IsUnit(fs, k, m) ELSE IsOpenBlock(fs, k, m)
        BY <1>4, <2>1, <3>2, BlockGoesOn
      <4>2. Unreadable(fs, k)
        BY <2>1, <3>2, <4>1 DEF Unreadable
      <4>3. QED
        BY <2>10, <3>1, <4>2
    <3>3. CASE off + o > MaxBytes
      BY <1>11, <2>10, <3>1, <3>3 DEF o
    <3>4. QED
      BY <2>2, <2>10, <3>2, <3>3
  <2>11. QED
    BY <2>2, <2>3, <2>5, <2>6, <2>7, <2>8, <2>9, <2>10
<1>14. QED
  BY <1>12, <1>13

-----------------------------------------------------------------------------
(* Reading a frame or a block.                                               *)

\* What is left of a number in so many bits is no more than the number, and is
\* the number if it fits.
LEMMA Wrapped ==
    ASSUME NEW a \in Nat, NEW b \in Nat \ {0}
    PROVE  a % b \in Nat /\ a % b <= a /\ (a < b => a % b = a)
  OBVIOUS

\* A frame that is read on its own is walked to its end, or cannot be read.
LEMMA ParseFrameFacts ==
    ASSUME NEW fs \in Seq(Frame), NEW k \in 1..Len(fs), NEW off \in Nat,
           NEW r, r = _parse_frame(fs[k], off)
    PROVE  /\ r.code \in {"ok", "badmsg", "toobig"} /\ r.bytes = FrameLen(fs[k])
           /\ r.code = "badmsg" => fs[k].fate # "ok"
           /\ r.code = "toobig" => off + FrameLen(fs[k]) > MaxBytes
<1>1. FrameLen(fs[k]) \in Nat /\ EndWidth \in Nat \ {0} /\ MaxBytes \in Nat
  BY FrameFacts, FramingOK
<1> DEFINE b == _http2_block(fs[k])
<1>2. b \in Nat /\ b <= FrameLen(fs[k])
  BY <1>1, Wrapped DEF _http2_block
<1>3. r = IF off > MaxBytes THEN Result("toobig", FrameLen(fs[k]))
          ELSE IF fs[k].fate = "padding" THEN Result("badmsg", FrameLen(fs[k]))
          ELSE IF off + b > MaxBytes THEN Result("toobig", FrameLen(fs[k]))
          ELSE Result(IF fs[k].fate = "hpack" /\ b > HdrLen THEN "badmsg" ELSE "ok",
                      FrameLen(fs[k]))
  BY DEF _parse_frame
<1> HIDE DEF b
<1>4. CASE off > MaxBytes
  <2>1. r = Result("toobig", FrameLen(fs[k])) /\ off + FrameLen(fs[k]) > MaxBytes
    BY <1>1, <1>3, <1>4
  <2>2. QED
    BY <2>1 DEF Result
<1>5. CASE ~(off > MaxBytes) /\ fs[k].fate = "padding"
  <2>1. r = Result("badmsg", FrameLen(fs[k]))
    BY <1>3, <1>5
  <2>2. QED
    BY <1>5, <2>1 DEF Result
<1>6. CASE ~(off > MaxBytes) /\ ~(fs[k].fate = "padding") /\ off + b > MaxBytes
  <2>1. r = Result("toobig", FrameLen(fs[k]))
    BY <1>3, <1>6
  <2>2. off + FrameLen(fs[k]) > MaxBytes
    BY <1>1, <1>2, <1>6
  <2>3. QED
    BY <2>1, <2>2 DEF Result
<1>7. CASE ~(off > MaxBytes) /\ ~(fs[k].fate = "padding") /\ ~(off + b > MaxBytes)
  <2>1. r = Result(IF fs[k].fate = "hpack" /\ b > HdrLen THEN "badmsg" ELSE "ok",
                   FrameLen(fs[k]))
    BY <1>3, <1>7
  <2>2. CASE fs[k].fate = "hpack" /\ b > HdrLen
    BY <2>1, <2>2 DEF Result
  <2>3. CASE ~(fs[k].fate = "hpack" /\ b > HdrLen)
    BY <2>1, <2>3 DEF Result
  <2>4. QED
    BY <2>2, <2>3
<1>8. QED
  BY <1>4, <1>5, <1>6, <1>7

\* A block that has been collected is read, or cannot be.
LEMMA ParseBlockFacts ==
    ASSUME NEW fs \in Seq(Frame), NEW k \in 1..Len(fs), NEW off \in Nat,
           NEW avail \in Nat, NEW size \in Nat, avail <= size, size <= Total(fs) - Offset(fs, k),
           fs[k].type = "headers", fs[k].sid # 0, ~fs[k].ends, FrameLen(fs[k]) <= size,
           NEW r, r = _parse_block(fs, k, off, avail, size)
    PROVE  /\ r.code \in {"ok", "again", "proto", "badmsg", "toobig"}
           /\ r.code = "ok" => \E j \in (k + 1)..Len(fs) :
                                  /\ IsUnit(fs, k, j) /\ r.bytes = Offset(fs, j + 1) - Offset(fs, k)
                                  /\ r.bytes <= size
           /\ r.code = "again" =>
                 /\ r.bytes \in Int /\ r.bytes > size
                 /\ \A j \in k..Len(fs) :
                       IsUnit(fs, k, j) => Offset(fs, j + 1) - Offset(fs, k) > size
           /\ r.code = "proto" => /\ r.bytes = FrameLen(fs[k])
                                  /\ \A j \in k..Len(fs) : ~IsUnit(fs, k, j)
           /\ r.code = "badmsg" => \E i \in k..Len(fs) :
                                      fs[i].fate # "ok" /\ Offset(fs, i) < Offset(fs, k) + size
           /\ r.code = "toobig" /\ avail >= Min({size, MaxBytes}) =>
                 Unreadable(fs, k) \/ OutOfReach(fs, k, off)
<1>0. Len(fs) \in Nat
  BY LenProperties
<1>1. PICK q : q = _collect_block(fs, k, off, avail, size)
  OBVIOUS
<1>2. /\ q.code \in {"ok", "again", "proto", "badmsg", "toobig"}
      /\ q.code = "ok" => \E j \in (k + 1)..Len(fs) :
                             /\ IsUnit(fs, k, j) /\ q.bytes = Offset(fs, j + 1) - Offset(fs, k)
                             /\ q.bytes <= avail
      /\ q.code = "again" =>
            /\ q.bytes \in Int /\ q.bytes > size
            /\ \A j \in k..Len(fs) :
                  IsUnit(fs, k, j) => Offset(fs, j + 1) - Offset(fs, k) > size
      /\ q.code = "proto" => /\ q.bytes = FrameLen(fs[k])
                             /\ \A j \in k..Len(fs) : ~IsUnit(fs, k, j)
      /\ q.code = "badmsg" => \E i \in k..Len(fs) :
                                 fs[i].fate = "padding" /\ Offset(fs, i) < Offset(fs, k) + size
      /\ q.code = "toobig" /\ avail >= Min({size, MaxBytes}) =>
            Unreadable(fs, k) \/ OutOfReach(fs, k, off)
  BY <1>1, CollectFacts
<1>3. r = IF q.code = "ok" /\ \E j \in k..LastFrame(fs, k, q.bytes) : fs[j].fate = "hpack"
          THEN Result("badmsg", q.bytes)
          ELSE q
  BY <1>1 DEF _parse_block
<1>4. CASE q.code = "ok"
  <2>1. PICK j \in (k + 1)..Len(fs) :
               /\ IsUnit(fs, k, j) /\ q.bytes = Offset(fs, j + 1) - Offset(fs, k)
               /\ q.bytes <= avail
    BY <1>2, <1>4
  <2>2. j \in k..Len(fs) /\ k \in 1..(Len(fs) + 1) /\ j + 1 \in 1..(Len(fs) + 1)
    BY <1>0
  <2>3. Offset(fs, k) \in Nat /\ Offset(fs, j + 1) \in Nat
    BY <2>2, OffsetFacts
  <2>4. LastFrame(fs, k, q.bytes) = j
    BY <2>1, <2>2, LastFrameFound
  <2>5. q.bytes <= size
    BY <2>1, <2>3
  <2>6. CASE \E i \in k..j : fs[i].fate = "hpack"
    <3>1. PICK i \in k..j : fs[i].fate = "hpack"
      BY <2>6
    <3>2. i \in k..Len(fs) /\ i \in 1..(Len(fs) + 1) /\ i < j + 1
      BY <1>0
    <3>3. Offset(fs, i) < Offset(fs, j + 1) /\ Offset(fs, i) \in Nat
      BY <2>2, <3>2, OffsetOrder, OffsetFacts
    <3>4. Offset(fs, i) < Offset(fs, k) + size
      BY <2>1, <2>3, <2>5, <3>3
    <3>5. fs[i].fate # "ok"
      BY <3>1
    <3>6. r.code = "badmsg"
      BY <1>3, <1>4, <2>4, <2>6 DEF Result
    <3>7. QED
      BY <3>2, <3>4, <3>5, <3>6
  <2>7. CASE ~\E i \in k..j : fs[i].fate = "hpack"
    <3>1. r = q
      BY <1>3, <2>4, <2>7
    <3>2. QED
      BY <1>4, <2>1, <2>5, <3>1
  <2>8. QED
    BY <2>6, <2>7
<1>5. CASE q.code # "ok"
  <2>1. r = q
    BY <1>3, <1>5
  <2>2. QED
    BY <1>2, <1>5, <2>1
<1>6. QED
  BY <1>4, <1>5

\* What a result says of the frame or block it is about: it has been read or
\* skipped whole, has not arrived, is no block, or cannot be read.
Says(fs, k, off, size, r) ==
    /\ r.code \in {"ok", "again", "proto", "badmsg", "toobig"}
    /\ r.code = "ok" /\ _is_parsed_frame(fs[k]) => \E j \in k..Len(fs) :
         /\ IsUnit(fs, k, j) /\ r.bytes = Offset(fs, j + 1) - Offset(fs, k)
         /\ r.bytes <= size
    /\ r.code = "ok" /\ ~_is_parsed_frame(fs[k]) => r.bytes = FrameLen(fs[k])
    /\ ~_violates_block_rules(fs[k]) /\ ~_is_parsed_frame(fs[k]) => r.code = "ok"
    /\ r.code = "again" =>
          /\ r.bytes \in Int /\ r.bytes > size
          /\ \A j \in k..Len(fs) :
                IsUnit(fs, k, j) => Offset(fs, j + 1) - Offset(fs, k) > size
    /\ r.code = "proto" => /\ r.bytes = FrameLen(fs[k]) /\ r.bytes <= size
                           /\ \A j \in k..Len(fs) : ~IsUnit(fs, k, j)
    /\ r.code = "badmsg" => \E i \in k..Len(fs) :
                               fs[i].fate # "ok" /\ Offset(fs, i) < Offset(fs, k) + size
    /\ r.code = "toobig" => /\ Offset(fs, k) < Offset(fs, k) + size
                            /\ Unreadable(fs, k) \/ OutOfReach(fs, k, off)

\* Every result says so.
LEMMA ParseFacts ==
    ASSUME NEW fs \in Seq(Frame), NEW k \in 1..Len(fs), NEW off \in Nat,
           NEW avail \in Nat, NEW size \in Nat, avail <= size, size <= Total(fs) - Offset(fs, k),
           avail >= Min({size, MaxBytes}), NEW r, r = ParseFrom(fs, k, off, size, avail)
    PROVE  Says(fs, k, off, size, r)
<1> USE DEF Says
<1>0. Len(fs) \in Nat
  BY LenProperties
<1> DEFINE f == fs[k]
<1>1. /\ f \in Frame /\ FrameLen(f) \in Nat /\ FrameLen(f) > 0
      /\ k \in k..Len(fs) /\ k \in 1..(Len(fs) + 1)
  BY <1>0, FrameFacts
<1>2. Offset(fs, k) \in Nat /\ Offset(fs, k + 1) = Offset(fs, k) + FrameLen(f)
  BY <1>1, OffsetFacts
<1>3. f.type \in {"headers", "continuation", "settings", "other"}
  BY <1>1 DEF Frame
<1>4. r = IF _violates_block_rules(f) THEN _reject_frame(f, size)
          ELSE IF ~_is_parsed_frame(f) THEN Result("ok", FrameLen(f))
          ELSE IF FrameLen(f) > size THEN Result("again", FrameLen(f))
          ELSE IF f.type = "headers" /\ ~f.ends THEN _parse_block(fs, k, off, avail, size)
          ELSE _parse_frame(f, off)
  BY DEF ParseFrom
<1> HIDE DEF f
<1>5. CASE _violates_block_rules(f)
  <2>1. r = Result(IF FrameLen(f) <= size THEN "proto" ELSE "again", FrameLen(f))
    BY <1>4, <1>5 DEF _reject_frame
  <2>2. \A j \in k..Len(fs) : ~IsUnit(fs, k, j)
    BY <1>5 DEF _violates_block_rules, IsUnit, f
  <2>3. CASE FrameLen(f) <= size
    BY <1>5, <2>1, <2>2, <2>3 DEF Result, f
  <2>4. CASE ~(FrameLen(f) <= size)
    <3>1. r.code = "again" /\ r.bytes = FrameLen(f)
      BY <2>1, <2>4 DEF Result
    <3>2. FrameLen(f) > size
      BY <1>1, <2>4
    <3>3. QED
      BY <1>1, <1>5, <2>2, <3>1, <3>2 DEF f
  <2>5. QED
    BY <2>3, <2>4
<1>6. CASE ~_violates_block_rules(f) /\ ~_is_parsed_frame(f)
  BY <1>4, <1>6 DEF Result, f
<1>7. CASE ~_violates_block_rules(f) /\ _is_parsed_frame(f) /\ FrameLen(f) > size
  <2>1. r.code = "again" /\ r.bytes = FrameLen(f)
    BY <1>4, <1>7 DEF Result
  <2>2. ASSUME NEW j \in k..Len(fs) PROVE Offset(fs, j + 1) - Offset(fs, k) > size
    <3>1. k < j + 1 /\ j + 1 \in 1..(Len(fs) + 1)
      BY <1>0
    <3>2. Offset(fs, k) + FrameLen(f) <= Offset(fs, j + 1)
      BY <3>1, OffsetsGrow DEF f
    <3>3. Offset(fs, j + 1) \in Nat
      BY <3>1, OffsetFacts
    <3>4. QED
      BY <1>1, <1>2, <1>7, <3>2, <3>3
  <2>3. QED
    BY <1>1, <1>7, <2>1, <2>2 DEF f
<1>8. CASE /\ ~_violates_block_rules(f) /\ _is_parsed_frame(f) /\ ~(FrameLen(f) > size)
           /\ f.type = "headers" /\ ~f.ends
  <2>1. f.sid # 0 /\ FrameLen(f) <= size
    BY <1>1, <1>8 DEF _violates_block_rules
  <2>2. r = _parse_block(fs, k, off, avail, size)
    BY <1>4, <1>8
  <2>3. /\ r.code \in {"ok", "again", "proto", "badmsg", "toobig"}
        /\ r.code = "ok" => \E j \in (k + 1)..Len(fs) :
                               /\ IsUnit(fs, k, j) /\ r.bytes = Offset(fs, j + 1) - Offset(fs, k)
                               /\ r.bytes <= size
        /\ r.code = "again" =>
              /\ r.bytes \in Int /\ r.bytes > size
              /\ \A j \in k..Len(fs) :
                    IsUnit(fs, k, j) => Offset(fs, j + 1) - Offset(fs, k) > size
        /\ r.code = "proto" => /\ r.bytes = FrameLen(fs[k])
                               /\ \A j \in k..Len(fs) : ~IsUnit(fs, k, j)
        /\ r.code = "badmsg" => \E i \in k..Len(fs) :
                                   fs[i].fate # "ok" /\ Offset(fs, i) < Offset(fs, k) + size
        /\ r.code = "toobig" /\ avail >= Min({size, MaxBytes}) =>
              Unreadable(fs, k) \/ OutOfReach(fs, k, off)
    BY <1>8, <2>1, <2>2, ParseBlockFacts DEF f
  <2>4. \A j \in (k + 1)..Len(fs) : j \in k..Len(fs) /\ j # k
    OBVIOUS
  <2>5. Offset(fs, k) < Offset(fs, k) + size
    BY <1>1, <1>2, <2>1
  <2>6. QED
    BY <1>1, <1>8, <2>1, <2>3, <2>4, <2>5 DEF f
<1>9. CASE /\ ~_violates_block_rules(f) /\ _is_parsed_frame(f) /\ ~(FrameLen(f) > size)
           /\ ~(f.type = "headers" /\ ~f.ends)
  <2>1. r = _parse_frame(f, off) /\ FrameLen(f) <= size
    BY <1>1, <1>4, <1>9
  <2>2. /\ r.code \in {"ok", "badmsg", "toobig"} /\ r.bytes = FrameLen(f)
        /\ r.code = "badmsg" => f.fate # "ok"
        /\ r.code = "toobig" => off + FrameLen(f) > MaxBytes
    BY <2>1, ParseFrameFacts DEF f
  <2>3. IsUnit(fs, k, k)
    <3>1. f.type \in {"headers", "settings"}
      BY <1>3, <1>9 DEF _is_parsed_frame, _violates_block_rules
    <3>2. CASE f.type = "settings"
      BY <3>2 DEF IsUnit, f
    <3>3. CASE f.type = "headers"
      <4>1. f.sid # 0 /\ f.ends
        BY <1>9, <3>3 DEF _violates_block_rules
      <4>2. \A i \in k..k : i = k
        OBVIOUS
      <4>3. \A i \in (k + 1)..k : FALSE
        OBVIOUS
      <4>4. QED
        BY <3>3, <4>1, <4>2, <4>3 DEF IsUnit, f
    <3>4. QED
      BY <3>1, <3>2, <3>3
  <2>4. r.bytes = Offset(fs, k + 1) - Offset(fs, k) /\ r.bytes <= size
    BY <1>1, <1>2, <2>1, <2>2
  <2>5. Offset(fs, k) < Offset(fs, k) + size
    BY <1>1, <1>2, <2>1
  <2>6. ASSUME r.code = "toobig" PROVE OutOfReach(fs, k, off)
    <3>1. off + Offset(fs, k + 1) - Offset(fs, k) > MaxBytes
      BY <1>1, <1>2, <2>2, <2>6, FramingOK
    <3>2. QED
      BY <1>1, <3>1 DEF OutOfReach
  <2>7. QED
    BY <1>1, <1>9, <2>2, <2>3, <2>4, <2>5, <2>6 DEF f
<1>10. QED
  BY <1>5, <1>6, <1>7, <1>8, <1>9

-----------------------------------------------------------------------------
(* The units of a stream, as one frame after the other is passed.            *)

\* Frame k is not within a unit.
NoneAcross(fs, k) == \A u \in Units(fs) : ~(u[1] < k /\ k <= u[2])

\* The units that end before frame k.
UnitsBefore(fs, k) == {u \in Units(fs) : u[2] < k}

\* What a sequence holds with one more element.
LEMMA RangeAppend ==
    ASSUME NEW S, NEW s \in Seq(S), NEW e \in S
    PROVE  Range(Append(s, e)) = Range(s) \cup {e}
<1>1. /\ Len(s) \in Nat /\ DOMAIN s = 1..Len(s) /\ Append(s, e) \in Seq(S)
      /\ Len(Append(s, e)) = Len(s) + 1
      /\ \A i \in 1..Len(s) : Append(s, e)[i] = s[i]
      /\ Append(s, e)[Len(s) + 1] = e
  BY AppendProperties, LenProperties
<1>2. DOMAIN Append(s, e) = 1..(Len(s) + 1)
  BY <1>1, LenProperties
<1>3. \A i \in 1..(Len(s) + 1) : i \in 1..Len(s) \/ i = Len(s) + 1
  BY <1>1
<1>4. \A i \in 1..Len(s) : i \in 1..(Len(s) + 1)
  BY <1>1
<1>5. Len(s) + 1 \in 1..(Len(s) + 1)
  BY <1>1
<1>6. QED
  BY <1>1, <1>2, <1>3, <1>4, <1>5 DEF Range

\* A unit is a pair of frames that is one.
LEMMA UnitsAre ==
    ASSUME NEW fs, NEW u \in Units(fs)
    PROVE  /\ u[1] \in 1..Len(fs) /\ u[2] \in 1..Len(fs) /\ u[1] <= u[2]
           /\ u = <<u[1], u[2]>> /\ IsUnit(fs, u[1], u[2])
  BY DEF Units

\* Past a frame that begins no unit there are the same units as before it.
LEMMA FramePassed ==
    ASSUME NEW fs \in Seq(Frame), NEW k \in 1..Len(fs), NoneAcross(fs, k),
           \A j \in k..Len(fs) : ~IsUnit(fs, k, j)
    PROVE  NoneAcross(fs, k + 1) /\ UnitsBefore(fs, k + 1) = UnitsBefore(fs, k)
<1>0. Len(fs) \in Nat
  BY LenProperties
<1>1. ASSUME NEW u \in Units(fs) PROVE ~(u[1] <= k /\ k <= u[2])
  <2>1. u[1] \in 1..Len(fs) /\ u[2] \in 1..Len(fs) /\ IsUnit(fs, u[1], u[2])
    BY UnitsAre
  <2>2. ~(u[1] < k /\ k <= u[2])
    BY DEF NoneAcross
  <2>3. ~(u[1] = k /\ k <= u[2])
    BY <1>0, <2>1
  <2>4. QED
    BY <2>1, <2>2, <2>3
<1>2. \A u \in Units(fs) : u[1] \in Nat /\ u[2] \in Nat /\ u[1] <= u[2]
  BY <1>0, UnitsAre
<1>3. NoneAcross(fs, k + 1)
  BY <1>1, <1>2 DEF NoneAcross
<1>4. \A u \in Units(fs) : u[2] < k + 1 <=> u[2] < k
  BY <1>1, <1>2
<1>5. QED
  BY <1>3, <1>4 DEF UnitsBefore

\* Past a unit there is that one more.
LEMMA UnitPassed ==
    ASSUME NEW fs \in Seq(Frame), NEW k \in 1..Len(fs), NoneAcross(fs, k),
           NEW j \in k..Len(fs), IsUnit(fs, k, j)
    PROVE  /\ NoneAcross(fs, j + 1)
           /\ UnitsBefore(fs, j + 1) = UnitsBefore(fs, k) \cup {<<k, j>>}
<1>0. Len(fs) \in Nat
  BY LenProperties
<1>1. \A u \in Units(fs) : u[1] \in Nat /\ u[2] \in Nat /\ u[1] <= u[2]
  BY <1>0, UnitsAre
<1>2. ASSUME NEW u \in Units(fs), k <= u[2], u[1] <= j PROVE u[1] = k /\ u[2] = j
  <2>1. u[1] \in 1..Len(fs) /\ u[2] \in 1..Len(fs) /\ u[1] <= u[2] /\ IsUnit(fs, u[1], u[2])
    BY UnitsAre
  <2>2. ~(u[1] < k)
    BY <1>2 DEF NoneAcross
  <2>3. u[1] \in (k + 1)..j => u[2] \in u[1]..Len(fs)
    BY <1>0, <2>1
  <2>4. u[1] \notin (k + 1)..j
    BY <2>1, <2>3, UnitsApart
  <2>5. u[1] = k
    BY <1>2, <2>1, <2>2, <2>4
  <2>6. u[2] \in k..Len(fs) /\ IsUnit(fs, k, u[2])
    BY <1>2, <2>1, <2>5
  <2>7. u[2] = j
    BY <2>6, UnitsApart
  <2>8. QED
    BY <2>5, <2>7
<1>3. NoneAcross(fs, j + 1)
  <2>1. SUFFICES ASSUME NEW u \in Units(fs), u[1] < j + 1, j + 1 <= u[2] PROVE FALSE
    BY DEF NoneAcross
  <2>2. k <= u[2] /\ u[1] <= j /\ u[2] # j
    BY <1>1, <2>1
  <2>3. QED
    BY <1>2, <2>2
<1>4. <<k, j>> \in Units(fs)
  BY <1>0 DEF Units
<1>5. ASSUME NEW u \in Units(fs) PROVE u[2] < j + 1 <=> u[2] < k \/ u = <<k, j>>
  <2>1. u = <<u[1], u[2]>> /\ u[1] \in Nat /\ u[2] \in Nat /\ u[1] <= u[2]
    BY <1>1, UnitsAre
  <2>2. CASE u[2] < j + 1 /\ k <= u[2]
    <3>1. u[1] <= j
      BY <2>1, <2>2
    <3>2. QED
      BY <1>2, <2>1, <2>2, <3>1
  <2>3. CASE u[2] < k
    BY <2>1, <2>3
  <2>4. u = <<k, j>> => u[2] = j
    OBVIOUS
  <2>5. QED
    BY <2>1, <2>2, <2>3, <2>4
<1>6. QED
  BY <1>3, <1>4, <1>5 DEF UnitsBefore
===============================================================================
