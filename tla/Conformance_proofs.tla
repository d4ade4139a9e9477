-------------------------- MODULE Conformance_proofs --------------------------
(***************************************************************************)
(* The runner passes a parser that is right, and fails one that gets a     *)
(* single thing wrong, in every case, for any room for values and any      *)
(* number of responses.                                                    *)
(* With room for 21 matches every case can be attached.                    *)
(***************************************************************************)
EXTENDS Conformance, FiniteSetTheorems, SequenceTheorems, WellFoundedInduction, TLAPS

-----------------------------------------------------------------------------
(* The cases.                                                                *)

\* Fields that all have a value, which is not the one a wrong parser reports, and a
\* name the cases or the server use.
Given(v) == v.kind # "absent" /\ v.text # "other"
NameList == <<":method", ":scheme", ":path", ":authority", ":status", ":test", "content-type",
              "content-length", "allow", "connection", "trailer", "trailers", "te", "user-agent",
              "x-test", "X-TEST", "x-dummy0", "x-dummy1", "x-dummy2", "x-dummy3", "x-dummy4">>
KnownNames == {NameList[j] : j \in 1..21}
Present(f) == f[1] \in KnownNames /\ Given(f[2])
Listed(fs) == \E S : fs \in Seq(S) /\ \A f \in S : Present(f)

\* A block with fields is none that is refused, and a case has refused blocks of
\* the one kind or of the other.
BlockOfCase(violation, b) ==
    /\ Listed(b.fields) /\ (b.kind # "fields" => b.fields = <<>>)
    /\ \/ b.kind = "fields"
       \/ b.kind = "malformed" /\ ~violation
       \/ b.kind = "rejected" /\ violation
WellFormed(c) ==
    \E B : c.blocks \in Seq(B) /\ \A b \in B : BlockOfCase(c.violation, b)

\* The names the cases use, but for the pseudo headers of requests.
FieldNames == {":status", ":test", "content-length", "connection", "trailer", "trailers", "te",
               "user-agent", "X-TEST", "x-dummy0", "x-dummy1", "x-dummy2", "x-dummy3", "x-dummy4"}

LEMMA NamesListed ==
    \A n \in FieldNames \cup RESPONSE_FIELDS \cup {":method", ":scheme", ":path", ":authority", "x-test"} :
        n \in KnownNames
<1> DEFINE L(j, n) == NameList[j] = n
<1>1. /\ L(1, ":method") /\ L(2, ":scheme") /\ L(3, ":path") /\ L(4, ":authority") /\ L(5, ":status")
      /\ L(6, ":test") /\ L(7, "content-type") /\ L(8, "content-length") /\ L(9, "allow")
      /\ L(10, "connection") /\ L(11, "trailer") /\ L(12, "trailers") /\ L(13, "te")
      /\ L(14, "user-agent") /\ L(15, "x-test") /\ L(16, "X-TEST") /\ L(17, "x-dummy0")
      /\ L(18, "x-dummy1") /\ L(19, "x-dummy2") /\ L(20, "x-dummy3") /\ L(21, "x-dummy4")
  BY DEF NameList
<1> HIDE DEF L
<1>2. ASSUME NEW j \in 1..21, NEW n, L(j, n) PROVE n \in KnownNames
  BY <1>2 DEF L, KnownNames
<1>3. QED
  BY <1>1, <1>2 DEF FieldNames, RESPONSE_FIELDS

\* Every text is a value, and fields of texts are listed.
LEMMA FieldFacts ==
    /\ \A n \in FieldNames : \A s : s # "other" => Present(<<n, Str(s)>>)
    /\ \A s : s # "other" => /\ Present(Test(Str(s))) /\ Present(Test(Raw(s)))
                            /\ Present(Method(s)) /\ Present(Path(s))
    /\ \A n \in FieldNames : Present(DummyField(n))
    /\ Present(Scheme) /\ Present(Auth)
  BY NamesListed DEF Present, Given, Method, Path, DummyField, Scheme, Auth, Test, Str, Raw, Value,
                     Authority, Dummy

\* Short lists of fields.
LEMMA ShortLists ==
    /\ Listed(<<>>)
    /\ \A a : Present(a) => Listed(<<a>>)
    /\ \A a, b : Present(a) /\ Present(b) => Listed(<<a, b>>)
    /\ \A a, b, c : Present(a) /\ Present(b) /\ Present(c) => Listed(<<a, b, c>>)
    /\ \A a, b, c, d : Present(a) /\ Present(b) /\ Present(c) /\ Present(d)
                          => Listed(<<a, b, c, d>>)
    /\ \A a, b, c, d, e : Present(a) /\ Present(b) /\ Present(c) /\ Present(d) /\ Present(e)
                             => Listed(<<a, b, c, d, e>>)
<1>1. Listed(<<>>)
  <2> DEFINE S == {}
  <2>1. <<>> \in Seq(S) /\ \A f \in S : Present(f)
    OBVIOUS
  <2> HIDE DEF S
  <2>2. QED
    BY <2>1 DEF Listed
<1>2. ASSUME NEW a, Present(a) PROVE Listed(<<a>>)
  <2> DEFINE S == {a}
  <2>1. <<a>> \in Seq(S) /\ \A f \in S : Present(f)
    BY <1>2
  <2> HIDE DEF S
  <2>2. QED
    BY <2>1 DEF Listed
<1>3. ASSUME NEW a, NEW b, Present(a), Present(b) PROVE Listed(<<a, b>>)
  <2> DEFINE S == {a, b}
  <2>1. <<a, b>> \in Seq(S) /\ \A f \in S : Present(f)
    BY <1>3
  <2> HIDE DEF S
  <2>2. QED
    BY <2>1 DEF Listed
<1>4. ASSUME NEW a, NEW b, NEW c, Present(a), Present(b), Present(c) PROVE Listed(<<a, b, c>>)
  <2> DEFINE S == {a, b, c}
  <2>1. <<a, b, c>> \in Seq(S) /\ \A f \in S : Present(f)
    BY <1>4
  <2> HIDE DEF S
  <2>2. QED
    BY <2>1 DEF Listed
<1>5. ASSUME NEW a, NEW b, NEW c, NEW d, Present(a), Present(b), Present(c), Present(d)
      PROVE  Listed(<<a, b, c, d>>)
  <2> DEFINE S == {a, b, c, d}
  <2>1. <<a, b, c, d>> \in Seq(S) /\ \A f \in S : Present(f)
    BY <1>5
  <2> HIDE DEF S
  <2>2. QED
    BY <2>1 DEF Listed
<1>6. ASSUME NEW a, NEW b, NEW c, NEW d, NEW e,
             Present(a), Present(b), Present(c), Present(d), Present(e)
      PROVE  Listed(<<a, b, c, d, e>>)
  <2> DEFINE S == {a, b, c, d, e}
  <2>1. <<a, b, c, d, e>> \in Seq(S) /\ \A f \in S : Present(f)
    BY <1>6
  <2> HIDE DEF S
  <2>2. QED
    BY <2>1 DEF Listed
<1>7. QED
  BY <1>1, <1>2, <1>3, <1>4, <1>5, <1>6

\* One list behind another.
LEMMA ListsJoin ==
    ASSUME NEW fs, NEW gs, Listed(fs), Listed(gs)
    PROVE  Listed(fs \o gs)
<1>1. PICK S : fs \in Seq(S) /\ \A f \in S : Present(f)
  BY DEF Listed
<1>2. PICK T : gs \in Seq(T) /\ \A f \in T : Present(f)
  BY DEF Listed
<1> DEFINE U == S \cup T
<1>3. S \subseteq U /\ T \subseteq U /\ \A f \in U : Present(f)
  BY <1>1, <1>2
<1> HIDE DEF U
<1>4. fs \in Seq(U) /\ gs \in Seq(U)
  BY <1>1, <1>2, <1>3
<1>5. fs \o gs \in Seq(U)
  BY <1>4, ConcatProperties
<1>6. QED
  BY <1>3, <1>5 DEF Listed

\* The blocks of fields.
LEMMA RequestFacts ==
    /\ \A fs : Listed(fs) => \A v : BlockOfCase(v, Fields(fs))
    /\ \A m, fs : m # "other" /\ Listed(fs) => \A v : BlockOfCase(v, request(m, fs))
    /\ BlockOfCase(FALSE, Malformed) /\ BlockOfCase(TRUE, Rejected)
<1>1. ASSUME NEW fs, Listed(fs), NEW v PROVE BlockOfCase(v, Fields(fs))
  BY <1>1 DEF Fields, BlockOfCase
<1>2. ASSUME NEW m, m # "other", NEW fs, Listed(fs), NEW v PROVE BlockOfCase(v, request(m, fs))
  <2>1. Listed(<<Method(m), Scheme, Path("/"), Auth>>)
    BY <1>2, FieldFacts, ShortLists
  <2>2. QED
    BY <1>1, <1>2, <2>1, ListsJoin DEF request
<1>3. BlockOfCase(FALSE, Malformed) /\ BlockOfCase(TRUE, Rejected)
  BY ShortLists DEF BlockOfCase, Malformed, Rejected
<1>4. QED
  BY <1>1, <1>2, <1>3

\* Short lists of blocks.
LEMMA ShortCases ==
    ASSUME NEW v, NEW c, c.violation = v
    PROVE  /\ c.blocks = <<>> => WellFormed(c)
           /\ \A a : BlockOfCase(v, a) /\ c.blocks = <<a>> => WellFormed(c)
           /\ \A a, b : BlockOfCase(v, a) /\ BlockOfCase(v, b) /\ c.blocks = <<a, b>>
                           => WellFormed(c)
           /\ \A a, b, d : BlockOfCase(v, a) /\ BlockOfCase(v, b) /\ BlockOfCase(v, d)
                              /\ c.blocks = <<a, b, d>> => WellFormed(c)
<1>1. ASSUME c.blocks = <<>> PROVE WellFormed(c)
  <2> DEFINE B == {}
  <2>1. c.blocks \in Seq(B) /\ \A b \in B : BlockOfCase(v, b)
    BY <1>1
  <2> HIDE DEF B
  <2>2. QED
    BY <2>1 DEF WellFormed
<1>2. ASSUME NEW a, BlockOfCase(v, a), c.blocks = <<a>> PROVE WellFormed(c)
  <2> DEFINE B == {a}
  <2>1. c.blocks \in Seq(B) /\ \A b \in B : BlockOfCase(v, b)
    BY <1>2
  <2> HIDE DEF B
  <2>2. QED
    BY <2>1 DEF WellFormed
<1>3. ASSUME NEW a, NEW b, BlockOfCase(v, a), BlockOfCase(v, b), c.blocks = <<a, b>>
      PROVE  WellFormed(c)
  <2> DEFINE B == {a, b}
  <2>1. c.blocks \in Seq(B) /\ \A d \in B : BlockOfCase(v, d)
    BY <1>3
  <2> HIDE DEF B
  <2>2. QED
    BY <2>1 DEF WellFormed
<1>4. ASSUME NEW a, NEW b, NEW d, BlockOfCase(v, a), BlockOfCase(v, b), BlockOfCase(v, d),
             c.blocks = <<a, b, d>>
      PROVE  WellFormed(c)
  <2> DEFINE B == {a, b, d}
  <2>1. c.blocks \in Seq(B) /\ \A e \in B : BlockOfCase(v, e)
    BY <1>4
  <2> HIDE DEF B
  <2>2. QED
    BY <2>1 DEF WellFormed
<1>5. QED
  BY <1>1, <1>2, <1>3, <1>4

LEMMA BlocksWellFormed ==
    /\ WellFormed(Blocks(<<>>))
    /\ \A a : BlockOfCase(FALSE, a) => WellFormed(Blocks(<<a>>))
    /\ \A a, b : BlockOfCase(FALSE, a) /\ BlockOfCase(FALSE, b) => WellFormed(Blocks(<<a, b>>))
<1>1. \A b : Blocks(b).violation = FALSE /\ Blocks(b).blocks = b
  BY DEF Blocks
<1>2. QED
  BY <1>1, ShortCases

\* The blocks of h2spec's requests.
LEMMA BlockFacts ==
    /\ \A v, fs : Listed(fs) =>
          /\ BlockOfCase(v, get(fs)) /\ BlockOfCase(v, head(fs)) /\ BlockOfCase(v, post(fs))
          /\ BlockOfCase(v, Fields(fs))
    /\ \A v : /\ BlockOfCase(v, get(<<>>)) /\ BlockOfCase(v, head(<<>>))
              /\ BlockOfCase(v, post(<<>>)) /\ BlockOfCase(v, Fields(<<>>))
    /\ \A v, f : Present(f) =>
          /\ BlockOfCase(v, get(<<f>>)) /\ BlockOfCase(v, post(<<f>>))
          /\ BlockOfCase(v, Fields(<<f>>))
    /\ \A v, f, g : Present(f) /\ Present(g) =>
          BlockOfCase(v, get(<<f, g>>)) /\ BlockOfCase(v, Fields(<<f, g>>))
<1>1. ASSUME NEW v, NEW fs, Listed(fs)
      PROVE  /\ BlockOfCase(v, get(fs)) /\ BlockOfCase(v, head(fs)) /\ BlockOfCase(v, post(fs))
             /\ BlockOfCase(v, Fields(fs))
  BY <1>1, RequestFacts DEF get, head, post
<1>2. Listed(<<>>)
  BY ShortLists
<1>3. \A f : Present(f) => Listed(<<f>>)
  BY ShortLists
<1>4. \A f, g : Present(f) /\ Present(g) => Listed(<<f, g>>)
  BY ShortLists
<1>5. QED
  BY <1>1, <1>2, <1>3, <1>4

LEMMA ViolationsWellFormed ==
    ASSUME NEW c \in ViolationCases
    PROVE  WellFormed(c)
<1> DEFINE u == Fields(<<Method("GET"), Scheme, Path("/")>>)
<1>1. BlockOfCase(TRUE, Rejected) /\ BlockOfCase(TRUE, get(<<>>))
      /\ BlockOfCase(TRUE, get(<<DummyField("x-dummy0")>>))
  BY BlockFacts, RequestFacts, FieldFacts DEF FieldNames
<1>2. BlockOfCase(TRUE, u)
  BY BlockFacts, FieldFacts, ShortLists DEF FieldNames
<1> HIDE DEF u
<1>3. c.violation = TRUE
  BY DEF ViolationCases, Violation
<1>4. \/ c.blocks = <<Rejected, Rejected>>
      \/ c.blocks = <<Rejected, u, Rejected>>
      \/ c.blocks = <<Rejected>>
      \/ c.blocks = <<get(<<>>), Rejected>>
      \/ c.blocks = <<get(<<DummyField("x-dummy0")>>), Rejected>>
      \/ c.blocks = <<Rejected, Rejected, Rejected>>
  BY DEF ViolationCases, Violation, u
<1>5. QED
  BY <1>1, <1>2, <1>3, <1>4, ShortCases

LEMMA RequestsWellFormed ==
    ASSUME NEW c \in RequestCases
    PROVE  WellFormed(c)
<1> DEFINE BC(b) == BlockOfCase(FALSE, b)
           dummies == <<DummyField("x-dummy0"), DummyField("x-dummy1"), DummyField("x-dummy2"),
                        DummyField("x-dummy3"), DummyField("x-dummy4")>>
           many == [j \in 1..Many |-> get(<<>>)]
<1>1. Listed(dummies)
  BY FieldFacts, ShortLists DEF FieldNames
<1> HIDE DEF dummies
<1>2. BC(get(dummies))
  BY <1>1, BlockFacts
<1>3. BC(get(<<>>)) /\ BC(post(<<>>)) /\ BC(head(<<>>)) /\ BC(Fields(<<>>))
  BY BlockFacts
<1>4. /\ BC(post(<<<<"trailer", Str("x-test")>>>>)) /\ BC(Fields(<<Test(Str("ok"))>>))
      /\ BC(get(<<<<"user-agent", Str("")>>>>)) /\ BC(get(<<<<"user-agent", Str("h2spec")>>>>))
      /\ BC(get(<<Test(Str("h2spec"))>>))
  BY BlockFacts, FieldFacts DEF FieldNames
<1>5. ASSUME c = Blocks(many) PROVE WellFormed(c)
  <2> DEFINE B == {get(<<>>)}
  <2>1. Many \in Nat
    BY ConformanceOK
  <2>2. many \in [1..Many -> B]
    OBVIOUS
  <2>3. many \in Seq(B)
    BY <2>1, <2>2, SeqDef
  <2>4. \A b \in B : BlockOfCase(FALSE, b)
    BY BlockFacts
  <2> HIDE DEF B
  <2>5. c.violation = FALSE /\ c.blocks = many
    BY <1>5 DEF Blocks
  <2>6. QED
    BY <2>3, <2>4, <2>5 DEF WellFormed
<1> HIDE DEF many
<1>6. \/ c = Blocks(<<>>)
      \/ c = Blocks(<<get(<<>>)>>)
      \/ c = Blocks(<<post(<<>>)>>)
      \/ c = Blocks(<<head(<<>>)>>)
      \/ c = Blocks(<<post(<<<<"trailer", Str("x-test")>>>>), Fields(<<Test(Str("ok"))>>)>>)
      \/ c = Blocks(<<get(<<<<"user-agent", Str("")>>>>)>>)
      \/ c = Blocks(<<get(<<<<"user-agent", Str("h2spec")>>>>)>>)
      \/ c = Blocks(<<get(<<Test(Str("h2spec"))>>)>>)
      \/ c = Blocks(<<get(dummies)>>)
      \/ c = Blocks(<<Fields(<<>>)>>)
      \/ c = Blocks(<<get(<<>>), get(<<>>)>>)
      \/ c = Blocks(many)
  BY DEF RequestCases, dummies, many
<1>7. QED
  BY <1>2, <1>3, <1>4, <1>5, <1>6, BlocksWellFormed

LEMMA FieldsWellFormed ==
    ASSUME NEW c \in FieldCases
    PROVE  WellFormed(c)
<1> DEFINE BC(b) == BlockOfCase(FALSE, b)
           whole == Fields(<<Method("GET"), Scheme, Path("/"), Auth>>)
           late == Fields(<<Test(Str("ok")), Method("GET"), Scheme, Path("/"), Auth>>)
<1>1. BC(whole) /\ BC(late)
  BY FieldFacts, ShortLists, RequestFacts DEF FieldNames
<1> HIDE DEF whole, late
<1>2. /\ BC(Malformed) /\ BC(post(<<>>)) /\ BC(post(<<<<"content-length", Str("4")>>>>))
      /\ BC(Fields(<<Test(Str("ok"))>>)) /\ BC(Fields(<<Method("POST")>>))
  BY BlockFacts, FieldFacts, RequestFacts DEF FieldNames
<1>3. /\ BC(get(<<<<"X-TEST", Str("ok")>>>>)) /\ BC(get(<<<<":test", Str("ok")>>>>))
      /\ BC(get(<<<<":status", Str("200")>>>>)) /\ BC(get(<<<<"connection", Str("keep-alive")>>>>))
  BY BlockFacts, FieldFacts DEF FieldNames
<1>4. /\ BC(get(<<DummyField("x-dummy0"), DummyField("x-dummy0")>>))
      /\ BC(get(<<<<"trailers", Str("test")>>, <<"te", Str("trailers, deflate")>>>>))
  BY BlockFacts, FieldFacts DEF FieldNames
<1>5. \/ c = Blocks(<<post(<<<<"content-length", Str("4")>>>>)>>)
      \/ c = Blocks(<<Malformed>>)
      \/ c = Blocks(<<get(<<DummyField("x-dummy0"), DummyField("x-dummy0")>>)>>)
      \/ c = Blocks(<<whole>>)
      \/ c = Blocks(<<post(<<>>), Fields(<<Test(Str("ok"))>>)>>)
      \/ c = Blocks(<<get(<<<<"X-TEST", Str("ok")>>>>)>>)
      \/ c = Blocks(<<get(<<<<":test", Str("ok")>>>>)>>)
      \/ c = Blocks(<<get(<<<<":status", Str("200")>>>>)>>)
      \/ c = Blocks(<<post(<<>>), Fields(<<Method("POST")>>)>>)
      \/ c = Blocks(<<late>>)
      \/ c = Blocks(<<get(<<<<"connection", Str("keep-alive")>>>>)>>)
      \/ c = Blocks(<<get(<<<<"trailers", Str("test")>>, <<"te", Str("trailers, deflate")>>>>)>>)
  BY DEF FieldCases, whole, late
<1>6. QED
  BY <1>1, <1>2, <1>3, <1>4, <1>5, BlocksWellFormed

LEMMA PseudoHeadersWellFormed ==
    ASSUME NEW c \in PseudoHeaderCases
    PROVE  WellFormed(c)
<1> DEFINE BC(b) == BlockOfCase(FALSE, b)
           no_path == Fields(<<Method("GET"), Scheme, Path(""), Auth>>)
           no_scheme == Fields(<<Method("GET"), Path("/"), Auth>>)
           pathless == Fields(<<Method("GET"), Scheme, Auth>>)
<1>1. BC(no_path) /\ BC(no_scheme) /\ BC(pathless)
  BY FieldFacts, ShortLists, RequestFacts DEF FieldNames
<1> HIDE DEF no_path, no_scheme, pathless
<1>2. BC(Fields(<<Path("/"), Auth>>))
  BY BlockFacts, FieldFacts DEF FieldNames
<1>3. /\ BC(get(<<Method("GET")>>)) /\ BC(get(<<Scheme>>)) /\ BC(get(<<Path("/")>>))
      /\ BC(post(<<<<"content-length", Str("1")>>>>))
      /\ BC(get(<<Test(Raw("49509fff"))>>)) /\ BC(get(<<Test(Raw("495090"))>>))
      /\ BC(get(<<Test(Raw("4951fffffffa7f"))>>))
  BY BlockFacts, FieldFacts DEF FieldNames
<1>4. \/ c = Blocks(<<no_path>>)
      \/ c = Blocks(<<Fields(<<Path("/"), Auth>>)>>)
      \/ c = Blocks(<<no_scheme>>)
      \/ c = Blocks(<<pathless>>)
      \/ c = Blocks(<<get(<<Method("GET")>>)>>)
      \/ c = Blocks(<<get(<<Scheme>>)>>)
      \/ c = Blocks(<<get(<<Path("/")>>)>>)
      \/ c = Blocks(<<post(<<<<"content-length", Str("1")>>>>)>>)
      \/ c = Blocks(<<get(<<Test(Raw("49509fff"))>>)>>)
      \/ c = Blocks(<<get(<<Test(Raw("495090"))>>)>>)
      \/ c = Blocks(<<get(<<Test(Raw("4951fffffffa7f"))>>)>>)
  BY DEF PseudoHeaderCases, no_path, no_scheme, pathless
<1>5. QED
  BY <1>1, <1>2, <1>3, <1>4, BlocksWellFormed

\* Every case is well formed: it is a sequence of blocks, none of the malformed kind
\* if it violates the protocol, and none that is rejected if it does not.
LEMMA CasesWellFormed ==
    ASSUME NEW c \in cases
    PROVE  WellFormed(c)
  BY ViolationsWellFormed, RequestsWellFormed, FieldsWellFormed, PseudoHeadersWellFormed
  DEF cases

-----------------------------------------------------------------------------
(* Values.                                                                   *)

\* Of any numbers there is a least one, and of those up to a number a greatest.
LEMMA LeastNumber ==
    ASSUME NEW T, T \subseteq Nat, T # {}
    PROVE  \E n \in T : \A m \in T : n <= m
<1>1. PICK n \in T : \A m \in T : ~(<<m, n>> \in OpToRel(<, Nat))
  BY NatLessThanWellFounded, WFMin
<1>2. \A m \in T : ~(m < n)
  BY <1>1 DEF OpToRel
<1>3. QED
  BY <1>2

LEMMA GreatestNumber ==
    ASSUME NEW L \in Nat, NEW T, T \subseteq 0..L, T # {}
    PROVE  \E n \in T : \A m \in T : m <= n
<1> DEFINE D == {L - x : x \in T}
<1>1. \A x \in T : x \in Nat /\ x <= L /\ L - x \in Nat
  <2>1. \A x \in 0..L : x \in Nat /\ x <= L /\ L - x \in Nat
    OBVIOUS
  <2>2. QED
    BY <2>1
<1>2. D \subseteq Nat /\ D # {}
  BY <1>1
<1>3. PICK d \in D : \A m \in D : d <= m
  BY <1>2, LeastNumber
<1>4. PICK n \in T : d = L - n
  BY <1>3
<1>5. ASSUME NEW m \in T PROVE m <= n
  <2>1. L - n <= L - m
    BY <1>3, <1>4
  <2>2. QED
    BY <1>1, <2>1
<1>6. QED
  BY <1>5

\* The last field of a name is one of the fields.
LEMMA LastPresent ==
    ASSUME NEW fields, Listed(fields), NEW n \in NamesOf(fields)
    PROVE  Given(LastOf(fields, n))
<1>1. PICK S : fields \in Seq(S) /\ \A f \in S : Present(f)
  BY DEF Listed
<1>2. Len(fields) \in Nat /\ DOMAIN fields = 1..Len(fields)
  BY <1>1, LenProperties
<1> DEFINE T == {j \in DOMAIN fields : fields[j][1] = n}
           IsLast(j) == fields[j][1] = n /\ \A k \in DOMAIN fields : fields[k][1] = n => k <= j
           l == CHOOSE j \in DOMAIN fields : IsLast(j)
<1>3. T \subseteq 0..Len(fields) /\ T # {}
  BY <1>2 DEF NamesOf
<1>4. \E j \in T : \A m \in T : m <= j
  <2> HIDE DEF T
  <2>1. QED
    BY <1>2, <1>3, GreatestNumber
<1>5. \E j \in DOMAIN fields : IsLast(j)
  BY <1>4
<1>6. l \in DOMAIN fields
  BY <1>5
<1>7. LastOf(fields, n) = fields[l][2]
  BY DEF LastOf
<1> HIDE DEF l
<1>8. fields[l] \in S
  BY <1>1, <1>2, <1>6, ElementOfSeq
<1>9. QED
  BY <1>1, <1>7, <1>8 DEF Present

\* The first elements of a sequence.
LEMMA FirstFacts ==
    ASSUME NEW S, NEW b \in Seq(S), NEW n \in Nat
    PROVE  /\ FirstOf(b, n) \in Seq(S) /\ IsPrefix(FirstOf(b, n), b)
           /\ Len(b) \in Nat /\ Len(FirstOf(b, n)) = IF Len(b) < n THEN Len(b) ELSE n
           /\ Len(b) <= n => FirstOf(b, n) = b
<1> DEFINE m == IF Len(b) < n THEN Len(b) ELSE n
           f == SubSeq(b, 1, m)
<1>1. Len(b) \in Nat /\ m \in Nat /\ m <= Len(b) /\ FirstOf(b, n) = f
  BY LenProperties DEF FirstOf
<1> HIDE DEF m
<1>2. f \in Seq(S) /\ Len(f) = m /\ \A i \in 1..m : f[i] = b[i]
  BY <1>1, SubSeqProperties
<1>3. SubSeq(f, 1, Len(f)) = SubSeq(b, 1, Len(f))
  <2>1. SubSeq(f, 1, m) = f
    BY <1>1, <1>2, SubSeqFull
  <2>2. QED
    BY <1>2, <2>1
<1>4. IsPrefix(f, b)
  BY <1>1, <1>2, <1>3 DEF IsPrefix
<1>5. Len(b) <= n => m = Len(b)
  BY <1>1 DEF m
<1>6. SubSeq(b, 1, Len(b)) = b
  BY SubSeqFull
<1>7. QED
  BY <1>1, <1>2, <1>4, <1>5, <1>6 DEF m

\* How a value is spelled.
LEMMA SpelledFacts ==
    ASSUME NEW v, NEW spelling
    PROVE  Spelled(v, spelling) \in Seq({<<"x", spelling>>, <<v.text, "raw">>, <<v.text, spelling>>})
<1> DEFINE b == Spelled(v, spelling)
           S == {<<"x", spelling>>, <<v.text, "raw">>, <<v.text, spelling>>}
<1>1. v.text = "" => b = <<>>
  BY DEF Spelled
<1>2. v.text # "" /\ v.kind # "dummy" => b = <<<<v.text, "raw">>>> \/ b = <<<<v.text, spelling>>>>
  BY DEF Spelled
<1>3. CASE v.text # "" /\ v.kind = "dummy"
  <2> DEFINE n == IF spelling = "coded" THEN DUMMY_LEN - 1 ELSE DUMMY_LEN
  <2>1. n \in Nat
    BY ConformanceOK
  <2>2. b = [j \in 1..n |-> <<"x", spelling>>]
    BY <1>3 DEF Spelled
  <2> HIDE DEF n, b
  <2>3. b \in [1..n -> S]
    BY <2>2
  <2>4. QED
    BY <2>1, <2>3, SeqDef DEF b
<1>4. <<v.text, "raw">> \in S /\ <<v.text, spelling>> \in S
  OBVIOUS
<1> HIDE DEF b, S
<1>5. <<>> \in Seq(S) /\ <<<<v.text, "raw">>>> \in Seq(S) /\ <<<<v.text, spelling>>>> \in Seq(S)
  BY <1>4
<1>6. QED
  BY <1>1, <1>2, <1>3, <1>5 DEF b, S

\* A value that is read is taken for the value that was sent: all of it in a
\* message or what an entry kept of it, in either spelling.
LEMMA ReportedMatches ==
    ASSUME NEW v, v.kind # "absent", NEW spelling \in {"plain", "coded"}, NEW table \in BOOLEAN
    PROVE  matches(v, Reported(v, spelling, table))
<1> DEFINE b == Spelled(v, spelling)
           S == {<<"x", spelling>>, <<v.text, "raw">>, <<v.text, spelling>>}
           R == RESULT_VAL_LEN
           f == FirstOf(b, R)
           c == Reported(v, spelling, table)
<1>1. R \in Nat /\ R >= 1 /\ DUMMY_LEN \in Int /\ DUMMY_LEN - 1 > R
  BY ConformanceOK
<1>2. b \in Seq(S)
  BY SpelledFacts
<1>3. v.kind = "raw" => Len(b) <= 1 /\ b = Spelled(v, "raw")
  <2>1. v.kind = "raw" => b = Spelled(v, "raw") /\ b \in {<<>>, <<<<v.text, "raw">>>>}
    BY DEF Spelled
  <2>2. QED
    BY <2>1
<1> HIDE DEF b, S, R
<1>4. /\ f \in Seq(S) /\ IsPrefix(f, b) /\ Len(b) \in Nat
      /\ Len(f) = (IF Len(b) < R THEN Len(b) ELSE R) /\ (Len(b) <= R => f = b)
  BY <1>1, <1>2, FirstFacts
<1> HIDE DEF f
<1>5. FirstOf(f, R) = f
  BY <1>1, <1>4, FirstFacts
<1>6. c.head = f /\ c.len = (IF table THEN Len(f) ELSE Len(b))
  BY <1>5 DEF Reported, ReadCapture, b, f, R
<1> HIDE DEF c
<1>7. c # NoCapture
  <2>1. c.len # -1
    BY <1>1, <1>4, <1>6
  <2>2. QED
    BY <2>1 DEF NoCapture
<1>8. v # Absent
  <2>1. Absent.kind = "absent"
    BY DEF Absent, Value
  <2>2. QED
    BY <2>1
<1>9. CASE v.kind = "raw"
  <2>1. f = b /\ Len(f) = Len(b)
    BY <1>1, <1>3, <1>4, <1>9
  <2>2. c.len = Len(Spelled(v, "raw")) /\ c.head = Spelled(v, "raw")
    BY <1>3, <1>6, <1>9, <2>1
  <2>3. QED
    BY <1>7, <1>8, <1>9, <2>2 DEF matches, c
<1>10. CASE v.kind # "raw"
  <2>1. c.len = Len(b) \/ (c.len = R /\ c.len < Len(b))
    BY <1>1, <1>4, <1>6
  <2>2. QED
    BY <1>4, <1>6, <1>7, <1>8, <1>10, <2>1 DEF matches, c, b, R
<1>11. QED
  BY <1>9, <1>10

\* Fields that all have a value, by name.
AllPresent(a) == \A n \in DOMAIN a : Given(a[n])

LEMMA ExpectedPresent ==
    ASSUME NEW fields, Listed(fields)
    PROVE  AllPresent(expected_fields(fields))
  BY LastPresent DEF AllPresent, expected_fields

\* A block that captures fields carries them.
LEMMA CapturedCarries ==
    ASSUME NEW a, AllPresent(a), NEW spelling \in {"plain", "coded"}, NEW table \in BOOLEAN,
           NEW frame, frame.captures = Captured(a, spelling, table)
    PROVE  Carries(frame, a)
<1>1. SUFFICES ASSUME NEW n \in names PROVE matches(Expected(a, n), frame.captures[n])
  BY DEF Carries
<1>2. CASE n \in DOMAIN a
  <2>1. frame.captures[n] = Reported(a[n], spelling, table)
    BY <1>2 DEF Captured
  <2>2. a[n].kind # "absent"
    BY <1>2 DEF AllPresent, Given
  <2>3. QED
    BY <1>2, <2>1, <2>2, ReportedMatches DEF Expected
<1>3. CASE n \notin DOMAIN a
  <2>1. frame.captures[n] = NoCapture /\ Expected(a, n) = Absent
    BY <1>3 DEF Captured, Expected
  <2>2. QED
    BY <2>1 DEF matches
<1>4. QED
  BY <1>2, <1>3

\* The server answers what the runner expects it to.
LEMMA AnswerFacts ==
    ASSUME NEW fields, Listed(fields)
    PROVE  launch(fields) = response_fields(fields) /\ AllPresent(launch(fields))
<1> DEFINE regular == NamesOf(fields) \ PseudoNames
           given == [n \in regular |-> LastOf(fields, n)]
           merged == [n \in regular \union DOMAIN ServerFields |->
                        IF n \in regular THEN LastOf(fields, n) ELSE ServerFields[n]]
           served == LastOf(fields, ":method").text \in {"GET", "HEAD"}
<1>1. \A s : s # "other" => Given(Str(s))
  BY DEF Str, Value, Given
<1>2. AllPresent(ServerFields)
  BY <1>1 DEF AllPresent, ServerFields
<1>3. AllPresent(NotAllowed)
  BY <1>1 DEF AllPresent, NotAllowed
<1>4. AllPresent(merged)
  <2>1. \A n \in regular : Given(LastOf(fields, n))
    BY LastPresent
  <2> HIDE DEF regular
  <2>2. QED
    BY <1>2, <2>1 DEF AllPresent
<1>5. launch(fields) = IF served THEN merged ELSE NotAllowed
  BY DEF launch
<1>6. response_fields(fields) = IF served THEN Over(given, ServerFields) ELSE NotAllowed
  BY DEF response_fields
<1>7. Over(given, ServerFields) = merged
  <2> HIDE DEF regular
  <2>1. DOMAIN given = regular /\ \A n \in regular : given[n] = LastOf(fields, n)
    OBVIOUS
  <2> HIDE DEF given
  <2>2. QED
    BY <2>1 DEF Over
<1>8. QED
  BY <1>3, <1>4, <1>5, <1>6, <1>7

-----------------------------------------------------------------------------
(* The invariant.                                                            *)

\* What may be reported of a case when the parser is right.
AnswerReports ==
    UNION {ResponseReports(launch(case.blocks[j].fields)) :
              j \in {k \in 1..Len(case.blocks) : Answered(case.blocks[k].fields)}}
RightFrames == AnswerReports \cup UNION {RequestReports(case.blocks[j]) : j \in 1..Len(case.blocks)}

\* The requests sent so far are reported, each in its turn, and answers among them;
\* the peer may only have closed behind a violation.
RightSoFar ==
    /\ frames \in Seq(RightFrames)
    /\ Cardinality(Requests) = next - 1
    /\ \A j \in Requests : frames[j] \in RequestReports(case.blocks[Number(Requests, j)])
    /\ \A j \in DOMAIN frames : j \in Requests \/ frames[j] \in AnswerReports
    /\ closed => case.violation /\ next > up_to_violation

SoundInv ==
    /\ case \in cases /\ next \in 1..(Len(case.blocks) + 1)
    /\ fault = NoFault => IF verdict = "none" THEN RightSoFar ELSE verdict = "pass"

\* The blocks of a case, and where it violates the protocol.
LEMMA CaseFacts ==
    ASSUME case \in cases
    PROVE  /\ Len(case.blocks) \in Nat /\ DOMAIN case.blocks = 1..Len(case.blocks)
           /\ \A j \in 1..Len(case.blocks) : BlockOfCase(case.violation, case.blocks[j])
           /\ up_to_violation \in 0..Len(case.blocks)
<1>1. PICK B : case.blocks \in Seq(B) /\ \A b \in B : BlockOfCase(case.violation, b)
  BY CasesWellFormed DEF WellFormed
<1>2. Len(case.blocks) \in Nat /\ DOMAIN case.blocks = 1..Len(case.blocks)
  BY <1>1, LenProperties
<1>3. ASSUME NEW j \in 1..Len(case.blocks) PROVE BlockOfCase(case.violation, case.blocks[j])
  BY <1>1, ElementOfSeq
<1>4. RejectedAt \subseteq 1..Len(case.blocks)
  BY <1>2 DEF RejectedAt
<1>5. CASE RejectedAt # {}
  <2>1. RejectedAt \subseteq Nat
    BY <1>4
  <2>2. \E j \in RejectedAt : \A k \in RejectedAt : j <= k
    BY <1>5, <2>1, LeastNumber
  <2> DEFINE first == CHOOSE j \in RejectedAt : \A k \in RejectedAt : j <= k
  <2>3. first \in RejectedAt /\ up_to_violation = first
    BY <1>5, <2>2 DEF up_to_violation
  <2> HIDE DEF first
  <2>4. QED
    BY <1>2, <1>3, <1>4, <2>3
<1>6. CASE RejectedAt = {}
  BY <1>2, <1>3, <1>6 DEF up_to_violation
<1>7. QED
  BY <1>5, <1>6

\* What is reported of a block of the peer, and of an answer.
LEMMA RequestReported ==
    ASSUME NEW v, NEW b, BlockOfCase(v, b), NEW f \in RequestReports(b)
    PROVE  /\ ~f.upstream /\ IsHeader(f)
           /\ CASE b.kind = "fields" ->
                     f.ret = 0 /\ \E s \in {"plain", "coded"}, t \in BOOLEAN :
                                     f.captures = Captured(expected_fields(b.fields), s, t)
                [] b.kind = "malformed" -> f.ret = -EBADMSG
                [] b.kind = "rejected" -> f.ret = -EPROTO
<1>1. \/ b.kind = "fields"
      \/ b.kind = "malformed"
      \/ b.kind = "rejected"
  BY DEF BlockOfCase
<1>2. CASE b.kind = "fields"
  BY <1>2 DEF RequestReports, Frame, IsHeader
<1>3. CASE b.kind = "malformed"
  BY <1>3 DEF RequestReports, Frame, IsHeader
<1>4. CASE b.kind = "rejected"
  BY <1>4 DEF RequestReports, Frame, IsHeader
<1>5. QED
  BY <1>1, <1>2, <1>3, <1>4

LEMMA ResponseReported ==
    ASSUME NEW a, NEW f \in ResponseReports(a)
    PROVE  /\ f.upstream /\ IsHeader(f) /\ f.ret = 0
           /\ \E s \in {"plain", "coded"}, t \in BOOLEAN : f.captures = Captured(a, s, t)
  BY DEF ResponseReports, Frame, IsHeader

\* The number of a place among places, the last of which is added behind all.
LEMMA NumberFacts ==
    ASSUME NEW n \in Nat, NEW P, P \subseteq 1..n
    PROVE  /\ Cardinality(P) \in Nat /\ Cardinality(P \cup {n + 1}) = Cardinality(P) + 1
           /\ \A j \in P : /\ Number(P, j) \in 1..Cardinality(P)
                           /\ Number(P \cup {n + 1}, j) = Number(P, j)
           /\ Number(P \cup {n + 1}, n + 1) = Cardinality(P) + 1
<1>1. IsFiniteSet(P) /\ Cardinality(P) \in Nat
  <2>1. IsFiniteSet(1..n)
    BY FS_Interval
  <2>2. IsFiniteSet(P)
    BY <2>1, FS_Subset
  <2>3. QED
    BY <2>2, FS_CardinalityType
<1>2. n + 1 \notin P /\ \A k \in P : k \in Nat /\ k <= n
  <2>1. \A k \in 1..n : k \in Nat /\ k <= n /\ k # n + 1
    OBVIOUS
  <2>2. QED
    BY <2>1
<1>3. Cardinality(P \cup {n + 1}) = Cardinality(P) + 1
  BY <1>1, <1>2, FS_AddElement
<1>4. ASSUME NEW j \in P
      PROVE  /\ Number(P, j) \in 1..Cardinality(P)
             /\ Number(P \cup {n + 1}, j) = Number(P, j)
  <2> DEFINE Q == {k \in P : k <= j}
  <2>1. Q \subseteq P /\ j \in Q
    BY <1>2
  <2>2. {k \in P \cup {n + 1} : k <= j} = Q
    BY <1>2
  <2> HIDE DEF Q
  <2>3. IsFiniteSet(Q) /\ Cardinality(Q) <= Cardinality(P)
    BY <1>1, <2>1, FS_Subset
  <2>4. Cardinality(Q) \in Nat /\ Cardinality(Q) # 0
    BY <2>1, <2>3, FS_CardinalityType, FS_EmptySet
  <2>5. Number(P, j) = Cardinality(Q) /\ Number(P \cup {n + 1}, j) = Cardinality(Q)
    BY <2>2 DEF Number, Q
  <2>6. QED
    BY <1>1, <2>3, <2>4, <2>5
<1>5. {k \in P \cup {n + 1} : k <= n + 1} = P \cup {n + 1}
  <2>1. \A k \in P \cup {n + 1} : k <= n + 1
    BY <1>2
  <2>2. QED
    BY <2>1
<1>6. QED
  BY <1>1, <1>3, <1>4, <1>5 DEF Number

-----------------------------------------------------------------------------
(* The steps.                                                                *)

\* What may be reported when the names to capture are those of N.
CapturedOf(N, fields, spelling, table) ==
    [n \in N |-> IF n \in DOMAIN fields THEN Reported(fields[n], spelling, table)
                                        ELSE NoCapture]
RequestsOf(N, block) ==
    CASE block.kind = "fields" ->
            {Frame(FALSE, HEADERS, 0, CapturedOf(N, expected_fields(block.fields), s, t)) :
                s \in {"plain", "coded"}, t \in BOOLEAN}
      [] block.kind = "malformed" ->
            {Frame(FALSE, HEADERS, -EBADMSG, [n \in N |-> NoCapture])}
      [] block.kind = "rejected" ->
            {Frame(FALSE, type, -EPROTO, [n \in N |-> NoCapture]) : type \in {HEADERS, CONTINUATION}}
ResponsesOf(N, answer) ==
    {Frame(TRUE, HEADERS, 0, CapturedOf(N, answer, s, t)) : s \in {"plain", "coded"}, t \in BOOLEAN}

\* The case stays, and with it what may be reported of it.
LEMMA SameCase ==
    ASSUME case' = case
    PROVE  /\ \A b : RequestReports(b)' = RequestReports(b)
           /\ AnswerReports' = AnswerReports /\ RightFrames' = RightFrames
           /\ up_to_violation' = up_to_violation
<1>1. names' = names
  BY DEF names, sent
<1>2. \A b : RequestReports(b) = RequestsOf(names, b)
  BY DEF RequestReports, RequestsOf, Captured, CapturedOf, NoCaptures
<1>3. \A b : RequestReports(b)' = RequestsOf(names', b)
  BY DEF RequestReports, RequestsOf, Captured, CapturedOf, NoCaptures
<1>4. \A b : RequestReports(b)' = RequestReports(b)
  BY <1>1, <1>2, <1>3
<1>5. \A a : ResponseReports(a) = ResponsesOf(names, a)
  BY DEF ResponseReports, ResponsesOf, Captured, CapturedOf
<1>6. \A a : ResponseReports(a)' = ResponsesOf(names', a)
  BY DEF ResponseReports, ResponsesOf, Captured, CapturedOf
<1>7. \A a : ResponseReports(a)' = ResponseReports(a)
  BY <1>1, <1>5, <1>6
<1>8. AnswerReports' = AnswerReports
  BY <1>7 DEF AnswerReports
<1>9. RightFrames' = RightFrames
  BY <1>4, <1>8 DEF RightFrames
<1>10. up_to_violation' = up_to_violation
  BY DEF up_to_violation, RejectedAt
<1>11. QED
  BY <1>4, <1>8, <1>9, <1>10

\* A frame that is reported comes behind the others.
LEMMA FrameAdded ==
    ASSUME frames \in Seq(RightFrames), NEW f \in RightFrames, IsHeader(f),
           frames' = Append(frames, f), case' = case
    PROVE  /\ frames' \in Seq(RightFrames) /\ Len(frames) \in Nat
           /\ DOMAIN frames = 1..Len(frames) /\ DOMAIN frames' = 1..(Len(frames) + 1)
           /\ \A j \in 1..Len(frames) : frames'[j] = frames[j]
           /\ frames'[Len(frames) + 1] = f
           /\ Requests \subseteq 1..Len(frames)
           /\ Requests' = IF f.upstream THEN Requests ELSE Requests \cup {Len(frames) + 1}
<1> DEFINE S == RightFrames
           n == Len(frames)
<1>1. frames \in Seq(S) /\ f \in S
  OBVIOUS
<1> HIDE DEF S
<1>2. /\ frames' \in Seq(S) /\ n \in Nat /\ Len(frames') = n + 1
      /\ \A j \in 1..n : frames'[j] = frames[j]
      /\ frames'[n + 1] = f
  BY <1>1, AppendProperties, LenProperties
<1>3. DOMAIN frames = 1..n /\ DOMAIN frames' = 1..(n + 1)
  BY <1>1, <1>2, LenProperties
<1>4. Requests = {j \in 1..n : IsHeader(frames[j]) /\ ~frames[j].upstream}
  BY <1>3 DEF Requests
<1>5. Requests' = {j \in 1..(n + 1) : IsHeader(frames'[j]) /\ ~frames'[j].upstream}
  BY <1>3 DEF Requests, IsHeader
<1>6. 1..(n + 1) = 1..n \cup {n + 1}
  BY <1>2
<1>7. Requests' = IF f.upstream THEN Requests ELSE Requests \cup {n + 1}
  BY <1>2, <1>4, <1>5, <1>6
<1>8. QED
  BY <1>2, <1>3, <1>4, <1>7 DEF S

LEMMA ParseRequestSound ==
    ASSUME case \in cases, next \in 1..(Len(case.blocks) + 1), RightSoFar, ParseRequest
    PROVE  RightSoFar'
<1> DEFINE n == Len(frames)
           b == case.blocks[next]
<1>1. next \in 1..Len(case.blocks) /\ next' = next + 1 /\ case' = case /\ closed' = closed
  BY CaseFacts DEF ParseRequest, MaySend
<1>2. PICK f \in RequestReports(b) : frames' = Append(frames, f)
  BY DEF ParseRequest
<1>3. BlockOfCase(case.violation, b)
  BY <1>1, CaseFacts
<1>4. f \in RightFrames
  BY <1>1 DEF RightFrames
<1>5. ~f.upstream /\ IsHeader(f)
  BY <1>3, RequestReported
<1>6. frames \in Seq(RightFrames)
  BY DEF RightSoFar
<1>7. /\ frames' \in Seq(RightFrames) /\ n \in Nat
      /\ DOMAIN frames = 1..n /\ DOMAIN frames' = 1..(n + 1)
      /\ \A j \in 1..n : frames'[j] = frames[j]
      /\ frames'[n + 1] = f
      /\ Requests \subseteq 1..n /\ Requests' = Requests \cup {n + 1}
  BY <1>1, <1>2, <1>4, <1>5, <1>6, FrameAdded
<1> DEFINE P == Requests
<1>8. /\ Cardinality(P') = next /\ Number(P', n + 1) = next
      /\ \A j \in P : Number(P', j) = Number(P, j)
  <2>1. Cardinality(P) = next - 1 /\ next \in Nat /\ P \subseteq 1..n /\ n \in Nat
    BY <1>1, <1>7 DEF RightSoFar
  <2>2. P' = P \cup {n + 1}
    BY <1>7
  <2> HIDE DEF P
  <2> HIDE DEF n
  <2>3. /\ Cardinality(P \cup {n + 1}) = Cardinality(P) + 1
        /\ Number(P \cup {n + 1}, n + 1) = Cardinality(P) + 1
        /\ \A j \in P : Number(P \cup {n + 1}, j) = Number(P, j)
    BY <2>1, NumberFacts
  <2>4. Cardinality(P) + 1 = next
    BY <2>1
  <2>5. QED
    BY <2>2, <2>3, <2>4
<1>9. \A x : RequestReports(x)' = RequestReports(x)
  BY <1>1, SameCase
<1>10. \A j \in P' : frames'[j] \in RequestReports(case.blocks[Number(P', j)])
  BY <1>2, <1>7, <1>8 DEF RightSoFar
<1>11. \A j \in DOMAIN frames' : j \in P' \/ frames'[j] \in AnswerReports
  <2>1. \A j \in 1..(n + 1) : j \in 1..n \/ j = n + 1
    BY <1>7
  <2>2. QED
    BY <1>7, <2>1 DEF RightSoFar
<1>12. closed' => case'.violation /\ next' > up_to_violation'
  <2>1. up_to_violation \in Int /\ up_to_violation' = up_to_violation
    BY <1>1, CaseFacts, SameCase
  <2>2. QED
    BY <1>1, <2>1 DEF RightSoFar
<1>13. /\ (frames \in Seq(RightFrames))'
       /\ (\A j \in DOMAIN frames : j \in Requests \/ frames[j] \in AnswerReports)'
  BY <1>1, <1>7, <1>11, SameCase
<1>14. (\A j \in Requests : frames[j] \in RequestReports(case.blocks[Number(Requests, j)]))'
  BY <1>1, <1>9, <1>10
<1>15. (Cardinality(Requests) = next - 1)'
  BY <1>1, <1>8
<1>16. QED
  BY <1>12, <1>13, <1>14, <1>15 DEF RightSoFar

LEMMA ParseResponseSound ==
    ASSUME case \in cases, next \in 1..(Len(case.blocks) + 1), RightSoFar, ParseResponse
    PROVE  RightSoFar'
<1> DEFINE n == Len(frames)
           P == Requests
<1>1. case' = case /\ next' = next /\ closed' = closed
  BY DEF ParseResponse
<1>2. Len(case.blocks) \in Nat
  BY CaseFacts
<1>3. PICK j \in {k \in 1..(next - 1) : Answered(case.blocks[k].fields)} :
              \E f \in ResponseReports(launch(case.blocks[j].fields)) : frames' = Append(frames, f)
  BY DEF ParseResponse
<1>4. PICK f \in ResponseReports(launch(case.blocks[j].fields)) : frames' = Append(frames, f)
  BY <1>3
<1>5. j \in {k \in 1..Len(case.blocks) : Answered(case.blocks[k].fields)}
  BY <1>2, <1>3
<1>6. f \in AnswerReports /\ f \in RightFrames
  BY <1>5 DEF AnswerReports, RightFrames
<1>7. f.upstream /\ IsHeader(f)
  BY ResponseReported
<1>8. frames \in Seq(RightFrames)
  BY DEF RightSoFar
<1>9. /\ frames' \in Seq(RightFrames) /\ n \in Nat
      /\ DOMAIN frames = 1..n /\ DOMAIN frames' = 1..(n + 1)
      /\ \A k \in 1..n : frames'[k] = frames[k]
      /\ frames'[n + 1] = f
      /\ P \subseteq 1..n /\ P' = P
  BY <1>1, <1>4, <1>6, <1>7, <1>8, FrameAdded
<1>10. \A x : RequestReports(x)' = RequestReports(x)
  BY <1>1, SameCase
<1>11. \A k \in P' : frames'[k] \in RequestReports(case.blocks[Number(P', k)])
  BY <1>9 DEF RightSoFar
<1>12. \A k \in DOMAIN frames' : k \in P' \/ frames'[k] \in AnswerReports
  <2>1. \A k \in 1..(n + 1) : k \in 1..n \/ k = n + 1
    BY <1>9
  <2>2. QED
    BY <1>6, <1>9, <2>1 DEF RightSoFar
<1>13. (closed => case.violation /\ next > up_to_violation)'
  BY <1>1, SameCase DEF RightSoFar
<1>14. /\ (frames \in Seq(RightFrames))'
       /\ (\A k \in DOMAIN frames : k \in Requests \/ frames[k] \in AnswerReports)'
  BY <1>1, <1>9, <1>12, SameCase
<1>15. (\A k \in Requests : frames[k] \in RequestReports(case.blocks[Number(Requests, k)]))'
  BY <1>1, <1>10, <1>11
<1>16. (Cardinality(Requests) = next - 1)'
  BY <1>1, <1>9 DEF RightSoFar
<1>17. QED
  BY <1>13, <1>14, <1>15, <1>16 DEF RightSoFar

LEMMA PeerClosesSound ==
    ASSUME RightSoFar, PeerCloses
    PROVE  RightSoFar'
<1>1. case' = case /\ next' = next /\ frames' = frames
  BY DEF PeerCloses
<1>2. case.violation /\ next > up_to_violation
  BY DEF PeerCloses
<1>3. Requests' = Requests
  BY <1>1 DEF Requests, IsHeader
<1>4. \A x : RequestReports(x)' = RequestReports(x)
  BY <1>1, SameCase
<1>5. (\A k \in Requests : frames[k] \in RequestReports(case.blocks[Number(Requests, k)]))'
  BY <1>1, <1>3, <1>4 DEF RightSoFar
<1>6. (Cardinality(Requests) = next - 1)'
  BY <1>1, <1>3 DEF RightSoFar
<1>7. (closed => case.violation /\ next > up_to_violation)'
  BY <1>1, <1>2, SameCase
<1>8. /\ (frames \in Seq(RightFrames))'
      /\ (\A k \in DOMAIN frames : k \in Requests \/ frames[k] \in AnswerReports)'
  BY <1>1, <1>3, SameCase DEF RightSoFar
<1>9. QED
  BY <1>5, <1>6, <1>7, <1>8 DEF RightSoFar

-----------------------------------------------------------------------------
(* The check.                                                                *)

\* An answer that is reported carries one of the answers the runner expects.
LEMMA AnswerCarries ==
    ASSUME case \in cases, NEW f \in AnswerReports
    PROVE  /\ f.upstream /\ IsHeader(f) /\ f.ret = 0
           /\ \E a \in answers : Carries(f, a)
<1>1. PICK k \in 1..Len(case.blocks) : /\ Answered(case.blocks[k].fields)
                                       /\ f \in ResponseReports(launch(case.blocks[k].fields))
  BY DEF AnswerReports
<1> DEFINE b == case.blocks[k]
           a == launch(b.fields)
<1>2. BlockOfCase(case.violation, b) /\ k \in DOMAIN case.blocks
  BY CaseFacts
<1>3. b.kind = "fields"
  <2>1. b.fields # <<>>
    BY <1>1 DEF Answered, NamesOf
  <2>2. QED
    BY <1>2, <2>1 DEF BlockOfCase
<1>4. b \in sent(case)
  BY <1>2, <1>3 DEF sent
<1>5. Listed(b.fields)
  BY <1>2 DEF BlockOfCase
<1>6. a = response_fields(b.fields) /\ AllPresent(a)
  BY <1>5, AnswerFacts
<1>7. a \in answers
  BY <1>1, <1>4, <1>6 DEF answers
<1>8. f \in ResponseReports(a)
  BY <1>1
<1> HIDE DEF a
<1>9. /\ f.upstream /\ IsHeader(f) /\ f.ret = 0
      /\ \E s \in {"plain", "coded"}, t \in BOOLEAN : f.captures = Captured(a, s, t)
  BY <1>8, ResponseReported
<1>10. Carries(f, a)
  BY <1>6, <1>9, CapturedCarries
<1>11. QED
  BY <1>7, <1>9, <1>10

\* A request that is reported as it should be agrees with its block.
LEMMA RequestAgrees ==
    ASSUME NEW v, NEW b, BlockOfCase(v, b), NEW f \in RequestReports(b)
    PROVE  IF v THEN CheckViolation(f, b) ELSE CheckRequest(f, b)
<1>1. CASE b.kind = "fields"
  <2>1. f.ret = 0 /\ \E s \in {"plain", "coded"}, t \in BOOLEAN :
                        f.captures = Captured(expected_fields(b.fields), s, t)
    BY <1>1, RequestReported
  <2>2. AllPresent(expected_fields(b.fields))
    BY ExpectedPresent DEF BlockOfCase
  <2>3. Carries(f, expected_fields(b.fields))
    BY <2>1, <2>2, CapturedCarries
  <2>4. QED
    BY <1>1, <2>1, <2>3 DEF CheckViolation, CheckRequest
<1>2. CASE b.kind = "malformed"
  <2>1. f.ret = -74
    BY <1>2, RequestReported DEF EBADMSG
  <2>2. ~v
    BY <1>2 DEF BlockOfCase
  <2>3. QED
    BY <1>2, <2>1, <2>2 DEF CheckRequest, EPROTO
<1>3. CASE b.kind = "rejected"
  <2>1. f.ret = -EPROTO
    BY <1>3, RequestReported
  <2>2. v
    BY <1>3 DEF BlockOfCase
  <2>3. QED
    BY <1>3, <2>1, <2>2 DEF CheckViolation
<1>4. QED
  BY <1>1, <1>2, <1>3 DEF BlockOfCase

\* The runner finds no problem in what a parser that is right has reported.
LEMMA CheckPasses ==
    ASSUME case \in cases, next \in 1..(Len(case.blocks) + 1), RightSoFar,
           closed \/ next > Len(case.blocks)
    PROVE  check
<1> DEFINE L == Len(case.blocks)
           P == Requests
           n == Len(frames)
<1>1. /\ L \in Nat /\ DOMAIN case.blocks = 1..L /\ up_to_violation \in 0..L
      /\ \A j \in 1..L : BlockOfCase(case.violation, case.blocks[j])
  BY CaseFacts
<1>2. n \in Nat /\ DOMAIN frames = 1..n
  BY LenProperties DEF RightSoFar
<1>3. P \subseteq 1..n /\ Cardinality(P) = next - 1
  BY <1>2 DEF RightSoFar, Requests
<1>4. \A j \in P : Number(P, j) \in 1..L
  <2>1. \A j \in P : Number(P, j) \in 1..Cardinality(P)
    <3> HIDE DEF P, n
    <3>1. QED
      BY <1>2, <1>3, NumberFacts
  <2>2. 1..(next - 1) \subseteq 1..L
    BY <1>1
  <2>3. QED
    BY <1>3, <2>1, <2>2
<1>5. ASSUME NEW j \in P
      PROVE  LET b == case.blocks[Number(P, j)]
             IN  IF case.violation THEN CheckViolation(frames[j], b) ELSE CheckRequest(frames[j], b)
  <2>1. frames[j] \in RequestReports(case.blocks[Number(P, j)])
    BY DEF RightSoFar
  <2>2. BlockOfCase(case.violation, case.blocks[Number(P, j)])
    BY <1>1, <1>4
  <2>3. QED
    BY <2>1, <2>2, RequestAgrees
<1>6. \A j \in 1..n : j \in P \/ (frames[j].upstream /\ IsHeader(frames[j]) /\ frames[j].ret = 0)
  BY <1>2, AnswerCarries DEF RightSoFar
<1>7. blocks
  BY <1>2, <1>6 DEF blocks, Requests
<1>8. check_responses
  <2>1. ASSUME NEW j \in Responses PROVE frames[j] \in AnswerReports
    BY <1>2 DEF RightSoFar, Responses, Requests
  <2>2. QED
    BY <2>1, AnswerCarries DEF check_responses
<1>9. CASE ~case.violation
  <2>1. Cardinality(P) = L
    BY <1>1, <1>3, <1>9 DEF RightSoFar
  <2>2. check_requests
    BY <1>5, <1>9, <2>1 DEF check_requests
  <2>3. QED
    BY <1>7, <1>8, <1>9, <2>2 DEF check
<1>10. CASE case.violation
  <2>1. Cardinality(P) \in up_to_violation..L
    <3>1. next - 1 >= up_to_violation /\ next - 1 <= L /\ next - 1 \in Int /\ up_to_violation \in Int
      BY <1>1 DEF RightSoFar
    <3>2. QED
      BY <1>1, <1>3, <3>1
  <2>2. {j \in DOMAIN frames : ~frames[j].upstream /\ (frames[j].ret < 0 \/ IsHeader(frames[j]))} = P
    BY <1>2, <1>6 DEF Requests
  <2>3. check_violation
    BY <1>5, <1>10, <2>1, <2>2 DEF check_violation
  <2>4. QED
    BY <1>7, <1>8, <1>10, <2>3 DEF check
<1>11. QED
  BY <1>9, <1>10

-----------------------------------------------------------------------------
(* The theorem.                                                              *)

LEMMA SoundInit ==
    ASSUME Init
    PROVE  SoundInv
<1>1. Requests = {} /\ frames = <<>> /\ DOMAIN frames = {}
  BY DEF Init, Requests
<1>2. Cardinality(Requests) = 0
  BY <1>1, FS_EmptySet
<1>3. RightSoFar
  <2> DEFINE S == RightFrames
  <2> HIDE DEF S
  <2>1. frames \in Seq(S)
    BY <1>1
  <2>2. closed = FALSE /\ next - 1 = 0
    BY DEF Init
  <2>3. QED
    BY <1>1, <1>2, <2>1, <2>2 DEF RightSoFar, S
<1>4. next \in 1..(Len(case.blocks) + 1)
  <2>1. Len(case.blocks) \in Nat
    BY CaseFacts DEF Init
  <2>2. QED
    BY <2>1 DEF Init
<1>5. QED
  BY <1>3, <1>4 DEF Init, SoundInv

\* The case stays, and the blocks are sent one after the other.
LEMMA PlaceInCase ==
    ASSUME case \in cases, next \in 1..(Len(case.blocks) + 1), Next
    PROVE  case' \in cases /\ next' \in 1..(Len(case'.blocks) + 1)
<1>1. case' = case
  BY DEF Next, ParseRequest, ParseResponse, PeerCloses, MisreadRequest, LoseRequest,
         RepeatRequest, MisreadResponse, FailOther, Check
<1>2. \/ next' = next
      \/ next' = next + 1 /\ next <= Len(case.blocks)
  BY DEF Next, ParseRequest, ParseResponse, PeerCloses, MisreadRequest, LoseRequest,
         RepeatRequest, MisreadResponse, FailOther, Check, MaySend
<1>3. Len(case.blocks) \in Nat
  BY CaseFacts
<1>4. QED
  BY <1>1, <1>2, <1>3

\* What a parser that gets something wrong does is no concern of the invariant.
LEMMA FaultStays ==
    ASSUME MisreadRequest \/ LoseRequest \/ RepeatRequest \/ MisreadResponse \/ FailOther
    PROVE  fault' # NoFault
<1>1. fault'.kind \in {"misread", "lost", "repeated", "response", "other"}
  BY DEF MisreadRequest, LoseRequest, RepeatRequest, MisreadResponse, FailOther
<1>2. QED
  BY <1>1 DEF NoFault

LEMMA SoundNext ==
    ASSUME SoundInv, Next
    PROVE  SoundInv'
<1>1. case \in cases /\ next \in 1..(Len(case.blocks) + 1)
  BY DEF SoundInv
<1>2. case' \in cases /\ next' \in 1..(Len(case'.blocks) + 1)
  BY <1>1, PlaceInCase
<1>3. SUFFICES ASSUME fault' = NoFault
               PROVE  IF verdict' = "none" THEN RightSoFar' ELSE verdict' = "pass"
  BY <1>2 DEF SoundInv
<1>4. fault = NoFault /\ verdict = "none" /\ RightSoFar
  <2>1. fault' = fault /\ verdict = "none"
    BY <1>3, FaultStays
    DEF Next, ParseRequest, ParseResponse, PeerCloses, Check, MaySend, Running
  <2>2. QED
    BY <1>3, <2>1 DEF SoundInv
<1>5. CASE ParseRequest
  BY <1>1, <1>4, <1>5, ParseRequestSound DEF ParseRequest
<1>6. CASE ParseResponse
  BY <1>1, <1>4, <1>6, ParseResponseSound DEF ParseResponse
<1>7. CASE PeerCloses
  BY <1>4, <1>7, PeerClosesSound DEF PeerCloses
<1>8. CASE Check
  <2>1. check
    BY <1>1, <1>4, <1>8, CheckPasses DEF Check
  <2>2. verdict' = "pass"
    BY <1>8, <2>1 DEF Check
  <2>3. QED
    BY <2>2
<1>9. CASE MisreadRequest \/ LoseRequest \/ RepeatRequest \/ MisreadResponse \/ FailOther
  BY <1>3, <1>9, FaultStays
<1>10. QED
  BY <1>5, <1>6, <1>7, <1>8, <1>9 DEF Next

LEMMA SoundStays ==
    ASSUME SoundInv, UNCHANGED vars
    PROVE  SoundInv'
<1>1. /\ case' = case /\ next' = next /\ closed' = closed /\ frames' = frames
      /\ fault' = fault /\ verdict' = verdict
  BY DEF vars
<1>2. Requests' = Requests
  BY <1>1 DEF Requests, IsHeader
<1>3. \A x : RequestReports(x)' = RequestReports(x)
  BY <1>1, SameCase
<1>4. ASSUME RightSoFar PROVE RightSoFar'
  <2>1. (\A k \in Requests : frames[k] \in RequestReports(case.blocks[Number(Requests, k)]))'
    BY <1>1, <1>2, <1>3, <1>4 DEF RightSoFar
  <2>2. (Cardinality(Requests) = next - 1)'
    BY <1>1, <1>2, <1>4 DEF RightSoFar
  <2>3. (closed => case.violation /\ next > up_to_violation)'
    BY <1>1, <1>4, SameCase DEF RightSoFar
  <2>4. /\ (frames \in Seq(RightFrames))'
        /\ (\A k \in DOMAIN frames : k \in Requests \/ frames[k] \in AnswerReports)'
    BY <1>1, <1>2, <1>4, SameCase DEF RightSoFar
  <2>5. QED
    BY <2>1, <2>2, <2>3, <2>4 DEF RightSoFar
<1>5. QED
  BY <1>1, <1>4 DEF SoundInv

\* A parser that reports what it should passes (main.rs's check): in every case of
\* h2spec, whichever spelling the values arrive in, whether they are read from the
\* message or from what an entry of the dynamic table kept of them, whichever
\* requests the server answers and however often, and wherever the peer closes the
\* connection on a violation.
THEOREM RightParserPasses == Spec => []Sound
<1>1. Init => SoundInv
  BY SoundInit
<1>2. SoundInv /\ [Next]_vars => SoundInv'
  BY SoundNext, SoundStays
<1>3. SoundInv => Sound
  BY DEF SoundInv, Sound
<1>4. QED
  BY <1>1, <1>2, <1>3, PTL DEF Spec

-----------------------------------------------------------------------------
(* A wrong report is taken for nothing that is sent.                         *)

LEMMA OtherIs == OtherReport = [len |-> 1, head |-> <<<<"other", "plain">>>>]
<1> DEFINE b == <<<<"other", "plain">>>>
           S == {<<"other", "plain">>}
<1>1. Spelled(Str("other"), "plain") = b
  BY DEF Spelled, Str, Value
<1>2. b \in Seq(S) /\ Len(b) = 1
  OBVIOUS
<1> HIDE DEF b, S
<1>3. RESULT_VAL_LEN \in Nat /\ Len(b) <= RESULT_VAL_LEN
  BY <1>2, ConformanceOK
<1>4. FirstOf(b, RESULT_VAL_LEN) = b
  BY <1>2, <1>3, FirstFacts
<1>5. OtherReport = [len |-> Len(b), head |-> b]
  BY <1>1, <1>4 DEF OtherReport, Reported, ReadCapture
<1>6. QED
  BY <1>2, <1>5 DEF b

\* The text is none of those sent, and a value is there if it was sent.
LEMMA NeverMatch ==
    /\ \A v : Given(v) \/ v = Absent => ~matches(v, OtherReport)
    /\ \A v : Given(v) => ~matches(v, NoCapture)
    /\ OtherReport # NoCapture
<1> DEFINE o == <<"other", "plain">>
           c == OtherReport
<1>1. c.len = 1 /\ c.head = <<o>>
  BY OtherIs
<1> HIDE DEF c
<1>2. c # NoCapture
  BY <1>1 DEF NoCapture
<1>3. \A v : Given(v) => v # Absent
  <2>1. Absent.kind = "absent"
    BY DEF Absent, Value
  <2>2. QED
    BY <2>1 DEF Given
<1>4. ASSUME NEW v, Given(v), matches(v, c) PROVE FALSE
  <2>1. \E s \in {"plain", "coded", "raw"} : Spelled(v, s) = <<o>> \/ IsPrefix(<<o>>, Spelled(v, s))
    BY <1>1, <1>2, <1>3, <1>4 DEF matches
  <2>2. PICK s \in {"plain", "coded", "raw"} :
            Spelled(v, s) = <<o>> \/ IsPrefix(<<o>>, Spelled(v, s))
    BY <2>1
  <2> DEFINE t == Spelled(v, s)
             S == {<<"x", s>>, <<v.text, "raw">>, <<v.text, s>>}
  <2>3. t \in Seq(S)
    BY SpelledFacts
  <2>4. o \notin S
    BY <1>4 DEF Given
  <2> HIDE DEF t, S, o
  <2>5. Len(<<o>>) = 1 /\ <<o>> \in Seq({o}) /\ <<o>>[1] = o
    OBVIOUS
  <2>6. SubSeq(<<o>>, 1, 1) = <<o>>
    BY <2>5, SubSeqFull
  <2>7. Len(t) \in Nat /\ Len(t) >= 1 /\ t[1] = o
    <3>1. CASE t = <<o>>
      BY <2>5, <3>1
    <3>2. CASE IsPrefix(<<o>>, t)
      <4>1. 1 <= Len(t) /\ <<o>> = SubSeq(t, 1, 1)
        BY <2>5, <2>6, <3>2 DEF IsPrefix
      <4>2. Len(t) \in Nat
        BY <2>3, LenProperties
      <4>3. SubSeq(t, 1, 1)[1] = t[1]
        BY <2>3, <4>1, <4>2, SubSeqProperties
      <4>4. QED
        BY <2>5, <4>1, <4>2, <4>3
    <3>3. QED
      BY <2>2, <3>1, <3>2 DEF t
  <2>8. t[1] \in S
    BY <2>3, <2>7, ElementOfSeq
  <2>9. QED
    BY <2>4, <2>7, <2>8
<1>5. ~matches(Absent, c)
  BY <1>2 DEF matches
<1>6. \A v : Given(v) => ~matches(v, NoCapture)
  BY <1>3 DEF matches
<1>7. QED
  BY <1>2, <1>4, <1>5, <1>6 DEF c

\* What one name is reported as instead of what it should be is not carried.
LEMMA WrongCaptures ==
    ASSUME NEW a, AllPresent(a), NEW s \in {"plain", "coded"}, NEW t \in BOOLEAN,
           NEW f, f = Frame(f.upstream, f.frame_type, f.ret, f.captures),
           f.captures = Captured(a, s, t),
           NEW n \in names, NEW c \in {NoCapture, OtherReport},
           NEW w, w = Miscaptured(f, n, c), w # f
    PROVE  ~Carries(w, a)
<1> DEFINE cap == Captured(a, s, t)
<1>1. cap = [m \in names |-> cap[m]] /\ DOMAIN cap = names
  BY DEF Captured
<1> DEFINE wrong == [cap EXCEPT ![n] = c]
<1>2. w = Frame(f.upstream, f.frame_type, f.ret, wrong)
  BY DEF Frame, Miscaptured
<1>3. cap[n] # c
  <2>1. cap[n] = c => wrong = cap
    BY <1>1
  <2>2. QED
    BY <1>2, <2>1
<1>4. w.captures[n] = c
  <2>1. wrong[n] = c
    BY <1>1
  <2> HIDE DEF wrong
  <2>2. QED
    BY <1>2, <2>1 DEF Frame
<1>5. SUFFICES ASSUME matches(Expected(a, n), c) PROVE FALSE
  BY <1>4 DEF Carries
<1>6. n \in DOMAIN a => Given(Expected(a, n))
  BY DEF AllPresent, Expected
<1>7. n \notin DOMAIN a => Expected(a, n) = Absent /\ cap[n] = NoCapture
  BY DEF Expected, Captured
<1>8. QED
  BY <1>3, <1>5, <1>6, <1>7, NeverMatch

LEMMA WrongIs ==
    ASSUME NEW f, NEW w \in Wrong(f)
    PROVE  \/ \E r \in {0, -EPROTO, -EBADMSG} \ {f.ret} : w = [f EXCEPT !.ret = r]
           \/ /\ ~(f.ret < 0)
              /\ \E n \in names, c \in {NoCapture, OtherReport} :
                    w = Miscaptured(f, n, c) /\ w # f
<1> DEFINE A == {[f EXCEPT !.ret = r] : r \in {0, -EPROTO, -EBADMSG} \ {f.ret}}
           B == {Miscaptured(f, n, c) : n \in names, c \in {NoCapture, OtherReport}}
<1>1. w \in A \cup (IF f.ret < 0 THEN {} ELSE B \ {f})
  BY DEF Wrong
<1>2. w \in A => \E r \in {0, -EPROTO, -EBADMSG} \ {f.ret} : w = [f EXCEPT !.ret = r]
  OBVIOUS
<1>3. w \in B => \E n \in names, c \in {NoCapture, OtherReport} : w = Miscaptured(f, n, c)
  OBVIOUS
<1>4. w \in A \/ (~(f.ret < 0) /\ w \in B /\ w # f)
  <2> HIDE DEF A, B
  <2>1. QED
    BY <1>1
<1>5. QED
  BY <1>2, <1>3, <1>4

\* So is another result than a report has.
LEMMA WrongRequest ==
    ASSUME NEW v, NEW b, BlockOfCase(v, b), NEW f \in RequestReports(b), NEW w \in Wrong(f)
    PROVE  /\ ~w.upstream /\ IsHeader(w)
           /\ ~CheckRequest(w, b) /\ (v => ~CheckViolation(w, b))
<1>1. PICK type, ret, cap : type \in {HEADERS, CONTINUATION} /\ f = Frame(FALSE, type, ret, cap)
  <2>1. CASE b.kind = "fields"
    BY <2>1 DEF RequestReports, Frame
  <2>2. CASE b.kind = "malformed"
    BY <2>2 DEF RequestReports, Frame
  <2>3. CASE b.kind = "rejected"
    BY <2>3 DEF RequestReports, Frame
  <2>4. QED
    BY <2>1, <2>2, <2>3 DEF BlockOfCase
<1>2. \/ \E r \in {0, -EPROTO, -EBADMSG} \ {f.ret} : w = [f EXCEPT !.ret = r]
      \/ /\ ~(f.ret < 0)
         /\ \E n \in names, c \in {NoCapture, OtherReport} : w = Miscaptured(f, n, c) /\ w # f
  BY WrongIs
<1>3. ~w.upstream /\ IsHeader(w)
  BY <1>1, <1>2 DEF Frame, IsHeader, Miscaptured
<1>4. CASE \E r \in {0, -EPROTO, -EBADMSG} \ {f.ret} : w = [f EXCEPT !.ret = r]
  <2>1. w.ret \in {0, -EPROTO, -EBADMSG} /\ w.ret # f.ret
    BY <1>1, <1>4 DEF Frame
  <2>2. CASE b.kind = "fields"
    <3>1. f.ret = 0
      BY <2>2, RequestReported
    <3>2. QED
      BY <1>3, <2>1, <2>2, <3>1 DEF CheckRequest, CheckViolation, EPROTO, EBADMSG
  <2>3. CASE b.kind = "malformed"
    <3>1. f.ret = -EBADMSG
      BY <2>3, RequestReported
    <3>2. QED
      BY <1>3, <2>1, <2>3, <3>1 DEF CheckRequest, CheckViolation, EPROTO, EBADMSG
  <2>4. CASE b.kind = "rejected"
    <3>1. f.ret = -EPROTO
      BY <2>4, RequestReported
    <3>2. QED
      BY <1>3, <2>1, <2>4, <3>1 DEF CheckRequest, CheckViolation, EPROTO, EBADMSG
  <2>5. QED
    BY <2>2, <2>3, <2>4 DEF BlockOfCase
<1>5. CASE /\ ~(f.ret < 0)
           /\ \E n \in names, c \in {NoCapture, OtherReport} :
                 w = Miscaptured(f, n, c) /\ w # f
  <2>1. b.kind = "fields"
    <3>1. b.kind = "malformed" => f.ret = -74
      BY RequestReported DEF EBADMSG
    <3>2. b.kind = "rejected" => f.ret = -71
      BY RequestReported DEF EPROTO
    <3>3. QED
      BY <1>5, <3>1, <3>2 DEF BlockOfCase
  <2>2. PICK s \in {"plain", "coded"}, t \in BOOLEAN :
            f = Frame(FALSE, HEADERS, 0, Captured(expected_fields(b.fields), s, t))
    BY <2>1 DEF RequestReports, Frame
  <2>3. AllPresent(expected_fields(b.fields))
    BY ExpectedPresent DEF BlockOfCase
  <2>4. ~Carries(w, expected_fields(b.fields))
    <3> DEFINE e == expected_fields(b.fields)
    <3> HIDE DEF e
    <3>1. PICK n \in names, c \in {NoCapture, OtherReport} :
              w = Miscaptured(f, n, c) /\ w # f
      BY <1>5
    <3>2. /\ AllPresent(e) /\ f = Frame(f.upstream, f.frame_type, f.ret, f.captures)
          /\ f.captures = Captured(e, s, t)
      BY <2>2, <2>3 DEF e, Frame
    <3>3. ~Carries(w, e)
      BY <3>1, <3>2, WrongCaptures
    <3>4. QED
      BY <3>3 DEF e
  <2>5. QED
    BY <1>3, <2>1, <2>4 DEF CheckRequest, CheckViolation
<1>6. QED
  BY <1>2, <1>3, <1>4, <1>5

LEMMA WrongResponse ==
    ASSUME NEW a, AllPresent(a), NEW f \in ResponseReports(a), NEW w \in Wrong(f)
    PROVE  w.upstream /\ IsHeader(w) /\ ~(w.ret >= 0 /\ Carries(w, a))
<1>1. PICK s \in {"plain", "coded"}, t \in BOOLEAN : f = Frame(TRUE, HEADERS, 0, Captured(a, s, t))
  BY DEF ResponseReports, Frame
<1>2. \/ \E r \in {0, -EPROTO, -EBADMSG} \ {f.ret} : w = [f EXCEPT !.ret = r]
      \/ \E n \in names, c \in {NoCapture, OtherReport} : w = Miscaptured(f, n, c) /\ w # f
  BY WrongIs
<1>3. w.upstream /\ IsHeader(w)
  BY <1>1, <1>2 DEF Frame, IsHeader, Miscaptured
<1>4. CASE \E r \in {0, -EPROTO, -EBADMSG} \ {f.ret} : w = [f EXCEPT !.ret = r]
  <2>1. w.ret \in {-EPROTO, -EBADMSG}
    BY <1>1, <1>4 DEF Frame
  <2>2. QED
    BY <1>3, <2>1 DEF EPROTO, EBADMSG
<1>5. CASE \E n \in names, c \in {NoCapture, OtherReport} :
              w = Miscaptured(f, n, c) /\ w # f
  <2>1. PICK n \in names, c \in {NoCapture, OtherReport} : w = Miscaptured(f, n, c) /\ w # f
    BY <1>5
  <2>2. f = Frame(f.upstream, f.frame_type, f.ret, f.captures) /\ f.captures = Captured(a, s, t)
    BY <1>1 DEF Frame
  <2>3. ~Carries(w, a)
    BY <2>1, <2>2, WrongCaptures
  <2>4. QED
    BY <1>3, <2>3
<1>6. QED
  BY <1>2, <1>4, <1>5

-----------------------------------------------------------------------------
(* What the blocks of a case have in common.                                 *)

LEMMA KindFacts ==
    /\ Rejected.kind = "rejected" /\ Rejected.fields = <<>> /\ Malformed.fields = <<>>
    /\ \A fs : Fields(fs).kind = "fields" /\ Fields(fs).fields = fs
    /\ \A m, fs : request(m, fs).kind = "fields"
    /\ \A fs : get(fs).kind = "fields" /\ head(fs).kind = "fields" /\ post(fs).kind = "fields"
  BY DEF Rejected, Malformed, Fields, request, get, head, post

\* In a case that violates the protocol no two blocks carry different fields.
LEMMA ViolationsAgree ==
    ASSUME NEW c \in ViolationCases, NEW i \in DOMAIN c.blocks
    PROVE  /\ c.blocks[i] = Rejected \/ c.blocks[i].kind = "fields"
           /\ \A k \in DOMAIN c.blocks :
                 c.blocks[i].kind = "fields" /\ c.blocks[k].kind = "fields"
                    => c.blocks[i] = c.blocks[k]
<1> DEFINE u == Fields(<<Method("GET"), Scheme, Path("/")>>)
           g == get(<<>>)
           d == get(<<DummyField("x-dummy0")>>)
           r == Rejected
<1>1. u.kind = "fields" /\ g.kind = "fields" /\ d.kind = "fields" /\ r.kind = "rejected"
  BY KindFacts
<1>2. \/ c.blocks = <<r, r>> \/ c.blocks = <<r, u, r>> \/ c.blocks = <<r>>
      \/ c.blocks = <<g, r>> \/ c.blocks = <<d, r>> \/ c.blocks = <<r, r, r>>
  BY DEF ViolationCases, Violation
<1> HIDE DEF u, g, d, r
<1>3. \A x : \A k \in DOMAIN <<x>> : <<x>>[k] = x
  OBVIOUS
<1>4. \A x, y : \A k \in DOMAIN <<x, y>> : <<x, y>>[k] = x \/ <<x, y>>[k] = y
  OBVIOUS
<1>5. \A x, y, z : \A k \in DOMAIN <<x, y, z>> :
          <<x, y, z>>[k] = x \/ <<x, y, z>>[k] = y \/ <<x, y, z>>[k] = z
  OBVIOUS
<1>6. QED
  BY <1>1, <1>2, <1>3, <1>4, <1>5 DEF r

\* No two of a case's requests are answered differently.
SameAnswers(c) ==
    \A i, k \in DOMAIN c.blocks :
        Answered(c.blocks[i].fields) /\ Answered(c.blocks[k].fields)
           => response_fields(c.blocks[i].fields) = response_fields(c.blocks[k].fields)

LEMMA NotAnswered ==
    /\ ~Answered(<<>>)
    /\ \A v : ~Answered(<<Test(v)>>)
<1>1. NamesOf(<<>>) = {}
  BY DEF NamesOf
<1>2. ASSUME NEW v PROVE ":method" \notin NamesOf(<<Test(v)>>)
  <2> DEFINE f == Test(v)
  <2>1. f[1] = "x-test"
    BY DEF Test
  <2> HIDE DEF f
  <2>2. NamesOf(<<f>>) = {f[1]}
    BY DEF NamesOf
  <2>3. QED
    BY <2>1, <2>2 DEF f
<1>3. QED
  BY <1>1, <1>2 DEF Answered

\* A block that posts is answered that it may not.
LEMMA PostAnswer ==
    /\ response_fields(post(<<>>).fields) = NotAllowed
    /\ response_fields(Fields(<<Method("POST")>>).fields) = NotAllowed
<1>1. ASSUME NEW fs, NEW j \in DOMAIN fs, fs[j] = Method("POST"),
             \A k \in DOMAIN fs : fs[k][1] = ":method" => k = j,
             j \in Nat
      PROVE  response_fields(fs) = NotAllowed
  <2> DEFINE IsLast(m) == fs[m][1] = ":method" /\ \A k \in DOMAIN fs : fs[k][1] = ":method" => k <= m
             l == CHOOSE m \in DOMAIN fs : IsLast(m)
  <2>1. fs[j][1] = ":method" /\ fs[j][2].text = "POST"
    BY <1>1 DEF Method, Str, Value
  <2>2. IsLast(j)
    BY <1>1, <2>1
  <2>3. l \in DOMAIN fs /\ IsLast(l)
    BY <2>2
  <2>4. LastOf(fs, ":method") = fs[l][2]
    BY DEF LastOf
  <2> HIDE DEF l
  <2>5. l = j
    BY <1>1, <2>3
  <2>6. LastOf(fs, ":method").text = "POST"
    BY <2>1, <2>4, <2>5
  <2>7. QED
    BY <2>6 DEF response_fields
<1>2. response_fields(Fields(<<Method("POST")>>).fields) = NotAllowed
  <2> DEFINE m == Method("POST")
             fs == <<m>>
  <2>1. 1 \in DOMAIN fs /\ fs[1] = m /\ \A k \in DOMAIN fs : k = 1
    OBVIOUS
  <2> HIDE DEF fs
  <2>2. response_fields(fs) = NotAllowed
    BY <1>1, <2>1
  <2>3. QED
    BY <2>2, KindFacts DEF fs
<1>3. response_fields(post(<<>>).fields) = NotAllowed
  <2> DEFINE m == Method("POST")
             p == Path("/")
             fs == <<m, Scheme, p, Auth>>
  <2>1. Scheme[1] = ":scheme" /\ p[1] = ":path" /\ Auth[1] = ":authority"
    BY DEF Scheme, Path, Auth
  <2>2. post(<<>>).fields = fs \o <<>>
    BY DEF post, request, Fields
  <2> HIDE DEF m, p
  <2>3. /\ fs \o <<>> = fs /\ 1 \in DOMAIN fs /\ fs[1] = m
        /\ \A k \in DOMAIN fs : \/ k = 1
                                \/ k = 2 /\ fs[k] = Scheme
                                \/ k = 3 /\ fs[k] = p
                                \/ k = 4 /\ fs[k] = Auth
    <3>1. fs \in Seq({m, Scheme, p, Auth})
      OBVIOUS
    <3>2. fs \o <<>> = fs
      BY <3>1, ConcatEmptySeq
    <3>3. QED
      BY <3>2
  <2> HIDE DEF fs
  <2>4. \A k \in DOMAIN fs : fs[k][1] = ":method" => k = 1
    BY <2>1, <2>3
  <2>5. response_fields(fs) = NotAllowed
    BY <1>1, <2>3, <2>4 DEF m
  <2>6. QED
    BY <2>2, <2>3, <2>5
<1>4. QED
  BY <1>2, <1>3

LEMMA ShortAnswers ==
    /\ SameAnswers(Blocks(<<>>))
    /\ \A a : SameAnswers(Blocks(<<a>>))
    /\ \A a, b : a = b \/ ~Answered(b.fields) \/ response_fields(a.fields) = response_fields(b.fields)
                    => SameAnswers(Blocks(<<a, b>>))
<1>1. \A b : Blocks(b).blocks = b
  BY DEF Blocks
<1>2. \A a : \A k \in DOMAIN <<a>> : <<a>>[k] = a
  OBVIOUS
<1>3. \A a, b : \A k \in DOMAIN <<a, b>> : <<a, b>>[k] = a \/ <<a, b>>[k] = b
  OBVIOUS
<1>4. DOMAIN <<>> = {}
  OBVIOUS
<1>5. QED
  BY <1>1, <1>2, <1>3, <1>4 DEF SameAnswers

LEMMA OneAnswer ==
    ASSUME NEW c \in cases
    PROVE  SameAnswers(c)
<1> DEFINE many == [j \in 1..Many |-> get(<<>>)]
<1>1. CASE c \in ViolationCases
  <2>1. \A i \in DOMAIN c.blocks : Answered(c.blocks[i].fields) => c.blocks[i].kind = "fields"
    BY <1>1, ViolationsAgree, KindFacts, NotAnswered
  <2>2. QED
    BY <1>1, <2>1, ViolationsAgree DEF SameAnswers
<1>2. CASE c = Blocks(many)
  <2>1. c.blocks = many
    BY <1>2 DEF Blocks
  <2>2. \A i \in DOMAIN many : many[i] = get(<<>>)
    OBVIOUS
  <2> HIDE DEF many
  <2>3. QED
    BY <2>1, <2>2 DEF SameAnswers
<1> HIDE DEF many
<1>3. ASSUME c \notin ViolationCases, c # Blocks(many)
      PROVE  \/ c = Blocks(<<>>) \/ \E a : c = Blocks(<<a>>)
             \/ \E a : c = Blocks(<<a, a>>)
             \/ \E a, v : c = Blocks(<<a, Fields(<<Test(v)>>)>>)
             \/ c = Blocks(<<post(<<>>), Fields(<<Method("POST")>>)>>)
  <2>1. CASE c \in RequestCases
    BY <1>3, <2>1 DEF RequestCases, many
  <2>2. CASE c \in FieldCases
    BY <2>2 DEF FieldCases
  <2>3. CASE c \in PseudoHeaderCases
    BY <2>3 DEF PseudoHeaderCases
  <2>4. QED
    BY <1>3, <2>1, <2>2, <2>3 DEF cases
<1>4. \A v : ~Answered(Fields(<<Test(v)>>).fields)
  BY KindFacts, NotAnswered
<1>5. QED
  BY <1>1, <1>2, <1>3, <1>4, ShortAnswers, PostAnswer

-----------------------------------------------------------------------------
(* The invariant of a parser that gets something wrong.                      *)

\* Each number up to how many they are is the number of one.
LEMMA NumberOnto ==
    ASSUME NEW n \in Nat, NEW P, P \subseteq 1..n, NEW m \in 1..Cardinality(P)
    PROVE  \E j \in P : Number(P, j) = m
<1> DEFINE UpTo(j) == {k \in P : k <= j}
           T == {j \in P : Number(P, j) >= m}
<1>1. IsFiniteSet(P) /\ Cardinality(P) \in Nat /\ m \in Nat /\ m >= 1
  <2>1. IsFiniteSet(1..n)
    BY FS_Interval
  <2>2. IsFiniteSet(P)
    BY <2>1, FS_Subset
  <2>3. QED
    BY <2>2, FS_CardinalityType
<1>2. P \subseteq 0..n /\ \A k \in P : k \in Nat
  <2>1. \A k \in 1..n : k \in 0..n /\ k \in Nat
    OBVIOUS
  <2>2. QED
    BY <2>1
<1>3. \A j \in P : Number(P, j) = Cardinality(UpTo(j)) /\ UpTo(j) \subseteq P
  BY DEF Number
<1>4. T # {}
  <2>1. P # {}
    BY <1>1, FS_EmptySet
  <2>2. PICK g \in P : \A k \in P : k <= g
    BY <1>2, <2>1, GreatestNumber
  <2>3. UpTo(g) = P
    BY <2>2
  <2>4. QED
    BY <1>1, <1>3, <2>3
<1>5. PICK j \in T : \A k \in T : j <= k
  <2>1. T \subseteq Nat
    BY <1>2
  <2> HIDE DEF T
  <2>2. QED
    BY <1>4, <2>1, LeastNumber
<1>6. ASSUME Number(P, j) # m PROVE FALSE
  <2> DEFINE Q == UpTo(j)
             R == Q \ {j}
  <2>1. j \in P /\ j \in Nat /\ j \in Q /\ Q \subseteq P /\ Number(P, j) = Cardinality(Q)
    BY <1>2, <1>3
  <2>2. IsFiniteSet(Q) /\ Cardinality(Q) \in Nat /\ Cardinality(Q) >= m
    <3>1. IsFiniteSet(Q)
      BY <1>1, <2>1, FS_Subset
    <3>2. QED
      BY <2>1, <3>1, FS_CardinalityType
  <2>3. Cardinality(R) = Cardinality(Q) - 1 /\ IsFiniteSet(R)
    BY <2>1, <2>2, FS_RemoveElement
  <2>4. Cardinality(R) >= m /\ Cardinality(R) \in Nat
    <3> DEFINE c == Cardinality(Q)
    <3>1. c \in Nat /\ c >= m /\ c # m /\ m \in Nat /\ Cardinality(R) = c - 1 /\ m >= 1
      BY <1>1, <1>6, <2>1, <2>2, <2>3
    <3> HIDE DEF c, R
    <3>2. QED
      BY <3>1
  <2>5. R # {} /\ R \subseteq 0..n
    <3>1. R \subseteq P
      OBVIOUS
    <3> HIDE DEF R
    <3>2. R # {}
      BY <1>1, <2>4, FS_EmptySet
    <3>3. QED
      BY <1>2, <3>1, <3>2
  <2>6. PICK g \in R : \A k \in R : k <= g
    <3> HIDE DEF R
    <3>1. QED
      BY <2>5, GreatestNumber
  <2>7. g \in P /\ g \in Nat /\ g <= j /\ g # j
    BY <1>2, <2>6
  <2>8. UpTo(g) = R
    <3>1. ASSUME NEW k \in UpTo(g) PROVE k \in R
      BY <1>2, <2>1, <2>7
    <3>2. ASSUME NEW k \in R PROVE k \in UpTo(g)
      BY <2>6
    <3>3. QED
      BY <3>1, <3>2
  <2>9. g \in T
    BY <1>3, <2>4, <2>7, <2>8
  <2>10. QED
    BY <1>5, <2>1, <2>7, <2>9
<1>7. QED
  BY <1>5, <1>6

\* The block a request is of that has a number among those reported, when one block
\* is lost or reported twice.
Source(m) ==
    IF fault.kind = "lost" THEN (IF m < fault.at THEN m ELSE m + 1)
                           ELSE (IF m <= fault.at THEN m ELSE m - 1)
Reports == IF fault.kind = "lost" THEN next - 2 ELSE next

CountsOff ==
    /\ fault.kind \in {"lost", "repeated"} /\ fault.at \in 1..(next - 1)
    /\ Cardinality(Requests) = Reports
    /\ \A j \in Requests : frames[j] \in RequestReports(case.blocks[Source(Number(Requests, j))])

\* A wrong report of a block is among the frames, at the place of the block.
RequestWrong ==
    /\ fault.kind = "misread"
    /\ \E j \in Requests :
          /\ Number(Requests, j) \in 1..Len(case.blocks)
          /\ \E f \in RequestReports(case.blocks[Number(Requests, j)]) : frames[j] \in Wrong(f)

ResponseWrong ==
    /\ fault.kind = "response"
    /\ \E j \in Responses : \E b \in sent(case) :
          /\ Answered(b.fields)
          /\ \E f \in ResponseReports(launch(b.fields)) : frames[j] \in Wrong(f)

OtherFailed ==
    /\ fault.kind = "other"
    /\ \E j \in DOMAIN frames : ~IsHeader(frames[j])

FaultSoFar ==
    /\ \E S : frames \in Seq(S)
    /\ closed => case.violation /\ next > up_to_violation
    /\ CountsOff \/ RequestWrong \/ ResponseWrong \/ OtherFailed

FaultInv ==
    /\ SoundInv /\ Complete
    /\ verdict = "none" /\ fault # NoFault => FaultSoFar

\* The case stays, and with it what a parser may get wrong of it.
LEMMA SameFaults ==
    ASSUME case' = case
    PROVE  /\ names' = names /\ sent(case)' = sent(case)
           /\ \A a : ResponseReports(a)' = ResponseReports(a)
           /\ \A f : Wrong(f)' = Wrong(f)
<1>1. names' = names /\ sent(case)' = sent(case)
  BY DEF names, sent
<1>2. \A a : ResponseReports(a) = ResponsesOf(names, a)
  BY DEF ResponseReports, ResponsesOf, Captured, CapturedOf
<1>3. \A a : ResponseReports(a)' = ResponsesOf(names', a)
  BY DEF ResponseReports, ResponsesOf, Captured, CapturedOf
<1>4. \A f : Wrong(f)' = Wrong(f)
  BY <1>1 DEF Wrong
<1>5. QED
  BY <1>1, <1>2, <1>3, <1>4

\* A frame comes behind the others, and is a request, a response or neither.
LEMMA FrameBehind ==
    ASSUME NEW S, frames \in Seq(S), NEW f, frames' = Append(frames, f)
    PROVE  /\ frames' \in Seq(S \cup {f}) /\ Len(frames) \in Nat
           /\ DOMAIN frames = 1..Len(frames) /\ DOMAIN frames' = DOMAIN frames \cup {Len(frames) + 1}
           /\ \A j \in DOMAIN frames : frames'[j] = frames[j]
           /\ frames'[Len(frames) + 1] = f
           /\ Requests \subseteq 1..Len(frames) /\ Responses \subseteq 1..Len(frames)
           /\ Requests' = IF IsHeader(f) /\ ~f.upstream THEN Requests \cup {Len(frames) + 1}
                                                        ELSE Requests
           /\ Responses' = IF IsHeader(f) /\ f.upstream THEN Responses \cup {Len(frames) + 1}
                                                        ELSE Responses
<1> DEFINE n == Len(frames)
           U == S \cup {f}
<1>1. frames \in Seq(U) /\ f \in U
  OBVIOUS
<1> HIDE DEF U
<1>2. /\ frames' \in Seq(U) /\ n \in Nat /\ Len(frames') = n + 1
      /\ \A j \in 1..n : frames'[j] = frames[j]
      /\ frames'[n + 1] = f
  BY <1>1, AppendProperties, LenProperties
<1>3. DOMAIN frames = 1..n /\ DOMAIN frames' = 1..(n + 1)
  BY <1>1, <1>2, LenProperties
<1>4. 1..(n + 1) = 1..n \cup {n + 1}
  BY <1>2
<1>5. Requests = {j \in 1..n : IsHeader(frames[j]) /\ ~frames[j].upstream}
      /\ Responses = {j \in 1..n : IsHeader(frames[j]) /\ frames[j].upstream}
  BY <1>3 DEF Requests, Responses
<1>6. Requests' = {j \in 1..n \cup {n + 1} : IsHeader(frames'[j]) /\ ~frames'[j].upstream}
      /\ Responses' = {j \in 1..n \cup {n + 1} : IsHeader(frames'[j]) /\ frames'[j].upstream}
  BY <1>3, <1>4 DEF Requests, Responses, IsHeader
<1>7. Requests' = IF IsHeader(f) /\ ~f.upstream THEN Requests \cup {n + 1} ELSE Requests
  BY <1>2, <1>5, <1>6
<1>8. Responses' = IF IsHeader(f) /\ f.upstream THEN Responses \cup {n + 1} ELSE Responses
  BY <1>2, <1>5, <1>6
<1>9. QED
  BY <1>2, <1>3, <1>4, <1>5, <1>7, <1>8 DEF U

\* A frame that comes behind leaves the wrong ones where they are.
LEMMA WrongRemains ==
    ASSUME NEW S, frames \in Seq(S), NEW f, frames' = Append(frames, f),
           case' = case, fault' = fault
    PROVE  /\ RequestWrong => RequestWrong'
           /\ ResponseWrong => ResponseWrong'
           /\ OtherFailed => OtherFailed'
<1> DEFINE n == Len(frames)
           P == Requests
<1>1. /\ n \in Nat /\ P \subseteq 1..n /\ (P' = P \/ P' = P \cup {n + 1})
      /\ Responses \subseteq Responses' /\ DOMAIN frames \subseteq DOMAIN frames'
      /\ DOMAIN frames = 1..n /\ Responses \subseteq 1..n
      /\ \A j \in DOMAIN frames : frames'[j] = frames[j]
  BY FrameBehind
<1>2. /\ \A b : RequestReports(b)' = RequestReports(b)
      /\ \A a : ResponseReports(a)' = ResponseReports(a)
      /\ \A g : Wrong(g)' = Wrong(g)
      /\ sent(case)' = sent(case)
  BY SameCase, SameFaults
<1>3. \A j \in P : j \in P' /\ Number(P', j) = Number(P, j)
  <2> HIDE DEF P, n
  <2>1. \A j \in P : Number(P \cup {n + 1}, j) = Number(P, j)
    BY <1>1, NumberFacts
  <2>2. QED
    BY <1>1, <2>1
<1>4. ASSUME RequestWrong PROVE RequestWrong'
  <2>1. PICK j \in Requests :
          /\ Number(Requests, j) \in 1..Len(case.blocks)
          /\ \E g \in RequestReports(case.blocks[Number(Requests, j)]) : frames[j] \in Wrong(g)
    BY <1>4 DEF RequestWrong
  <2>2. PICK g \in RequestReports(case.blocks[Number(Requests, j)]) : frames[j] \in Wrong(g)
    BY <2>1
  <2>3. j \in Requests' /\ Number(Requests', j) = Number(Requests, j) /\ frames'[j] = frames[j]
    BY <1>1, <1>3
  <2>4. g \in RequestReports(case.blocks[Number(Requests, j)])' /\ (frames[j] \in Wrong(g))'
    BY <1>2, <2>2, <2>3
  <2>5. QED
    BY <1>4, <2>1, <2>3, <2>4 DEF RequestWrong
<1>5. ASSUME ResponseWrong PROVE ResponseWrong'
  <2>1. PICK j \in Responses, b \in sent(case) :
          /\ Answered(b.fields)
          /\ \E g \in ResponseReports(launch(b.fields)) : frames[j] \in Wrong(g)
    BY <1>5 DEF ResponseWrong
  <2>2. PICK g \in ResponseReports(launch(b.fields)) : frames[j] \in Wrong(g)
    BY <2>1
  <2>3. j \in Responses' /\ frames'[j] = frames[j] /\ b \in sent(case)'
    BY <1>1, <1>2
  <2>4. g \in ResponseReports(launch(b.fields))' /\ (frames[j] \in Wrong(g))'
    BY <1>2, <2>2, <2>3
  <2>5. QED
    BY <1>5, <2>1, <2>3, <2>4 DEF ResponseWrong
<1>6. ASSUME OtherFailed PROVE OtherFailed'
  BY <1>1, <1>6 DEF OtherFailed, IsHeader
<1>7. QED
  BY <1>4, <1>5, <1>6

\* The block that is sent next is counted as the others are.
LEMMA CountsRemain ==
    ASSUME case \in cases, next \in 1..(Len(case.blocks) + 1), FaultSoFar, CountsOff,
           fault' = fault, ParseRequest \/ ParseResponse
    PROVE  CountsOff'
<1> DEFINE n == Len(frames)
           P == Requests
<1>1. PICK S : frames \in Seq(S)
  BY DEF FaultSoFar
<1>2. case' = case
  BY DEF ParseRequest, ParseResponse
<1>3. \A b : RequestReports(b)' = RequestReports(b)
  BY <1>2, SameCase
<1>4. /\ fault.kind \in {"lost", "repeated"} /\ fault.at \in 1..(next - 1)
      /\ Cardinality(P) = Reports
      /\ \A j \in P : frames[j] \in RequestReports(case.blocks[Source(Number(P, j))])
  BY DEF CountsOff
<1>5. next \in Nat /\ fault.at \in Nat /\ fault.at <= next - 1
  BY <1>4, CaseFacts
<1>6. \A m : Source(m)' = Source(m)
  BY DEF Source
<1>7. CASE ParseResponse
  <2>1. PICK a : \E f \in ResponseReports(a) : frames' = Append(frames, f)
    BY <1>7 DEF ParseResponse
  <2>2. PICK f \in ResponseReports(a) : frames' = Append(frames, f)
    BY <2>1
  <2>3. f.upstream
    BY ResponseReported
  <2>4. P' = P /\ \A j \in P : frames'[j] = frames[j]
    BY <1>1, <2>2, <2>3, FrameBehind
  <2>5. next' = next
    BY <1>7 DEF ParseResponse
  <2>6. (Cardinality(Requests) = Reports)'
    BY <1>4, <2>4, <2>5 DEF Reports
  <2>7. (\A j \in Requests : frames[j] \in RequestReports(case.blocks[Source(Number(Requests, j))]))'
    BY <1>2, <1>3, <1>4, <1>6, <2>4
  <2>8. QED
    BY <1>4, <2>5, <2>6, <2>7 DEF CountsOff
<1>8. CASE ParseRequest
  <2>1. PICK f \in RequestReports(case.blocks[next]) : frames' = Append(frames, f)
    BY <1>8 DEF ParseRequest
  <2>2. next \in 1..Len(case.blocks) /\ next' = next + 1
    BY <1>8, CaseFacts DEF ParseRequest, MaySend
  <2>3. ~f.upstream /\ IsHeader(f)
    BY <2>2, CaseFacts, RequestReported
  <2>4. /\ n \in Nat /\ P \subseteq 1..n /\ P' = P \cup {n + 1} /\ frames'[n + 1] = f
        /\ \A j \in P : frames'[j] = frames[j]
    BY <1>1, <2>1, <2>3, FrameBehind
  <2>5. /\ Cardinality(P') = Cardinality(P) + 1 /\ Number(P', n + 1) = Cardinality(P) + 1
        /\ \A j \in P : Number(P', j) = Number(P, j)
    <3>1. n \in Nat /\ P \subseteq 1..n /\ P' = P \cup {n + 1}
      BY <2>4
    <3> HIDE DEF n, P
    <3>2. /\ Cardinality(P \cup {n + 1}) = Cardinality(P) + 1
          /\ Number(P \cup {n + 1}, n + 1) = Cardinality(P) + 1
          /\ \A j \in P : Number(P \cup {n + 1}, j) = Number(P, j)
      BY <3>1, NumberFacts
    <3>3. QED
      BY <3>1, <3>2
  <2>6. (Cardinality(Requests) = Reports)'
    BY <1>4, <1>5, <2>2, <2>5 DEF Reports
  <2>7. Source(Reports + 1) = next
    BY <1>4, <1>5 DEF Source, Reports
  <2>8. ASSUME NEW j \in P' PROVE frames'[j] \in RequestReports(case.blocks[Source(Number(P', j))])
    <3>1. CASE j \in P
      BY <1>4, <2>4, <2>5, <3>1
    <3>2. CASE j = n + 1
      BY <1>4, <2>1, <2>4, <2>5, <2>7, <3>2
    <3>3. QED
      BY <2>4, <3>1, <3>2
  <2>9. (\A j \in Requests : frames[j] \in RequestReports(case.blocks[Source(Number(Requests, j))]))'
    BY <1>2, <1>3, <1>6, <2>8
  <2>10. fault'.at \in 1..(next' - 1)
    BY <1>4, <1>5, <2>2
  <2>11. QED
    BY <1>4, <2>6, <2>9, <2>10 DEF CountsOff
<1>9. QED
  BY <1>7, <1>8

\* What is got wrong stays.
LEMMA FaultRemains ==
    ASSUME case \in cases, next \in 1..(Len(case.blocks) + 1), FaultSoFar,
           fault' = fault, ParseRequest \/ ParseResponse \/ PeerCloses
    PROVE  FaultSoFar'
<1>1. PICK S : frames \in Seq(S)
  BY DEF FaultSoFar
<1>2. case' = case /\ up_to_violation' = up_to_violation
  BY SameCase DEF ParseRequest, ParseResponse, PeerCloses
<1>3. (closed => case.violation /\ next > up_to_violation)'
  <2>1. up_to_violation \in Nat
    BY CaseFacts
  <2>2. next' = next \/ next' = next + 1
    BY DEF ParseRequest, ParseResponse, PeerCloses
  <2>3. closed' => case.violation /\ next > up_to_violation
    BY DEF ParseRequest, ParseResponse, PeerCloses, FaultSoFar
  <2>4. QED
    BY <1>2, <2>1, <2>2, <2>3
<1>4. CASE ParseRequest \/ ParseResponse
  <2>1. PICK f : frames' = Append(frames, f)
    BY <1>4 DEF ParseRequest, ParseResponse
  <2>2. frames' \in Seq(S \cup {f})
    BY <1>1, <2>1, FrameBehind
  <2>3. (\E T : frames \in Seq(T))'
    BY <2>2
  <2>4. CountsOff => CountsOff'
    BY <1>4, CountsRemain
  <2>5. (RequestWrong => RequestWrong') /\ (ResponseWrong => ResponseWrong')
        /\ (OtherFailed => OtherFailed')
    BY <1>1, <1>2, <2>1, WrongRemains
  <2>6. QED
    BY <1>3, <2>3, <2>4, <2>5 DEF FaultSoFar
<1>5. CASE PeerCloses
  <2>1. frames' = frames /\ next' = next
    BY <1>5 DEF PeerCloses
  <2>2. Requests' = Requests /\ Responses' = Responses
    BY <2>1 DEF Requests, Responses, IsHeader
  <2>3. /\ \A b : RequestReports(b)' = RequestReports(b)
        /\ \A a : ResponseReports(a)' = ResponseReports(a)
        /\ \A g : Wrong(g)' = Wrong(g)
        /\ sent(case)' = sent(case)
    BY <1>2, SameCase, SameFaults
  <2>4. CountsOff => CountsOff'
    BY <1>2, <2>1, <2>2, <2>3 DEF CountsOff, Source, Reports
  <2>5. RequestWrong => RequestWrong'
    BY <1>2, <2>1, <2>2, <2>3 DEF RequestWrong
  <2>6. ResponseWrong => ResponseWrong'
    BY <1>2, <2>1, <2>2, <2>3 DEF ResponseWrong
  <2>7. OtherFailed => OtherFailed'
    BY <2>1 DEF OtherFailed, IsHeader
  <2>8. QED
    BY <1>1, <1>3, <2>1, <2>4, <2>5, <2>6, <2>7 DEF FaultSoFar
<1>6. QED
  BY <1>4, <1>5

-----------------------------------------------------------------------------
(* What a parser gets wrong first.                                           *)

LEMMA FaultBegins ==
    ASSUME case \in cases, next \in 1..(Len(case.blocks) + 1), RightSoFar, fault = NoFault,
           MisreadRequest \/ LoseRequest \/ RepeatRequest \/ MisreadResponse \/ FailOther
    PROVE  FaultSoFar'
<1> DEFINE n == Len(frames)
           P == Requests
           L == Len(case.blocks)
<1>1. PICK S : frames \in Seq(S)
  BY DEF RightSoFar
<1>2. case' = case /\ up_to_violation' = up_to_violation
  BY SameCase DEF MisreadRequest, LoseRequest, RepeatRequest, MisreadResponse, FailOther
<1>3. /\ \A b : RequestReports(b)' = RequestReports(b)
      /\ \A a : ResponseReports(a)' = ResponseReports(a)
      /\ \A g : Wrong(g)' = Wrong(g)
      /\ sent(case)' = sent(case)
  BY <1>2, SameCase, SameFaults
<1>4. /\ L \in Nat /\ up_to_violation \in Nat /\ next \in Nat /\ next >= 1
      /\ \A j \in 1..L : BlockOfCase(case.violation, case.blocks[j])
  BY CaseFacts
<1>5. (closed => case.violation /\ next > up_to_violation)'
  <2>1. next' = next \/ next' = next + 1
    BY DEF MisreadRequest, LoseRequest, RepeatRequest, MisreadResponse, FailOther
  <2>2. closed' => case.violation /\ next > up_to_violation
    BY DEF MisreadRequest, LoseRequest, RepeatRequest, MisreadResponse, FailOther, RightSoFar
  <2>3. QED
    BY <1>2, <1>4, <2>1, <2>2
<1>6. ASSUME NEW f, frames' = Append(frames, f) PROVE (\E T : frames \in Seq(T))'
  <2>1. frames' \in Seq(S \cup {f})
    BY <1>1, <1>6, FrameBehind
  <2>2. QED
    BY <2>1
<1>7. /\ n \in Nat /\ P \subseteq 1..n /\ Cardinality(P) = next - 1
      /\ \A j \in P : frames[j] \in RequestReports(case.blocks[Number(P, j)])
  BY <1>1, LenProperties DEF RightSoFar, Requests
<1>8. /\ Cardinality(P \cup {n + 1}) = next /\ Number(P \cup {n + 1}, n + 1) = next
      /\ \A j \in P : /\ Number(P, j) \in Nat /\ Number(P, j) <= next - 1
                      /\ Number(P \cup {n + 1}, j) = Number(P, j)
  <2> HIDE DEF P, n
  <2>1. /\ Cardinality(P \cup {n + 1}) = Cardinality(P) + 1
        /\ Number(P \cup {n + 1}, n + 1) = Cardinality(P) + 1
        /\ \A j \in P : /\ Number(P, j) \in 1..Cardinality(P)
                        /\ Number(P \cup {n + 1}, j) = Number(P, j)
    BY <1>7, NumberFacts
  <2>2. Cardinality(P) + 1 = next
    BY <1>4, <1>7
  <2>3. ASSUME NEW j \in P PROVE Number(P, j) \in Nat /\ Number(P, j) <= next - 1
    <3>1. Number(P, j) \in 1..Cardinality(P) /\ Cardinality(P) = next - 1
      BY <1>7, <2>1
    <3>2. Number(P, j) \in 1..(next - 1)
      BY <3>1
    <3>3. QED
      BY <1>4, <3>2
  <2>4. QED
    BY <2>1, <2>2, <2>3
<1>9. CASE MisreadRequest
  <2>1. PICK f \in RequestReports(case.blocks[next]) : \E w \in Wrong(f) : frames' = Append(frames, w)
    BY <1>9 DEF MisreadRequest
  <2>2. PICK w \in Wrong(f) : frames' = Append(frames, w)
    BY <2>1
  <2>3. next \in 1..L /\ fault' = [kind |-> "misread", at |-> next]
    BY <1>4, <1>9 DEF MisreadRequest, MaySend
  <2>4. ~w.upstream /\ IsHeader(w)
    BY <1>4, <2>3, <2>1, WrongRequest
  <2>5. P' = P \cup {n + 1} /\ frames'[n + 1] = w
    BY <1>1, <2>2, <2>4, FrameBehind
  <2>6. Number(P', n + 1) = next
    BY <1>8, <2>5
  <2>7. PICK k : k = n + 1
    OBVIOUS
  <2>8. (f \in RequestReports(case.blocks[Number(Requests, k)]))' /\ (frames[k] \in Wrong(f))'
    BY <1>2, <1>3, <2>2, <2>1, <2>5, <2>6, <2>7
  <2>9. fault'.kind = "misread"
    BY <2>3
  <2>10. RequestWrong'
    BY <1>2, <2>3, <2>5, <2>6, <2>8, <2>9, <2>7 DEF RequestWrong
  <2>11. QED
    BY <1>5, <1>6, <2>2, <2>10 DEF FaultSoFar
<1>10. CASE LoseRequest
  <2>1. /\ fault' = [kind |-> "lost", at |-> next] /\ next' = next + 1 /\ frames' = frames
    BY <1>10 DEF LoseRequest
  <2>2. fault'.kind = "lost" /\ fault'.at = next /\ P' = P
    BY <2>1 DEF Requests, IsHeader
  <2>3. (Cardinality(Requests) = Reports)'
    BY <1>4, <1>7, <2>1, <2>2 DEF Reports
  <2>4. \A j \in P : (Source(Number(P, j)))' = Number(P, j)
    BY <1>4, <1>8, <2>2 DEF Source
  <2>5. (\A j \in Requests : frames[j] \in RequestReports(case.blocks[Source(Number(Requests, j))]))'
    BY <1>2, <1>3, <1>7, <2>1, <2>2, <2>4
  <2>6. fault'.at \in 1..(next' - 1)
    BY <1>4, <2>1, <2>2
  <2>7. CountsOff'
    BY <2>2, <2>3, <2>5, <2>6 DEF CountsOff
  <2>8. QED
    BY <1>1, <1>5, <2>1, <2>7 DEF FaultSoFar
<1>11. CASE RepeatRequest
  <2>1. PICK f \in RequestReports(case.blocks[next - 1]) : frames' = Append(frames, f)
    BY <1>11 DEF RepeatRequest
  <2>2. /\ fault' = [kind |-> "repeated", at |-> next - 1] /\ next' = next /\ next > 1
    BY <1>11 DEF RepeatRequest
  <2>3. fault'.kind = "repeated" /\ fault'.at = next - 1 /\ next - 1 \in 1..L
    BY <1>4, <2>2
  <2>4. ~f.upstream /\ IsHeader(f)
    BY <1>4, <2>1, <2>3, RequestReported
  <2>5. P' = P \cup {n + 1} /\ frames'[n + 1] = f /\ \A j \in P : frames'[j] = frames[j]
    BY <1>1, <2>1, <2>4, FrameBehind
  <2>6. (Cardinality(Requests) = Reports)'
    BY <1>8, <2>2, <2>3, <2>5 DEF Reports
  <2>7. ASSUME NEW j \in P'
        PROVE  frames'[j] \in RequestReports(case.blocks[(Source(Number(P, j)))'])
    <3>1. CASE j \in P
      <4>1. (Source(Number(P, j)))' = Number(P, j)
        BY <1>4, <1>8, <2>3, <2>5, <3>1 DEF Source
      <4>2. QED
        BY <1>7, <2>5, <3>1, <4>1
    <3>2. CASE j = n + 1
      <4>1. (Source(Number(P, j)))' = next - 1
        BY <1>4, <1>8, <2>3, <2>5, <3>2 DEF Source
      <4>2. QED
        BY <2>1, <2>5, <3>2, <4>1
    <3>3. QED
      BY <2>5, <3>1, <3>2
  <2>8. (\A j \in Requests : frames[j] \in RequestReports(case.blocks[Source(Number(Requests, j))]))'
    BY <1>2, <1>3, <2>7
  <2>9. fault'.at \in 1..(next' - 1)
    BY <1>4, <2>2, <2>3
  <2>10. CountsOff'
    BY <2>3, <2>6, <2>8, <2>9 DEF CountsOff
  <2>11. QED
    BY <1>5, <1>6, <2>1, <2>10 DEF FaultSoFar
<1>12. CASE MisreadResponse
  <2>1. PICK b \in {x \in sent(case) : Answered(x.fields)} :
            \E f \in ResponseReports(launch(b.fields)) : \E w \in Wrong(f) :
                frames' = Append(frames, w)
    BY <1>12 DEF MisreadResponse
  <2>2. PICK f \in ResponseReports(launch(b.fields)) : \E w \in Wrong(f) : frames' = Append(frames, w)
    BY <2>1
  <2>3. PICK w \in Wrong(f) : frames' = Append(frames, w)
    BY <2>2
  <2>4. b \in sent(case) /\ Answered(b.fields) /\ Listed(b.fields)
    BY <1>4, <2>1, CaseFacts DEF sent, BlockOfCase
  <2>5. w.upstream /\ IsHeader(w)
    BY <2>4, <2>2, <2>3, AnswerFacts, WrongResponse
  <2>6. n + 1 \in Responses' /\ frames'[n + 1] = w
    BY <1>1, <2>3, <2>5, FrameBehind
  <2>7. fault'.kind = "response"
    BY <1>12 DEF MisreadResponse
  <2>8. PICK k : k = n + 1
    OBVIOUS
  <2>9. b \in sent(case)' /\ f \in ResponseReports(launch(b.fields))' /\ (frames[k] \in Wrong(f))'
    BY <1>3, <2>3, <2>2, <2>4, <2>6, <2>8
  <2>10. ResponseWrong'
    BY <2>4, <2>6, <2>7, <2>9, <2>8 DEF ResponseWrong
  <2>11. QED
    BY <1>5, <1>6, <2>3, <2>10 DEF FaultSoFar
<1>13. CASE FailOther
  <2>1. PICK f : frames' = Append(frames, f) /\ ~IsHeader(f)
    BY <1>13 DEF FailOther, Frame, IsHeader, DATA, HEADERS, CONTINUATION
  <2>2. n + 1 \in DOMAIN frames' /\ frames'[n + 1] = f
    BY <1>1, <2>1, FrameBehind
  <2>3. fault'.kind = "other"
    BY <1>13 DEF FailOther
  <2>4. OtherFailed'
    BY <2>1, <2>2, <2>3 DEF OtherFailed, IsHeader
  <2>5. QED
    BY <1>5, <1>6, <2>1, <2>4 DEF FaultSoFar
<1>14. QED
  BY <1>9, <1>10, <1>11, <1>12, <1>13

-----------------------------------------------------------------------------
(* The check of a parser that gets something wrong.                          *)

\* A misread request, a misread response and a failure of another frame are found.
LEMMA RequestFound ==
    ASSUME case \in cases, RequestWrong, check
    PROVE  FALSE
<1>1. PICK j \in Requests :
          /\ Number(Requests, j) \in 1..Len(case.blocks)
          /\ \E f \in RequestReports(case.blocks[Number(Requests, j)]) : frames[j] \in Wrong(f)
  BY DEF RequestWrong
<1> DEFINE b == case.blocks[Number(Requests, j)]
<1>2. PICK f \in RequestReports(b) : frames[j] \in Wrong(f)
  BY <1>1
<1>3. BlockOfCase(case.violation, b)
  BY <1>1, CaseFacts
<1> HIDE DEF b
<1>4. /\ ~frames[j].upstream /\ IsHeader(frames[j])
      /\ ~CheckRequest(frames[j], b) /\ (case.violation => ~CheckViolation(frames[j], b))
  BY <1>2, <1>3, WrongRequest
<1>5. CASE ~case.violation
  BY <1>1, <1>4, <1>5 DEF check, check_requests, b
<1>6. CASE case.violation
  <2>1. {k \in DOMAIN frames : ~frames[k].upstream /\ (frames[k].ret < 0 \/ IsHeader(frames[k]))}
            = Requests
    BY DEF check, blocks, Requests
  <2>2. CheckViolation(frames[j], b)
    BY <1>1, <1>6, <2>1 DEF check, check_violation, b
  <2>3. QED
    BY <1>4, <1>6, <2>2
<1>7. QED
  BY <1>5, <1>6

LEMMA ResponseFound ==
    ASSUME case \in cases, ResponseWrong, check
    PROVE  FALSE
<1>1. PICK j \in Responses, b \in sent(case) :
          /\ Answered(b.fields)
          /\ \E f \in ResponseReports(launch(b.fields)) : frames[j] \in Wrong(f)
  BY DEF ResponseWrong
<1>2. PICK f \in ResponseReports(launch(b.fields)) : frames[j] \in Wrong(f)
  BY <1>1
<1>3. PICK a \in answers : frames[j].ret >= 0 /\ Carries(frames[j], a)
  BY <1>1 DEF check, check_responses
<1>4. PICK d \in sent(case) : Answered(d.fields) /\ a = response_fields(d.fields)
  BY <1>3 DEF answers
<1>5. response_fields(b.fields) = response_fields(d.fields)
  <2>1. PICK i \in DOMAIN case.blocks : b = case.blocks[i]
    BY DEF sent
  <2>2. PICK k \in DOMAIN case.blocks : d = case.blocks[k]
    BY DEF sent
  <2>3. QED
    BY <1>1, <1>4, <2>1, <2>2, OneAnswer DEF SameAnswers
<1>6. Listed(b.fields)
  BY CaseFacts DEF sent, BlockOfCase
<1>7. launch(b.fields) = a /\ AllPresent(a)
  BY <1>4, <1>5, <1>6, AnswerFacts
<1>8. f \in ResponseReports(a) /\ frames[j] \in Wrong(f)
  BY <1>2, <1>7
<1>9. QED
  BY <1>3, <1>7, <1>8, WrongResponse

LEMMA OtherFound ==
    ASSUME OtherFailed, check
    PROVE  FALSE
  BY DEF OtherFailed, check, blocks

\* A report that agrees with a block of a violation is of one that is the same.
LEMMA SameBlock ==
    ASSUME case \in ViolationCases, NEW i \in DOMAIN case.blocks, NEW k \in DOMAIN case.blocks,
           NEW f \in RequestReports(case.blocks[i]), CheckViolation(f, case.blocks[k])
    PROVE  case.blocks[i] = case.blocks[k]
<1> DEFINE b == case.blocks[i]
           c == case.blocks[k]
<1>1. /\ b = Rejected \/ b.kind = "fields"
      /\ c = Rejected \/ c.kind = "fields"
      /\ b.kind = "fields" /\ c.kind = "fields" => b = c
  BY ViolationsAgree
<1>2. BlockOfCase(case.violation, b)
  BY CaseFacts DEF cases
<1>3. CheckViolation(f, c)
  OBVIOUS
<1> HIDE DEF b, c
<1>4. b.kind = "fields" => f.ret = 0
  BY <1>2, RequestReported DEF b
<1>5. b.kind = "rejected" => f.ret = -71
  BY <1>2, RequestReported DEF b, EPROTO
<1>6. CASE b = Rejected
  <2>1. f.ret = -71
    BY <1>5, <1>6, KindFacts
  <2>2. c.kind # "fields"
    BY <1>3, <2>1 DEF CheckViolation
  <2>3. QED
    BY <1>1, <1>6, <2>2 DEF b, c
<1>7. CASE b.kind = "fields"
  <2>1. f.ret = 0
    BY <1>4, <1>7
  <2>2. c.kind = "fields"
    BY <1>3, <2>1 DEF CheckViolation, EPROTO
  <2>3. QED
    BY <1>1, <1>7, <2>2 DEF b, c
<1>8. QED
  BY <1>1, <1>6, <1>7

\* The cases with a violation are those of ViolationCases.
LEMMA ViolationsAre ==
    ASSUME NEW c \in cases, c.violation
    PROVE  c \in ViolationCases
<1>1. \A b : ~Blocks(b).violation
  BY DEF Blocks
<1>2. QED
  BY <1>1 DEF cases, RequestCases, FieldCases, PseudoHeaderCases

\* A sequence whose elements are the first ones of another.
LEMMA PrefixIs ==
    ASSUME NEW S, NEW s \in Seq(S), NEW t \in Seq(S), Len(s) <= Len(t),
           \A m \in 1..Len(s) : s[m] = t[m]
    PROVE  IsPrefix(s, t)
<1> DEFINE u == SubSeq(t, 1, Len(s))
<1>1. Len(s) \in Nat /\ Len(t) \in Nat
  BY LenProperties
<1>2. \A i \in 1..Len(s) : t[i] \in S
  BY <1>1, ElementOfSeq
<1>3. u \in Seq(S) /\ Len(u) = Len(s) /\ \A i \in 1..Len(s) : u[i] = t[i]
  BY <1>1, <1>2, SubSeqProperties
<1> HIDE DEF u
<1>4. s = u
  BY <1>3, SeqEqual
<1>5. SubSeq(s, 1, Len(s)) = s
  BY SubSeqFull
<1>6. QED
  BY <1>4, <1>5 DEF IsPrefix, u

\* The first elements of a sequence, one of which is missing or there twice.
LEMMA OneMissing ==
    ASSUME NEW S, NEW s \in Seq(S), NEW n \in 1..Len(s), NEW i \in 1..n
    PROVE  LET r == RemoveAt(SubSeq(s, 1, n), i)
           IN  /\ r \in Seq(S) /\ Len(r) = n - 1
               /\ \A m \in 1..(n - 1) : r[m] = IF m < i THEN s[m] ELSE s[m + 1]
<1> DEFINE t == SubSeq(s, 1, n)
           a == SubSeq(t, 1, i - 1)
           b == SubSeq(t, i + 1, n)
<1>1. Len(s) \in Nat /\ n \in Nat /\ i \in Nat /\ 1 <= i /\ i <= n /\ n <= Len(s)
  BY LenProperties
<1>2. \A m \in 1..n : s[m] \in S
  BY <1>1, ElementOfSeq
<1>3. t \in Seq(S) /\ Len(t) = n /\ \A m \in 1..n : t[m] = s[m] /\ t[m] \in S
  BY <1>1, <1>2, SubSeqProperties
<1> HIDE DEF t
<1>4. a \in Seq(S) /\ Len(a) = i - 1 /\ \A m \in 1..(i - 1) : a[m] = s[m]
  <2>1. \A m \in 1..(i - 1) : t[m] \in S /\ t[m] = s[m]
    BY <1>1, <1>3
  <2>2. QED
    BY <1>1, <2>1, SubSeqProperties
<1>5. b \in Seq(S) /\ Len(b) = n - i /\ \A m \in 1..(n - i) : b[m] = s[i + m]
  <2>1. \A m \in (i + 1)..n : t[m] \in S /\ t[m] = s[m]
    BY <1>1, <1>3
  <2>2. /\ b \in Seq(S) /\ Len(b) = IF i + 1 <= n THEN n - (i + 1) + 1 ELSE 0
        /\ \A m \in 1..(n - (i + 1) + 1) : b[m] = t[(i + 1) + m - 1]
    <3>1. i + 1 \in Int /\ n \in Int
      BY <1>1
    <3>2. QED
      BY <2>1, <3>1, SubSeqProperties
  <2> HIDE DEF b
  <2>3. Len(b) = n - i
    BY <1>1, <2>2
  <2>4. ASSUME NEW m \in 1..(n - i) PROVE b[m] = s[i + m]
    <3>1. m \in 1..(n - (i + 1) + 1) /\ (i + 1) + m - 1 = i + m /\ i + m \in (i + 1)..n
      BY <1>1
    <3>2. QED
      BY <2>1, <2>2, <3>1
  <2>5. QED
    BY <2>2, <2>3, <2>4
<1> DEFINE r == a \o b
<1>6. RemoveAt(t, i) = r
  BY <1>3 DEF RemoveAt
<1> HIDE DEF a, b
<1>7. /\ r \in Seq(S) /\ Len(r) = Len(a) + Len(b)
      /\ \A m \in 1..(Len(a) + Len(b)) : r[m] = IF m <= Len(a) THEN a[m] ELSE b[m - Len(a)]
  BY <1>4, <1>5, ConcatProperties
<1> HIDE DEF r
<1>8. Len(a) + Len(b) = n - 1
  BY <1>1, <1>4, <1>5
<1>9. ASSUME NEW m \in 1..(n - 1) PROVE r[m] = IF m < i THEN s[m] ELSE s[m + 1]
  <2>1. r[m] = IF m <= i - 1 THEN a[m] ELSE b[m - (i - 1)]
    BY <1>4, <1>7, <1>8
  <2>2. CASE m < i
    <3>1. m <= i - 1 /\ m \in 1..(i - 1)
      BY <1>1, <2>2
    <3>2. QED
      BY <1>4, <2>1, <2>2, <3>1
  <2>3. CASE ~(m < i)
    <3>1. ~(m <= i - 1) /\ m - (i - 1) \in 1..(n - i) /\ i + (m - (i - 1)) = m + 1
      BY <1>1, <2>3
    <3>2. QED
      BY <1>5, <2>1, <2>3, <3>1
  <2>4. QED
    BY <2>2, <2>3
<1>10. QED
  BY <1>6, <1>7, <1>8, <1>9 DEF t

LEMMA OneTwice ==
    ASSUME NEW S, NEW s \in Seq(S), NEW n \in 1..Len(s), NEW i \in 1..n
    PROVE  LET r == InsertAt(SubSeq(s, 1, n), i, s[i])
           IN  /\ r \in Seq(S) /\ Len(r) = n + 1
               /\ \A m \in 1..(n + 1) : r[m] = IF m <= i THEN s[m] ELSE s[m - 1]
<1> DEFINE t == SubSeq(s, 1, n)
           a == SubSeq(t, 1, i - 1)
           b == SubSeq(t, i, n)
           e == <<s[i]>>
<1>1. Len(s) \in Nat /\ n \in Nat /\ i \in Nat /\ 1 <= i /\ i <= n /\ n <= Len(s)
  BY LenProperties
<1>2. \A m \in 1..n : s[m] \in S
  BY <1>1, ElementOfSeq
<1>3. t \in Seq(S) /\ Len(t) = n /\ \A m \in 1..n : t[m] = s[m] /\ t[m] \in S
  BY <1>1, <1>2, SubSeqProperties
<1> HIDE DEF t
<1>4. a \in Seq(S) /\ Len(a) = i - 1 /\ \A m \in 1..(i - 1) : a[m] = s[m]
  <2>1. \A m \in 1..(i - 1) : t[m] \in S /\ t[m] = s[m]
    BY <1>1, <1>3
  <2>2. QED
    BY <1>1, <2>1, SubSeqProperties
<1>5. b \in Seq(S) /\ Len(b) = n - i + 1 /\ \A m \in 1..(n - i + 1) : b[m] = s[i + m - 1]
  <2>1. \A m \in i..n : t[m] \in S /\ t[m] = s[m]
    BY <1>1, <1>3
  <2>2. /\ b \in Seq(S) /\ Len(b) = n - i + 1
        /\ \A m \in 1..(n - i + 1) : b[m] = t[i + m - 1]
    BY <1>1, <2>1, SubSeqProperties
  <2> HIDE DEF b
  <2>3. ASSUME NEW m \in 1..(n - i + 1) PROVE b[m] = s[i + m - 1]
    <3>1. i + m - 1 \in i..n
      BY <1>1
    <3>2. QED
      BY <2>1, <2>2, <3>1
  <2>4. QED
    BY <2>2, <2>3
<1>6. e \in Seq(S) /\ Len(e) = 1 /\ e[1] = s[i]
  <2>1. s[i] \in S
    BY <1>1, <1>2
  <2>2. QED
    BY <2>1
<1> DEFINE c == a \o e
           r == c \o b
<1>7. InsertAt(t, i, s[i]) = r
  BY <1>3 DEF InsertAt
<1> HIDE DEF a, b, e
<1>8. /\ c \in Seq(S) /\ Len(c) = Len(a) + 1
      /\ \A m \in 1..(Len(a) + 1) : c[m] = IF m <= Len(a) THEN a[m] ELSE e[m - Len(a)]
  <2>1. /\ c \in Seq(S) /\ Len(c) = Len(a) + Len(e)
        /\ \A m \in 1..(Len(a) + Len(e)) : c[m] = IF m <= Len(a) THEN a[m] ELSE e[m - Len(a)]
    BY <1>4, <1>6, ConcatProperties
  <2> HIDE DEF c
  <2>2. QED
    BY <1>6, <2>1
<1> HIDE DEF c
<1>9. Len(c) = i /\ \A m \in 1..i : c[m] = s[m]
  <2>1. Len(c) = i
    BY <1>1, <1>4, <1>8
  <2>2. ASSUME NEW m \in 1..i PROVE c[m] = s[m]
    <3>1. c[m] = IF m <= i - 1 THEN a[m] ELSE e[m - (i - 1)]
      <4>1. m \in 1..(Len(a) + 1) /\ Len(a) = i - 1
        BY <1>1, <1>4
      <4>2. QED
        BY <1>8, <4>1
    <3>2. CASE m <= i - 1
      BY <1>1, <1>4, <3>1, <3>2
    <3>3. CASE ~(m <= i - 1)
      <4>1. m = i /\ m - (i - 1) = 1
        BY <1>1, <3>3
      <4>2. QED
        BY <1>6, <3>1, <3>3, <4>1
    <3>4. QED
      BY <3>2, <3>3
  <2>3. QED
    BY <2>1, <2>2
<1>10. /\ r \in Seq(S) /\ Len(r) = Len(c) + Len(b)
       /\ \A m \in 1..(Len(c) + Len(b)) : r[m] = IF m <= Len(c) THEN c[m] ELSE b[m - Len(c)]
  BY <1>5, <1>8, ConcatProperties
<1> HIDE DEF r
<1>11. Len(c) + Len(b) = n + 1
  BY <1>1, <1>5, <1>9
<1>12. ASSUME NEW m \in 1..(n + 1) PROVE r[m] = IF m <= i THEN s[m] ELSE s[m - 1]
  <2>1. r[m] = IF m <= i THEN c[m] ELSE b[m - i]
    BY <1>9, <1>10, <1>11
  <2>2. CASE m <= i
    BY <1>9, <2>1, <2>2
  <2>3. CASE ~(m <= i)
    <3>1. m - i \in 1..(n - i + 1) /\ i + (m - i) - 1 = m - 1
      BY <1>1, <2>3
    <3>2. QED
      BY <1>5, <2>1, <2>3, <3>1
  <2>4. QED
    BY <2>2, <2>3
<1>13. QED
  BY <1>7, <1>10, <1>11, <1>12 DEF t

\* What is reported when a block is lost or reported twice, in numbers.
LEMMA ReportedAre ==
    ASSUME case \in cases, next \in 1..(Len(case.blocks) + 1), NEW S, case.blocks \in Seq(S),
           fault.kind \in {"lost", "repeated"}, fault.at \in 1..(next - 1)
    PROVE  /\ ReportedBlocks \in Seq(S) /\ Len(ReportedBlocks) = Reports /\ Reports \in Nat
           /\ \A m \in 1..Reports : /\ Source(m) \in 1..Len(case.blocks)
                                    /\ ReportedBlocks[m] = case.blocks[Source(m)]
<1> DEFINE s == case.blocks
           n == next - 1
           i == fault.at
<1>1. Len(s) \in Nat /\ next \in Nat
  BY CaseFacts
<1>2. n \in 1..Len(s) /\ n \in Nat /\ n >= 1 /\ n <= Len(s) /\ next = n + 1
  BY <1>1
<1>3. i \in 1..n /\ i \in Nat /\ i >= 1 /\ i <= n
  BY <1>2
<1>4. CASE fault.kind = "lost"
  <2> DEFINE r == RemoveAt(SubSeq(s, 1, n), i)
  <2>1. ReportedBlocks = r
    BY <1>4 DEF ReportedBlocks
  <2>2. Reports = n - 1 /\ \A m : Source(m) = IF m < i THEN m ELSE m + 1
    BY <1>2, <1>4 DEF Reports, Source
  <2> HIDE DEF s, n, i
  <2>3. /\ r \in Seq(S) /\ Len(r) = n - 1
        /\ \A m \in 1..(n - 1) : r[m] = IF m < i THEN s[m] ELSE s[m + 1]
    BY <1>2, <1>3, OneMissing DEF s
  <2>4. \A m \in 1..(n - 1) : m \in 1..Len(s) /\ m + 1 \in 1..Len(s)
    BY <1>1, <1>2 DEF s
  <2> HIDE DEF r
  <2>5. n - 1 \in Nat
    BY <1>2
  <2>6. QED
    BY <2>1, <2>2, <2>3, <2>4, <2>5 DEF s
<1>5. CASE fault.kind = "repeated"
  <2> DEFINE r == InsertAt(SubSeq(s, 1, n), i, s[i])
  <2>1. ReportedBlocks = r
    BY <1>5 DEF ReportedBlocks
  <2>2. Reports = n + 1 /\ \A m : Source(m) = IF m <= i THEN m ELSE m - 1
    BY <1>2, <1>5 DEF Reports, Source
  <2> HIDE DEF s, n, i
  <2>3. /\ r \in Seq(S) /\ Len(r) = n + 1
        /\ \A m \in 1..(n + 1) : r[m] = IF m <= i THEN s[m] ELSE s[m - 1]
    BY <1>2, <1>3, OneTwice DEF s
  <2>4. \A m \in 1..(n + 1) : /\ m <= i => m \in 1..Len(s)
                              /\ ~(m <= i) => m - 1 \in 1..Len(s)
    BY <1>1, <1>2, <1>3 DEF s
  <2> HIDE DEF r
  <2>5. n + 1 \in Nat
    BY <1>2
  <2>6. QED
    BY <2>1, <2>2, <2>3, <2>4, <2>5 DEF s
<1>6. QED
  BY <1>4, <1>5

\* A report that is missing or there twice is found, or leaves the runner with the
\* first blocks of the case, the violation among them.
LEMMA CountsExcused ==
    ASSUME case \in cases, next \in 1..(Len(case.blocks) + 1), FaultSoFar, CountsOff,
           check, closed \/ next > Len(case.blocks)
    PROVE  Excused
<1> DEFINE L == Len(case.blocks)
           P == Requests
<1>1. /\ L \in Nat /\ DOMAIN case.blocks = 1..L /\ next \in Nat /\ next <= L + 1
      /\ up_to_violation \in Nat
  BY CaseFacts
<1>2. PICK S : case.blocks \in Seq(S)
  BY CasesWellFormed DEF WellFormed
<1>3. /\ fault.kind \in {"lost", "repeated"} /\ fault.at \in 1..(next - 1)
      /\ Cardinality(P) = Reports
      /\ \A j \in P : frames[j] \in RequestReports(case.blocks[Source(Number(P, j))])
  BY DEF CountsOff
<1>4. /\ ReportedBlocks \in Seq(S) /\ Len(ReportedBlocks) = Reports /\ Reports \in Nat
      /\ \A m \in 1..Reports : /\ Source(m) \in 1..L
                               /\ ReportedBlocks[m] = case.blocks[Source(m)]
  BY <1>2, <1>3, ReportedAre
<1>5. case.violation
  <2>1. SUFFICES ASSUME ~case.violation PROVE FALSE
    OBVIOUS
  <2>2. Reports = L
    BY <1>3, <2>1 DEF check, check_requests
  <2>3. next = L + 1
    BY <1>1, <2>1 DEF FaultSoFar
  <2>4. QED
    BY <1>1, <1>3, <2>2, <2>3 DEF Reports
<1>6. {k \in DOMAIN frames : ~frames[k].upstream /\ (frames[k].ret < 0 \/ IsHeader(frames[k]))} = P
  BY DEF check, blocks, Requests
<1>7. /\ Reports \in up_to_violation..L
      /\ \A j \in P : CheckViolation(frames[j], case.blocks[Number(P, j)])
  BY <1>3, <1>5, <1>6 DEF check, check_violation
<1>8. Reports <= L /\ Reports >= up_to_violation
  BY <1>1, <1>4, <1>7
<1>9. PICK n \in Nat : P \subseteq 1..n
  <2>1. PICK T : frames \in Seq(T)
    BY DEF FaultSoFar
  <2>2. Len(frames) \in Nat /\ P \subseteq 1..Len(frames)
    BY <2>1, LenProperties DEF Requests
  <2>3. QED
    BY <2>2
<1>10. ASSUME NEW m \in 1..Reports PROVE ReportedBlocks[m] = case.blocks[m]
  <2>1. PICK j \in P : Number(P, j) = m
    <3> HIDE DEF P
    <3>1. QED
      BY <1>3, <1>9, NumberOnto
  <2>2. frames[j] \in RequestReports(case.blocks[Source(m)]) /\ CheckViolation(frames[j], case.blocks[m])
    BY <1>3, <1>7, <2>1
  <2>3. Source(m) \in DOMAIN case.blocks /\ m \in DOMAIN case.blocks
    BY <1>1, <1>4, <1>8
  <2>4. case \in ViolationCases
    BY <1>5, ViolationsAre
  <2>5. case.blocks[Source(m)] = case.blocks[m]
    BY <2>2, <2>3, <2>4, SameBlock
  <2>6. QED
    BY <1>4, <2>5
<1>11. IsPrefix(ReportedBlocks, case.blocks)
  <2> DEFINE r == ReportedBlocks
             s == case.blocks
  <2>1. r \in Seq(S) /\ s \in Seq(S) /\ Len(r) <= Len(s) /\ \A m \in 1..Len(r) : r[m] = s[m]
    BY <1>2, <1>4, <1>8, <1>10
  <2> HIDE DEF r, s
  <2>2. IsPrefix(r, s)
    BY <2>1, PrefixIs
  <2>3. QED
    BY <2>2 DEF r, s
<1>12. QED
  BY <1>3, <1>4, <1>5, <1>8, <1>11 DEF Excused

\* What the verdict may hide stays what it was.
LEMMA SameExcuse ==
    ASSUME case' = case, next' = next, fault' = fault
    PROVE  Excused' = Excused
<1>1. ReportedBlocks' = ReportedBlocks
  BY DEF ReportedBlocks
<1>2. up_to_violation' = up_to_violation
  BY SameCase
<1>3. QED
  BY <1>1, <1>2 DEF Excused

LEMMA FaultInit ==
    ASSUME Init
    PROVE  FaultInv
  BY SoundInit DEF FaultInv, Complete, Init

LEMMA FaultNext ==
    ASSUME FaultInv, Next
    PROVE  FaultInv'
<1>1. case \in cases /\ next \in 1..(Len(case.blocks) + 1) /\ verdict = "none"
  BY DEF FaultInv, SoundInv, Next, ParseRequest, ParseResponse, PeerCloses, MisreadRequest,
         LoseRequest, RepeatRequest, MisreadResponse, FailOther, Check, MaySend, Running
<1>2. SoundInv'
  BY SoundNext DEF FaultInv
<1>3. CASE Check
  <2>1. case' = case /\ next' = next /\ fault' = fault /\ verdict' # "none"
    BY <1>3 DEF Check
  <2>2. Excused' = Excused
    BY <2>1, SameExcuse
  <2>3. ASSUME verdict' = "pass", fault' # NoFault PROVE Excused
    <3>1. check /\ (closed \/ next > Len(case.blocks))
      BY <1>3, <2>3 DEF Check
    <3>2. FaultSoFar
      BY <1>1, <2>1, <2>3 DEF FaultInv
    <3>3. CountsOff
      BY <1>1, <3>1, <3>2, RequestFound, ResponseFound, OtherFound DEF FaultSoFar
    <3>4. QED
      BY <1>1, <3>1, <3>2, <3>3, CountsExcused
  <2>4. QED
    BY <1>2, <2>1, <2>2, <2>3 DEF FaultInv, Complete
<1>4. CASE ParseRequest \/ ParseResponse \/ PeerCloses
  <2>1. fault' = fault /\ verdict' = "none"
    BY <1>1, <1>4 DEF ParseRequest, ParseResponse, PeerCloses
  <2>2. fault' # NoFault => FaultSoFar'
    BY <1>1, <1>4, <2>1, FaultRemains DEF FaultInv
  <2>3. QED
    BY <1>2, <2>1, <2>2 DEF FaultInv, Complete
<1>5. CASE MisreadRequest \/ LoseRequest \/ RepeatRequest \/ MisreadResponse \/ FailOther
  <2>1. fault = NoFault /\ verdict' = "none"
    BY <1>1, <1>5 DEF MisreadRequest, LoseRequest, RepeatRequest, MisreadResponse, FailOther
  <2>2. RightSoFar
    BY <1>1, <2>1 DEF FaultInv, SoundInv
  <2>3. FaultSoFar'
    BY <1>1, <1>5, <2>1, <2>2, FaultBegins
  <2>4. QED
    BY <1>2, <2>1, <2>3 DEF FaultInv, Complete
<1>6. QED
  BY <1>3, <1>4, <1>5 DEF Next

LEMMA FaultStaysSo ==
    ASSUME FaultInv, UNCHANGED vars
    PROVE  FaultInv'
<1>1. /\ case' = case /\ next' = next /\ closed' = closed /\ frames' = frames
      /\ fault' = fault /\ verdict' = verdict
  BY DEF vars
<1>2. SoundInv'
  BY SoundStays DEF FaultInv
<1>3. Complete'
  BY <1>1, SameExcuse DEF FaultInv, Complete
<1>4. ASSUME FaultSoFar PROVE FaultSoFar'
  <2>1. Requests' = Requests /\ Responses' = Responses
    BY <1>1 DEF Requests, Responses, IsHeader
  <2>2. /\ \A b : RequestReports(b)' = RequestReports(b)
        /\ \A a : ResponseReports(a)' = ResponseReports(a)
        /\ \A g : Wrong(g)' = Wrong(g)
        /\ sent(case)' = sent(case) /\ up_to_violation' = up_to_violation
    BY <1>1, SameCase, SameFaults
  <2>3. CountsOff => CountsOff'
    BY <1>1, <2>1, <2>2 DEF CountsOff, Source, Reports
  <2>4. RequestWrong => RequestWrong'
    BY <1>1, <2>1, <2>2 DEF RequestWrong
  <2>5. ResponseWrong => ResponseWrong'
    BY <1>1, <2>1, <2>2 DEF ResponseWrong
  <2>6. OtherFailed => OtherFailed'
    BY <1>1 DEF OtherFailed, IsHeader
  <2>7. QED
    BY <1>1, <1>4, <2>2, <2>3, <2>4, <2>5, <2>6 DEF FaultSoFar
<1>5. QED
  BY <1>1, <1>2, <1>3, <1>4 DEF FaultInv

\* A parser that gets one thing wrong fails (main.rs's check), in every case of h2spec:
\* a request or a response with another result or another value, however many answers
\* it might be, a frame of another type that fails, a report that is missing or there
\* twice.  Where the verdict is a pass all the same, the case violates the protocol,
\* and what was reported is the first of its blocks, up to the violation at least:
\* what a right parser reports to a peer that closes the connection there.
THEOREM WrongParserFails == Spec => []Complete
<1>1. Init => FaultInv
  BY FaultInit
<1>2. FaultInv /\ [Next]_vars => FaultInv'
  BY FaultNext, FaultStaysSo
<1>3. FaultInv => Complete
  BY DEF FaultInv
<1>4. QED
  BY <1>1, <1>2, <1>3, PTL DEF Spec

-----------------------------------------------------------------------------
(* Every case can be run: its names fit a parser.                            *)

LEMMA NamesKnown ==
    ASSUME NEW fields, Listed(fields)
    PROVE  NamesOf(fields) \subseteq KnownNames
<1>1. PICK S : fields \in Seq(S) /\ \A f \in S : Present(f)
  BY DEF Listed
<1>2. \A j \in DOMAIN fields : fields[j] \in S
  BY <1>1, LenProperties, ElementOfSeq
<1>3. QED
  BY <1>1, <1>2 DEF NamesOf, Present

\* The program under test captures the names of the case and those of responses.
LEMMA FewNames ==
    ASSUME case \in cases
    PROVE  Cardinality(names) \in Nat /\ Cardinality(names) <= 21
<1> DEFINE f == [j \in 1..21 |-> NameList[j]]
<1>1. \A b \in sent(case) : NamesOf(b.fields) \subseteq KnownNames
  BY CaseFacts, NamesKnown DEF sent, BlockOfCase
<1>2. names \subseteq KnownNames
  <2>1. RESPONSE_FIELDS \subseteq KnownNames
    BY NamesListed
  <2>2. UNION {NamesOf(b.fields) : b \in sent(case)} \subseteq KnownNames
    BY <1>1
  <2> HIDE DEF KnownNames
  <2>3. QED
    BY <2>1, <2>2 DEF names
<1>3. f \in Surjection(1..21, KnownNames)
  <2> HIDE DEF KnownNames
  <2>1. f \in [1..21 -> KnownNames]
    BY DEF KnownNames
  <2>2. \A n \in KnownNames : \E j \in 1..21 : f[j] = n
    BY DEF KnownNames
  <2> HIDE DEF f
  <2>3. QED
    BY <2>1, <2>2 DEF Surjection
<1>4. IsFiniteSet(1..21) /\ Cardinality(1..21) = 21
  <2>1. 1 \in Int /\ 21 \in Int /\ ~(1 > 21) /\ 21 - 1 + 1 = 21
    OBVIOUS
  <2>2. IsFiniteSet(1..21) /\ Cardinality(1..21) = IF 1 > 21 THEN 0 ELSE 21 - 1 + 1
    BY <2>1, FS_Interval
  <2>3. QED
    BY <2>1, <2>2
<1> HIDE DEF f
<1>5. IsFiniteSet(KnownNames) /\ Cardinality(KnownNames) <= 21
  BY <1>3, <1>4, FS_Surjection
<1>6. IsFiniteSet(names) /\ Cardinality(names) <= Cardinality(KnownNames)
  BY <1>2, <1>5, FS_Subset
<1>7. Cardinality(names) \in Nat /\ Cardinality(KnownNames) \in Nat
  BY <1>5, <1>6, FS_CardinalityType
<1>8. QED
  BY <1>5, <1>6, <1>7

\* A case that violates the protocol sends something that is rejected.
LEMMA ViolationRejected ==
    ASSUME NEW c \in ViolationCases
    PROVE  \E j \in DOMAIN c.blocks : c.blocks[j].kind = "rejected"
<1> DEFINE u == Fields(<<Method("GET"), Scheme, Path("/")>>)
           g == get(<<>>)
           d == get(<<DummyField("x-dummy0")>>)
           r == Rejected
<1>1. r.kind = "rejected"
  BY KindFacts
<1>2. \/ c.blocks = <<r, r>> \/ c.blocks = <<r, u, r>> \/ c.blocks = <<r>>
      \/ c.blocks = <<g, r>> \/ c.blocks = <<d, r>> \/ c.blocks = <<r, r, r>>
  BY DEF ViolationCases, Violation
<1> HIDE DEF u, g, d, r
<1>3. \A x : 1 \in DOMAIN <<x>> /\ <<x>>[1] = x
  OBVIOUS
<1>4. \A x, y : /\ 1 \in DOMAIN <<x, y>> /\ <<x, y>>[1] = x
                /\ 2 \in DOMAIN <<x, y>> /\ <<x, y>>[2] = y
  OBVIOUS
<1>5. \A x, y, z : 1 \in DOMAIN <<x, y, z>> /\ <<x, y, z>>[1] = x
  OBVIOUS
<1>6. QED
  BY <1>1, <1>2, <1>3, <1>4, <1>5

LEMMA CaseKinds ==
    ASSUME case \in cases
    PROVE  /\ case.violation <=> RejectedAt # {}
           /\ case.violation => \A j \in DOMAIN case.blocks : case.blocks[j].kind # "malformed"
<1>1. /\ DOMAIN case.blocks = 1..Len(case.blocks)
      /\ \A j \in DOMAIN case.blocks : BlockOfCase(case.violation, case.blocks[j])
  BY CaseFacts
<1>2. case.violation \in BOOLEAN
  <2>1. \A b : Blocks(b).violation \in BOOLEAN /\ Violation(b).violation \in BOOLEAN
    BY DEF Blocks, Violation
  <2>2. QED
    BY <2>1 DEF cases, ViolationCases, RequestCases, FieldCases, PseudoHeaderCases
<1>3. ASSUME case.violation PROVE RejectedAt # {}
  BY <1>3, ViolationsAre, ViolationRejected DEF RejectedAt
<1>4. ASSUME RejectedAt # {} PROVE case.violation
  BY <1>1, <1>4 DEF RejectedAt, BlockOfCase
<1>5. ASSUME case.violation, NEW j \in DOMAIN case.blocks
      PROVE  case.blocks[j].kind # "malformed"
  BY <1>1, <1>5 DEF BlockOfCase
<1>6. QED
  BY <1>2, <1>3, <1>4, <1>5

\* What a run may change.
RunOfCase ==
    /\ case \in cases /\ next \in 1..(Len(case.blocks) + 1)
    /\ closed \in BOOLEAN /\ verdict \in {"none", "pass", "fail"}

\* With room for the names of all cases, every case can be attached; its blocks are
\* of the kinds its rules allow, and the runner reads no block behind the last.
THEOREM CasesFit ==
    ASSUME MAX_MATCHES >= 21
    PROVE  Spec => []TypeOK
<1>1. Init => RunOfCase
  <2> SUFFICES ASSUME Init PROVE RunOfCase
    OBVIOUS
  <2>1. case \in cases /\ next = 1 /\ closed = FALSE /\ verdict = "none"
    BY DEF Init
  <2>2. Len(case.blocks) \in Nat
    BY <2>1, CaseFacts
  <2>3. next \in 1..(Len(case.blocks) + 1)
    BY <2>1, <2>2
  <2>4. QED
    BY <2>1, <2>3 DEF RunOfCase
<1>2. RunOfCase /\ [Next]_vars => RunOfCase'
  <2> SUFFICES ASSUME RunOfCase, [Next]_vars PROVE RunOfCase'
    OBVIOUS
  <2>1. Len(case.blocks) \in Nat
    BY CaseFacts DEF RunOfCase
  <2>2. ASSUME case' = case, closed' = closed, verdict' = verdict, next' = next + 1,
                next <= Len(case.blocks)
         PROVE  RunOfCase'
    BY <2>1, <2>2 DEF RunOfCase
  <2>3. CASE ParseRequest
    BY <2>3, <2>2 DEF ParseRequest, MaySend
  <2>4. CASE ParseResponse
    BY <2>4 DEF RunOfCase, ParseResponse
  <2>5. CASE PeerCloses
    BY <2>5 DEF RunOfCase, PeerCloses
  <2>6. CASE MisreadRequest
    BY <2>6, <2>2 DEF MisreadRequest, MaySend
  <2>7. CASE LoseRequest
    BY <2>7, <2>2 DEF LoseRequest, MaySend
  <2>8. CASE RepeatRequest
    BY <2>8 DEF RunOfCase, RepeatRequest
  <2>9. CASE MisreadResponse
    BY <2>9 DEF RunOfCase, MisreadResponse
  <2>10. CASE FailOther
    BY <2>10 DEF RunOfCase, FailOther
  <2>11. CASE Check
    BY <2>11 DEF RunOfCase, Check
  <2>12. CASE UNCHANGED vars
    BY <2>12 DEF RunOfCase, vars
  <2>13. QED
    BY <2>3, <2>4, <2>5, <2>6, <2>7, <2>8, <2>9, <2>10, <2>11, <2>12 DEF Next
<1>3. RunOfCase => TypeOK
  <2> SUFFICES ASSUME RunOfCase PROVE TypeOK
    OBVIOUS
  <2>1. Cardinality(names) \in Nat /\ Cardinality(names) <= 21
    BY FewNames DEF RunOfCase
  <2>2. Cardinality(names) <= MAX_MATCHES
    BY <2>1, ConformanceOK
  <2>3. QED
    BY <2>2, CaseKinds DEF RunOfCase, TypeOK
<1>4. QED
  BY <1>1, <1>2, <1>3, PTL DEF Spec
===============================================================================
