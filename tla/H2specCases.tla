------------------------------ MODULE H2specCases ------------------------------
(***************************************************************************)
(* What h2spec sends in each of its cases                                  *)
(* (utils/src/bin/conformance/cases.rs).  A case stands for all ids that   *)
(* share it.  Texts are strings; their bytes are given by Conformance.     *)
(***************************************************************************)
EXTENDS Integers, Sequences

CONSTANT Many   \* bound: stands for the 201 requests of http2/5.1.2/1

Value(kind, text) == [kind |-> kind, text |-> text]
Str(s) == Value("str", s)
Authority == Value("authority", "127.0.0.1:8080")
Dummy == Value("dummy", "x")
Raw(bytes) == Value("raw", bytes)

Fields(fields) == [kind |-> "fields", fields |-> fields]
Malformed == [kind |-> "malformed", fields |-> <<>>]
Rejected == [kind |-> "rejected", fields |-> <<>>]

\* The blocks a case sends, or for a violation what the parser makes of its frames.
Blocks(blocks) == [violation |-> FALSE, blocks |-> blocks]
ViolationUnmarked(blocks) == [violation |-> FALSE, blocks |-> blocks]    \* Mutant
Violation(blocks) == [violation |-> TRUE, blocks |-> blocks]

\* The blocks that carry fields.
sent(case) == {case.blocks[j] : j \in {k \in DOMAIN case.blocks : case.blocks[k].kind = "fields"}}

Method(m) == <<":method", Str(m)>>
Scheme == <<":scheme", Str("http")>>
Path(p) == <<":path", Str(p)>>
Auth == <<":authority", Authority>>
request(method, fields) == Fields(<<Method(method), Scheme, Path("/"), Auth>> \o fields)
get(fields) == request("GET", fields)
head(fields) == request("HEAD", fields)
post(fields) == request("POST", fields)
Test(v) == <<"x-test", v>>
DummyField(n) == <<n, Dummy>>

ViolationCases == {
    Violation(<<Rejected, Rejected>>),
    Violation(<<Rejected, Fields(<<Method("GET"), Scheme, Path("/")>>), Rejected>>),
    Violation(<<Rejected>>),
    Violation(<<get(<<>>), Rejected>>),
    Violation(<<get(<<DummyField("x-dummy0")>>), Rejected>>),
    Violation(<<Rejected, Rejected, Rejected>>)}

RequestCases == {
    Blocks(<<>>),
    Blocks(<<get(<<>>)>>),
    Blocks(<<post(<<>>)>>),
    Blocks(<<head(<<>>)>>),
    Blocks(<<post(<<<<"trailer", Str("x-test")>>>>), Fields(<<Test(Str("ok"))>>)>>),
    Blocks(<<get(<<<<"user-agent", Str("")>>>>)>>),
    Blocks(<<get(<<<<"user-agent", Str("h2spec")>>>>)>>),
    Blocks(<<get(<<Test(Str("h2spec"))>>)>>),
    Blocks(<<get(<<DummyField("x-dummy0"), DummyField("x-dummy1"), DummyField("x-dummy2"),
                   DummyField("x-dummy3"), DummyField("x-dummy4")>>)>>),
    Blocks(<<Fields(<<>>)>>),
    Blocks(<<get(<<>>), get(<<>>)>>),
    Blocks([j \in 1..Many |-> get(<<>>)])}

FieldCases == {
    Blocks(<<post(<<<<"content-length", Str("4")>>>>)>>),
    Blocks(<<Malformed>>),
    Blocks(<<get(<<DummyField("x-dummy0"), DummyField("x-dummy0")>>)>>),
    Blocks(<<Fields(<<Method("GET"), Scheme, Path("/"), Auth>>)>>),
    Blocks(<<post(<<>>), Fields(<<Test(Str("ok"))>>)>>),
    Blocks(<<get(<<<<"X-TEST", Str("ok")>>>>)>>),
    Blocks(<<get(<<<<":test", Str("ok")>>>>)>>),
    Blocks(<<get(<<<<":status", Str("200")>>>>)>>),
    Blocks(<<post(<<>>), Fields(<<Method("POST")>>)>>),
    Blocks(<<Fields(<<Test(Str("ok")), Method("GET"), Scheme, Path("/"), Auth>>)>>),
    Blocks(<<get(<<<<"connection", Str("keep-alive")>>>>)>>),
    Blocks(<<get(<<<<"trailers", Str("test")>>, <<"te", Str("trailers, deflate")>>>>)>>)}

PseudoHeaderCases == {
    Blocks(<<Fields(<<Method("GET"), Scheme, Path(""), Auth>>)>>),
    Blocks(<<Fields(<<Path("/"), Auth>>)>>),
    Blocks(<<Fields(<<Method("GET"), Path("/"), Auth>>)>>),
    Blocks(<<Fields(<<Method("GET"), Scheme, Auth>>)>>),
    Blocks(<<get(<<Method("GET")>>)>>),
    Blocks(<<get(<<Scheme>>)>>),
    Blocks(<<get(<<Path("/")>>)>>),
    Blocks(<<post(<<<<"content-length", Str("1")>>>>)>>),
    Blocks(<<get(<<Test(Raw("49509fff"))>>)>>),
    Blocks(<<get(<<Test(Raw("495090"))>>)>>),
    Blocks(<<get(<<Test(Raw("4951fffffffa7f"))>>)>>)}

cases == ViolationCases \union RequestCases \union FieldCases \union PseudoHeaderCases
=============================================================================
