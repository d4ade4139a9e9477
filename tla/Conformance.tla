------------------------------ MODULE Conformance ------------------------------
(***************************************************************************)
(* How the conformance runner judges what the parser reports of an h2spec  *)
(* case (utils/src/bin/conformance/main.rs; the reports are read by        *)
(* utils/src/test.rs).  The program under test is part of the model: it    *)
(* reports what it is expected to, but for one fault, and the server       *)
(* answers as many requests as it likes.  How reports travel, and which    *)
(* case they are counted to, is the subject of Connections.                *)
(*                                                                         *)
(* A name stands for the match id it was given.  A text is one byte, which *)
(* says how it was spelled, except for the empty one and h2spec's dummy,   *)
(* DUMMY_LEN bytes, more than the RESULT_VAL_LEN that are reported.        *)
(***************************************************************************)
EXTENDS H2specCases, FiniteSets, SequencesExt

CONSTANTS
    RESULT_VAL_LEN, DUMMY_LEN,
    MAX_MATCHES,    \* the names a parser captures at most
    MaxResponses    \* bound: the responses of a case

ASSUME ConformanceOK ==
    /\ Many \in Nat \ {0} /\ MaxResponses \in Nat /\ MAX_MATCHES \in Nat
    /\ RESULT_VAL_LEN \in Nat \ {0} /\ DUMMY_LEN \in Nat /\ DUMMY_LEN > RESULT_VAL_LEN + 1

VARIABLES
    case,       \* the case h2spec runs
    next,       \* the first of its blocks that is not sent yet
    closed,     \* whether the peer has closed the connection, on a violation
    frames,     \* Results::frames
    fault,      \* what the parser got wrong, the report it made and the right one
    verdict     \* what the runner prints

vars == <<case, next, closed, frames, fault, verdict>>

HEADERS == 1
CONTINUATION == 9
DATA == 0
EPROTO == 71
EBADMSG == 74
RESPONSE_FIELDS == {":status", "content-type", "content-length", "allow"}

NamesOf(fields) == {fields[j][1] : j \in DOMAIN fields}
names == RESPONSE_FIELDS \union UNION {NamesOf(b.fields) : b \in sent(case)}

-----------------------------------------------------------------------------
(* Values and captures.                                                      *)

NoCapture == [len |-> -1, head |-> <<>>]
Absent == Value("absent", "")

Spelled(value, spelling) ==
    IF value.text = "" THEN <<>>
    ELSE IF value.kind = "dummy"
         THEN [j \in 1..(IF spelling = "coded" THEN DUMMY_LEN - 1 ELSE DUMMY_LEN) |->
                  <<"x", spelling>>]
    ELSE IF value.kind = "raw" THEN <<<<value.text, "raw">>>>
    ELSE <<<<value.text, spelling>>>>

FirstOf(bytes, n) == SubSeq(bytes, 1, IF Len(bytes) < n THEN Len(bytes) ELSE n)

\* A value as ParseResult::read reads it: its length, and the bytes reported of
\* it.  An entry of the dynamic table only keeps as many.
ReadCapture(bytes) == [len |-> Len(bytes), head |-> FirstOf(bytes, RESULT_VAL_LEN)]
Reported(value, spelling, table) ==
    ReadCapture(IF table THEN FirstOf(Spelled(value, spelling), RESULT_VAL_LEN)
                         ELSE Spelled(value, spelling))

\* Mutant: a value that was cut has to be reported at full length.
matches_uncut(e, c) ==
    IF e = Absent \/ c = NoCapture
    THEN e = Absent /\ c = NoCapture
    ELSE IF e.kind = "raw"
    THEN c.len = Len(Spelled(e, "raw")) /\ c.head = Spelled(e, "raw")
    ELSE \E spelling \in {"plain", "coded"} :
            /\ c.len = Len(Spelled(e, spelling))
            /\ IsPrefix(c.head, Spelled(e, spelling))

matches(e, c) ==
    IF e = Absent \/ c = NoCapture
    THEN e = Absent /\ c = NoCapture
    ELSE IF e.kind = "raw"
    THEN c.len = Len(Spelled(e, "raw")) /\ c.head = Spelled(e, "raw")
    ELSE \E spelling \in {"plain", "coded"} :
            /\ \/ c.len = Len(Spelled(e, spelling))
               \/ c.len = RESULT_VAL_LEN /\ c.len < Len(Spelled(e, spelling))
            /\ IsPrefix(c.head, Spelled(e, spelling))

-----------------------------------------------------------------------------
(* What blocks are expected to carry.                                        *)

LastOf(fields, name) ==
    fields[CHOOSE j \in DOMAIN fields :
              fields[j][1] = name /\ \A k \in DOMAIN fields : fields[k][1] = name => k <= j][2]

expected_fields(fields) == [n \in NamesOf(fields) |-> LastOf(fields, n)]

PseudoNames == {":method", ":scheme", ":path", ":authority", ":status", ":test"}
Answered(fields) ==     \* a request with a method is answered
    ":method" \in NamesOf(fields) /\ LastOf(fields, ":method").kind = "str"

\* The fields f, and those of g that are not among them.
Over(f, g) == [n \in DOMAIN f \union DOMAIN g |-> IF n \in DOMAIN f THEN f[n] ELSE g[n]]

ServerFields ==
    [n \in {":status", "content-type", "content-length"} |->
        CASE n = ":status" -> Str("200")
          [] n = "content-type" -> Str("text/plain; charset=utf-8")
          [] n = "content-length" -> Str("6")]
NotAllowed ==
    [n \in {":status", "allow", "content-length"} |->
        CASE n = ":status" -> Str("405")
          [] n = "allow" -> Str("GET,HEAD")
          [] n = "content-length" -> Str("0")]

\* The answer to a request, with the regular fields of one that is served.
response_fields(fields) ==
    IF LastOf(fields, ":method").text \in {"GET", "HEAD"}
    THEN Over([n \in NamesOf(fields) \ PseudoNames |-> LastOf(fields, n)], ServerFields)
    ELSE NotAllowed

answers == {response_fields(b.fields) : b \in {s \in sent(case) : Answered(s.fields)}}

Expected(fields, name) == IF name \in DOMAIN fields THEN fields[name] ELSE Absent

\* Whether a block carries the fields, and nothing else the parser captures.
Carries(frame, fields) ==
    \A n \in names : matches(Expected(fields, n), frame.captures[n])

-----------------------------------------------------------------------------
(* The check of a case: whether it finds no problem.  Of some of the frames, *)
(* by their places, the one at place j is compared with the block of its     *)
(* number.                                                                   *)

Number(places, j) == Cardinality({k \in places : k <= j})

IsHeader(f) == f.frame_type \in {HEADERS, CONTINUATION}
Requests == {j \in DOMAIN frames : IsHeader(frames[j]) /\ ~frames[j].upstream}
Responses == {j \in DOMAIN frames : IsHeader(frames[j]) /\ frames[j].upstream}
blocks == \A j \in DOMAIN frames : IsHeader(frames[j])

\* A block of a case that violates nothing.
CheckRequest(frame, block) ==
    \/ block.kind = "malformed" /\ frame.ret < 0 /\ frame.ret # -EPROTO
    \/ block.kind = "fields" /\ frame.ret >= 0 /\ Carries(frame, expected_fields(block.fields))

\* Mutant: the blocks are compared without counting them.
check_requests_uncounted ==
    \A j \in Requests : Number(Requests, j) \in DOMAIN case.blocks =>
                            CheckRequest(frames[j], case.blocks[Number(Requests, j)])

check_requests ==
    /\ Cardinality(Requests) = Len(case.blocks)
    /\ \A j \in Requests : CheckRequest(frames[j], case.blocks[Number(Requests, j)])

RejectedAt == {j \in DOMAIN case.blocks : case.blocks[j].kind = "rejected"}
up_to_violation ==
    IF RejectedAt = {} THEN Len(case.blocks)
    ELSE CHOOSE j \in RejectedAt : \A k \in RejectedAt : j <= k

\* A frame of the peer up to the violation, or one that is it.
CheckViolation(frame, block) ==
    \/ block.kind = "rejected" /\ frame.ret = -EPROTO
    \/ block.kind = "fields" /\ frame.ret >= 0 /\ Carries(frame, expected_fields(block.fields))

check_violation ==
    LET seen == {j \in DOMAIN frames : ~frames[j].upstream
                                        /\ (frames[j].ret < 0 \/ IsHeader(frames[j]))}
    IN  /\ Cardinality(seen) \in up_to_violation..Len(case.blocks)
        /\ \A j \in seen : CheckViolation(frames[j], case.blocks[Number(seen, j)])

\* A response has to be one of the answers, whichever.
check_responses ==
    \A j \in Responses : frames[j].ret >= 0 /\ \E a \in answers : Carries(frames[j], a)

check ==
    /\ blocks
    /\ IF case.violation THEN check_violation ELSE check_requests
    /\ check_responses

-----------------------------------------------------------------------------
(* The program under test.                                                   *)

Frame(upstream, type, ret, captures) ==
    [upstream |-> upstream, frame_type |-> type, ret |-> ret, captures |-> captures]
NoCaptures == [n \in names |-> NoCapture]
Captured(fields, spelling, table) ==
    [n \in names |-> IF n \in DOMAIN fields THEN Reported(fields[n], spelling, table)
                                            ELSE NoCapture]

\* What the parser reports of a block, and of a frame it rejects.
RequestReports(block) ==
    CASE block.kind = "fields" ->
            {Frame(FALSE, HEADERS, 0, Captured(expected_fields(block.fields), s, t)) :
                s \in {"plain", "coded"}, t \in BOOLEAN}
      [] block.kind = "malformed" -> {Frame(FALSE, HEADERS, -EBADMSG, NoCaptures)}
      [] block.kind = "rejected" ->
            {Frame(FALSE, type, -EPROTO, NoCaptures) : type \in {HEADERS, CONTINUATION}}
ResponseReports(answer) ==
    {Frame(TRUE, HEADERS, 0, Captured(answer, s, t)) : s \in {"plain", "coded"}, t \in BOOLEAN}

\* What the server answers: its handler returns the header map of the request.
launch(fields) ==
    LET regular == NamesOf(fields) \ PseudoNames
    IN  IF LastOf(fields, ":method").text \notin {"GET", "HEAD"} THEN NotAllowed
        ELSE [n \in regular \union DOMAIN ServerFields |->
                 IF n \in regular THEN LastOf(fields, n) ELSE ServerFields[n]]

\* What a parser that is wrong may report instead: another result, or for one
\* name nothing or something else.
OtherReport == Reported(Str("other"), "plain", FALSE)
Miscaptured(f, n, c) == [f EXCEPT !.captures[n] = c]
Wrong(f) ==
    {[f EXCEPT !.ret = r] : r \in {0, -EPROTO, -EBADMSG} \ {f.ret}}
    \union (IF f.ret < 0 THEN {}
            ELSE {Miscaptured(f, n, c) : n \in names, c \in {NoCapture, OtherReport}} \ {f})

NoFault == [kind |-> "none", at |-> 0]
Running == verdict = "none"
MaySend == Running /\ ~closed /\ next <= Len(case.blocks)

ParseRequest ==
    /\ MaySend
    /\ \E f \in RequestReports(case.blocks[next]) : frames' = Append(frames, f)
    /\ next' = next + 1
    /\ UNCHANGED <<case, closed, fault, verdict>>

ParseResponse ==
    /\ Running /\ Cardinality(Responses) < MaxResponses
    /\ \E a \in {launch(case.blocks[j].fields) :
                    j \in {k \in 1..(next - 1) : Answered(case.blocks[k].fields)}} :
          \E f \in ResponseReports(a) : frames' = Append(frames, f)
    /\ UNCHANGED <<case, next, closed, fault, verdict>>

\* The peer may close the connection as soon as it sees the first violation.
PeerCloses ==
    /\ MaySend /\ case.violation /\ next > up_to_violation
    /\ closed' = TRUE
    /\ UNCHANGED <<case, next, frames, fault, verdict>>

MisreadRequest ==
    /\ MaySend /\ fault = NoFault
    /\ \E f \in RequestReports(case.blocks[next]) : \E w \in Wrong(f) :
          frames' = Append(frames, w)
    /\ fault' = [kind |-> "misread", at |-> next]
    /\ next' = next + 1
    /\ UNCHANGED <<case, closed, verdict>>

LoseRequest ==
    /\ MaySend /\ fault = NoFault
    /\ fault' = [kind |-> "lost", at |-> next]
    /\ next' = next + 1
    /\ UNCHANGED <<case, closed, frames, verdict>>

\* A CONTINUATION frame that is reported as a block of its own.
RepeatRequest ==
    /\ Running /\ fault = NoFault /\ next > 1
    /\ \E f \in RequestReports(case.blocks[next - 1]) : frames' = Append(frames, f)
    /\ fault' = [kind |-> "repeated", at |-> next - 1]
    /\ UNCHANGED <<case, next, closed, verdict>>

MisreadResponse ==
    /\ Running /\ fault = NoFault /\ Cardinality(Responses) < MaxResponses
    /\ \E b \in {s \in sent(case) : Answered(s.fields)} :
       \E f \in ResponseReports(launch(b.fields)) : \E w \in Wrong(f) :
          frames' = Append(frames, w)
    /\ fault' = [kind |-> "response", at |-> Len(frames) + 1]
    /\ UNCHANGED <<case, next, closed, verdict>>

\* Only the failures among the frames of other types are reported.
FailOther ==
    /\ Running /\ fault = NoFault
    /\ \E up \in BOOLEAN : frames' = Append(frames, Frame(up, DATA, -EBADMSG, NoCaptures))
    /\ fault' = [kind |-> "other", at |-> 0]
    /\ UNCHANGED <<case, next, closed, verdict>>

Check ==
    /\ Running /\ (closed \/ next > Len(case.blocks))
    /\ verdict' = IF check THEN "pass" ELSE "fail"
    /\ UNCHANGED <<case, next, closed, frames, fault>>

Init ==
    /\ case \in cases
    /\ next = 1 /\ closed = FALSE /\ frames = <<>> /\ fault = NoFault /\ verdict = "none"

Next ==
    \/ ParseRequest
    \/ ParseResponse
    \/ PeerCloses
    \/ MisreadRequest
    \/ LoseRequest
    \/ RepeatRequest
    \/ MisreadResponse
    \/ FailOther
    \/ Check

Spec == Init /\ [][Next]_vars

-----------------------------------------------------------------------------
(* Properties.                                                               *)

\* Every case has blocks of the kind its rules allow, and no more names than a
\* parser can be asked to capture, so that it can be attached.
TypeOK ==
    /\ case \in cases /\ next \in 1..(Len(case.blocks) + 1)
    /\ closed \in BOOLEAN /\ verdict \in {"none", "pass", "fail"}
    /\ Cardinality(names) <= MAX_MATCHES
    /\ case.violation <=> RejectedAt # {}
    /\ case.violation => \A j \in DOMAIN case.blocks : case.blocks[j].kind # "malformed"

\* A parser that reports what it should passes, however the values are spelled
\* and wherever they are read from, whichever requests the server answers, and
\* wherever the peer closes the connection on a violation.
Sound == (verdict # "none" /\ fault = NoFault) => verdict = "pass"

\* The requests that are reported, by the blocks of the case they are of.
ReportedBlocks ==
    LET upto == SubSeq(case.blocks, 1, next - 1)
    IN  CASE fault.kind = "lost" -> RemoveAt(upto, fault.at)
          [] fault.kind = "repeated" -> InsertAt(upto, fault.at, case.blocks[fault.at])
          [] OTHER -> upto

\* What a fault may hide behind: that the frames after a violation may be missing.
Excused ==
    /\ fault.kind \in {"lost", "repeated"}
    /\ case.violation /\ IsPrefix(ReportedBlocks, case.blocks)
    /\ Len(ReportedBlocks) >= up_to_violation

\* A single fault of the parser is found, wherever it is, but for those a correct
\* parser could be taken for: a response that is misread is found although it may be
\* the answer to any of the requests.
Complete == (verdict = "pass" /\ fault # NoFault) => Excused
=============================================================================
