------------------------------- MODULE Http1 -------------------------------
(***************************************************************************)
(* The HTTP/1.1 parser: its configuration in Rust (beeper/src/http1/       *)
(* parser.rs), which compiles the fields to capture into a DFA, and the    *)
(* walk of that DFA over a message in eBPF (beeper/src/http1/parser.bpf.c).*)
(*                                                                         *)
(* A message is drawn byte by byte as the walk reads it.  To have it reach *)
(* the cases that take many bytes, it is drawn in tokens of several bytes  *)
(* each; where a token begins or ends means nothing to the parser.         *)
(***************************************************************************)
EXTENDS Dfa, HttpMessage

CONSTANTS
    Scenarios,     \* what is configured and what is sent, see Scenario
    NameBytes,     \* the header fields that may be captured, and their names
    Methods,       \* the methods of a request, a sequence of strings
    Version,       \* the string that stands for HTTP/1.1
    CodeLen,       \* the length of a status code
    Preface,       \* the HTTP/2 connection preface
    MAX_MATCHES,   \* matches a parser can be configured with
    MAX_STATES,    \* states the parser program holds
    MAX_BYTES      \* bytes of a message the walk is meant to read

METHOD == "method"
PATH == "path"
STATUS == "status"
PREFACE == "preface"
Pseudo == {METHOD, PATH, STATUS}

(***************************************************************************)
(* A scenario says what a user configures, in any order: the pseudo header *)
(* fields and the names of the header fields in capture, and whether the   *)
(* preface is matched first; and what may arrive: the hook it arrives at,  *)
(* the offsets a message starts at, whether a prefix of NUL bytes is       *)
(* skipped, the tokens it is made of, and how many of them at most.        *)
(***************************************************************************)
ScenarioOK(c) ==
    /\ c.hook \in {"msg", "skb"} /\ c.preface \in BOOLEAN
    /\ c.null_prefix \in BOOLEAN /\ (c.null_prefix => c.hook = "skb")
    /\ c.offs \subseteq Nat /\ (c.hook = "msg" => c.offs = {0})
    /\ c.max \in Nat
    /\ c.capture \subseteq Pseudo \union DOMAIN NameBytes /\ \A t \in c.tokens : Len(t) > 0

ASSUME Http1OK ==
    /\ \A c \in Scenarios : ScenarioOK(c)
    /\ \A i \in DOMAIN Methods : Len(Methods[i]) > 0
    /\ Len(Version) > 0 /\ CodeLen > 0 /\ Len(Preface) > 0
    /\ {MAX_MATCHES, MAX_STATES, MAX_BYTES} \subseteq Nat \ {0}

VARIABLES
    scenario,   \* what is configured and what is sent
    dfa,        \* Parser::dfa
    captures,   \* Parser::captures, with the preface: match id by field
    refused,    \* fields refused with MatchLimitExceeded
    pc,         \* "config", "failed", "walk" (in _parse_from) or "done"
    msg,        \* the bytes read so far, from off
    rest,       \* the bytes of the current token not read yet
    tokens,     \* the tokens drawn
    off,        \* the offset of the message
    i,          \* offset of the next byte
    s,          \* the state of the walk
    cidx,       \* start of every open capture, by match id
    ms,         \* pres->ms: start and length of every match
    skipped,    \* null_prefix->len
    pulled,     \* whether the whole message was pulled in
    res         \* the result of parse_msg or parse_skb

config == <<scenario, dfa, captures, refused>>
input == <<msg, rest, tokens, off>>
walk == <<i, s, cidx, ms, skipped, pulled>>
vars == <<config, pc, input, walk, res>>

EAGAIN == -1
E2BIG == -2
NoResult == 0

(***************************************************************************)
(* Configuration.                                                          *)
(***************************************************************************)
StartCapture(mid) == <<"start", mid>>
EndCapture(mid) == <<"end", mid>>
EndCaptureAndDone(mid) == <<"end done", mid>>
Done == <<"done">>

WS == <<PushOptional(TAB, TRUE), PushOptional(SP, TRUE)>>
EndLine == <<PushOptional(CR, FALSE), RestartWith(<<LF>>)>>

\* A value, and the line that ends where it might begin.
CaptureValue(b, mid) ==
    LET line == <<PushAny(1, TRUE), With(EndCapture(mid))>> \o EndLine
    IN  Pattern(FoldLeft(Call, b, line).dfa, b.state, EndLine)

capture_new_hdr(d, name, mid) ==
    CaptureValue(Pattern(d, ANY_STATE, <<Push(<<LF>>), PushCi(name)>> \o WS
                                       \o <<PushCi(<<COLON>>)>> \o WS
                                       \o <<With(StartCapture(mid))>>), mid).dfa

HttpVersion == <<PushCi(<<SP>> \o Version)>> \o EndLine

capture_method(d, mid) ==
    Pattern(d, INIT_STATE,
            <<With(StartCapture(mid)), PushOptionsCi(Methods), With(EndCapture(mid)),
              Push(<<SP>>), PushAny(1, TRUE)>> \o HttpVersion).dfa

capture_path(d, mid) ==
    Pattern(d, INIT_STATE,
            <<PushOptionsCi(Methods), Push(<<SP>>), With(StartCapture(mid)),
              PushAny(1, TRUE), With(EndCapture(mid))>> \o HttpVersion).dfa

capture_status_code(d, mid) ==
    Pattern(d, INIT_STATE,
            <<PushCi(Version \o <<SP>>), With(StartCapture(mid)), PushAny(CodeLen, FALSE),
              With(EndCapture(mid)), PushAny(1, TRUE)>> \o EndLine).dfa

\* Mutant: the preface does not end the walk.
match_http2_preface_walk_on(d, mid) ==
    Pattern(d, INIT_STATE,
            <<With(StartCapture(mid)), Push(Preface), With(EndCapture(mid))>>).dfa

match_http2_preface(d, mid) ==
    Pattern(d, INIT_STATE,
            <<With(StartCapture(mid)), Push(Preface), With(EndCaptureAndDone(mid))>>).dfa

Compile(d, h, mid) ==
    CASE h = METHOD -> capture_method(d, mid)
      [] h = PATH -> capture_path(d, mid)
      [] h = STATUS -> capture_status_code(d, mid)
      [] h = PREFACE -> match_http2_preface(d, mid)
      [] OTHER -> capture_new_hdr(d, NameBytes[h], mid)

done_on_hdr_end(d) ==
    Pattern(d, ANY_STATE,
            <<PushOptional(CR, FALSE), Push(<<LF>>), PushOptional(CR, FALSE), Push(<<LF>>),
              With(Done)>>).dfa

\* The fields a user has yet to ask for; the preface is asked for first, as its
\* match id is known to be 0.
Pending == LET wanted == scenario.capture \ (DOMAIN captures \union refused)
           IN  IF scenario.preface /\ PREFACE \notin DOMAIN captures \union refused
               THEN {PREFACE} ELSE wanted

num_matches == Cardinality(DOMAIN captures)

CaptureHdr(h) ==
    /\ pc = "config" /\ h \in Pending /\ ~dfa.panicked
    /\ IF num_matches >= MAX_MATCHES
       THEN refused' = refused \union {h} /\ UNCHANGED <<captures, dfa>>
       ELSE /\ captures' = (h :> num_matches) @@ captures
            /\ dfa' = Compile(dfa, h, num_matches)
            /\ UNCHANGED refused
    /\ UNCHANGED <<scenario, pc, input, walk, res>>

\* attach: the empty line is added last.  A DFA that does not fit the program is
\* refused.
Fits(d) == d.num_states <= MAX_STATES

AttachFails ==
    /\ pc = "config" /\ Pending = {} /\ ~dfa.panicked
    /\ dfa' = done_on_hdr_end(dfa)
    /\ dfa'.panicked \/ ~Fits(dfa')
    /\ pc' = "failed"
    /\ UNCHANGED <<scenario, captures, refused, input, walk, res>>

\* The message that is parsed next starts at an offset of its own.
Attach ==
    /\ pc = "config" /\ Pending = {} /\ ~dfa.panicked
    /\ dfa' = done_on_hdr_end(dfa)
    /\ ~dfa'.panicked /\ Fits(dfa')
    /\ pc' = "walk"
    /\ off' \in scenario.offs
    /\ i' = off'
    /\ UNCHANGED <<scenario, captures, refused, msg, rest, tokens,
                   s, cidx, ms, skipped, pulled, res>>

(***************************************************************************)
(* The walk.                                                               *)
(***************************************************************************)
NoEdge == [to |-> ANY_STATE, action |-> NoAction]

_next(state, byte) ==
    IF <<state, byte>> \in DOMAIN dfa.edges THEN dfa.edges[<<state, byte>>]
    ELSE IF <<state, ANY_INPUT>> \in DOMAIN dfa.edges THEN dfa.edges[<<state, ANY_INPUT>>]
    ELSE NoEdge

\* A byte no pattern goes on with may be the first of another.
Follow(state, byte) ==
    LET first == _next(state, byte)
    IN  IF first.to = ANY_STATE THEN _next(ANY_STATE, byte) ELSE first

\* The bytes of the message that are still to come are at hand or may be drawn.
Drawn(t) ==
    \/ rest # <<>> /\ t = rest
    \/ rest = <<>> /\ tokens < scenario.max /\ t \in scenario.tokens

Read(t) ==
    /\ pc = "walk"
    /\ i <= MAX_BYTES
    /\ Drawn(t)
    /\ msg' = Append(msg, Head(t))
    /\ rest' = Tail(t)
    /\ tokens' = IF rest = <<>> THEN tokens + 1 ELSE tokens
    /\ i' = i + 1
    /\ UNCHANGED <<config, off, pulled>>

\* A byte of the prefix of NUL bytes that TLS leaves in an sk_buff.
SkipsNull(byte) == scenario.null_prefix /\ byte = NUL /\ i = skipped

SkipNull ==
    \E t \in scenario.tokens \union {rest} :
        /\ Read(t)
        /\ SkipsNull(Head(t))
        /\ skipped' = i + 1
        /\ UNCHANGED <<pc, s, cidx, ms, res>>

ParseByte ==
    \E t \in scenario.tokens \union {rest} :
        /\ Read(t)
        /\ ~SkipsNull(Head(t))
        /\ LET edge == Follow(s, Head(t))
               kind == IF edge.action = NoAction THEN "none" ELSE edge.action[1]
           IN  /\ s' = edge.to
               /\ cidx' = IF kind = "start" THEN [cidx EXCEPT ![edge.action[2]] = i + 1] ELSE cidx
               /\ ms' = IF kind \in {"end", "end done"}
                        THEN [ms EXCEPT ![edge.action[2]] =
                                  [idx |-> cidx[edge.action[2]],
                                   len |-> i - cidx[edge.action[2]] + 1]]
                        ELSE ms
               /\ IF kind \in {"done", "end done"}
                  THEN pc' = "done" /\ res' = i + 1 - off
                  ELSE UNCHANGED <<pc, res>>
        /\ UNCHANGED skipped

\* Mutant: the walk over the pulled message starts from the first state.
PullFromInit ==
    /\ pc = "walk" /\ scenario.hook = "msg" /\ ~pulled
    /\ i > 0 /\ i < MAX_BYTES
    /\ pulled' = TRUE /\ s' = INIT_STATE
    /\ UNCHANGED <<config, pc, input, i, cidx, ms, skipped, res>>

\* The linear part of a message ends and there is more of it: all of it is
\* pulled in and parsed from where the walk stopped.  A linear part of nothing
\* returns 0, which ends the parse.
Pull ==
    /\ pc = "walk" /\ scenario.hook = "msg" /\ ~pulled
    /\ i > 0 /\ i < MAX_BYTES
    /\ pulled' = TRUE
    /\ UNCHANGED <<config, pc, input, i, s, cidx, ms, skipped, res>>

\* The message ends, or the walk has read all that it may read of it.  Where
\* the linear part is empty, there is no telling how long the message is.
RunOut ==
    /\ pc = "walk"
    /\ pc' = "done"
    /\ res' \in IF i >= MAX_BYTES THEN {E2BIG}
                ELSE IF i = 0 /\ scenario.hook = "msg" THEN {EAGAIN, E2BIG}
                ELSE {EAGAIN}
    /\ UNCHANGED <<config, input, walk>>

(***************************************************************************)
(* The specification.                                                      *)
(***************************************************************************)
Matches == 0..(MAX_MATCHES - 1)

Init ==
    /\ scenario \in Scenarios
    /\ dfa = EmptyDfa /\ captures = <<>> /\ refused = {}
    /\ pc = "config" /\ res = NoResult
    /\ msg = <<>> /\ rest = <<>> /\ tokens = 0 /\ off = 0
    /\ i = 0 /\ s = INIT_STATE /\ skipped = 0 /\ pulled = FALSE
    /\ cidx = [m \in Matches |-> 0]
    /\ ms = [m \in Matches |-> [idx |-> 0, len |-> 0]]

Next ==
    \/ \E h \in Pending : CaptureHdr(h)
    \/ Attach
    \/ AttachFails
    \/ SkipNull
    \/ ParseByte
    \/ Pull
    \/ RunOut

Spec == Init /\ [][Next]_vars

(***************************************************************************)
(* Properties.                                                             *)
(***************************************************************************)
Names == scenario.capture \ Pseudo
Found(r) == [idx |-> IF r.len = 0 THEN 0 ELSE off + r.from - 1, len |-> r.len]

TypeOK ==
    /\ pc \in {"config", "failed", "walk", "done"} /\ i \in Nat /\ pulled \in BOOLEAN
    /\ s \in 0..(dfa.num_states - 1)
    /\ \A e \in DOMAIN dfa.edges : dfa.edges[e].to \in 1..(dfa.num_states - 1)
    /\ DOMAIN captures \subseteq scenario.capture \union {PREFACE}
    /\ \A h, g \in DOMAIN captures : captures[h] = captures[g] => h = g
    /\ \A m \in Matches : cidx[m] \in 0..i /\ ms[m].idx + ms[m].len \in 0..i

\* A message a user of start line fields may expect to be understood: patterns
\* of the start line wait for the rest of theirs, whatever comes.
StartsAsRequired ==
    \/ scenario.capture \intersect Pseudo = {} /\ ~scenario.preface
    \/ /\ HasStartLine(msg)
       /\ \/ IsRequestLine(msg, OtherCase, Version, Methods)
          \/ IsStatusLine(msg, OtherCase, Version, CodeLen)

\* The patterns of any set of fields can be built in any order: no two of them
\* ask for different transitions or actions on the same input of a state, which
\* the builder would panic on (insert_edge, add_action).
NeverPanics == ~dfa.panicked

\* At every byte of a message, each captured range is the value of the field it
\* was configured for as far as it was read: no other field, white space or line
\* end is part of it, whatever other fields are captured, in whichever order
\* they were configured, and wherever the linear part of the message ended.
FieldsCaptured ==
    pc \in {"walk", "done"} /\ StartsAsRequired =>
        \A h \in Names \ refused :
            ms[captures[h]] = Found(FieldValue(msg, OtherCase, NameBytes[h]))

\* Once the start line is read, its method, path and status are captured as they
\* are in it, from the message's own start.
StartLineCaptured ==
    pc \in {"walk", "done"} /\ HasStartLine(msg) /\ StartsAsRequired =>
        LET l == StartLine(msg)
            request == /\ IsRequestLine(msg, OtherCase, Version, Methods)
                       /\ KnownMethod(msg, OtherCase, Methods)
            status == IsStatusLine(msg, OtherCase, Version, CodeLen)
            Expected(h) == CASE h = METHOD -> IF request THEN l.first ELSE Nothing
                             [] h = PATH -> IF request THEN l.second ELSE Nothing
                             [] h = STATUS -> IF status THEN l.second ELSE Nothing
        IN  \A h \in (scenario.capture \intersect Pseudo) \ refused :
                ms[captures[h]] = Found(Expected(h))

\* The walk stops at the first empty line and nowhere else: it never reads on
\* into the body, nor reports a header block that has not ended, and returns the
\* length of the block.
StopsAtEmptyLine ==
    pc \in {"walk", "done"} /\ StartsAsRequired =>
        IF pc = "done" /\ res > 0
        THEN res = Len(msg) /\ EmptyLineEnds(msg) = {Len(msg)}
        ELSE EmptyLineEnds(msg) = {}

\* The preface, and nothing that only looks like it, is matched, which is what
\* makes the caller take a connection for HTTP/2.
MatchesPreface ==
    pc \in {"walk", "done"} /\ scenario.preface /\ PREFACE \notin refused =>
        /\ ms[captures[PREFACE]].len > 0 <=> msg = Preface
        /\ msg = Preface => pc = "done" /\ res = Len(Preface)
=============================================================================
