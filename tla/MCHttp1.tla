------------------------------ MODULE MCHttp1 ------------------------------
(***************************************************************************)
(* Small instances of Http1 for TLC: single letters for the bytes of       *)
(* names, methods and the version.                                         *)
(***************************************************************************)
EXTENDS Http1

MCOtherCase == [a |-> "A", A |-> "a", b |-> "B", B |-> "b"]
MCNameBytes == [a |-> <<"a">>, ab |-> <<"a", "b">>, ac |-> <<"a", "c">>]
MCMethods == << <<"g">>, <<"p", "u">> >>
MCVersion == <<"v">>
MCPreface == <<"p", "r", CR, LF, CR, LF>>

Bare == [hook |-> "msg", preface |-> FALSE, null_prefix |-> FALSE, offs |-> {0}, max |-> 5,
         capture |-> {"a", "ab"}, tokens |-> {}]

\* Fields whose names share their first letter.
Fields ==
    [Bare EXCEPT !.capture = {"ab", "ac"}, !.max = 4,
                 !.tokens = { <<LF>>, <<CR>>, <<CR, LF>>, <<"A">>, <<"b">>, <<"a", "c">>,
                              <<COLON>>, <<SP>> }]

\* The same in longer tokens, for messages of several lines.
Lines ==
    [Bare EXCEPT !.capture = {"ab", "ac"},
                 !.tokens = { <<LF, "a">>, <<"b", COLON>>, <<"c", COLON, "b">>, <<"b">>, <<CR, LF>>,
                              <<SP>> }]

\* Fields of which one has the name of the other for a prefix, without and with
\* white space behind a name.
PrefixFields ==
    [Bare EXCEPT !.capture = {"a", "ab"},
                 !.tokens = { <<LF>>, <<CR>>, <<CR, LF>>, <<"a">>, <<"B">>, <<COLON>> }]

SpacedPrefixFields == [PrefixFields EXCEPT !.max = 6, !.tokens = @ \union {<<SP>>}]

\* Fields in an sk_buff, where a message may start behind another or behind the
\* header TLS left.
SkbFields ==
    [Fields EXCEPT !.hook = "skb", !.offs = {0, 2}, !.null_prefix = TRUE, !.capture = {"a"},
                   !.tokens = { <<NUL>>, <<LF>>, <<CR, LF>>, <<"a">>, <<"A", COLON>>, <<TAB>> }]

\* Requests, next to the preface.
Requests ==
    [Bare EXCEPT !.preface = TRUE, !.max = 5, !.capture = {METHOD, PATH, "a"},
                 !.tokens = { <<"g", SP, "a">>, <<"p", "u", SP>>, <<"p", "r">>,
                              <<SP, "v">>, <<CR, LF>>, <<LF>>, <<"a", COLON, "a">> }]

\* Responses.
Responses ==
    [Bare EXCEPT !.max = 5, !.capture = {STATUS, "a"},
                 !.tokens = { <<"v", SP, "a">>, <<"b">>, <<SP>>, <<CR, LF>>, <<LF>>,
                              <<"a", COLON, "a">> }]

\* More fields than a parser can be configured with, in any order.
AllFields ==
    [Bare EXCEPT !.max = 1, !.capture = Pseudo \union DOMAIN MCNameBytes, !.tokens = { <<LF>> }]

MCScenarios == {Fields, Lines, PrefixFields, SkbFields, Requests, Responses, AllFields}
MCSpaced == {SpacedPrefixFields}
MCOffset == {[Requests EXCEPT !.hook = "skb", !.offs = {2}, !.preface = FALSE]}
=============================================================================
