-------------------------------- MODULE Hpack --------------------------------
(***************************************************************************)
(* What the HTTP/2 parser loads into the kernel to read HPACK with: the    *)
(* rows of the automaton (beeper/src/http2/hpack.rs and action.rs), the    *)
(* names to capture (capture_hdr, beeper/src/http2/parser.rs) and the      *)
(* static table.  A name is a string; how it is spelled on the wire, plain *)
(* or Huffman coded, is a constant.                                        *)
(***************************************************************************)
EXTENDS Dfa, Functions, TLC

CONSTANTS
    HeaderNames,    \* every name there is
    Plain, Huff,    \* its bytes as they are, and Huffman coded
    MAX_MATCHES,    \* the ranges a parser has room for,
    MAX_STATES,     \* the states
    MAX_ACTIONS     \* and the actions, the one that does nothing included

\* Two names are spelled alike in neither way.
ASSUME SpellingOK ==
    /\ Plain \in [HeaderNames -> Seq(0..255)] /\ IsInjective(Plain)
    /\ Huff \in [HeaderNames -> Seq(0..255)] /\ IsInjective(Huff)
    /\ MAX_MATCHES \in Nat /\ MAX_STATES \in Nat /\ MAX_ACTIONS \in Nat

-----------------------------------------------------------------------------
(* States, actions and flags.                                                *)

S_DEAD == 2
S_FIELD == 3
S_KEY_LEN == 4
S_VAL_LEN == 5
S_NAME == 6
S_IDX7_CONT == 7
S_IDX6_CONT == 8
S_IDX4_CONT == 9
S_STG_CONT == 10
S_KEY_LEN_CONT == 11
S_KEY_LEN_CONT_HUFF == 12
S_VAL_LEN_CONT == 13
S_VAL_LEN_CONT_HUFF == 14
S_NAME_PLAIN == 15
S_RESERVED == 16

F_HUFF == "huff"
F_ADD_DT == "add_dt"
F_CONT == "cont"

Action(kind, val, flags) == <<kind, val, flags>>
capture(mid) == Action("Capture", mid, {})
Edge(to, action) == [to |-> to, action |-> action]

-----------------------------------------------------------------------------
(* The rows of the representations (RFC 7541, sections 5 and 6).             *)

\* The bytes from base on whose low bits are the prefix of an integer, up to
\* max, which announces that it carries on.
IntEdges(from, base, least, max, to, cont, kind, flags) ==
    [e \in {from} \X ((base + least)..(base + max)) |->
        IF e[2] = base + max THEN Edge(cont, Action("IntStart", max, {}))
                             ELSE Edge(to, Action(kind, e[2] - base, flags))]

\* A literal field: index 0 stands for a name that is spelled out.
LiteralEdges(base, max, cont, flags) ==
    Over(Only(<<S_FIELD, base>>, Edge(S_KEY_LEN, Action("LitName", 0, flags))),
         IntEdges(S_FIELD, base, 1, max, S_VAL_LEN, cont, "IdxName", flags))

insert_field_row ==
    Over(Only(<<S_FIELD, 128>>, Edge(S_DEAD, Action("Err", 0, {}))),
    Over(IntEdges(S_FIELD, 128, 1, 127, S_FIELD, S_IDX7_CONT, "Indexed", {}),
    Over(LiteralEdges(64, 63, S_IDX6_CONT, {F_ADD_DT}),
    Over(IntEdges(S_FIELD, 32, 0, 31, S_FIELD, S_STG_CONT, "TableSize", {}),
    Over(LiteralEdges(0, 15, S_IDX4_CONT, {}),
         LiteralEdges(16, 15, S_IDX4_CONT, {}))))))

insert_length_rows ==
    Over(IntEdges(S_KEY_LEN, 0, 0, 127, S_NAME_PLAIN, S_KEY_LEN_CONT, "KeyLen", {}),
    Over(IntEdges(S_KEY_LEN, 128, 0, 127, S_NAME, S_KEY_LEN_CONT_HUFF, "KeyLen", {F_HUFF}),
    Over(IntEdges(S_VAL_LEN, 0, 0, 127, S_FIELD, S_VAL_LEN_CONT, "ValLen", {}),
         IntEdges(S_VAL_LEN, 128, 0, 127, S_FIELD, S_VAL_LEN_CONT_HUFF, "ValLen", {F_HUFF}))))

\* Bytes below 128 end an integer, the others are not the last of it.
ContEdges(from, kind, to, flags) ==
    [e \in {from} \X (0..255) |->
        IF e[2] < 128 THEN Edge(to, Action(kind, 0, flags \union {F_CONT}))
                      ELSE Edge(from, Action("IntCont", 0, {}))]

insert_continuation_rows ==
    Over(ContEdges(S_IDX7_CONT, "Indexed", S_FIELD, {}),
    Over(ContEdges(S_IDX6_CONT, "IdxName", S_VAL_LEN, {F_ADD_DT}),
    Over(ContEdges(S_IDX4_CONT, "IdxName", S_VAL_LEN, {}),
    Over(ContEdges(S_STG_CONT, "TableSize", S_FIELD, {}),
    Over(ContEdges(S_KEY_LEN_CONT, "KeyLen", S_NAME_PLAIN, {}),
    Over(ContEdges(S_KEY_LEN_CONT_HUFF, "KeyLen", S_NAME, {F_HUFF}),
    Over(ContEdges(S_VAL_LEN_CONT, "ValLen", S_FIELD, {}),
         ContEdges(S_VAL_LEN_CONT_HUFF, "ValLen", S_FIELD, {F_HUFF}))))))))

dfa == [num_states |-> S_RESERVED, panicked |-> FALSE,
        edges |-> Over(insert_field_row, Over(insert_length_rows, insert_continuation_rows))]

-----------------------------------------------------------------------------
(* The names to capture.  A request that is refused, as the parser is full,  *)
(* leaves it as it was.                                                      *)

NewParser == [dfa |-> dfa, num_matches |-> 0, captures |-> <<>>]

HasRoom(p) == p.num_matches < MAX_MATCHES

\* Mutant: both spellings are matched from the same root.
InsertNameOneRoot(d, name, mid) ==
    LET coded == with(push(start_pattern(d, S_NAME), Huff[name]), capture(mid)).dfa
    IN  with(push(start_pattern(coded, S_NAME), Plain[name]), capture(mid)).dfa

\* Both spellings of a name are matched, each from a root of its own.
InsertName(d, name, mid) ==
    LET coded == with(push(start_pattern(d, S_NAME), Huff[name]), capture(mid)).dfa
    IN  with(push(start_pattern(coded, S_NAME_PLAIN), Plain[name]), capture(mid)).dfa

\* Mutant: a parser that is full captures one name more.
capture_hdr_overfull(p, name) ==
    IF name \in DOMAIN p.captures \/ p.num_matches > MAX_MATCHES
    THEN p
    ELSE [dfa |-> InsertName(p.dfa, name, p.num_matches),
          num_matches |-> p.num_matches + 1,
          captures |-> Over(Only(name, p.num_matches), p.captures)]

capture_hdr(p, name) ==
    IF name \in DOMAIN p.captures \/ ~HasRoom(p)
    THEN p
    ELSE [dfa |-> InsertName(p.dfa, name, p.num_matches),
          num_matches |-> p.num_matches + 1,
          captures |-> Over(Only(name, p.num_matches), p.captures)]

-----------------------------------------------------------------------------
(* The read-only data of the parser program.                                 *)

Actions(d) == {d.edges[e].action : e \in DOMAIN d.edges} \ {NoAction}

\* The program has room for so many states, and for so many actions besides none.
Fits(d) == d.num_states <= MAX_STATES /\ Cardinality(Actions(d)) < MAX_ACTIONS

\* The edges out of each state, a zeroed one where there is none.
NoEdge == Edge(0, NoAction)
inject(d) ==
    [s \in 0..(d.num_states - 1) |->
        [c \in 0..255 |-> IF <<s, c>> \in DOMAIN d.edges THEN d.edges[<<s, c>>] ELSE NoEdge]]

\* The edge a byte takes, to the fallback state if there is none.
_next(states, state, input) ==
    IF states[state][input] = NoEdge THEN Edge(S_DEAD, NoAction) ELSE states[state][input]

-----------------------------------------------------------------------------
(* The static table, by what create_header_maps returns.                     *)

AcceptLanguageOn ==     \* the names of the entries from 17 on
    <<"accept-language", "accept-ranges", "accept", "access-control-allow-origin",
      "age", "allow", "authorization", "cache-control", "content-disposition",
      "content-encoding", "content-language", "content-length", "content-location",
      "content-range", "content-type", "cookie", "date", "etag", "expect", "expires",
      "from", "host", "if-match", "if-modified-since", "if-none-match", "if-range",
      "if-unmodified-since", "last-modified", "link", "location", "max-forwards",
      "proxy-authenticate", "proxy-authorization", "range", "referer", "refresh",
      "retry-after", "server", "set-cookie", "strict-transport-security",
      "transfer-encoding", "user-agent", "vary", "via", "www-authenticate">>

headers_without_values ==
    (1 :> ":authority") @@ (15 :> "accept-charset")
    @@ [i \in 17..61 |-> AcceptLanguageOn[i - 16]]

headers_with_values ==
    (":method" :> ("GET" :> 2 @@ "POST" :> 3))
    @@ (":path" :> ("/" :> 4 @@ "/index.html" :> 5))
    @@ (":scheme" :> ("http" :> 6 @@ "https" :> 7))
    @@ (":status" :> ("200" :> 8 @@ "204" :> 9 @@ "206" :> 10 @@ "304" :> 11
                      @@ "400" :> 12 @@ "404" :> 13 @@ "500" :> 14))
    @@ ("accept-encoding" :> ("gzip, deflate" :> 16))

\* What populate_static_table writes under an index: the name, Huffman coded.
\* Of the values only whether there is one is told apart.
HasValue(idx) ==
    \E n \in DOMAIN headers_with_values : idx \in Range(headers_with_values[n])
NameOfValue(idx) ==
    CHOOSE n \in DOMAIN headers_with_values : idx \in Range(headers_with_values[n])
populate_static_table ==
    [idx \in 1..61 |->
        [key |-> Huff[IF HasValue(idx) THEN NameOfValue(idx)
                                       ELSE headers_without_values[idx]],
         huff |-> TRUE]]
=============================================================================
