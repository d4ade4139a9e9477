-------------------------------- MODULE Dfa --------------------------------
(***************************************************************************)
(* The DFA the patterns of a parser are compiled into, and its builder     *)
(* (beeper/src/dfa.rs).  A DFA is a value and so is a builder: every       *)
(* method of the code is an operator that returns the next value.  Bytes   *)
(* are abstract inputs; a sequence of them stands for a string.            *)
(*                                                                         *)
(* An optional input is a single byte, as in every pattern of the code,    *)
(* and is matched case sensitively.                                        *)
(***************************************************************************)
EXTENDS Integers, Sequences, SequencesExt

CONSTANT
    OtherCase   \* the other case of the inputs that are letters

ASSUME OtherCaseOK ==
    \A l \in DOMAIN OtherCase :
        /\ OtherCase[l] \in DOMAIN OtherCase \ {l}
        /\ OtherCase[OtherCase[l]] = l

INIT_STATE == 0
ANY_STATE == 1
NewState == -1        \* no target given: the state that is there, or a new one
ANY_INPUT == "any"
NoAction == <<>>

(***************************************************************************)
(* The DFA.                                                                *)
(***************************************************************************)
\* What f gives, and for the rest what g does.
Over(f, g) == [x \in DOMAIN f \union DOMAIN g |-> IF x \in DOMAIN f THEN f[x] ELSE g[x]]
Only(x, y) == [z \in {x} |-> y]

EmptyDfa == [num_states |-> 2, edges |-> <<>>, panicked |-> FALSE]

Panic(d) == [d EXCEPT !.panicked = TRUE]

\* Mutant: patterns never share a state.
next_state_unshared(d, from, input) ==
    [dfa |-> [d EXCEPT !.num_states = @ + 1], to |-> d.num_states]

\* Mutant: a new state takes a number that is not counted.
next_state_uncounted(d, from, input) ==
    IF <<from, input>> \in DOMAIN d.edges
    THEN [dfa |-> d, to |-> d.edges[<<from, input>>].to]
    ELSE [dfa |-> d, to |-> d.num_states]

\* The state an edge leads to, and the DFA, which has one more state if there
\* was no such edge.
next_state(d, from, input) ==
    IF <<from, input>> \in DOMAIN d.edges
    THEN [dfa |-> d, to |-> d.edges[<<from, input>>].to]
    ELSE [dfa |-> [d EXCEPT !.num_states = @ + 1], to |-> d.num_states]

insert_edge(d, from, input, to, action) ==
    LET e == <<from, input>>
    IN  IF e \notin DOMAIN d.edges
        THEN [d EXCEPT !.edges = Over(Only(e, [to |-> to, action |-> action]), @)]
        ELSE LET old == d.edges[e]
             IN  CASE old.to # to -> Panic(d)
                   [] old.to = to /\ action \in {NoAction, old.action} -> d
                   [] old.to = to /\ action # NoAction /\ old.action = NoAction ->
                          [d EXCEPT !.edges[e].action = action]
                   [] OTHER -> Panic(d)

\* Attaches an action to an edge that is there and carries no other.
add_action(d, from, input, action) ==
    LET e == <<from, input>>
    IN  IF e \in DOMAIN d.edges /\ d.edges[e].action \in {NoAction, action}
        THEN [d EXCEPT !.edges[e].action = action]
        ELSE Panic(d)

Cases(input, ci) ==
    IF ci /\ input \in DOMAIN OtherCase THEN {input, OtherCase[input]} ELSE {input}

(***************************************************************************)
(* The builder of one pattern.                                             *)
(***************************************************************************)
start_pattern(d, state) ==
    [dfa |-> d, state |-> state,
     optional_prefixes |-> <<>>,    \* optional inputs before the next one
     optional_states |-> <<>>,      \* where those pushed so far may end
     last_edges |-> {}]             \* the edges that lead into state

\* Edges for both cases of an input, to a given state or to that of next.
InsertEdges(b, next, from, input, to, ci) ==
    LET dest == IF to = NewState THEN next.to ELSE to
        Insert(i, d) == insert_edge(d, from, i, dest, NoAction)
    IN  [b |-> [b EXCEPT !.dfa = FoldSet(Insert, next.dfa, Cases(input, ci))], to |-> dest]

\* The target is looked up whether or not one is given: where one is given and
\* no edge is there yet, this uses up a state no edge will lead to.
push_edge_from(b, from, input, to, ci) ==
    InsertEdges(b, next_state(b.dfa, from, input), from, input, to, ci)

\* What is remembered of an optional input pushed off source: its edge is a route
\* into the state, and one that may not repeat ends in a state of its own, which
\* the next input has to follow as well.
BranchedOff(pushed, prefix, source) ==
    LET routed == [pushed.b EXCEPT !.last_edges = @ \union {<<source, prefix.input, FALSE>>}]
        known == {routed.state} \union ToSet(routed.optional_states)
    IN  IF prefix.repeat \/ pushed.to \in known
        THEN routed
        ELSE [routed EXCEPT !.optional_states = Append(@, pushed.to)]

\* One optional input off one state: a loop if it may repeat.
BranchOff(b, prefix, source) ==
    BranchedOff(push_edge_from(b, source, prefix.input,
                               IF prefix.repeat THEN source ELSE NewState, FALSE),
                prefix, source)

push_optional_prefixes(b) ==
    LET BranchOffAll(c, prefix) ==
            FoldLeft(LAMBDA e, source : BranchOff(e, prefix, source),
                     c, <<c.state>> \o c.optional_states)
    IN  FoldLeft(BranchOffAll, [b EXCEPT !.optional_prefixes = <<>>],
                 b.optional_prefixes)

\* The optional inputs before an input may be skipped: it has to follow where they
\* end just like it followed the state b is at.
Join(b, input, first, ci) ==
    LET sources == {b.state} \union ToSet(b.optional_states)
        Follows(c, from) == push_edge_from(c, from, input, first.to, ci).b
    IN  [FoldLeft(Follows, first.b, b.optional_states) EXCEPT
            !.state = first.to,
            !.optional_states = <<>>,
            !.last_edges = {<<from, input, ci>> : from \in sources}]

PushFrom(b, input, to, ci) == Join(b, input, push_edge_from(b, b.state, input, to, ci), ci)

push_edge(b, input, to, ci) == PushFrom(push_optional_prefixes(b), input, to, ci)

\* Pushes a string of which the last input leads to a given state.
PushTo(b, string, to, ci) ==
    FoldLeftDomain(LAMBDA c, i : push_edge(c, string[i],
                                           IF i = Len(string) THEN to ELSE NewState, ci),
                   b, string)

push(b, string) == PushTo(b, string, NewState, FALSE)
push_ci(b, string) == PushTo(b, string, NewState, TRUE)

push_optional(b, input, repeat) ==
    [b EXCEPT !.optional_prefixes = Append(@, [input |-> input, repeat |-> repeat])]

\* n bytes of any value: exactly n (push_any(n..=n)), or at least n with a loop
\* on the last state (push_any(n..)).
LoopAny(b) ==
    [push_edge_from(b, b.state, ANY_INPUT, b.state, FALSE).b EXCEPT
        !.last_edges = @ \union {<<b.state, ANY_INPUT, FALSE>>}]

push_any(b, n, unbounded) ==
    LET string == [i \in 1..n |-> ANY_INPUT]
    IN  IF unbounded THEN LoopAny(push(b, string)) ELSE push(b, string)

\* The longest of several strings, of those as long as any the last.
Longest(options) ==
    options[CHOOSE i \in DOMAIN options :
                \A j \in DOMAIN options : \/ Len(options[j]) < Len(options[i])
                                          \/ Len(options[j]) = Len(options[i]) /\ j <= i]

\* The options but the longest, from where b is at to where main is at.
OtherOptions(b, main, options) ==
    LET Option(c, o) ==
            [PushTo([c EXCEPT !.state = b.state], o, main.state, TRUE) EXCEPT
                !.last_edges = @ \union c.last_edges]
    IN  [FoldLeft(Option, main, SelectSeq(options, LAMBDA o : o # Longest(options))) EXCEPT
            !.state = main.state]

\* Mutant: only the longest option carries the action that is attached next.
push_options_longest_ci(b, options) ==
    [OtherOptions(b, push_ci(b, Longest(options)), options) EXCEPT
        !.last_edges = push_ci(b, Longest(options)).last_edges]

\* One of several strings, all of which end in the state of the longest.
push_options_ci(b, options) == OtherOptions(b, push_ci(b, Longest(options)), options)

\* The state a string leads to from ANY_STATE, the edges to it made sure of.
FromAny(b, string) ==
    LET Next(c, input) ==
            LET next == next_state(c.b.dfa, c.to, input)
            IN  push_edge_from([c.b EXCEPT !.dfa = next.dfa], c.to, input, next.to, TRUE)
    IN  FoldLeft(Next, [b |-> b, to |-> ANY_STATE], string)

PushAsFromAny(restart, string) == PushTo(restart.b, string, restart.to, TRUE)

\* A string that leads to where it would lead from ANY_STATE.
restart_with(b, string) == PushAsFromAny(FromAny(b, string), string)

AddToLastEdges(b, action) ==
    LET AddCases(e, d) ==
            FoldSet(LAMBDA i, f : add_action(f, e[1], i, action), d, Cases(e[2], e[3]))
    IN  [b EXCEPT !.dfa = FoldSet(AddCases, b.dfa, b.last_edges)]

\* Mutant: the loops of optional inputs do not carry the action.
with_before_optionals(b, action) == push_optional_prefixes(AddToLastEdges(b, action))

\* Attaches an action to every edge into the state built up to.
with(b, action) == AddToLastEdges(push_optional_prefixes(b), action)

(***************************************************************************)
(* A pattern is the chain of calls that builds it.                         *)
(***************************************************************************)
Push(string) == [call |-> "push", string |-> string]
PushCi(string) == [call |-> "push_ci", string |-> string]
PushOptional(input, repeat) == [call |-> "push_optional", input |-> input, repeat |-> repeat]
PushAny(n, unbounded) == [call |-> "push_any", n |-> n, unbounded |-> unbounded]
PushOptionsCi(options) == [call |-> "push_options_ci", options |-> options]
RestartWith(string) == [call |-> "restart_with", string |-> string]
With(action) == [call |-> "with", action |-> action]

Call(b, c) ==
    CASE c.call = "push" -> push(b, c.string)
      [] c.call = "push_ci" -> push_ci(b, c.string)
      [] c.call = "push_optional" -> push_optional(b, c.input, c.repeat)
      [] c.call = "push_any" -> push_any(b, c.n, c.unbounded)
      [] c.call = "push_options_ci" -> push_options_ci(b, c.options)
      [] c.call = "restart_with" -> restart_with(b, c.string)
      [] c.call = "with" -> with(b, c.action)

\* The builder after a chain of calls that starts a pattern at state.
Pattern(d, state, calls) == FoldLeft(Call, start_pattern(d, state), calls)
=============================================================================
