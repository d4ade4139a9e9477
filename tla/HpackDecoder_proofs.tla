-------------------------- MODULE HpackDecoder_proofs --------------------------
(***************************************************************************)
(* A block is read in step with the peer.  Whatever names are captured,    *)
(* the automaton keeps the rows of the representations.  Of whatever the   *)
(* peer sends, what is unread is at any time the rest of a representation  *)
(* the reader is inside of, and what the peer did to its table for it is   *)
(* still to be done to the mirror.                                         *)
(*                                                                         *)
(* A state a name is read in stands for the bytes that lead to it, and a   *)
(* capture for a spelling of a name asked for: the automaton accepts these *)
(* spellings and no others, so a name is captured just if it was asked for.*)
(* Whatever byte it reads, it stays in states the automaton has and in the *)
(* ranges of its registers.                                                *)
(***************************************************************************)
EXTENDS HpackDecoder, SequenceTheorems, WellFoundedInduction, TLAPS

-----------------------------------------------------------------------------
(* What a pattern leaves alone.                                              *)

\* The states patterns start from or make.
FreeStates == {S_NAME, S_NAME_PLAIN} \cup {n \in Nat : n >= S_RESERVED}
RowStates == {S_FIELD, S_KEY_LEN, S_VAL_LEN, S_IDX7_CONT, S_IDX6_CONT, S_IDX4_CONT, S_STG_CONT,
              S_KEY_LEN_CONT, S_KEY_LEN_CONT_HUFF, S_VAL_LEN_CONT, S_VAL_LEN_CONT_HUFF}

\* The rows are those of dfa, and edges out of free states lead to states patterns made.
RowsKept(edges) ==
    /\ \A s \in RowStates : \A c :
          /\ <<s, c>> \in DOMAIN edges <=> <<s, c>> \in DOMAIN dfa.edges
          /\ <<s, c>> \in DOMAIN dfa.edges => edges[<<s, c>>] = dfa.edges[<<s, c>>]
    /\ \A s \in FreeStates : \A c : <<s, c>> \in DOMAIN edges =>
          /\ "to" \in DOMAIN edges[<<s, c>>]
          /\ edges[<<s, c>>].to \in Nat /\ edges[<<s, c>>].to >= S_RESERVED
Kept(d) ==
    /\ {"num_states", "edges"} \subseteq DOMAIN d
    /\ d.num_states \in Nat /\ d.num_states >= S_RESERVED
    /\ RowsKept(d.edges)

\* No pattern asked for an edge that is there and leads or acts otherwise.
Calm(d) == "panicked" \in DOMAIN d /\ d.panicked = FALSE

\* What f gives that overlays g.
LEMMA OverFacts ==
    ASSUME NEW f, NEW g
    PROVE  /\ DOMAIN Over(f, g) = DOMAIN f \cup DOMAIN g
           /\ \A x \in DOMAIN f : Over(f, g)[x] = f[x]
           /\ \A x \in DOMAIN g : x \notin DOMAIN f => Over(f, g)[x] = g[x]
  BY DEF Over

LEMMA OnlyFacts ==
    ASSUME NEW x, NEW y
    PROVE  DOMAIN Only(x, y) = {x} /\ Only(x, y)[x] = y
  BY DEF Only

LEMMA NoRowFree == \A s \in RowStates : s \notin FreeStates
  BY DEF RowStates, FreeStates, S_FIELD, S_KEY_LEN, S_VAL_LEN, S_IDX7_CONT, S_IDX6_CONT,
         S_IDX4_CONT, S_STG_CONT, S_KEY_LEN_CONT, S_KEY_LEN_CONT_HUFF, S_VAL_LEN_CONT,
         S_VAL_LEN_CONT_HUFF, S_NAME, S_NAME_PLAIN, S_RESERVED

LEMMA PanicKept ==
    ASSUME NEW d, Kept(d)
    PROVE  Kept(Panic(d))
  BY DEF Kept, Panic

\* Another edge out of a free state.
LEMMA EdgeKept ==
    ASSUME NEW edges, RowsKept(edges), NEW from \in FreeStates, NEW input,
           NEW to \in Nat, to >= S_RESERVED, NEW action
    PROVE  RowsKept(Over(Only(<<from, input>>, [to |-> to, action |-> action]), edges))
<1> DEFINE x == <<from, input>>
           y == [to |-> to, action |-> action]
           new == Over(Only(x, y), edges)
<1>1. DOMAIN new = {x} \cup DOMAIN edges /\ new[x] = y
      /\ \A z \in DOMAIN edges : z # x => new[z] = edges[z]
  <2> HIDE DEF x, y
  <2>1. DOMAIN Only(x, y) = {x} /\ Only(x, y)[x] = y
    BY OnlyFacts
  <2> DEFINE f == Only(x, y)
  <2>2. DOMAIN f = {x} /\ f[x] = y
    BY <2>1
  <2> HIDE DEF f
  <2>3. /\ DOMAIN Over(f, edges) = DOMAIN f \cup DOMAIN edges
        /\ \A z \in DOMAIN f : Over(f, edges)[z] = f[z]
        /\ \A z \in DOMAIN edges : z \notin DOMAIN f => Over(f, edges)[z] = edges[z]
    BY OverFacts
  <2>4. new = Over(f, edges)
    BY DEF f
  <2> HIDE DEF new
  <2>5. QED
    BY <2>2, <2>3, <2>4
<1>2. \A s \in RowStates : s \notin FreeStates
  BY NoRowFree
<1>3. \A s \in RowStates : \A c : <<s, c>> # x
  BY <1>2
<1>4. y.to = to /\ "to" \in DOMAIN y
  OBVIOUS
<1> HIDE DEF new, y, x
<1>5. ASSUME NEW s \in RowStates, NEW c
      PROVE  /\ <<s, c>> \in DOMAIN new <=> <<s, c>> \in DOMAIN dfa.edges
             /\ <<s, c>> \in DOMAIN dfa.edges => new[<<s, c>>] = dfa.edges[<<s, c>>]
  BY <1>1, <1>3 DEF RowsKept
<1>6. ASSUME NEW s \in FreeStates, NEW c, <<s, c>> \in DOMAIN new
      PROVE  /\ "to" \in DOMAIN new[<<s, c>>]
             /\ new[<<s, c>>].to \in Nat /\ new[<<s, c>>].to >= S_RESERVED
  BY <1>1, <1>4, <1>6 DEF RowsKept
<1>7. RowsKept(new)
  BY <1>5, <1>6 DEF RowsKept
<1>8. QED
  BY <1>7 DEF new, x, y

\* Another action on an edge out of a free state.
LEMMA ActionSet ==
    ASSUME NEW d, Kept(d), NEW from \in FreeStates, NEW input, NEW action,
           <<from, input>> \in DOMAIN d.edges
    PROVE  Kept([d EXCEPT !.edges[<<from, input>>].action = action])
<1> DEFINE x == <<from, input>>
           set == [d EXCEPT !.edges[x].action = action]
<1>1. {"num_states", "edges"} \subseteq DOMAIN set /\ set.num_states = d.num_states
  BY DEF Kept
<1>2. /\ DOMAIN set.edges = DOMAIN d.edges
      /\ \A y \in DOMAIN d.edges : y # x => set.edges[y] = d.edges[y]
  BY DEF Kept
<1>3. "to" \in DOMAIN set.edges[x] /\ set.edges[x].to = d.edges[x].to
  BY DEF Kept, RowsKept
<1>4. \A s \in RowStates : \A c : <<s, c>> # x
  BY NoRowFree
<1>5. RowsKept(d.edges)
  BY DEF Kept
<1> HIDE DEF set, x
<1>6. RowsKept(set.edges)
  BY <1>2, <1>3, <1>4, <1>5 DEF RowsKept
<1>7. Kept(set)
  BY <1>1, <1>6 DEF Kept
<1>8. QED
  BY <1>7 DEF set, x

\* The steps of the builder on the DFA.
LEMMA InsertKept ==
    ASSUME NEW d, Kept(d), NEW from \in FreeStates, NEW input,
           NEW to \in Nat, to >= S_RESERVED, NEW action
    PROVE  Kept(insert_edge(d, from, input, to, action))
<1> DEFINE x == <<from, input>>
           new == Over(Only(x, [to |-> to, action |-> action]), d.edges)
           r == insert_edge(d, from, input, to, action)
<1>1. RowsKept(new)
  BY EdgeKept DEF Kept
<1>2. CASE x \notin DOMAIN d.edges
  <2>1. r = [d EXCEPT !.edges = new]
    BY <1>2 DEF insert_edge
  <2> HIDE DEF new, r
  <2>2. QED
    BY <1>1, <2>1 DEF Kept, r
<1>3. CASE x \in DOMAIN d.edges
  <2> DEFINE set == [d EXCEPT !.edges[x].action = action]
  <2>1. r \in {Panic(d), d, set}
    BY <1>3 DEF insert_edge
  <2>2. Kept(set)
    BY <1>3, ActionSet
  <2>3. Kept(Panic(d))
    BY PanicKept
  <2> HIDE DEF r, set
  <2>4. Kept(r)
    BY <2>1, <2>2, <2>3
  <2>5. QED
    BY <2>4 DEF r
<1>4. QED
  BY <1>2, <1>3

LEMMA ActionKept ==
    ASSUME NEW d, Kept(d), NEW from \in FreeStates, NEW input, NEW action
    PROVE  Kept(add_action(d, from, input, action))
<1> DEFINE x == <<from, input>>
           set == [d EXCEPT !.edges[x].action = action]
<1>1. CASE x \notin DOMAIN d.edges
  <2>1. add_action(d, from, input, action) = Panic(d)
    BY <1>1 DEF add_action
  <2>2. QED
    BY <2>1, PanicKept
<1>2. CASE x \in DOMAIN d.edges
  <2>1. add_action(d, from, input, action) \in {Panic(d), set}
    BY <1>2 DEF add_action
  <2>2. QED
    BY <1>2, <2>1, PanicKept, ActionSet, SMTT(30)
<1>3. QED
  BY <1>1, <1>2

-----------------------------------------------------------------------------
(* A name is inserted.                                                       *)

\* A builder without optional inputs, off a free state, and the one edge into the
\* state it is at, if there is any.
Built(b) ==
    /\ {"dfa", "state", "optional_prefixes", "optional_states", "last_edges"} \subseteq DOMAIN b
    /\ Kept(b.dfa) /\ b.state \in FreeStates
    /\ b.optional_prefixes = <<>> /\ b.optional_states = <<>>
    /\ \/ b.last_edges = {}
       \/ \E from \in FreeStates : \E input : b.last_edges = {<<from, input, FALSE>>}

LEMMA StartBuilt ==
    ASSUME NEW d, Kept(d), NEW state \in FreeStates
    PROVE  Built(start_pattern(d, state))
  BY DEF Built, start_pattern

\* The next state is a free one.
LEMMA NextKept ==
    ASSUME NEW d, Kept(d), NEW from \in FreeStates, NEW input
    PROVE  LET next == next_state(d, from, input)
           IN  Kept(next.dfa) /\ next.to \in Nat /\ next.to >= S_RESERVED /\ next.to \in FreeStates
<1> DEFINE x == <<from, input>>
           next == next_state(d, from, input)
<1>1. CASE x \in DOMAIN d.edges
  <2>1. next.dfa = d /\ next.to = d.edges[x].to
    BY <1>1 DEF next_state
  <2>2. QED
    BY <1>1, <2>1 DEF Kept, RowsKept, FreeStates
<1>2. CASE x \notin DOMAIN d.edges
  <2>1. next.dfa = [d EXCEPT !.num_states = @ + 1] /\ next.to = d.num_states
    BY <1>2 DEF next_state
  <2>2. Kept([d EXCEPT !.num_states = @ + 1])
    BY DEF Kept, S_RESERVED
  <2>3. QED
    BY <2>1, <2>2 DEF Kept, FreeStates
<1>3. QED
  BY <1>1, <1>2

\* The builder with another DFA, and the state an edge leads to.
Leads(b, d, to) == [b |-> [b EXCEPT !.dfa = d], to |-> to]

\* The edges of an input that is matched as it is are one edge.
LEMMA OneInserted ==
    ASSUME NEW b, NEW next, NEW from, NEW input
    PROVE  InsertEdges(b, next, from, input, NewState, FALSE) =
              Leads(b, insert_edge(next.dfa, from, input, next.to, NoAction), next.to)
<1> DEFINE S == {input}
           d == next.dfa
           R(g) == g = [s \in SUBSET S |-> IF s = {} THEN d
                          ELSE LET z == CHOOSE z \in s : TRUE
                               IN  insert_edge(g[s \ {z}], from, z, next.to, NoAction)]
           w == [s \in SUBSET S |-> IF s = {} THEN d
                                              ELSE insert_edge(d, from, input, next.to, NoAction)]
<1>1. \A s \in SUBSET S : s = {} \/ s = {input}
  OBVIOUS
<1>2. (CHOOSE z \in {input} : TRUE) = input
  OBVIOUS
<1>3. R(w)
  BY <1>1, <1>2
<1>4. ASSUME NEW g, R(g) PROVE g[S] = insert_edge(d, from, input, next.to, NoAction)
  <2>1. g[{}] = d
    BY <1>4
  <2>2. S \ {input} = {}
    OBVIOUS
  <2>3. QED
    BY <1>2, <1>4, <2>1, <2>2
<1>5. R(CHOOSE g : R(g))
  BY <1>3
<1>6. Cases(input, FALSE) = S
  BY DEF Cases
<1>7. InsertEdges(b, next, from, input, NewState, FALSE) =
         [b |-> [b EXCEPT !.dfa = (CHOOSE g : R(g))[S]], to |-> next.to]
  BY <1>6 DEF InsertEdges, FoldSet, MapThenFoldSet
<1>8. QED
  BY <1>4, <1>5, <1>7 DEF Leads

\* Without optional inputs an input follows one state only.
LEMMA NothingJoined ==
    ASSUME NEW c, c.optional_states = <<>>, NEW input, NEW first
    PROVE  Join(c, input, first, FALSE) =
              [first.b EXCEPT !.state = first.to, !.optional_states = <<>>,
                              !.last_edges = {<<c.state, input, FALSE>>}]
<1>1. {c.state} \union ToSet(c.optional_states) = {c.state}
  BY DEF ToSet
<1>2. DOMAIN c.optional_states = {}
  OBVIOUS
<1>3. {<<from, input, FALSE>> : from \in {c.state}} = {<<c.state, input, FALSE>>}
  OBVIOUS
<1>4. QED
  BY <1>1, <1>2, <1>3 DEF Join, FoldLeft, MapThenFoldSet

\* What one more input makes of a builder.
NextOf(b, input) == next_state(b.dfa, b.state, input)
DfaAfter(b, input) ==
    insert_edge(NextOf(b, input).dfa, b.state, input, NextOf(b, input).to, NoAction)

LEMMA InputIs ==
    ASSUME NEW b, Built(b), NEW input
    PROVE  LET r == push_edge(b, input, NewState, FALSE)
           IN  /\ DOMAIN r = DOMAIN b
               /\ r.dfa = DfaAfter(b, input) /\ r.state = NextOf(b, input).to
               /\ r.optional_prefixes = <<>> /\ r.optional_states = <<>>
               /\ r.last_edges = {<<b.state, input, FALSE>>}
<1> DEFINE c == push_optional_prefixes(b)
           next == NextOf(b, input)
           s == next.to
           e == DfaAfter(b, input)
           f == [c EXCEPT !.dfa = e]
           r == push_edge(b, input, NewState, FALSE)
<1>1. c = [b EXCEPT !.optional_prefixes = <<>>]
  <2>1. DOMAIN b.optional_prefixes = {}
    BY DEF Built
  <2>2. QED
    BY <2>1 DEF push_optional_prefixes, FoldLeft, MapThenFoldSet
<1>2. /\ DOMAIN c = DOMAIN b /\ c.dfa = b.dfa /\ c.state = b.state
      /\ c.optional_prefixes = <<>> /\ c.optional_states = <<>>
  BY <1>1 DEF Built
<1> HIDE DEF c, next, e
<1>3. push_edge_from(c, c.state, input, NewState, FALSE) = [b |-> f, to |-> s]
  <2> HIDE DEF f, s
  <2>1. push_edge_from(c, c.state, input, NewState, FALSE)
           = InsertEdges(c, next, c.state, input, NewState, FALSE)
    BY <1>2 DEF push_edge_from, NextOf, next
  <2>2. InsertEdges(c, next, c.state, input, NewState, FALSE)
           = Leads(c, insert_edge(next.dfa, c.state, input, next.to, NoAction), next.to)
    BY OneInserted
  <2>3. insert_edge(next.dfa, c.state, input, next.to, NoAction) = e
    BY <1>2 DEF DfaAfter, next, e
  <2>4. QED
    BY <2>1, <2>2, <2>3 DEF Leads, f, s
<1>4. r = Join(c, input, [b |-> f, to |-> s], FALSE)
  BY <1>3 DEF push_edge, PushFrom, c
<1> DEFINE l == {<<c.state, input, FALSE>>}
           first == [b |-> f, to |-> s]
<1>5. first.b = f /\ first.to = s
  OBVIOUS
<1>6. DOMAIN f = DOMAIN b /\ f.dfa = e /\ f.optional_prefixes = <<>>
  BY <1>2 DEF Built
<1> HIDE DEF f, r, s, first
<1>7. r = [first.b EXCEPT !.state = first.to, !.optional_states = <<>>, !.last_edges = l]
  BY <1>2, <1>4, NothingJoined DEF first
<1>8. r = [f EXCEPT !.state = s, !.optional_states = <<>>, !.last_edges = l]
  BY <1>5, <1>7
<1> HIDE DEF l
<1>9. /\ DOMAIN r = DOMAIN b /\ r.dfa = e /\ r.state = s
      /\ r.optional_prefixes = <<>> /\ r.optional_states = <<>> /\ r.last_edges = l
  BY <1>6, <1>8 DEF Built
<1>10. QED
  BY <1>2, <1>9 DEF r, e, s, l, next

\* One more input.
LEMMA InputBuilt ==
    ASSUME NEW b, Built(b), NEW input
    PROVE  Built(push_edge(b, input, NewState, FALSE))
<1> DEFINE r == push_edge(b, input, NewState, FALSE)
           next == NextOf(b, input)
<1>1. Kept(next.dfa) /\ next.to \in Nat /\ next.to >= S_RESERVED /\ next.to \in FreeStates
  BY NextKept DEF Built, NextOf
<1>2. Kept(DfaAfter(b, input))
  BY <1>1, InsertKept DEF Built, DfaAfter
<1>3. /\ DOMAIN r = DOMAIN b
      /\ r.dfa = DfaAfter(b, input) /\ r.state = next.to
      /\ r.optional_prefixes = <<>> /\ r.optional_states = <<>>
      /\ r.last_edges = {<<b.state, input, FALSE>>}
  BY InputIs
<1> HIDE DEF r, next
<1>4. Built(r)
  BY <1>1, <1>2, <1>3 DEF Built
<1>5. QED
  BY <1>4 DEF r

\* Of any numbers there is a least one, and of some up to a number a greatest.
LEMMA LeastNumber ==
    ASSUME NEW T, T \subseteq Nat, T # {}
    PROVE  \E n \in T : \A m \in T : n <= m
<1>1. PICK n \in T : \A m \in T : ~(<<m, n>> \in OpToRel(<, Nat))
  BY NatLessThanWellFounded, WFMin
<1>2. \A m \in T : ~(m < n)
  BY <1>1 DEF OpToRel
<1>3. QED
  BY <1>2

LEMMA MaxFacts ==
    ASSUME NEW n \in Nat, NEW s, s \subseteq 1..n, s # {}
    PROVE  /\ Max(s) \in s /\ \A y \in s : y <= Max(s)
           /\ s \ {Max(s)} \subseteq 1..(Max(s) - 1)
<1> DEFINE D == {n - x : x \in s}
<1>1. \A x \in s : x \in Nat /\ x >= 1 /\ x <= n /\ n - x \in Nat
  <2>1. \A x \in 1..n : x \in Nat /\ x >= 1 /\ x <= n /\ n - x \in Nat
    OBVIOUS
  <2>2. QED
    BY <2>1
<1>2. D \subseteq Nat /\ D # {}
  BY <1>1
<1>3. PICK d \in D : \A m \in D : d <= m
  BY <1>2, LeastNumber
<1>4. PICK z \in s : d = n - z
  BY <1>3
<1>5. ASSUME NEW y \in s PROVE z >= y
  <2>1. n - z <= n - y
    BY <1>3, <1>4
  <2>2. QED
    BY <1>1, <2>1
<1>6. \E x \in s : \A y \in s : x >= y
  BY <1>5
<1>7. Max(s) \in s /\ \A y \in s : Max(s) >= y
  BY <1>6 DEF Max
<1>8. ASSUME NEW y \in s \ {Max(s)} PROVE y \in 1..(Max(s) - 1)
  <2>1. y \in Nat /\ y >= 1 /\ Max(s) \in Nat /\ Max(s) >= y /\ y # Max(s)
    BY <1>1, <1>7
  <2>2. QED
    BY <2>1
<1>9. QED
  BY <1>1, <1>7, <1>8

\* A string is pushed one input after the other, and so are names captured, and
\* the bytes of a name are walked.
Step(kind, c, x) ==
    IF kind = "push" THEN push_edge(c, x, NewState, FALSE)
    ELSE IF kind = "capture" THEN capture_hdr(c, x)
    ELSE LET e == _next(states, c.s, x) IN [s |-> e.to, mid |-> CaptureOf(e)]
Folded(kind, b, string, n, g) ==
    g = [s \in SUBSET (1..n) |->
            IF s = {} THEN b ELSE Step(kind, g[s \ {Max(s)}], string[Max(s)])]

LEMMA FoldExists ==
    ASSUME NEW kind, NEW b, NEW string, NEW n \in Nat
    PROVE  \E g : Folded(kind, b, string, n, g)
<1> DEFINE Op(c, j) == Step(kind, c, string[j])
           T == {k \in Nat : ~\E g : Folded(kind, b, string, k, g)}
<1>1. SUFFICES ASSUME T # {} PROVE FALSE
  OBVIOUS
<1>2. PICK k \in T : \A m \in T : k <= m
  BY <1>1, LeastNumber
<1>3. \A m, g : Folded(kind, b, string, m, g) <=>
         g = [s \in SUBSET (1..m) |-> IF s = {} THEN b ELSE Op(g[s \ {Max(s)}], Max(s))]
  BY DEF Folded
<1> HIDE DEF Op
<1>4. CASE k = 0
  <2> DEFINE g == [s \in SUBSET (1..0) |-> b]
  <2>1. 1..0 = {}
    OBVIOUS
  <2>2. g = [s \in SUBSET (1..0) |-> IF s = {} THEN b ELSE Op(g[s \ {Max(s)}], Max(s))]
    BY <2>1
  <2>3. QED
    BY <1>2, <1>3, <1>4, <2>2
<1>5. CASE k # 0
  <2>1. k - 1 \in Nat /\ k - 1 \notin T
    BY <1>2, <1>5
  <2>2. PICK g : Folded(kind, b, string, k - 1, g)
    BY <2>1
  <2>0. k \in Nat
    BY <1>2
  <2>8. g = [s \in SUBSET (1..(k - 1)) |->
               IF s = {} THEN b ELSE Op(g[s \ {Max(s)}], Max(s))]
    BY <2>2 DEF Folded, Op
  <2>9. g[{}] = b /\ \A s \in SUBSET (1..(k - 1)) : s # {} => g[s] = Op(g[s \ {Max(s)}], Max(s))
    <3>1. \A s \in SUBSET (1..(k - 1)) :
             g[s] = IF s = {} THEN b ELSE Op(g[s \ {Max(s)}], Max(s))
      BY <2>8
    <3>2. {} \in SUBSET (1..(k - 1))
      OBVIOUS
    <3>3. QED
      BY <3>1, <3>2
  <2> DEFINE w == [s \in SUBSET (1..k) |-> IF k \in s THEN Op(g[s \ {k}], k) ELSE g[s]]
  <2>3. \A s \in SUBSET (1..k) : k \notin s => s \in SUBSET (1..(k - 1))
    BY <1>2
  <2>4. ASSUME NEW s \in SUBSET (1..k)
        PROVE  w[s] = IF s = {} THEN b ELSE Op(w[s \ {Max(s)}], Max(s))
    <3>1. CASE s = {}
      <4>1. w[{}] = g[{}]
        OBVIOUS
      <4>2. QED
        BY <2>9, <3>1, <4>1
    <3>2. CASE k \in s
      <4>1. Max(s) = k
        <5>1. Max(s) \in s /\ k <= Max(s)
          BY <2>0, <3>2, MaxFacts
        <5>2. \A x \in 1..k : k <= x => x = k
          BY <2>0
        <5>3. QED
          BY <5>1, <5>2
      <4>2. w[s \ {k}] = g[s \ {k}]
        OBVIOUS
      <4>3. QED
        BY <3>2, <4>1, <4>2
    <3>3. CASE k \notin s /\ s # {}
      <4>1. s \in SUBSET (1..(k - 1)) /\ s \ {Max(s)} \in SUBSET (1..(k - 1))
        BY <2>3, <3>3
      <4>2. w[s] = g[s] /\ w[s \ {Max(s)}] = g[s \ {Max(s)}]
        BY <3>3
      <4>3. g[s] = Op(g[s \ {Max(s)}], Max(s))
        BY <2>9, <3>3, <4>1
      <4>4. QED
        BY <3>3, <4>2, <4>3
    <3>4. QED
      BY <3>1, <3>2, <3>3
  <2>5. w = [s \in SUBSET (1..k) |-> IF s = {} THEN b ELSE Op(w[s \ {Max(s)}], Max(s))]
    BY <2>4
  <2> HIDE DEF w
  <2>6. Folded(kind, b, string, k, w)
    BY <1>3, <2>5
  <2>7. QED
    BY <1>2, <2>6
<1>6. QED
  BY <1>4, <1>5

\* A fold begins with its base, and each step leads from one part of it to the next.
FoldedTo(kind, b, string, k, g) ==
    g[1..0] = b /\ (k > 0 => g[1..k] = Step(kind, g[1..(k - 1)], string[k]))

LEMMA FoldReaches ==
    ASSUME NEW kind, NEW b, NEW string, NEW n \in Nat, NEW g, Folded(kind, b, string, n, g),
           NEW k \in Nat, k <= n
    PROVE  FoldedTo(kind, b, string, k, g)
<1> DEFINE Op(c, j) == Step(kind, c, string[j])
<1>1. g = [s \in SUBSET (1..n) |-> IF s = {} THEN b ELSE Op(g[s \ {Max(s)}], Max(s))]
  BY DEF Folded, Op
<1> HIDE DEF Op
<1>2. \A s \in SUBSET (1..n) : g[s] = IF s = {} THEN b ELSE Op(g[s \ {Max(s)}], Max(s))
  BY <1>1
<1>3. 1..0 = {} /\ {} \in SUBSET (1..n)
  OBVIOUS
<1>4. g[1..0] = b
  BY <1>2, <1>3
<1>5. CASE k > 0
  <2>1. 1..k \in SUBSET (1..n) /\ k \in 1..k /\ 1..k # {} /\ 1..k \subseteq 1..k
    BY <1>5
  <2>2. Max(1..k) \in 1..k /\ k <= Max(1..k)
    BY <2>1, MaxFacts
  <2>3. Max(1..k) = k
    BY <2>2
  <2>4. (1..k) \ {k} = 1..(k - 1)
    BY <1>5
  <2>5. g[1..k] = Op(g[1..(k - 1)], k)
    BY <1>2, <2>1, <2>3, <2>4
  <2>6. QED
    BY <1>4, <2>5 DEF Op, FoldedTo
<1>6. QED
  BY <1>4, <1>5 DEF FoldedTo

LEMMA PushIsFold ==
    ASSUME NEW b, NEW string \in Seq(0..255)
    PROVE  \E g : Folded("push", b, string, Len(string), g) /\ push(b, string) = g[1..Len(string)]
<1> DEFINE n == Len(string)
           ix == [i_1 \in DOMAIN string |-> i_1]
           Op(c, j) == push_edge(c, string[j], IF j = Len(string) THEN NewState ELSE NewState, FALSE)
           R(g) == g = [s \in SUBSET (DOMAIN ix) |->
                          IF s = {} THEN b ELSE Op(g[s \ {Max(s)}], ix[Max(s)])]
<1>1. n \in Nat /\ DOMAIN string = 1..n /\ DOMAIN ix = 1..n
  BY LenProperties
<1>2. PICK g : Folded("push", b, string, n, g)
  BY <1>1, FoldExists
<1>8. \A c, j : j \in 1..n => Op(c, j) = Step("push", c, string[j])
  BY DEF Step
<1>9. \A s \in SUBSET (1..n) : s # {} => ix[Max(s)] = Max(s) /\ Max(s) \in 1..n
  <2>1. \A s \in SUBSET (1..n) : s # {} => Max(s) \in 1..n
    BY <1>1, MaxFacts
  <2>2. QED
    BY <1>1, <2>1
<1> DEFINE u == CHOOSE h : R(h)
<1>6. push(b, string) = u[1..n]
  BY <1>1 DEF push, PushTo, FoldLeftDomain, FoldLeft, MapThenFoldSet
<1>10. ASSUME NEW h PROVE R(h) <=> Folded("push", b, string, n, h)
  <2> HIDE DEF Op
  <2>1. \A s \in SUBSET (1..n) :
           (IF s = {} THEN b ELSE Op(h[s \ {Max(s)}], ix[Max(s)]))
             = (IF s = {} THEN b ELSE Step("push", h[s \ {Max(s)}], string[Max(s)]))
    BY <1>8, <1>9
  <2>2. QED
    BY <1>1, <2>1 DEF Folded
<1>3. R(g)
  BY <1>2, <1>10
<1>4. R(u)
  BY <1>3
<1>5. Folded("push", b, string, n, u)
  BY <1>4, <1>10
<1>7. QED
  BY <1>5, <1>6

LEMMA PushBuilt ==
    ASSUME NEW b, Built(b), NEW string \in Seq(0..255)
    PROVE  Built(push(b, string))
<1> DEFINE n == Len(string)
<1>1. n \in Nat
  BY LenProperties
<1>2. PICK g : Folded("push", b, string, n, g) /\ push(b, string) = g[1..n]
  BY PushIsFold
<1> DEFINE T == {k \in Nat : k <= n /\ ~Built(g[1..k])}
<1>3. SUFFICES ASSUME T # {} PROVE FALSE
  BY <1>1, <1>2
<1> HIDE DEF n
<1>4. PICK k \in T : \A m \in T : k <= m
  BY <1>3, LeastNumber
<1>5. g[1..0] = b /\ (k > 0 => g[1..k] = Step("push", g[1..(k - 1)], string[k]))
  <2>1. n \in Nat /\ k \in Nat /\ k <= n /\ Folded("push", b, string, n, g)
    BY <1>1, <1>2, <1>4 DEF n
  <2>2. FoldedTo("push", b, string, k, g)
    BY <2>1, FoldReaches
  <2>3. QED
    BY <2>2 DEF FoldedTo
<1>6. k > 0
  BY <1>4, <1>5
<1>7. k - 1 \in Nat /\ k - 1 <= n /\ k - 1 \notin T
  BY <1>1, <1>4, <1>6
<1>8. Built(g[1..(k - 1)])
  BY <1>7
<1>9. Built(g[1..k])
  BY <1>5, <1>6, <1>8, InputBuilt DEF Step
<1>10. QED
  BY <1>4, <1>9

\* An action is attached to the one edge there is.
LEMMA OneCase ==
    ASSUME NEW d, NEW e, e[3] = FALSE, NEW action
    PROVE  FoldSet(LAMBDA j, f : add_action(f, e[1], j, action), d, Cases(e[2], e[3]))
              = add_action(d, e[1], e[2], action)
<1> DEFINE from == e[1]
           input == e[2]
           S == {input}
           R(g) == g = [s \in SUBSET S |-> IF s = {} THEN d
                          ELSE LET z == CHOOSE z \in s : TRUE
                               IN  add_action(g[s \ {z}], from, z, action)]
           w == [s \in SUBSET S |-> IF s = {} THEN d ELSE add_action(d, from, input, action)]
<1> HIDE DEF from, input
<1>1. \A s \in SUBSET S : s = {} \/ s = {input}
  OBVIOUS
<1>2. (CHOOSE z \in {input} : TRUE) = input
  OBVIOUS
<1>3. R(w)
  BY <1>1, <1>2
<1>4. ASSUME NEW g, R(g) PROVE g[S] = add_action(d, from, input, action)
  <2>1. g[{}] = d
    BY <1>4
  <2>2. S \ {input} = {}
    OBVIOUS
  <2>3. QED
    BY <1>2, <1>4, <2>1, <2>2
<1>5. R(CHOOSE g : R(g))
  BY <1>3
<1>6. Cases(e[2], e[3]) = S
  BY DEF Cases, input
<1>7. FoldSet(LAMBDA j, f : add_action(f, e[1], j, action), d, Cases(e[2], e[3]))
         = (CHOOSE g : R(g))[S]
  BY <1>6 DEF FoldSet, MapThenFoldSet, from
<1>8. QED
  BY <1>4, <1>5, <1>7 DEF from, input

LEMMA LastEdgesIs ==
    ASSUME NEW b, Built(b), NEW action
    PROVE  LET d == AddToLastEdges(b, action).dfa
           IN  /\ b.last_edges = {} => d = b.dfa
               /\ \A from, input : b.last_edges = {<<from, input, FALSE>>} =>
                     d = add_action(b.dfa, from, input, action)
<1> DEFINE AddCases(e, d) ==
               FoldSet(LAMBDA j, f : add_action(f, e[1], j, action), d, Cases(e[2], e[3]))
           S == b.last_edges
           d0 == b.dfa
           R(g) == g = [s \in SUBSET S |-> IF s = {} THEN d0
                          ELSE LET z == CHOOSE z \in s : TRUE IN AddCases(z, g[s \ {z}])]
           u == CHOOSE g : R(g)
           r == AddToLastEdges(b, action)
<1>1. r = [b EXCEPT !.dfa = u[S]]
  BY DEF AddToLastEdges, FoldSet, MapThenFoldSet
<1> HIDE DEF u, r
<1>2. r.dfa = u[S]
  BY <1>1 DEF Built
<1> HIDE DEF AddCases
<1> USE DEF u
<1>4. ASSUME S = {} PROVE r.dfa = d0
  <2> DEFINE w == [s \in SUBSET S |-> d0]
  <2>1. \A s \in SUBSET S : s = {}
    BY <1>4
  <2>2. R(w)
    BY <2>1
  <2>3. R(u)
    BY <2>2
  <2>4. u[S] = d0
    BY <1>4, <2>3
  <2>5. QED
    BY <1>2, <1>4, <2>4
<1>5. ASSUME NEW from, NEW input, S = {<<from, input, FALSE>>}
      PROVE  r.dfa = add_action(d0, from, input, action)
  <2> DEFINE e == <<from, input, FALSE>>
             d1 == add_action(d0, from, input, action)
             w == [s \in SUBSET S |-> IF s = {} THEN d0 ELSE d1]
  <2>0. e[1] = from /\ e[2] = input /\ e[3] = FALSE
    OBVIOUS
  <2>1. AddCases(e, d0) = d1
    <3> HIDE DEF e, d0
    <3>1. AddCases(e, d0) = add_action(d0, e[1], e[2], action)
      BY <2>0, OneCase DEF AddCases
    <3>2. QED
      BY <2>0, <3>1
  <2> HIDE DEF e, d1
  <2>3. S = {e}
    BY <1>5 DEF e
  <2> HIDE DEF S
  <2>4. \A s \in SUBSET S : s = {} \/ s = {e}
    BY <2>3
  <2>5. (CHOOSE z \in {e} : TRUE) = e
    OBVIOUS
  <2>6. R(w)
    BY <2>1, <2>4, <2>5
  <2>7. R(u)
    BY <2>6
  <2> HIDE DEF u, d1
  <2>8. u[S] = d1
    <3>1. u[{}] = d0
      BY <2>7
    <3>2. S \ {e} = {}
      BY <2>3
    <3>3. QED
      BY <2>1, <2>3, <2>5, <2>7, <3>1, <3>2
  <2>9. QED
    BY <1>2, <2>8 DEF d1
<1>6. QED
  BY <1>4, <1>5 DEF r

\* Without optional inputs that is all with does.
LEMMA WithIs ==
    ASSUME NEW b, Built(b), NEW action
    PROVE  LET d == with(b, action).dfa
           IN  /\ b.last_edges = {} => d = b.dfa
               /\ \A from, input : b.last_edges = {<<from, input, FALSE>>} =>
                     d = add_action(b.dfa, from, input, action)
<1> DEFINE c == push_optional_prefixes(b)
<1>1. c = [b EXCEPT !.optional_prefixes = <<>>]
  <2>1. DOMAIN b.optional_prefixes = {}
    BY DEF Built
  <2>2. QED
    BY <2>1 DEF push_optional_prefixes, FoldLeft, MapThenFoldSet
<1>2. Built(c) /\ c.dfa = b.dfa /\ c.last_edges = b.last_edges
  BY <1>1 DEF Built
<1> HIDE DEF c
<1>3. with(b, action) = AddToLastEdges(c, action)
  BY DEF with, c
<1> DEFINE r == AddToLastEdges(c, action)
<1>4. /\ c.last_edges = {} => r.dfa = c.dfa
      /\ \A from, input : c.last_edges = {<<from, input, FALSE>>} =>
            r.dfa = add_action(c.dfa, from, input, action)
  BY <1>2, LastEdgesIs
<1> HIDE DEF r
<1>5. with(b, action) = r
  BY <1>3 DEF r
<1>6. QED
  BY <1>2, <1>4, <1>5

LEMMA WithKept ==
    ASSUME NEW b, Built(b), NEW action
    PROVE  Kept(with(b, action).dfa)
<1>1. CASE b.last_edges = {}
  BY <1>1, WithIs DEF Built
<1>2. ASSUME NEW from \in FreeStates, NEW input, b.last_edges = {<<from, input, FALSE>>}
      PROVE  Kept(with(b, action).dfa)
  <2>1. Kept(add_action(b.dfa, from, input, action))
    BY ActionKept DEF Built
  <2>2. with(b, action).dfa = add_action(b.dfa, from, input, action)
    BY <1>2, WithIs
  <2>3. QED
    BY <2>1, <2>2
<1>3. QED
  BY <1>1, <1>2 DEF Built

LEMMA NameKept ==
    ASSUME NEW d, Kept(d), NEW name \in HeaderNames, NEW mid
    PROVE  Kept(InsertName(d, name, mid))
<1> DEFINE coded == with(push(start_pattern(d, S_NAME), Huff[name]), capture(mid)).dfa
<1>1. Huff[name] \in Seq(0..255) /\ Plain[name] \in Seq(0..255)
  BY SpellingOK
<1>2. S_NAME \in FreeStates /\ S_NAME_PLAIN \in FreeStates
  BY DEF FreeStates
<1>3. Kept(coded)
  <2>1. Built(start_pattern(d, S_NAME))
    BY <1>2, StartBuilt
  <2>2. Built(push(start_pattern(d, S_NAME), Huff[name]))
    BY <1>1, <2>1, PushBuilt
  <2>3. QED
    BY <2>2, WithKept
<1> HIDE DEF coded
<1>4. Built(start_pattern(coded, S_NAME_PLAIN))
  BY <1>2, <1>3, StartBuilt
<1>5. Built(push(start_pattern(coded, S_NAME_PLAIN), Plain[name]))
  BY <1>1, <1>4, PushBuilt
<1>6. Kept(with(push(start_pattern(coded, S_NAME_PLAIN), Plain[name]), capture(mid)).dfa)
  BY <1>5, WithKept
<1>7. QED
  BY <1>6 DEF InsertName, coded

-----------------------------------------------------------------------------
(* The rows.                                                                 *)

\* Out of state st there is an edge for c if c is in A, and it is e.
Row(edges, st, c, A, e) ==
    /\ <<st, c>> \in DOMAIN edges <=> c \in A
    /\ c \in A => edges[<<st, c>>] = e

LEMMA OverRow ==
    ASSUME NEW f, NEW g, NEW st, NEW c, NEW A, NEW B, NEW e, Row(f, st, c, A, e), Row(g, st, c, B, e)
    PROVE  Row(Over(f, g), st, c, A \cup B, e)
<1> DEFINE x == <<st, c>>
           o == Over(f, g)
<1>1. (x \in DOMAIN f <=> c \in A) /\ (c \in A => f[x] = e)
  BY DEF Row
<1>2. (x \in DOMAIN g <=> c \in B) /\ (c \in B => g[x] = e)
  BY DEF Row
<1> HIDE DEF x
<1>3. /\ DOMAIN o = DOMAIN f \cup DOMAIN g
      /\ \A z \in DOMAIN f : o[z] = f[z]
      /\ \A z \in DOMAIN g : z \notin DOMAIN f => o[z] = g[z]
  BY OverFacts
<1> HIDE DEF o
<1>4. (x \in DOMAIN o <=> c \in A \cup B) /\ (c \in A \cup B => o[x] = e)
  BY <1>1, <1>2, <1>3
<1>5. QED
  BY <1>4 DEF Row, o, x

LEMMA OnlyRow ==
    ASSUME NEW from, NEW b, NEW y, NEW st, NEW c, NEW e, st = from /\ c = b => y = e
    PROVE  Row(Only(<<from, b>>, y), st, c, IF st = from THEN {b} ELSE {}, e)
<1>1. DOMAIN Only(<<from, b>>, y) = {<<from, b>>} /\ Only(<<from, b>>, y)[<<from, b>>] = y
  BY DEF Only
<1>2. <<st, c>> = <<from, b>> <=> st = from /\ c = b
  OBVIOUS
<1>3. QED
  BY <1>1, <1>2 DEF Row

\* The edge of an integer's first byte.
IntEdge(base, max, to, cont, kind, flags, c) ==
    IF c = base + max THEN Edge(cont, Action("IntStart", max, {}))
                      ELSE Edge(to, Action(kind, c - base, flags))

LEMMA IntRow ==
    ASSUME NEW from, NEW base, NEW least, NEW max,
           NEW to, NEW cont, NEW kind, NEW flags, NEW st, NEW c, NEW e,
           st = from /\ c \in (base + least)..(base + max) =>
              e = IntEdge(base, max, to, cont, kind, flags, c)
    PROVE  Row(IntEdges(from, base, least, max, to, cont, kind, flags), st, c,
               IF st = from THEN (base + least)..(base + max) ELSE {}, e)
<1> DEFINE f == IntEdges(from, base, least, max, to, cont, kind, flags)
           A == (base + least)..(base + max)
           E(x) == IF x[2] = base + max THEN Edge(cont, Action("IntStart", max, {}))
                                        ELSE Edge(to, Action(kind, x[2] - base, flags))
<1>1. f = [x \in {from} \X A |-> E(x)]
  BY DEF IntEdges
<1>2. E(<<st, c>>) = IntEdge(base, max, to, cont, kind, flags, c)
  BY DEF IntEdge
<1> HIDE DEF f, A, E
<1>3. <<st, c>> \in DOMAIN f <=> st = from /\ c \in A
  BY <1>1
<1>4. st = from /\ c \in A => f[<<st, c>>] = E(<<st, c>>)
  BY <1>1
<1>5. Row(f, st, c, IF st = from THEN A ELSE {}, e)
  BY <1>2, <1>3, <1>4 DEF Row, A
<1>6. QED
  BY <1>5 DEF f, A

LEMMA LiteralRow ==
    ASSUME NEW base \in Nat, NEW max \in Nat \ {0}, NEW cont, NEW flags, NEW st, NEW c, NEW e,
           st = S_FIELD /\ c = base => e = Edge(S_KEY_LEN, Action("LitName", 0, flags)),
           st = S_FIELD /\ c \in (base + 1)..(base + max) =>
              e = IntEdge(base, max, S_VAL_LEN, cont, "IdxName", flags, c)
    PROVE  Row(LiteralEdges(base, max, cont, flags), st, c,
               IF st = S_FIELD THEN base..(base + max) ELSE {}, e)
<1> DEFINE y == Edge(S_KEY_LEN, Action("LitName", 0, flags))
           f == Only(<<S_FIELD, base>>, y)
           g == IntEdges(S_FIELD, base, 1, max, S_VAL_LEN, cont, "IdxName", flags)
           A == IF st = S_FIELD THEN {base} ELSE {}
           B == IF st = S_FIELD THEN (base + 1)..(base + max) ELSE {}
<1>1. Row(f, st, c, A, e)
  <2> HIDE DEF y
  <2>1. st = S_FIELD /\ c = base => y = e
    BY DEF y
  <2>2. QED
    BY <2>1, OnlyRow
<1>2. Row(g, st, c, B, e)
  BY IntRow
<1>3. LiteralEdges(base, max, cont, flags) = Over(f, g)
  BY DEF LiteralEdges
<1>4. A \cup B = IF st = S_FIELD THEN base..(base + max) ELSE {}
  OBVIOUS
<1> HIDE DEF f, g, A, B
<1>5. Row(Over(f, g), st, c, A \cup B, e)
  BY <1>1, <1>2, OverRow
<1>6. QED
  BY <1>3, <1>4, <1>5

\* The row at which a representation begins.
FieldEdge(c) ==
    IF c = 128 THEN Edge(S_DEAD, Action("Err", 0, {}))
    ELSE IF c > 128 THEN IntEdge(128, 127, S_FIELD, S_IDX7_CONT, "Indexed", {}, c)
    ELSE IF c = 64 THEN Edge(S_KEY_LEN, Action("LitName", 0, {F_ADD_DT}))
    ELSE IF c > 64 THEN IntEdge(64, 63, S_VAL_LEN, S_IDX6_CONT, "IdxName", {F_ADD_DT}, c)
    ELSE IF c >= 32 THEN IntEdge(32, 31, S_FIELD, S_STG_CONT, "TableSize", {}, c)
    ELSE IF c = 16 \/ c = 0 THEN Edge(S_KEY_LEN, Action("LitName", 0, {}))
    ELSE IF c > 16 THEN IntEdge(16, 15, S_VAL_LEN, S_IDX4_CONT, "IdxName", {}, c)
    ELSE IntEdge(0, 15, S_VAL_LEN, S_IDX4_CONT, "IdxName", {}, c)

LEMMA FieldRow ==
    ASSUME NEW st, NEW c, NEW e, st = S_FIELD /\ c \in 0..255 => e = FieldEdge(c)
    PROVE  Row(insert_field_row, st, c, IF st = S_FIELD THEN 0..255 ELSE {}, e)
<1> DEFINE S(A) == IF st = S_FIELD THEN A ELSE {}
           y1 == Edge(S_DEAD, Action("Err", 0, {}))
           f1 == Only(<<S_FIELD, 128>>, y1)
           f2 == IntEdges(S_FIELD, 128, 1, 127, S_FIELD, S_IDX7_CONT, "Indexed", {})
           f3 == LiteralEdges(64, 63, S_IDX6_CONT, {F_ADD_DT})
           f4 == IntEdges(S_FIELD, 32, 0, 31, S_FIELD, S_STG_CONT, "TableSize", {})
           f5 == LiteralEdges(0, 15, S_IDX4_CONT, {})
           f6 == LiteralEdges(16, 15, S_IDX4_CONT, {})
<1>1. Row(f1, st, c, S({128}), e)
  <2>1. st = S_FIELD /\ c = 128 => y1 = e
    BY DEF FieldEdge
  <2> HIDE DEF y1
  <2>2. QED
    BY <2>1, OnlyRow, ZenonT(60)
<1>2. Row(f2, st, c, S((128 + 1)..(128 + 127)), e)
  <2>1. st = S_FIELD /\ c \in (128 + 1)..(128 + 127) =>
           e = IntEdge(128, 127, S_FIELD, S_IDX7_CONT, "Indexed", {}, c)
    BY DEF FieldEdge
  <2>2. QED
    BY <2>1, IntRow, ZenonT(60)
<1>3. Row(f3, st, c, S(64..(64 + 63)), e)
  <2>1. st = S_FIELD /\ c \in (64 + 1)..(64 + 63) =>
           e = IntEdge(64, 63, S_VAL_LEN, S_IDX6_CONT, "IdxName", {F_ADD_DT}, c)
    BY DEF FieldEdge
  <2>2. st = S_FIELD /\ c = 64 => e = Edge(S_KEY_LEN, Action("LitName", 0, {F_ADD_DT}))
    BY DEF FieldEdge
  <2>4. 64 \in Nat /\ 63 \in Nat \ {0}
    OBVIOUS
  <2>3. QED
    BY <2>1, <2>2, <2>4, LiteralRow
<1>4. Row(f4, st, c, S((32 + 0)..(32 + 31)), e)
  <2>1. st = S_FIELD /\ c \in (32 + 0)..(32 + 31) =>
           e = IntEdge(32, 31, S_FIELD, S_STG_CONT, "TableSize", {}, c)
    BY DEF FieldEdge
  <2>2. QED
    BY <2>1, IntRow
<1>5. Row(f5, st, c, S(0..(0 + 15)), e)
  <2>1. st = S_FIELD /\ c \in (0 + 1)..(0 + 15) =>
           e = IntEdge(0, 15, S_VAL_LEN, S_IDX4_CONT, "IdxName", {}, c)
    BY DEF FieldEdge
  <2>2. st = S_FIELD /\ c = 0 => e = Edge(S_KEY_LEN, Action("LitName", 0, {}))
    BY DEF FieldEdge
  <2>4. 0 \in Nat /\ 15 \in Nat \ {0}
    OBVIOUS
  <2>3. QED
    BY <2>1, <2>2, <2>4, LiteralRow
<1>6. Row(f6, st, c, S(16..(16 + 15)), e)
  <2>1. st = S_FIELD /\ c \in (16 + 1)..(16 + 15) =>
           e = IntEdge(16, 15, S_VAL_LEN, S_IDX4_CONT, "IdxName", {}, c)
    BY DEF FieldEdge
  <2>2. st = S_FIELD /\ c = 16 => e = Edge(S_KEY_LEN, Action("LitName", 0, {}))
    BY DEF FieldEdge
  <2>4. 16 \in Nat /\ 15 \in Nat \ {0}
    OBVIOUS
  <2>3. QED
    BY <2>1, <2>2, <2>4, LiteralRow
<1>7. insert_field_row = Over(f1, Over(f2, Over(f3, Over(f4, Over(f5, f6)))))
  BY DEF insert_field_row
<1>8. S({128}) \cup (S((128 + 1)..(128 + 127)) \cup (S(64..(64 + 63)) \cup
         (S((32 + 0)..(32 + 31)) \cup (S(0..(0 + 15)) \cup S(16..(16 + 15)))))) = S(0..255)
  OBVIOUS
<1> DEFINE A1 == S({128})
           A2 == S((128 + 1)..(128 + 127))
           A3 == S(64..(64 + 63))
           A4 == S((32 + 0)..(32 + 31))
           A5 == S(0..(0 + 15))
           A6 == S(16..(16 + 15))
<1> HIDE DEF f1, f2, f3, f4, f5, f6, A1, A2, A3, A4, A5, A6
<1>9. Row(Over(f5, f6), st, c, A5 \cup A6, e)
  BY <1>5, <1>6, OverRow DEF A5, A6
<1>10. Row(Over(f4, Over(f5, f6)), st, c, A4 \cup (A5 \cup A6), e)
  BY <1>4, <1>9, OverRow DEF A4
<1>11. Row(Over(f3, Over(f4, Over(f5, f6))), st, c, A3 \cup (A4 \cup (A5 \cup A6)), e)
  BY <1>3, <1>10, OverRow DEF A3
<1>12. Row(Over(f2, Over(f3, Over(f4, Over(f5, f6)))), st, c,
           A2 \cup (A3 \cup (A4 \cup (A5 \cup A6))), e)
  BY <1>2, <1>11, OverRow DEF A2
<1>13. Row(Over(f1, Over(f2, Over(f3, Over(f4, Over(f5, f6))))), st, c,
           A1 \cup (A2 \cup (A3 \cup (A4 \cup (A5 \cup A6)))), e)
  BY <1>1, <1>12, OverRow DEF A1
<1>14. A1 \cup (A2 \cup (A3 \cup (A4 \cup (A5 \cup A6)))) = S(0..255)
  BY <1>8 DEF A1, A2, A3, A4, A5, A6
<1>15. QED
  BY <1>7, <1>13, <1>14

\* The rows at which a string's length begins.
LengthStates == {S_KEY_LEN, S_VAL_LEN}
LengthEdge(st, c) ==
    IF st = S_KEY_LEN
    THEN IF c < 128 THEN IntEdge(0, 127, S_NAME_PLAIN, S_KEY_LEN_CONT, "KeyLen", {}, c)
         ELSE IntEdge(128, 127, S_NAME, S_KEY_LEN_CONT_HUFF, "KeyLen", {F_HUFF}, c)
    ELSE IF c < 128 THEN IntEdge(0, 127, S_FIELD, S_VAL_LEN_CONT, "ValLen", {}, c)
         ELSE IntEdge(128, 127, S_FIELD, S_VAL_LEN_CONT_HUFF, "ValLen", {F_HUFF}, c)

LEMMA LengthRows ==
    ASSUME NEW st, NEW c, NEW e, st \in LengthStates /\ c \in 0..255 => e = LengthEdge(st, c)
    PROVE  Row(insert_length_rows, st, c, IF st \in LengthStates THEN 0..255 ELSE {}, e)
<1> DEFINE f1 == IntEdges(S_KEY_LEN, 0, 0, 127, S_NAME_PLAIN, S_KEY_LEN_CONT, "KeyLen", {})
           f2 == IntEdges(S_KEY_LEN, 128, 0, 127, S_NAME, S_KEY_LEN_CONT_HUFF, "KeyLen", {F_HUFF})
           f3 == IntEdges(S_VAL_LEN, 0, 0, 127, S_FIELD, S_VAL_LEN_CONT, "ValLen", {})
           f4 == IntEdges(S_VAL_LEN, 128, 0, 127, S_FIELD, S_VAL_LEN_CONT_HUFF, "ValLen", {F_HUFF})
           A1 == IF st = S_KEY_LEN THEN (0 + 0)..(0 + 127) ELSE {}
           A2 == IF st = S_KEY_LEN THEN (128 + 0)..(128 + 127) ELSE {}
           A3 == IF st = S_VAL_LEN THEN (0 + 0)..(0 + 127) ELSE {}
           A4 == IF st = S_VAL_LEN THEN (128 + 0)..(128 + 127) ELSE {}
<1>0. S_KEY_LEN # S_VAL_LEN
  BY DEF S_KEY_LEN, S_VAL_LEN
<1>1. Row(f1, st, c, A1, e)
  <2>1. st = S_KEY_LEN /\ c \in (0 + 0)..(0 + 127) =>
           e = IntEdge(0, 127, S_NAME_PLAIN, S_KEY_LEN_CONT, "KeyLen", {}, c)
    BY DEF LengthEdge, LengthStates
  <2>2. QED
    BY <2>1, IntRow
<1>2. Row(f2, st, c, A2, e)
  <2>1. st = S_KEY_LEN /\ c \in (128 + 0)..(128 + 127) =>
           e = IntEdge(128, 127, S_NAME, S_KEY_LEN_CONT_HUFF, "KeyLen", {F_HUFF}, c)
    BY DEF LengthEdge, LengthStates
  <2>2. QED
    BY <2>1, IntRow, ZenonT(60)
<1>3. Row(f3, st, c, A3, e)
  <2>1. st = S_VAL_LEN /\ c \in (0 + 0)..(0 + 127) =>
           e = IntEdge(0, 127, S_FIELD, S_VAL_LEN_CONT, "ValLen", {}, c)
    BY <1>0 DEF LengthEdge, LengthStates
  <2>2. QED
    BY <2>1, IntRow
<1>4. Row(f4, st, c, A4, e)
  <2>1. st = S_VAL_LEN /\ c \in (128 + 0)..(128 + 127) =>
           e = IntEdge(128, 127, S_FIELD, S_VAL_LEN_CONT_HUFF, "ValLen", {F_HUFF}, c)
    BY <1>0 DEF LengthEdge, LengthStates
  <2>2. QED
    BY <2>1, IntRow, ZenonT(60)
<1>5. insert_length_rows = Over(f1, Over(f2, Over(f3, f4)))
  BY DEF insert_length_rows
<1>6. A1 \cup (A2 \cup (A3 \cup A4)) = IF st \in LengthStates THEN 0..255 ELSE {}
  BY DEF LengthStates
<1> HIDE DEF f1, f2, f3, f4, A1, A2, A3, A4
<1>7. Row(Over(f3, f4), st, c, A3 \cup A4, e)
  BY <1>3, <1>4, OverRow
<1>8. Row(Over(f2, Over(f3, f4)), st, c, A2 \cup (A3 \cup A4), e)
  BY <1>2, <1>7, OverRow
<1>9. Row(Over(f1, Over(f2, Over(f3, f4))), st, c, A1 \cup (A2 \cup (A3 \cup A4)), e)
  BY <1>1, <1>8, OverRow
<1>10. QED
  BY <1>5, <1>6, <1>9

\* The rows in which integers carry on.
ContEdge(from, kind, to, flags, c) ==
    IF c < 128 THEN Edge(to, Action(kind, 0, flags \union {F_CONT}))
               ELSE Edge(from, Action("IntCont", 0, {}))

LEMMA ContRow ==
    ASSUME NEW from, NEW kind, NEW to, NEW flags, NEW st, NEW c, NEW e,
           st = from /\ c \in 0..255 => e = ContEdge(from, kind, to, flags, c)
    PROVE  Row(ContEdges(from, kind, to, flags), st, c, IF st = from THEN 0..255 ELSE {}, e)
<1> DEFINE f == ContEdges(from, kind, to, flags)
           A == 0..255
           E(x) == IF x[2] < 128 THEN Edge(to, Action(kind, 0, flags \union {F_CONT}))
                                 ELSE Edge(from, Action("IntCont", 0, {}))
<1>1. f = [x \in {from} \X A |-> E(x)]
  BY DEF ContEdges
<1>2. E(<<st, c>>) = ContEdge(from, kind, to, flags, c)
  BY DEF ContEdge
<1> HIDE DEF f, A, E
<1>3. <<st, c>> \in DOMAIN f <=> st = from /\ c \in A
  BY <1>1
<1>4. st = from /\ c \in A => f[<<st, c>>] = E(<<st, c>>)
  BY <1>1
<1>5. Row(f, st, c, IF st = from THEN A ELSE {}, e)
  BY <1>2, <1>3, <1>4 DEF Row, A
<1>6. QED
  BY <1>5 DEF f, A

\* What an integer is that carries on in a state.
ContStates == {S_IDX7_CONT, S_IDX6_CONT, S_IDX4_CONT, S_STG_CONT, S_KEY_LEN_CONT,
               S_KEY_LEN_CONT_HUFF, S_VAL_LEN_CONT, S_VAL_LEN_CONT_HUFF}
EdgeOfCont(st, c) ==
    CASE st = S_IDX7_CONT -> ContEdge(st, "Indexed", S_FIELD, {}, c)
      [] st = S_IDX6_CONT -> ContEdge(st, "IdxName", S_VAL_LEN, {F_ADD_DT}, c)
      [] st = S_IDX4_CONT -> ContEdge(st, "IdxName", S_VAL_LEN, {}, c)
      [] st = S_STG_CONT -> ContEdge(st, "TableSize", S_FIELD, {}, c)
      [] st = S_KEY_LEN_CONT -> ContEdge(st, "KeyLen", S_NAME_PLAIN, {}, c)
      [] st = S_KEY_LEN_CONT_HUFF -> ContEdge(st, "KeyLen", S_NAME, {F_HUFF}, c)
      [] st = S_VAL_LEN_CONT -> ContEdge(st, "ValLen", S_FIELD, {}, c)
      [] st = S_VAL_LEN_CONT_HUFF -> ContEdge(st, "ValLen", S_FIELD, {F_HUFF}, c)

LEMMA ContRows ==
    ASSUME NEW st, NEW c, NEW e, st \in ContStates /\ c \in 0..255 => e = EdgeOfCont(st, c)
    PROVE  Row(insert_continuation_rows, st, c, IF st \in ContStates THEN 0..255 ELSE {}, e)
<1> DEFINE f1 == ContEdges(S_IDX7_CONT, "Indexed", S_FIELD, {})
           f2 == ContEdges(S_IDX6_CONT, "IdxName", S_VAL_LEN, {F_ADD_DT})
           f3 == ContEdges(S_IDX4_CONT, "IdxName", S_VAL_LEN, {})
           f4 == ContEdges(S_STG_CONT, "TableSize", S_FIELD, {})
           f5 == ContEdges(S_KEY_LEN_CONT, "KeyLen", S_NAME_PLAIN, {})
           f6 == ContEdges(S_KEY_LEN_CONT_HUFF, "KeyLen", S_NAME, {F_HUFF})
           f7 == ContEdges(S_VAL_LEN_CONT, "ValLen", S_FIELD, {})
           f8 == ContEdges(S_VAL_LEN_CONT_HUFF, "ValLen", S_FIELD, {F_HUFF})
           A(x) == IF st = x THEN 0..255 ELSE {}
<1>0. /\ S_IDX7_CONT = 7 /\ S_IDX6_CONT = 8 /\ S_IDX4_CONT = 9 /\ S_STG_CONT = 10
      /\ S_KEY_LEN_CONT = 11 /\ S_KEY_LEN_CONT_HUFF = 12
      /\ S_VAL_LEN_CONT = 13 /\ S_VAL_LEN_CONT_HUFF = 14
  BY DEF S_IDX7_CONT, S_IDX6_CONT, S_IDX4_CONT, S_STG_CONT, S_KEY_LEN_CONT,
         S_KEY_LEN_CONT_HUFF, S_VAL_LEN_CONT, S_VAL_LEN_CONT_HUFF
<1>1. /\ st = S_IDX7_CONT => EdgeOfCont(st, c) = ContEdge(S_IDX7_CONT, "Indexed", S_FIELD, {}, c)
      /\ st = S_IDX6_CONT => EdgeOfCont(st, c) = ContEdge(S_IDX6_CONT, "IdxName", S_VAL_LEN, {F_ADD_DT}, c)
      /\ st = S_IDX4_CONT => EdgeOfCont(st, c) = ContEdge(S_IDX4_CONT, "IdxName", S_VAL_LEN, {}, c)
      /\ st = S_STG_CONT => EdgeOfCont(st, c) = ContEdge(S_STG_CONT, "TableSize", S_FIELD, {}, c)
  BY <1>0 DEF EdgeOfCont
<1>2. /\ st = S_KEY_LEN_CONT => EdgeOfCont(st, c) = ContEdge(S_KEY_LEN_CONT, "KeyLen", S_NAME_PLAIN, {}, c)
      /\ st = S_KEY_LEN_CONT_HUFF =>
            EdgeOfCont(st, c) = ContEdge(S_KEY_LEN_CONT_HUFF, "KeyLen", S_NAME, {F_HUFF}, c)
      /\ st = S_VAL_LEN_CONT => EdgeOfCont(st, c) = ContEdge(S_VAL_LEN_CONT, "ValLen", S_FIELD, {}, c)
      /\ st = S_VAL_LEN_CONT_HUFF =>
            EdgeOfCont(st, c) = ContEdge(S_VAL_LEN_CONT_HUFF, "ValLen", S_FIELD, {F_HUFF}, c)
  BY <1>0 DEF EdgeOfCont
<1>3. c \in 0..255 /\ st \in ContStates => e = EdgeOfCont(st, c)
  OBVIOUS
<1>4. {S_IDX7_CONT, S_IDX6_CONT, S_IDX4_CONT, S_STG_CONT, S_KEY_LEN_CONT, S_KEY_LEN_CONT_HUFF,
       S_VAL_LEN_CONT, S_VAL_LEN_CONT_HUFF} = ContStates
  BY DEF ContStates
<1>5. Row(f1, st, c, A(S_IDX7_CONT), e)
  BY <1>1, <1>3, <1>4, ContRow, ZenonT(60)
<1>6. Row(f2, st, c, A(S_IDX6_CONT), e)
  BY <1>1, <1>3, <1>4, ContRow
<1>7. Row(f3, st, c, A(S_IDX4_CONT), e)
  BY <1>1, <1>3, <1>4, ContRow
<1>8. Row(f4, st, c, A(S_STG_CONT), e)
  BY <1>1, <1>3, <1>4, ContRow
<1>9. Row(f5, st, c, A(S_KEY_LEN_CONT), e)
  BY <1>2, <1>3, <1>4, ContRow, ZenonT(60)
<1>10. Row(f6, st, c, A(S_KEY_LEN_CONT_HUFF), e)
  BY <1>2, <1>3, <1>4, ContRow, SMTT(30)
<1>11. Row(f7, st, c, A(S_VAL_LEN_CONT), e)
  BY <1>2, <1>3, <1>4, ContRow
<1>12. Row(f8, st, c, A(S_VAL_LEN_CONT_HUFF), e)
  BY <1>2, <1>3, <1>4, ContRow, ZenonT(60)
<1>13. A(S_IDX7_CONT) \cup (A(S_IDX6_CONT) \cup (A(S_IDX4_CONT) \cup (A(S_STG_CONT) \cup
          (A(S_KEY_LEN_CONT) \cup (A(S_KEY_LEN_CONT_HUFF) \cup (A(S_VAL_LEN_CONT) \cup
           A(S_VAL_LEN_CONT_HUFF))))))) = IF st \in ContStates THEN 0..255 ELSE {}
  BY <1>4
<1>14. insert_continuation_rows =
          Over(f1, Over(f2, Over(f3, Over(f4, Over(f5, Over(f6, Over(f7, f8)))))))
  BY DEF insert_continuation_rows
<1> HIDE DEF f1, f2, f3, f4, f5, f6, f7, f8, A
<1> DEFINE g7 == Over(f7, f8)
           g6 == Over(f6, g7)
           g5 == Over(f5, g6)
           g4 == Over(f4, g5)
           B7 == A(S_VAL_LEN_CONT) \cup A(S_VAL_LEN_CONT_HUFF)
           B6 == A(S_KEY_LEN_CONT_HUFF) \cup B7
           B5 == A(S_KEY_LEN_CONT) \cup B6
           B4 == A(S_STG_CONT) \cup B5
<1>15. Row(g7, st, c, B7, e)
  BY <1>11, <1>12, OverRow
<1> HIDE DEF g7, B7
<1>16. Row(g6, st, c, B6, e)
  BY <1>10, <1>15, OverRow
<1> HIDE DEF g6, B6
<1>17. Row(g5, st, c, B5, e)
  BY <1>9, <1>16, OverRow
<1> HIDE DEF g5, B5
<1>18. Row(g4, st, c, B4, e)
  BY <1>8, <1>17, OverRow
<1> HIDE DEF g4, B4
<1>19. Row(Over(f3, g4), st, c, A(S_IDX4_CONT) \cup B4, e)
  BY <1>7, <1>18, OverRow
<1>20. Row(Over(f2, Over(f3, g4)), st, c, A(S_IDX6_CONT) \cup (A(S_IDX4_CONT) \cup B4), e)
  BY <1>6, <1>19, OverRow
<1>21. Row(Over(f1, Over(f2, Over(f3, g4))), st, c,
           A(S_IDX7_CONT) \cup (A(S_IDX6_CONT) \cup (A(S_IDX4_CONT) \cup B4)), e)
  BY <1>5, <1>20, OverRow
<1>22. QED
  BY <1>13, <1>14, <1>21 DEF g4, g5, g6, g7, B4, B5, B6, B7

RowEdge(st, c) ==
    IF st = S_FIELD THEN FieldEdge(c)
    ELSE IF st \in LengthStates THEN LengthEdge(st, c) ELSE EdgeOfCont(st, c)

LEMMA AllRows ==
    ASSUME NEW st, NEW c
    PROVE  Row(dfa.edges, st, c, IF st \in RowStates THEN 0..255 ELSE {}, RowEdge(st, c))
<1> DEFINE f1 == insert_field_row
           f2 == insert_length_rows
           f3 == insert_continuation_rows
           A1 == IF st = S_FIELD THEN 0..255 ELSE {}
           A2 == IF st \in LengthStates THEN 0..255 ELSE {}
           A3 == IF st \in ContStates THEN 0..255 ELSE {}
           e == RowEdge(st, c)
<1>0. /\ S_FIELD \notin LengthStates /\ S_FIELD \notin ContStates
      /\ LengthStates \cap ContStates = {}
      /\ RowStates = {S_FIELD} \cup (LengthStates \cup ContStates)
  BY DEF LengthStates, ContStates, RowStates, S_FIELD, S_KEY_LEN, S_VAL_LEN, S_IDX7_CONT,
         S_IDX6_CONT, S_IDX4_CONT, S_STG_CONT, S_KEY_LEN_CONT, S_KEY_LEN_CONT_HUFF,
         S_VAL_LEN_CONT, S_VAL_LEN_CONT_HUFF
<1>1. /\ st = S_FIELD => e = FieldEdge(c)
      /\ st \in LengthStates => e = LengthEdge(st, c)
      /\ st \in ContStates => e = EdgeOfCont(st, c)
  BY <1>0 DEF RowEdge
<1> HIDE DEF e
<1>2. Row(f1, st, c, A1, e)
  BY <1>1, FieldRow
<1>3. Row(f2, st, c, A2, e)
  BY <1>1, LengthRows
<1>4. Row(f3, st, c, A3, e)
  BY <1>1, ContRows
<1>5. dfa.edges = Over(f1, Over(f2, f3))
  BY DEF dfa
<1>6. A1 \cup (A2 \cup A3) = IF st \in RowStates THEN 0..255 ELSE {}
  BY <1>0
<1> HIDE DEF f1, f2, f3, A1, A2, A3
<1>7. Row(Over(f2, f3), st, c, A2 \cup A3, e)
  BY <1>3, <1>4, OverRow
<1>8. Row(Over(f1, Over(f2, f3)), st, c, A1 \cup (A2 \cup A3), e)
  BY <1>2, <1>7, OverRow
<1>9. QED
  BY <1>5, <1>6, <1>8 DEF e

LEMMA RowsInitially == Kept(dfa)
<1>1. {"num_states", "edges"} \subseteq DOMAIN dfa /\ dfa.num_states = S_RESERVED
  BY DEF dfa
<1>2. ASSUME NEW s \in FreeStates, NEW c PROVE <<s, c>> \notin DOMAIN dfa.edges
  <2>1. s \notin RowStates
    BY NoRowFree
  <2>2. QED
    BY <2>1, AllRows DEF Row
<1>3. RowsKept(dfa.edges)
  BY <1>2 DEF RowsKept
<1>4. QED
  BY <1>1, <1>3 DEF Kept, S_RESERVED

-----------------------------------------------------------------------------
(* The parser that is loaded.                                                *)

Loadable(p) == {"dfa", "num_matches", "captures"} \subseteq DOMAIN p /\ Kept(p.dfa)

LEMMA CaptureKept ==
    ASSUME NEW p, Loadable(p), NEW name \in HeaderNames
    PROVE  Loadable(capture_hdr(p, name))
<1>1. Kept(InsertName(p.dfa, name, p.num_matches))
  BY NameKept DEF Loadable
<1>2. QED
  BY <1>1 DEF capture_hdr, Loadable

-----------------------------------------------------------------------------
(* The names captured are a trie off the two roots.                          *)

Roots == {S_NAME, S_NAME_PLAIN}
Bytes == 0..255

\* What a state stands for: the root it is reached from, and the bytes read since.
Labels == {x \in Seq(Nat) : x # <<>>}
Plus(x, c) == Append(x, c)

\* With labels L of its states, the DFA goes on from a label by each byte it has
\* an edge for, has a state for no other label, and captures the labels of K.
ActionAt(K, x) == IF x \in DOMAIN K THEN capture(K[x]) ELSE NoAction
Labelled(n, L) ==
    /\ n \in Nat /\ n >= S_RESERVED /\ Roots \subseteq DOMAIN L
    /\ \A r \in Roots : L[r] = <<r>>
    /\ \A t \in DOMAIN L : t \in FreeStates /\ t < n /\ L[t] \in Labels
    /\ \A t, u \in DOMAIN L : L[t] = L[u] => t = u
GoesOn(edges, L, K) ==
    /\ \A s, c : <<s, c>> \in DOMAIN edges /\ s \notin RowStates => s \in DOMAIN L /\ c \in Bytes
    /\ \A s \in DOMAIN L, c \in Bytes : <<s, c>> \in DOMAIN edges =>
          \E t \in DOMAIN L \ Roots :
             L[t] = Plus(L[s], c) /\ edges[<<s, c>>] = Edge(t, ActionAt(K, L[t]))
Reached(edges, L, K) ==
    /\ \A t \in DOMAIN L \ Roots : \E s \in DOMAIN L, c \in Bytes :
          L[t] = Plus(L[s], c) /\ <<s, c>> \in DOMAIN edges
    /\ \A x \in DOMAIN K : \E t \in DOMAIN L \ Roots : L[t] = x
IsTrie(edges, n, L, K) == Labelled(n, L) /\ GoesOn(edges, L, K) /\ Reached(edges, L, K)

\* One value is added to a function.
OneMore(g, x, y, f) == DOMAIN g = DOMAIN f \cup {x} /\ g[x] = y /\ \A z \in DOMAIN f : g[z] = f[z]

LEMMA AddedFacts ==
    ASSUME NEW x, NEW y, NEW f, x \notin DOMAIN f
    PROVE  OneMore(Over(Only(x, y), f), x, y, f)
<1> DEFINE o == Only(x, y)
<1>1. DOMAIN o = {x} /\ o[x] = y
  BY OnlyFacts
<1>2. /\ DOMAIN Over(o, f) = DOMAIN o \cup DOMAIN f
      /\ \A z \in DOMAIN o : Over(o, f)[z] = o[z]
      /\ \A z \in DOMAIN f : z \notin DOMAIN o => Over(o, f)[z] = f[z]
  BY OverFacts
<1> HIDE DEF o
<1> DEFINE g == Over(o, f)
<1>3. /\ DOMAIN g = DOMAIN o \cup DOMAIN f
      /\ \A z \in DOMAIN o : g[z] = o[z]
      /\ \A z \in DOMAIN f : z \notin DOMAIN o => g[z] = f[z]
  BY <1>2
<1> HIDE DEF g
<1>4. OneMore(g, x, y, f)
  BY <1>1, <1>3 DEF OneMore
<1>5. QED
  BY <1>4 DEF g, o

\* A label tells how it was made.
LEMMA PlusSame ==
    \A x, y \in Labels : \A c, e : Plus(x, c) = Plus(y, e) => x = y /\ c = e
<1> TAKE x, y \in Labels
<1> TAKE c, e
<1> HAVE Plus(x, c) = Plus(y, e)
<1> DEFINE S == Nat \cup {c, e}
<1>1. x \in Seq(Nat) /\ y \in Seq(Nat) /\ Nat \subseteq S
  BY DEF Labels
<1>2. x \in Seq(S) /\ Len(x) \in Nat /\ c \in S /\ y \in Seq(S) /\ Len(y) \in Nat /\ e \in S
  BY <1>1
<1> HIDE DEF S
<1>3. /\ Len(Append(x, c)) = Len(x) + 1
      /\ \A j \in 1..Len(x) : Append(x, c)[j] = x[j]
      /\ Append(x, c)[Len(x) + 1] = c
  BY <1>2, AppendProperties
<1>4. /\ Len(Append(y, e)) = Len(y) + 1
      /\ \A j \in 1..Len(y) : Append(y, e)[j] = y[j]
      /\ Append(y, e)[Len(y) + 1] = e
  BY <1>2, AppendProperties
<1>5. Append(x, c) = Append(y, e)
  BY DEF Plus
<1>6. Len(x) = Len(y)
  BY <1>2, <1>3, <1>4, <1>5
<1>7. \A j \in 1..Len(x) : x[j] = y[j]
  BY <1>3, <1>4, <1>5, <1>6
<1>8. x = y
  BY <1>2, <1>6, <1>7, SeqEqual
<1>9. QED
  BY <1>3, <1>4, <1>5, <1>6, <1>8

LEMMA PlusFacts ==
    ASSUME NEW x \in Labels, NEW c \in Bytes
    PROVE  Plus(x, c) \in Labels /\ \A r : Plus(x, c) # <<r>>
<1>1. x \in Seq(Nat) /\ Len(x) >= 1 /\ c \in Nat
  BY EmptySeq DEF Labels, Bytes
<1>2. Append(x, c) \in Seq(Nat) /\ Len(Append(x, c)) = Len(x) + 1
  BY <1>1, AppendProperties
<1>3. Append(x, c) # <<>> /\ \A r : Append(x, c) # <<r>>
  BY <1>1, <1>2
<1>4. QED
  BY <1>2, <1>3 DEF Labels, Plus

LEMMA RootFacts ==
    /\ \A r \in Roots : r \in Nat /\ r < S_RESERVED /\ r \in FreeStates /\ <<r>> \in Labels
    /\ \A n \in Nat : n >= S_RESERVED => n \in FreeStates /\ n \notin Roots
  BY DEF Roots, S_NAME, S_NAME_PLAIN, S_RESERVED, FreeStates, Labels

\* A state there is no edge to has no label of its own.
LEMMA NoSuchLabel ==
    ASSUME NEW edges, NEW n, NEW L, NEW K, IsTrie(edges, n, L, K),
           NEW s \in DOMAIN L, NEW c \in Bytes, <<s, c>> \notin DOMAIN edges
    PROVE  /\ \A t \in DOMAIN L : L[t] # Plus(L[s], c)
           /\ Plus(L[s], c) \notin DOMAIN K
<1>1. ASSUME NEW t \in DOMAIN L, L[t] = Plus(L[s], c) PROVE FALSE
  <2>1. L[s] \in Labels
    BY DEF IsTrie, Labelled
  <2>2. t \notin Roots
    BY <1>1, <2>1, PlusFacts DEF IsTrie, Labelled
  <2>3. PICK u \in DOMAIN L, e \in Bytes : L[t] = Plus(L[u], e) /\ <<u, e>> \in DOMAIN edges
    BY <2>2 DEF IsTrie, Reached
  <2>4. L[u] \in Labels
    BY DEF IsTrie, Labelled
  <2>7. Plus(L[u], e) = Plus(L[s], c)
    BY <1>1, <2>3
  <2>5. L[u] = L[s] /\ e = c
    BY <2>1, <2>4, <2>7, PlusSame
  <2>6. QED
    BY <2>3, <2>5 DEF IsTrie, Labelled
<1>2. QED
  BY <1>1 DEF IsTrie, Reached

\* One more state, for one more byte.
LEMMA Grown ==
    ASSUME NEW edges, NEW n, NEW L, NEW K, IsTrie(edges, n, L, K),
           NEW s \in DOMAIN L, NEW c \in Bytes, <<s, c>> \notin DOMAIN edges
    PROVE  LET more == Over(Only(<<s, c>>, Edge(n, NoAction)), edges)
               M == Over(Only(n, Plus(L[s], c)), L)
           IN  /\ IsTrie(more, n + 1, M, K)
               /\ n \in DOMAIN M /\ M[n] = Plus(L[s], c) /\ <<s, c>> \in DOMAIN more
               /\ s \in DOMAIN M /\ M[s] = L[s]
<1> DEFINE x == Plus(L[s], c)
           y == <<s, c>>
           e == Edge(n, NoAction)
           more == Over(Only(y, e), edges)
           M == Over(Only(n, x), L)
<1>1. Labelled(n, L) /\ GoesOn(edges, L, K) /\ Reached(edges, L, K)
  BY DEF IsTrie
<1>2. n \in Nat /\ n >= S_RESERVED /\ n \in FreeStates /\ n \notin Roots /\ n \notin DOMAIN L
  <2>1. n \in Nat /\ n >= S_RESERVED /\ \A t \in DOMAIN L : t < n
    BY <1>1 DEF Labelled
  <2>2. n \notin DOMAIN L
    <3>1. ~(n < n)
      BY <2>1
    <3>2. QED
      BY <2>1, <3>1
  <2>3. QED
    BY <2>1, <2>2, RootFacts
<1>3. x \in Labels /\ \A t \in DOMAIN L : L[t] # x
  <2>1. L[s] \in Labels
    BY <1>1 DEF Labelled
  <2>2. x \in Labels
    BY <2>1, PlusFacts
  <2>3. QED
    BY <2>2, NoSuchLabel
<1>4. x \notin DOMAIN K
  BY NoSuchLabel
<1>5. /\ DOMAIN more = DOMAIN edges \cup {y} /\ more[y] = e
      /\ \A z \in DOMAIN edges : more[z] = edges[z]
  <2>1. OneMore(more, y, e, edges)
    BY AddedFacts
  <2> HIDE DEF more
  <2>2. QED
    BY <2>1 DEF OneMore
<1>6. DOMAIN M = DOMAIN L \cup {n} /\ M[n] = x /\ \A t \in DOMAIN L : M[t] = L[t]
  <2>1. OneMore(M, n, x, L)
    BY <1>2, AddedFacts
  <2> HIDE DEF M
  <2>2. QED
    BY <2>1 DEF OneMore
<1> HIDE DEF more, M, x
<1>7. Labelled(n + 1, M)
  <2>1. n + 1 \in Nat /\ n + 1 >= S_RESERVED /\ Roots \subseteq DOMAIN M
    BY <1>1, <1>2, <1>6 DEF Labelled, S_RESERVED
  <2>2. \A r \in Roots : M[r] = <<r>>
    BY <1>1, <1>6 DEF Labelled
  <2>3. ASSUME NEW t \in DOMAIN M PROVE t \in FreeStates /\ t < n + 1 /\ M[t] \in Labels
    <3>1. CASE t = n
      BY <1>2, <1>3, <1>6, <3>1
    <3>2. CASE t \in DOMAIN L
      <4>1. t \in FreeStates /\ t < n /\ M[t] \in Labels
        BY <1>1, <1>6, <3>2 DEF Labelled
      <4>2. t \in Nat
        BY <4>1, RootFacts DEF FreeStates, Roots
      <4>3. QED
        BY <1>2, <4>1, <4>2
    <3>3. QED
      BY <1>6, <3>1, <3>2
  <2>4. ASSUME NEW t \in DOMAIN M, NEW u \in DOMAIN M, M[t] = M[u] PROVE t = u
    <3>1. (t = n \/ t \in DOMAIN L) /\ (u = n \/ u \in DOMAIN L)
      BY <1>6
    <3>2. QED
      BY <1>1, <1>3, <1>6, <2>4, <3>1 DEF Labelled
  <2>5. QED
    BY <2>1, <2>2, <2>3, <2>4 DEF Labelled
<1>8. GoesOn(more, M, K)
  <2>1. ASSUME NEW t, NEW b, <<t, b>> \in DOMAIN more, t \notin RowStates
        PROVE  t \in DOMAIN M /\ b \in Bytes
    BY <1>1, <1>5, <1>6, <2>1 DEF GoesOn, y
  <2>2. ASSUME NEW t \in DOMAIN M, NEW b \in Bytes, <<t, b>> \in DOMAIN more
        PROVE  \E u \in DOMAIN M \ Roots :
                  M[u] = Plus(M[t], b) /\ more[<<t, b>>] = Edge(u, ActionAt(K, M[u]))
    <3>1. CASE <<t, b>> = y
      <4>1. t = s /\ b = c /\ M[t] = L[s]
        BY <1>6, <3>1 DEF y
      <4>2. more[<<t, b>>] = Edge(n, ActionAt(K, M[n]))
        BY <1>4, <1>5, <1>6, <3>1 DEF e, ActionAt
      <4>3. QED
        BY <1>2, <1>6, <4>1, <4>2 DEF x
    <3>2. CASE <<t, b>> \in DOMAIN edges
      <4>1. t \in DOMAIN L
        <5>1. t \notin RowStates
          BY <1>7, NoRowFree DEF Labelled
        <5>2. QED
          BY <1>1, <3>2, <5>1 DEF GoesOn
      <4>2. PICK u \in DOMAIN L \ Roots :
               L[u] = Plus(L[t], b) /\ edges[<<t, b>>] = Edge(u, ActionAt(K, L[u]))
        BY <1>1, <3>2, <4>1 DEF GoesOn
      <4>3. QED
        BY <1>5, <1>6, <3>2, <4>1, <4>2
    <3>3. QED
      BY <1>5, <2>2, <3>1, <3>2
  <2>3. QED
    BY <2>1, <2>2 DEF GoesOn
<1>9. Reached(more, M, K)
  <2>1. ASSUME NEW t \in DOMAIN M \ Roots
        PROVE  \E u \in DOMAIN M, b \in Bytes : M[t] = Plus(M[u], b) /\ <<u, b>> \in DOMAIN more
    <3>1. CASE t = n
      <4>1. s \in DOMAIN M /\ M[s] = L[s] /\ y \in DOMAIN more
        BY <1>5, <1>6
      <4>2. QED
        BY <1>6, <3>1, <4>1 DEF x, y
    <3>2. CASE t \in DOMAIN L
      <4>1. PICK u \in DOMAIN L, b \in Bytes : L[t] = Plus(L[u], b) /\ <<u, b>> \in DOMAIN edges
        BY <1>1, <3>2 DEF Reached
      <4>2. QED
        BY <1>5, <1>6, <3>2, <4>1
    <3>3. QED
      BY <1>6, <3>1, <3>2
  <2>2. \A z \in DOMAIN K : \E t \in DOMAIN M \ Roots : M[t] = z
    BY <1>1, <1>6 DEF Reached
  <2>3. QED
    BY <2>1, <2>2 DEF Reached
<1>10. QED
  BY <1>5, <1>6, <1>7, <1>8, <1>9 DEF IsTrie, more, M, x, y, e

\* One more label is captured, at the edge into its state.
LEMMA Marked ==
    ASSUME NEW edges, NEW n, NEW L, NEW K, IsTrie(edges, n, L, K),
           NEW s \in DOMAIN L, NEW c \in Bytes, <<s, c>> \in DOMAIN edges,
           Plus(L[s], c) \notin DOMAIN K, NEW mid, NEW set, DOMAIN set = DOMAIN edges,
           \A z \in DOMAIN edges : z # <<s, c>> => set[z] = edges[z],
           set[<<s, c>>] = Edge(edges[<<s, c>>].to, capture(mid))
    PROVE  IsTrie(set, n, L, Over(Only(Plus(L[s], c), mid), K))
<1> DEFINE x == Plus(L[s], c)
           y == <<s, c>>
           J == Over(Only(x, mid), K)
<1>1. Labelled(n, L) /\ GoesOn(edges, L, K) /\ Reached(edges, L, K)
  BY DEF IsTrie
<1>2. DOMAIN J = DOMAIN K \cup {x} /\ J[x] = mid /\ \A z \in DOMAIN K : J[z] = K[z]
  <2>1. OneMore(J, x, mid, K)
    BY AddedFacts
  <2> HIDE DEF J
  <2>2. QED
    BY <2>1 DEF OneMore
<1>3. PICK v \in DOMAIN L \ Roots : L[v] = x /\ edges[y] = Edge(v, ActionAt(K, L[v]))
  BY <1>1 DEF GoesOn
<1> HIDE DEF J
<1>4. GoesOn(set, L, J)
  <2>1. ASSUME NEW t \in DOMAIN L, NEW b \in Bytes, <<t, b>> \in DOMAIN set
        PROVE  \E u \in DOMAIN L \ Roots :
                  L[u] = Plus(L[t], b) /\ set[<<t, b>>] = Edge(u, ActionAt(J, L[u]))
    <3>1. CASE <<t, b>> = y
      <4>1. t = s /\ b = c
        BY <3>1
      <4>2. edges[y].to = v
        BY <1>3 DEF Edge
      <4>3. ActionAt(J, L[v]) = capture(mid)
        BY <1>2, <1>3 DEF ActionAt
      <4>4. set[<<t, b>>] = Edge(v, ActionAt(J, L[v]))
        BY <3>1, <4>2, <4>3
      <4>5. QED
        BY <1>3, <4>1, <4>4
    <3>2. CASE <<t, b>> # y
      <4>1. PICK u \in DOMAIN L \ Roots :
               L[u] = Plus(L[t], b) /\ edges[<<t, b>>] = Edge(u, ActionAt(K, L[u]))
        BY <1>1, <2>1 DEF GoesOn
      <4>2. L[u] # x
        <5>1. L[t] \in Labels /\ L[s] \in Labels /\ (L[t] = L[s] => t = s)
          BY <1>1 DEF Labelled
        <5>2. ASSUME L[u] = x PROVE L[t] = L[s] /\ b = c
          <6>1. Plus(L[t], b) = Plus(L[s], c)
            BY <4>1, <5>2
          <6>2. QED
            BY <5>1, <6>1, PlusSame
        <5>3. QED
          BY <3>2, <5>1, <5>2
      <4>3. ActionAt(J, L[u]) = ActionAt(K, L[u])
        BY <1>2, <4>2 DEF ActionAt
      <4>4. QED
        BY <2>1, <3>2, <4>1, <4>3
    <3>3. QED
      BY <3>1, <3>2
  <2>2. QED
    BY <1>1, <2>1 DEF GoesOn
<1>5. Reached(set, L, J)
  BY <1>1, <1>2, <1>3 DEF Reached
<1>6. QED
  BY <1>1, <1>4, <1>5 DEF IsTrie, J

-----------------------------------------------------------------------------
(* A builder walks the trie.                                                 *)

\* The builder is at the state labelled x, and x is a root's label or that of the
\* one edge into the state.
EdgeInto(b, x, L) ==
    \E s \in DOMAIN L, c \in Bytes :
       /\ b.last_edges = {<<s, c, FALSE>>} /\ <<s, c>> \in DOMAIN b.dfa.edges /\ x = Plus(L[s], c)
Walked(b, x, K) ==
    /\ Built(b) /\ Calm(b.dfa)
    /\ \E L : /\ IsTrie(b.dfa.edges, b.dfa.num_states, L, K)
              /\ b.state \in DOMAIN L /\ L[b.state] = x
              /\ (\E r \in Roots : x = <<r>>) \/ EdgeInto(b, x, L)

\* What there is after one more input.
LEMMA AfterInput ==
    ASSUME NEW b, Built(b), NEW c
    PROVE  LET s == b.state
               d == DfaAfter(b, c)
           IN  /\ <<s, c>> \in DOMAIN b.dfa.edges =>
                     d = b.dfa /\ NextOf(b, c).to = b.dfa.edges[<<s, c>>].to
               /\ <<s, c>> \notin DOMAIN b.dfa.edges =>
                     /\ d.edges = Over(Only(<<s, c>>, Edge(b.dfa.num_states, NoAction)), b.dfa.edges)
                     /\ d.num_states = b.dfa.num_states + 1
                     /\ NextOf(b, c).to = b.dfa.num_states
               /\ Calm(b.dfa) => Calm(d)
<1> DEFINE s == b.state
           y == <<s, c>>
           n == b.dfa.num_states
           t == NextOf(b, c).to
           e == NextOf(b, c).dfa
<1>1. CASE y \in DOMAIN b.dfa.edges
  <2>1. t = b.dfa.edges[y].to /\ e = b.dfa
    BY <1>1 DEF NextOf, next_state
  <2> HIDE DEF t, e
  <2>2. insert_edge(e, s, c, t, NoAction) = b.dfa
    BY <1>1, <2>1 DEF insert_edge
  <2>3. QED
    BY <1>1, <2>1, <2>2 DEF DfaAfter, t, e
<1>2. CASE y \notin DOMAIN b.dfa.edges
  <2>1. t = n /\ e = [b.dfa EXCEPT !.num_states = n + 1]
    BY <1>2 DEF NextOf, next_state
  <2>2. {"num_states", "edges"} \subseteq DOMAIN b.dfa
    BY DEF Built, Kept
  <2>3. DOMAIN e = DOMAIN b.dfa /\ e.edges = b.dfa.edges /\ e.num_states = n + 1
    BY <2>1, <2>2
  <2> HIDE DEF t, e
  <2>4. insert_edge(e, s, c, t, NoAction)
           = [e EXCEPT !.edges = Over(Only(y, [to |-> t, action |-> NoAction]), e.edges)]
    BY <1>2, <2>3 DEF insert_edge
  <2> DEFINE more == Over(Only(y, [to |-> t, action |-> NoAction]), e.edges)
             d == DfaAfter(b, c)
  <2>5. d = [e EXCEPT !.edges = more]
    BY <2>4 DEF DfaAfter, e, t
  <2> HIDE DEF d, more
  <2>6. d.edges = more /\ d.num_states = n + 1
    BY <2>2, <2>3, <2>5
  <2>9. Calm(b.dfa) => Calm(d)
    BY <2>1, <2>5 DEF Calm, e
  <2>7. more = Over(Only(y, Edge(n, NoAction)), b.dfa.edges)
    BY <2>1, <2>3 DEF more, Edge
  <2>8. QED
    BY <1>2, <2>1, <2>6, <2>7, <2>9 DEF d, t
<1>3. QED
  BY <1>1, <1>2

LEMMA InputWalked ==
    ASSUME NEW b, NEW x, NEW K, Walked(b, x, K), NEW c \in Bytes
    PROVE  Walked(push_edge(b, c, NewState, FALSE), Plus(x, c), K)
<1> DEFINE r == push_edge(b, c, NewState, FALSE)
           s == b.state
           y == <<s, c>>
           n == b.dfa.num_states
           z == Plus(x, c)
<1>1. Built(b)
  BY DEF Walked
<1>2. Built(r)
  BY <1>1, InputBuilt
<1>3. r.dfa = DfaAfter(b, c) /\ r.state = NextOf(b, c).to /\ r.last_edges = {<<s, c, FALSE>>}
  BY <1>1, InputIs
<1>4. PICK L : IsTrie(b.dfa.edges, n, L, K) /\ s \in DOMAIN L /\ L[s] = x
  BY DEF Walked
<1>5. /\ y \in DOMAIN b.dfa.edges => r.dfa = b.dfa /\ r.state = b.dfa.edges[y].to
      /\ y \notin DOMAIN b.dfa.edges =>
            /\ r.dfa.edges = Over(Only(y, Edge(n, NoAction)), b.dfa.edges)
            /\ r.dfa.num_states = n + 1 /\ r.state = n
  BY <1>1, <1>3, AfterInput
<1>9. Calm(r.dfa)
  BY <1>1, <1>3, AfterInput DEF Walked
<1> HIDE DEF r
<1>6. CASE y \in DOMAIN b.dfa.edges
  <2>1. PICK t \in DOMAIN L \ Roots :
           L[t] = z /\ b.dfa.edges[y] = Edge(t, ActionAt(K, L[t]))
    BY <1>4, <1>6 DEF IsTrie, GoesOn
  <2>2. r.state = t
    BY <1>5, <1>6, <2>1 DEF Edge
  <2>3. IsTrie(r.dfa.edges, r.dfa.num_states, L, K)
    BY <1>4, <1>5, <1>6
  <2>4. EdgeInto(r, z, L)
    BY <1>3, <1>4, <1>5, <1>6 DEF EdgeInto
  <2>5. QED
    BY <1>2, <1>9, <2>1, <2>2, <2>3, <2>4 DEF Walked, r
<1>7. CASE y \notin DOMAIN b.dfa.edges
  <2> DEFINE more == Over(Only(y, Edge(n, NoAction)), b.dfa.edges)
             M == Over(Only(n, Plus(L[s], c)), L)
  <2>1. /\ IsTrie(more, n + 1, M, K)
        /\ n \in DOMAIN M /\ M[n] = Plus(L[s], c) /\ y \in DOMAIN more
        /\ s \in DOMAIN M /\ M[s] = L[s]
    BY <1>4, <1>7, Grown
  <2>2. r.dfa.edges = more /\ r.dfa.num_states = n + 1 /\ r.state = n
    BY <1>5, <1>7
  <2> HIDE DEF more, M
  <2>3. EdgeInto(r, z, M)
    BY <1>3, <1>4, <2>1, <2>2 DEF EdgeInto
  <2>4. IsTrie(r.dfa.edges, r.dfa.num_states, M, K) /\ r.state \in DOMAIN M /\ M[r.state] = z
    BY <1>4, <2>1, <2>2
  <2>5. QED
    BY <1>2, <1>9, <2>3, <2>4 DEF Walked, r
<1>8. QED
  BY <1>6, <1>7

\* The label of the state the first k bytes of w lead to from a root.
Prefix(root, w, k) == [j \in 1..(k + 1) |-> IF j = 1 THEN root ELSE w[j - 1]]
Label(root, w) == Prefix(root, w, Len(w))

LEMMA BytesAreNumbers == \A c \in Bytes : c \in Nat
  BY DEF Bytes

LEMMA PrefixNone == ASSUME NEW root, NEW w PROVE Prefix(root, w, 0) = <<root>>
  BY DEF Prefix

LEMMA PrefixIsLabel ==
    ASSUME NEW root \in Roots, NEW w \in Seq(Bytes), NEW k \in Nat, k <= Len(w)
    PROVE  Prefix(root, w, k) \in Labels /\ Len(Prefix(root, w, k)) = k + 1
<1> DEFINE x == Prefix(root, w, k)
<1>1. root \in Nat
  BY RootFacts
<1>2. \A j \in 1..(k + 1) : x[j] \in Nat
  <2>0. \A j \in 1..Len(w) : w[j] \in Bytes
    BY ElementOfSeq
  <2>1. \A j \in 1..Len(w) : w[j] \in Nat
    BY <2>0, BytesAreNumbers
  <2>2. \A j \in 1..(k + 1) : j # 1 => j - 1 \in 1..Len(w)
    OBVIOUS
  <2>3. \A j \in 1..(k + 1) : j # 1 => w[j - 1] \in Nat
    BY <2>1, <2>2
  <2>4. QED
    BY <1>1, <2>3 DEF Prefix
<1>3. x \in [1..(k + 1) -> Nat]
  BY <1>2 DEF Prefix
<1> HIDE DEF x
<1>4. x \in Seq(Nat) /\ Len(x) = k + 1
  BY <1>3
<1>5. x # <<>>
  BY <1>4
<1>6. QED
  BY <1>4, <1>5 DEF Labels, x

LEMMA PrefixNext ==
    ASSUME NEW root \in Roots, NEW w \in Seq(Bytes), NEW k \in 1..Len(w)
    PROVE  Prefix(root, w, k) = Plus(Prefix(root, w, k - 1), w[k]) /\ w[k] \in Bytes
<1> DEFINE x == Prefix(root, w, k)
           y == Prefix(root, w, k - 1)
<1>1. k \in Nat /\ k - 1 \in Nat /\ k <= Len(w) /\ k - 1 <= Len(w) /\ Len(w) \in Nat
  OBVIOUS
<1>2. x \in Seq(Nat) /\ Len(x) = k + 1 /\ y \in Seq(Nat) /\ Len(y) = k
  BY <1>1, PrefixIsLabel DEF Labels
<1>3. \A j \in 1..Len(w) : w[j] \in Bytes
  BY ElementOfSeq
<1>4. w[k] \in Nat
  BY <1>3, BytesAreNumbers
<1>5. \A j \in 1..k : x[j] = y[j]
  BY DEF Prefix
<1>6. x[k + 1] = w[k]
  <2>1. \A j \in 1..(k + 1) : x[j] = IF j = 1 THEN root ELSE w[j - 1]
    BY DEF Prefix
  <2>2. k + 1 \in 1..(k + 1) /\ k + 1 # 1 /\ (k + 1) - 1 = k
    BY <1>1
  <2> HIDE DEF x
  <2>3. x[k + 1] = w[(k + 1) - 1]
    BY <2>1, <2>2
  <2>4. QED
    BY <2>2, <2>3
<1> HIDE DEF x, y
<1> DEFINE z == Append(y, w[k])
<1>7. z \in Seq(Nat) /\ Len(z) = k + 1 /\ (\A j \in 1..k : z[j] = y[j]) /\ z[k + 1] = w[k]
  BY <1>2, <1>4, AppendProperties
<1> HIDE DEF z
<1>8. \A j \in 1..(k + 1) : x[j] = z[j]
  <2>1. \A j \in 1..(k + 1) : j \in 1..k \/ j = k + 1
    BY <1>1
  <2>2. QED
    BY <1>5, <1>6, <1>7, <2>1
<1>9. x = z
  BY <1>2, <1>7, <1>8, SeqEqual
<1>10. QED
  BY <1>3, <1>9 DEF x, y, z, Plus

\* Labels of different words, or off different roots, differ.
LEMMA LabelSame ==
    ASSUME NEW r \in Roots, NEW q \in Roots, NEW w \in Seq(Bytes), NEW v \in Seq(Bytes),
           Label(r, w) = Label(q, v)
    PROVE  r = q /\ w = v
<1> DEFINE x == Label(r, w)
           y == Label(q, v)
<1>1. Len(w) \in Nat /\ Len(v) \in Nat
  OBVIOUS
<1>2. Len(x) = Len(w) + 1 /\ Len(y) = Len(v) + 1
  BY <1>1, PrefixIsLabel DEF Label
<1>3. Len(w) = Len(v)
  BY <1>1, <1>2
<1>4. \A j \in 1..(Len(w) + 1) : x[j] = IF j = 1 THEN r ELSE w[j - 1]
  BY DEF Label, Prefix
<1>5. \A j \in 1..(Len(w) + 1) : y[j] = IF j = 1 THEN q ELSE v[j - 1]
  BY <1>3 DEF Label, Prefix
<1> HIDE DEF x, y
<1>6. x = y
  BY DEF x, y
<1>7. r = q
  BY <1>1, <1>4, <1>5, <1>6
<1>8. ASSUME NEW j \in 1..Len(w) PROVE w[j] = v[j]
  <2>1. j + 1 \in 1..(Len(w) + 1) /\ j + 1 # 1 /\ (j + 1) - 1 = j
    BY <1>1
  <2>2. x[j + 1] = w[j] /\ y[j + 1] = v[j]
    BY <1>4, <1>5, <2>1
  <2>3. QED
    BY <1>6, <2>2
<1>9. w = v
  BY <1>3, <1>8, SeqEqual
<1>10. QED
  BY <1>7, <1>9

LEMMA StartWalked ==
    ASSUME NEW d, Kept(d), Calm(d), NEW L, NEW K, IsTrie(d.edges, d.num_states, L, K),
           NEW root \in Roots
    PROVE  Walked(start_pattern(d, root), <<root>>, K)
<1> DEFINE b == start_pattern(d, root)
<1>1. b.dfa = d /\ b.state = root
  BY DEF start_pattern
<1>2. Built(b)
  BY StartBuilt, RootFacts
<1>3. root \in DOMAIN L /\ L[root] = <<root>>
  BY DEF IsTrie, Labelled
<1> HIDE DEF b
<1>4. QED
  BY <1>1, <1>2, <1>3 DEF Walked, b

LEMMA PushWalked ==
    ASSUME NEW b, NEW root \in Roots, NEW K, Walked(b, <<root>>, K), NEW w \in Seq(Bytes)
    PROVE  Walked(push(b, w), Label(root, w), K)
<1> DEFINE n == Len(w)
           X(k) == Prefix(root, w, k)
<1>1. n \in Nat /\ w \in Seq(0..255)
  BY DEF Bytes
<1>2. PICK g : Folded("push", b, w, n, g) /\ push(b, w) = g[1..n]
  BY <1>1, PushIsFold
<1> DEFINE T == {k \in Nat : k <= n /\ ~Walked(g[1..k], X(k), K)}
<1>3. SUFFICES ASSUME T # {} PROVE FALSE
  BY <1>1, <1>2 DEF Label
<1> HIDE DEF n
<1>4. PICK k \in T : \A m \in T : k <= m
  BY <1>3, LeastNumber
<1>5. g[1..0] = b /\ (k > 0 => g[1..k] = Step("push", g[1..(k - 1)], w[k]))
  <2>1. n \in Nat /\ k \in Nat /\ k <= n /\ Folded("push", b, w, n, g)
    BY <1>1, <1>2, <1>4 DEF n
  <2>2. FoldedTo("push", b, w, k, g)
    BY <2>1, FoldReaches
  <2>3. QED
    BY <2>2 DEF FoldedTo
<1>6. k > 0
  BY <1>4, <1>5, PrefixNone
<1>7. k - 1 \in Nat /\ k - 1 <= n /\ k - 1 \notin T /\ k \in 1..Len(w)
  BY <1>1, <1>4, <1>6 DEF n
<1>8. Walked(g[1..(k - 1)], X(k - 1), K)
  BY <1>7
<1>9. X(k) = Plus(X(k - 1), w[k]) /\ w[k] \in Bytes
  BY <1>7, PrefixNext
<1> HIDE DEF X
<1>10. Walked(push_edge(g[1..(k - 1)], w[k], NewState, FALSE), Plus(X(k - 1), w[k]), K)
  BY <1>8, <1>9, InputWalked
<1>11. Walked(g[1..k], X(k), K)
  BY <1>5, <1>6, <1>9, <1>10 DEF Step
<1>12. QED
  BY <1>4, <1>11

-----------------------------------------------------------------------------
(* The names that are captured.                                              *)

\* One capture more, of a label that is not captured yet.
LEMMA WithMarks ==
    ASSUME NEW b, NEW x, NEW K, Walked(b, x, K), x \notin DOMAIN K, \A r \in Roots : x # <<r>>,
           NEW mid
    PROVE  LET d == with(b, capture(mid)).dfa
           IN  Calm(d) /\ \E L : IsTrie(d.edges, d.num_states, L, Over(Only(x, mid), K))
<1> DEFINE d == b.dfa
           n == d.num_states
           m == with(b, capture(mid)).dfa
<1>1. Built(b) /\ {"num_states", "edges"} \subseteq DOMAIN d
  BY DEF Walked, Built, Kept
<1>2. PICK L : IsTrie(d.edges, n, L, K) /\ EdgeInto(b, x, L)
  BY DEF Walked
<1>3. PICK s \in DOMAIN L, c \in Bytes :
         b.last_edges = {<<s, c, FALSE>>} /\ <<s, c>> \in DOMAIN d.edges /\ x = Plus(L[s], c)
  BY <1>2 DEF EdgeInto
<1> DEFINE y == <<s, c>>
<1>4. PICK t \in DOMAIN L : L[t] = x /\ d.edges[y] = Edge(t, ActionAt(K, L[t]))
  BY <1>2, <1>3 DEF IsTrie, GoesOn
<1>5. d.edges[y] = Edge(t, NoAction)
  BY <1>4 DEF ActionAt
<1>6. d.edges[y].action = NoAction /\ {"to", "action"} \subseteq DOMAIN d.edges[y]
  BY <1>5 DEF Edge
<1>7. m = add_action(d, s, c, capture(mid))
  BY <1>1, <1>3, WithIs
<1> DEFINE set == [d.edges EXCEPT ![y].action = capture(mid)]
<1>8. m = [d EXCEPT !.edges[y].action = capture(mid)]
  BY <1>3, <1>6, <1>7 DEF add_action
<1> HIDE DEF m
<1>9. m.edges = set /\ m.num_states = n
  BY <1>1, <1>8
<1>15. Calm(m)
  BY <1>8 DEF Walked, Calm
<1>10. /\ DOMAIN set = DOMAIN d.edges
       /\ \A z \in DOMAIN d.edges : z # y => set[z] = d.edges[z]
       /\ set[y] = [d.edges[y] EXCEPT !.action = capture(mid)]
  BY <1>3
<1>11. set[y] = Edge(d.edges[y].to, capture(mid))
  BY <1>5, <1>10 DEF Edge
<1> HIDE DEF set
<1>12. IsTrie(set, n, L, Over(Only(Plus(L[s], c), mid), K))
  <2>1. Plus(L[s], c) \notin DOMAIN K
    BY <1>3
  <2>2. QED
    BY <1>2, <1>3, <1>10, <1>11, <2>1, Marked
<1>13. IsTrie(m.edges, m.num_states, L, Over(Only(x, mid), K))
  BY <1>3, <1>9, <1>12
<1>14. QED
  BY <1>13, <1>15 DEF m

\* A word is captured.
LEMMA WordMarked ==
    ASSUME NEW d, Kept(d), Calm(d), NEW L, NEW K, IsTrie(d.edges, d.num_states, L, K),
           NEW root \in Roots, NEW w \in Seq(Bytes), w # <<>>, Label(root, w) \notin DOMAIN K,
           NEW mid
    PROVE  LET e == with(push(start_pattern(d, root), w), capture(mid)).dfa
           IN  /\ Kept(e) /\ Calm(e)
               /\ \E M : IsTrie(e.edges, e.num_states, M, Over(Only(Label(root, w), mid), K))
<1> DEFINE b == push(start_pattern(d, root), w)
           x == Label(root, w)
<1>1. Walked(b, x, K)
  BY StartWalked, PushWalked
<1>2. \A r \in Roots : x # <<r>>
  <2>1. Len(w) \in Nat /\ Len(w) # 0
    BY EmptySeq
  <2>2. Len(x) = Len(w) + 1
    BY <2>1, PrefixIsLabel DEF Label
  <2>3. ASSUME NEW r, x = <<r>> PROVE FALSE
    <3>1. Len(<<r>>) = 1
      OBVIOUS
    <3> HIDE DEF x
    <3>2. QED
      BY <2>1, <2>2, <2>3, <3>1
  <2>4. QED
    BY <2>3
<1> HIDE DEF b, x
<1>3. Kept(with(b, capture(mid)).dfa)
  BY <1>1, WithKept DEF Walked
<1> DEFINE e == with(b, capture(mid)).dfa
<1>4. Calm(e) /\ \E M : IsTrie(e.edges, e.num_states, M, Over(Only(x, mid), K))
  BY <1>1, <1>2, WithMarks DEF x
<1>5. QED
  BY <1>3, <1>4 DEF b, x

\* How a name is spelled, where it is read from, and where that leads to.
Spelling(name, huff) == IF huff THEN Huff[name] ELSE Plain[name]
RootOf(huff) == IF huff THEN S_NAME ELSE S_NAME_PLAIN
LabelOf(name, huff) == Label(RootOf(huff), Spelling(name, huff))
Capturable == {name \in HeaderNames : Plain[name] # <<>> /\ Huff[name] # <<>>}

LEMMA SpellingFacts ==
    ASSUME NEW name \in HeaderNames, NEW huff \in BOOLEAN
    PROVE  RootOf(huff) \in Roots /\ Spelling(name, huff) \in Seq(Bytes)
  BY SpellingOK DEF RootOf, Roots, Spelling, Bytes

LEMMA LabelsDiffer ==
    ASSUME NEW name \in HeaderNames, NEW huff \in BOOLEAN,
           NEW other \in HeaderNames, NEW coded \in BOOLEAN,
           LabelOf(name, huff) = LabelOf(other, coded)
    PROVE  name = other /\ huff = coded
<1>1. /\ RootOf(huff) \in Roots /\ Spelling(name, huff) \in Seq(Bytes)
      /\ RootOf(coded) \in Roots /\ Spelling(other, coded) \in Seq(Bytes)
  BY SpellingFacts
<1>2. RootOf(huff) = RootOf(coded) /\ Spelling(name, huff) = Spelling(other, coded)
  BY <1>1, LabelSame DEF LabelOf
<1>3. huff = coded
  BY <1>2 DEF RootOf, S_NAME, S_NAME_PLAIN
<1>4. name = other
  BY <1>2, <1>3, SpellingOK DEF Spelling, IsInjective
<1>5. QED
  BY <1>3, <1>4

\* A name is inserted: both of its labels are captured.
MarkedBoth(e, K, x, y, mid) ==
    \E M, J : /\ IsTrie(e.edges, e.num_states, M, J)
              /\ DOMAIN J = DOMAIN K \cup {x, y} /\ J[x] = mid /\ J[y] = mid
              /\ \A z \in DOMAIN K : J[z] = K[z]
LEMMA NameMarked ==
    ASSUME NEW d, Kept(d), Calm(d), NEW L, NEW K, IsTrie(d.edges, d.num_states, L, K),
           NEW name \in Capturable, \A huff \in BOOLEAN : LabelOf(name, huff) \notin DOMAIN K,
           NEW mid
    PROVE  /\ Kept(InsertName(d, name, mid)) /\ Calm(InsertName(d, name, mid))
           /\ MarkedBoth(InsertName(d, name, mid), K, LabelOf(name, TRUE), LabelOf(name, FALSE), mid)
<1> DEFINE coded == with(push(start_pattern(d, S_NAME), Huff[name]), capture(mid)).dfa
           e == with(push(start_pattern(coded, S_NAME_PLAIN), Plain[name]), capture(mid)).dfa
           x == LabelOf(name, TRUE)
           y == LabelOf(name, FALSE)
           I == Over(Only(x, mid), K)
           J == Over(Only(y, mid), I)
<1>1. name \in HeaderNames /\ Huff[name] # <<>> /\ Plain[name] # <<>>
  BY DEF Capturable
<1>2. S_NAME \in Roots /\ S_NAME_PLAIN \in Roots
  BY DEF Roots
<1>3. Huff[name] \in Seq(Bytes) /\ Plain[name] \in Seq(Bytes)
  BY <1>1, SpellingOK DEF Bytes
<1>4. x = Label(S_NAME, Huff[name]) /\ y = Label(S_NAME_PLAIN, Plain[name])
  BY DEF LabelOf, RootOf, Spelling
<1>5. x \notin DOMAIN K /\ y \notin DOMAIN K
  OBVIOUS
<1>6. x # y
  BY <1>1, LabelsDiffer
<1>7. Kept(coded) /\ Calm(coded) /\ \E M : IsTrie(coded.edges, coded.num_states, M, I)
  BY <1>1, <1>2, <1>3, <1>4, <1>5, WordMarked
<1>8. OneMore(I, x, mid, K)
  BY <1>5, AddedFacts
<1> HIDE DEF coded, I, x, y
<1>9. y \notin DOMAIN I
  BY <1>5, <1>6, <1>8 DEF OneMore
<1>10. PICK M : IsTrie(coded.edges, coded.num_states, M, I)
  BY <1>7
<1>11. Kept(e) /\ Calm(e) /\ \E N : IsTrie(e.edges, e.num_states, N, J)
  BY <1>1, <1>2, <1>3, <1>4, <1>7, <1>9, <1>10, WordMarked
<1>12. OneMore(J, y, mid, I)
  BY <1>9, AddedFacts
<1> HIDE DEF J, e
<1>13. /\ DOMAIN J = DOMAIN K \cup {x, y} /\ J[x] = mid /\ J[y] = mid
       /\ \A z \in DOMAIN K : J[z] = K[z]
  BY <1>5, <1>6, <1>8, <1>12 DEF OneMore
<1>14. InsertName(d, name, mid) = e
  BY DEF InsertName, e, coded
<1>15. MarkedBoth(e, K, x, y, mid)
  BY <1>11, <1>13 DEF MarkedBoth
<1>16. QED
  BY <1>11, <1>14, <1>15 DEF x, y

\* The labels that are captured are those of the names, each name's as its own match.
Names(p, K) ==
    /\ DOMAIN p.captures \subseteq Capturable
    /\ p.num_matches \in Nat /\ p.num_matches <= MAX_MATCHES
    /\ \A name \in DOMAIN p.captures : p.captures[name] \in Nat /\ p.captures[name] < p.num_matches
    /\ \A name, other \in DOMAIN p.captures : p.captures[name] = p.captures[other] => name = other
    /\ \A name \in DOMAIN p.captures : \A huff \in BOOLEAN :
          LabelOf(name, huff) \in DOMAIN K /\ K[LabelOf(name, huff)] = p.captures[name]
    /\ \A x \in DOMAIN K : \E name \in DOMAIN p.captures : \E huff \in BOOLEAN :
          x = LabelOf(name, huff)
TrieOf(p, L, K) ==
    IsTrie(p.dfa.edges, p.dfa.num_states, L, K) /\ Names(p, K) /\ Calm(p.dfa)

LEMMA NamesAtFirst ==
    LET L == [r \in Roots |-> <<r>>]
    IN  TrieOf(NewParser, L, <<>>)
<1> DEFINE L == [r \in Roots |-> <<r>>]
           E == dfa.edges
<1>1. NewParser.dfa = dfa /\ NewParser.num_matches = 0 /\ NewParser.captures = <<>>
  BY DEF NewParser
<1>2. dfa.num_states = S_RESERVED /\ Calm(dfa)
  BY DEF dfa, Calm
<1>3. Labelled(S_RESERVED, L)
  <2>1. DOMAIN L = Roots /\ \A r \in Roots : L[r] = <<r>>
    OBVIOUS
  <2> HIDE DEF L
  <2>2. \A r, q \in Roots : <<r>> = <<q>> => r = q
    OBVIOUS
  <2>3. QED
    BY <2>1, <2>2, RootFacts DEF Labelled, S_RESERVED
<1>4. ASSUME NEW s, NEW c, s \notin RowStates PROVE <<s, c>> \notin DOMAIN E
  BY <1>4, AllRows DEF Row
<1>5. DOMAIN L = Roots /\ \A r \in Roots : r \notin RowStates
  BY RootFacts, NoRowFree
<1>6. DOMAIN <<>> = {}
  OBVIOUS
<1> DEFINE K == <<>>
<1> HIDE DEF L, E, K
<1>7. GoesOn(E, L, K)
  BY <1>4, <1>5 DEF GoesOn
<1>8. Reached(E, L, K)
  BY <1>5, <1>6 DEF Reached, K
<1>9. IsTrie(E, S_RESERVED, L, K)
  BY <1>3, <1>7, <1>8 DEF IsTrie
<1>10. Names(NewParser, K)
  BY <1>1, <1>6, SpellingOK DEF Names, K
<1>11. QED
  BY <1>1, <1>2, <1>9, <1>10 DEF TrieOf, E, L, K

\* One name more.
LEMMA CaptureMarked ==
    ASSUME NEW p, Loadable(p), NEW L, NEW K, TrieOf(p, L, K), NEW name \in Capturable
    PROVE  \E M, J : TrieOf(capture_hdr(p, name), M, J)
<1> DEFINE e == InsertName(p.dfa, name, p.num_matches)
           more == Over(Only(name, p.num_matches), p.captures)
           q == [dfa |-> e, num_matches |-> p.num_matches + 1, captures |-> more]
<1>1. CASE name \in DOMAIN p.captures \/ ~HasRoom(p)
  <2>1. capture_hdr(p, name) = p
    BY <1>1 DEF capture_hdr
  <2>2. QED
    BY <2>1
<1>2. CASE ~(name \in DOMAIN p.captures \/ ~HasRoom(p))
  <2>1. capture_hdr(p, name) = q
    BY <1>2 DEF capture_hdr
  <2>2. name \notin DOMAIN p.captures
    BY <1>2
  <2>3. OneMore(more, name, p.num_matches, p.captures)
    BY <2>2, AddedFacts
  <2>4. q.dfa = e /\ q.num_matches = p.num_matches + 1 /\ q.captures = more
    OBVIOUS
  <2>5. Kept(p.dfa) /\ Calm(p.dfa) /\ IsTrie(p.dfa.edges, p.dfa.num_states, L, K) /\ Names(p, K)
    BY DEF Loadable, TrieOf
  <2>6. name \in HeaderNames /\ DOMAIN p.captures \subseteq HeaderNames
    BY <2>5 DEF Capturable, Names
  <2>7. ASSUME NEW huff \in BOOLEAN PROVE LabelOf(name, huff) \notin DOMAIN K
    <3>1. SUFFICES ASSUME LabelOf(name, huff) \in DOMAIN K PROVE FALSE
      OBVIOUS
    <3>2. PICK other \in DOMAIN p.captures, coded \in BOOLEAN :
             LabelOf(name, huff) = LabelOf(other, coded)
      BY <2>5, <3>1 DEF Names
    <3>3. name = other
      BY <2>6, <3>2, LabelsDiffer
    <3>4. QED
      BY <2>2, <3>3
  <2> DEFINE x == LabelOf(name, TRUE)
             y == LabelOf(name, FALSE)
  <2>8. Calm(e) /\ MarkedBoth(e, K, x, y, p.num_matches)
    BY <2>5, <2>7, NameMarked
  <2>9. PICK M, J : /\ IsTrie(e.edges, e.num_states, M, J)
                    /\ DOMAIN J = DOMAIN K \cup {x, y}
                    /\ J[x] = p.num_matches /\ J[y] = p.num_matches
                    /\ \A z \in DOMAIN K : J[z] = K[z]
    BY <2>8 DEF MarkedBoth
  <2> HIDE DEF q, more, e
  <2>10. Names(q, J)
    <3>1. /\ DOMAIN q.captures \subseteq Capturable
          /\ q.num_matches \in Nat /\ q.num_matches <= MAX_MATCHES
      <4>1. DOMAIN q.captures \subseteq Capturable
        BY <2>3, <2>4, <2>5 DEF Names, OneMore
      <4>2. p.num_matches \in Nat /\ p.num_matches < MAX_MATCHES /\ MAX_MATCHES \in Nat
        BY <1>2, <2>5, SpellingOK DEF Names, HasRoom
      <4>3. QED
        BY <2>4, <4>1, <4>2
    <3>2. /\ \A m \in DOMAIN p.captures : q.captures[m] = p.captures[m]
          /\ q.captures[name] = p.num_matches
          /\ DOMAIN q.captures = DOMAIN p.captures \cup {name}
      BY <2>3, <2>4 DEF OneMore
    <3>3. /\ p.num_matches \in Nat /\ q.num_matches = p.num_matches + 1
          /\ \A m \in DOMAIN p.captures :
                p.captures[m] \in Nat /\ p.captures[m] < p.num_matches
      BY <2>4, <2>5 DEF Names
    <3>4. ASSUME NEW m \in DOMAIN q.captures
          PROVE  q.captures[m] \in Nat /\ q.captures[m] < q.num_matches
      <4>1. CASE m = name
        BY <3>2, <3>3, <4>1
      <4>2. CASE m \in DOMAIN p.captures
        <5>1. q.captures[m] = p.captures[m]
          BY <3>2, <4>2
        <5>2. p.captures[m] \in Nat /\ p.captures[m] < p.num_matches
          BY <3>3, <4>2
        <5>3. QED
          BY <3>3, <5>1, <5>2
      <4>3. QED
        BY <3>2, <4>1, <4>2
    <3>5. ASSUME NEW m \in DOMAIN q.captures, NEW o \in DOMAIN q.captures,
                 q.captures[m] = q.captures[o]
          PROVE  m = o
      <4>1. \A c \in DOMAIN p.captures : p.captures[c] # p.num_matches
        BY <3>3
      <4>2. \A c, b \in DOMAIN p.captures : p.captures[c] = p.captures[b] => c = b
        BY <2>5 DEF Names
      <4>3. QED
        BY <3>2, <3>5, <4>1, <4>2
    <3>6. ASSUME NEW m \in DOMAIN q.captures, NEW huff \in BOOLEAN
          PROVE  LabelOf(m, huff) \in DOMAIN J /\ J[LabelOf(m, huff)] = q.captures[m]
      <4>1. CASE m = name
        <5>1. LabelOf(m, huff) \in {x, y}
          BY <4>1
        <5>2. QED
          BY <2>9, <3>2, <4>1, <5>1
      <4>2. CASE m \in DOMAIN p.captures
        <5>1. LabelOf(m, huff) \in DOMAIN K /\ K[LabelOf(m, huff)] = p.captures[m]
          BY <2>5, <4>2 DEF Names
        <5>2. QED
          BY <2>9, <3>2, <4>2, <5>1
      <4>3. QED
        BY <3>2, <4>1, <4>2
    <3>7. ASSUME NEW z \in DOMAIN J
          PROVE  \E m \in DOMAIN q.captures : \E huff \in BOOLEAN : z = LabelOf(m, huff)
      <4>1. CASE z \in {x, y}
        BY <3>2, <4>1
      <4>2. CASE z \in DOMAIN K
        BY <2>5, <3>2, <4>2 DEF Names
      <4>3. QED
        BY <2>9, <4>1, <4>2
    <3>8. QED
      BY <3>1, <3>4, <3>5, <3>6, <3>7 DEF Names
  <2>11. TrieOf(q, M, J)
    BY <2>4, <2>8, <2>9, <2>10 DEF TrieOf
  <2>12. QED
    BY <2>1, <2>11 DEF q, e, more
<1>3. QED
  BY <1>1, <1>2

\* The parser is made by one capture after the other.
Good(p) == Loadable(p) /\ \E L, K : TrieOf(p, L, K)

LEMMA ParserIsFold ==
    \E v : Folded("capture", NewParser, Captures, Len(Captures), v) /\ Parser = v[1..Len(Captures)]
<1> DEFINE n == Len(Captures)
           Op(c, name) == capture_hdr(c, name)
           R(g) == g = [s \in SUBSET (DOMAIN Captures) |->
                          IF s = {} THEN NewParser
                          ELSE Op(g[s \ {Max(s)}], Captures[Max(s)])]
           u == CHOOSE h : R(h)
<1>1. n \in Nat /\ DOMAIN Captures = 1..n
  BY DecoderOK, LenProperties
<1>2. PICK g : Folded("capture", NewParser, Captures, n, g)
  BY <1>1, FoldExists
<1>3. \A c, x : Op(c, x) = Step("capture", c, x)
  BY DEF Step
<1>4. Parser = u[1..n]
  BY <1>1 DEF Parser, FoldLeft, MapThenFoldSet
<1> HIDE DEF Op
<1>5. ASSUME NEW h PROVE R(h) <=> Folded("capture", NewParser, Captures, n, h)
  BY <1>1, <1>3 DEF Folded
<1>6. R(g)
  BY <1>2, <1>5
<1>7. R(u)
  BY <1>6
<1>8. Folded("capture", NewParser, Captures, n, u)
  BY <1>5, <1>7
<1>9. QED
  BY <1>4, <1>8

LEMMA ParserGood == Good(Parser)
<1> DEFINE n == Len(Captures)
           np == NewParser
           cs == Captures
<1>1. n \in Nat /\ \A j \in 1..n : cs[j] \in Capturable
  <2>1. Captures \in Seq(Capturable)
    BY DecoderOK DEF Capturable
  <2>2. QED
    BY <2>1, LenProperties, ElementOfSeq
<1>2. PICK v : Folded("capture", np, cs, n, v) /\ Parser = v[1..n]
  BY ParserIsFold
<1> DEFINE T == {k \in Nat : k <= n /\ ~Good(v[1..k])}
<1>3. SUFFICES ASSUME T # {} PROVE FALSE
  BY <1>1, <1>2
<1>4. Good(np)
  BY RowsInitially, NamesAtFirst DEF Good, Loadable, NewParser
<1> HIDE DEF n, np, cs
<1>5. PICK k \in T : \A m \in T : k <= m
  BY <1>3, LeastNumber
<1>6. v[1..0] = np /\ (k > 0 => v[1..k] = Step("capture", v[1..(k - 1)], cs[k]))
  <2>1. n \in Nat /\ k \in Nat /\ k <= n /\ Folded("capture", np, cs, n, v)
    BY <1>1, <1>2, <1>5
  <2> HIDE DEF T
  <2>2. FoldedTo("capture", np, cs, k, v)
    BY <2>1, FoldReaches
  <2>3. QED
    BY <2>2 DEF FoldedTo
<1>7. k > 0
  BY <1>4, <1>5, <1>6
<1>8. k - 1 \in Nat /\ k - 1 <= n /\ k - 1 \notin T /\ k \in 1..n
  BY <1>1, <1>5, <1>7
<1> DEFINE p == v[1..(k - 1)]
<1>9. Good(p)
  BY <1>8
<1>10. v[1..k] = capture_hdr(p, cs[k])
  BY <1>6, <1>7 DEF Step
<1> HIDE DEF p
<1>11. cs[k] \in Capturable /\ cs[k] \in HeaderNames
  BY <1>1, <1>8 DEF Capturable
<1>12. Loadable(capture_hdr(p, cs[k]))
  BY <1>9, <1>11, CaptureKept DEF Good
<1>13. \E M, J : TrieOf(capture_hdr(p, cs[k]), M, J)
  BY <1>9, <1>11, CaptureMarked DEF Good
<1>14. Good(v[1..k])
  BY <1>10, <1>12, <1>13 DEF Good
<1>15. QED
  BY <1>5, <1>14

-----------------------------------------------------------------------------
(* The reader walks the trie.                                                *)

\* What a name is captured as.
CapOf(name) == IF name \in DOMAIN Parser.captures THEN Parser.captures[name] ELSE NoCapture

\* The state after the bytes of label x: its state if it has one, else the dead one.
At(s, x) ==
    \E L, K : /\ TrieOf(Parser, L, K)
              /\ \/ s \in DOMAIN L /\ L[s] = x
                 \/ s = S_DEAD /\ \A t \in DOMAIN L : L[t] # x

LEMMA AtRoot == ASSUME NEW root \in Roots PROVE At(root, <<root>>)
  BY ParserGood DEF Good, TrieOf, IsTrie, Labelled, At

LEMMA DeadFacts == S_DEAD \notin FreeStates /\ S_DEAD \notin RowStates
  BY DEF FreeStates, RowStates, S_DEAD, S_FIELD, S_KEY_LEN, S_VAL_LEN, S_IDX7_CONT, S_IDX6_CONT,
         S_IDX4_CONT, S_STG_CONT, S_KEY_LEN_CONT, S_KEY_LEN_CONT_HUFF, S_VAL_LEN_CONT,
         S_VAL_LEN_CONT_HUFF, S_NAME, S_NAME_PLAIN, S_RESERVED

\* The edge of a state there is no edge for.
LEMMA NoEdgeTaken ==
    ASSUME NEW s \in 0..(Parser.dfa.num_states - 1), NEW c \in Bytes,
           <<s, c>> \notin DOMAIN Parser.dfa.edges
    PROVE  _next(states, s, c) = Edge(S_DEAD, NoAction)
<1>1. states[s][c] = NoEdge
  BY DEF states, inject, Bytes
<1>2. QED
  BY <1>1 DEF _next

LEMMA EdgeTaken ==
    ASSUME NEW s \in 0..(Parser.dfa.num_states - 1), NEW c \in Bytes,
           NEW t, t # 0, NEW action, <<s, c>> \in DOMAIN Parser.dfa.edges,
           Parser.dfa.edges[<<s, c>>] = Edge(t, action)
    PROVE  _next(states, s, c) = Edge(t, action)
<1>1. states[s][c] = Edge(t, action)
  BY DEF states, inject, Bytes
<1>2. Edge(t, action) # NoEdge
  BY DEF Edge, NoEdge
<1>3. QED
  BY <1>1, <1>2 DEF _next

LEMMA CaptureIs ==
    /\ \A to : CaptureOf(Edge(to, NoAction)) = NoCapture
    /\ \A to, mid : CaptureOf(Edge(to, capture(mid))) = mid
  BY DEF CaptureOf, Edge, capture, Action, NoAction

\* One byte of a name.
LEMMA WalkStep ==
    ASSUME NEW s, NEW x \in Labels, At(s, x), NEW c \in Bytes
    PROVE  LET e == _next(states, s, c)
               y == Plus(x, c)
           IN  /\ At(e.to, y)
               /\ \A name \in HeaderNames : \A huff \in BOOLEAN :
                     y = LabelOf(name, huff) => CaptureOf(e) = CapOf(name)
<1> DEFINE e == _next(states, s, c)
           y == Plus(x, c)
           E == Parser.dfa.edges
           n == Parser.dfa.num_states
<1>1. PICK L, K : /\ TrieOf(Parser, L, K)
                  /\ \/ s \in DOMAIN L /\ L[s] = x
                     \/ s = S_DEAD /\ \A t \in DOMAIN L : L[t] # x
  BY DEF At
<1>2. IsTrie(E, n, L, K) /\ Labelled(n, L) /\ GoesOn(E, L, K) /\ Reached(E, L, K)
  BY <1>1 DEF TrieOf, IsTrie
<1>3. n \in Nat /\ n >= S_RESERVED
  BY <1>2 DEF Labelled
<1>4. s \in 0..(n - 1)
  <2>1. CASE s \in DOMAIN L
    BY <1>2, <1>3, <2>1 DEF Labelled, FreeStates, S_NAME, S_NAME_PLAIN
  <2>2. CASE s = S_DEAD
    BY <1>3, <2>2 DEF S_DEAD, S_RESERVED
  <2>3. QED
    BY <1>1, <2>1, <2>2
\* What a label K holds, or does not hold, makes of a name.
<1>5. ASSUME NEW name \in HeaderNames, NEW huff \in BOOLEAN, y = LabelOf(name, huff)
      PROVE  CapOf(name) = IF y \in DOMAIN K THEN K[y] ELSE NoCapture
  <2>1. Names(Parser, K)
    BY <1>1 DEF TrieOf
  <2>2. CASE name \in DOMAIN Parser.captures
    <3>1. y \in DOMAIN K /\ K[y] = Parser.captures[name]
      BY <1>5, <2>1, <2>2 DEF Names
    <3>2. QED
      BY <2>2, <3>1 DEF CapOf
  <2>3. CASE name \notin DOMAIN Parser.captures
    <3>1. y \notin DOMAIN K
      <4>1. SUFFICES ASSUME y \in DOMAIN K PROVE FALSE
        OBVIOUS
      <4>2. PICK other \in DOMAIN Parser.captures, coded \in BOOLEAN : y = LabelOf(other, coded)
        BY <2>1, <4>1 DEF Names
      <4>3. other \in HeaderNames
        BY <2>1 DEF Names, Capturable
      <4>4. name = other
        BY <1>5, <4>2, <4>3, LabelsDiffer
      <4>5. QED
        BY <2>3, <4>4
    <3>2. QED
      BY <2>3, <3>1 DEF CapOf
  <2>4. QED
    BY <2>2, <2>3
<1>6. ASSUME <<s, c>> \in DOMAIN E
      PROVE  At(e.to, y) /\ CaptureOf(e) = IF y \in DOMAIN K THEN K[y] ELSE NoCapture
  <2>1. s \in DOMAIN L /\ L[s] = x
    BY <1>1, <1>2, <1>6, DeadFacts DEF GoesOn, Labelled
  <2>2. PICK t \in DOMAIN L \ Roots : L[t] = y /\ E[<<s, c>>] = Edge(t, ActionAt(K, L[t]))
    BY <1>2, <1>6, <2>1 DEF GoesOn
  <2>3. t # 0
    BY <1>2, <2>2 DEF Labelled, FreeStates, S_NAME, S_NAME_PLAIN, S_RESERVED
  <2>4. e = Edge(t, ActionAt(K, y))
    BY <1>4, <1>6, <2>2, <2>3, EdgeTaken
  <2> HIDE DEF e, y
  <2>5. e.to = t
    BY <2>4 DEF Edge
  <2>6. At(e.to, y)
    BY <1>1, <2>2, <2>5 DEF At
  <2>7. CaptureOf(e) = IF y \in DOMAIN K THEN K[y] ELSE NoCapture
    BY <2>4, CaptureIs DEF ActionAt
  <2>8. QED
    BY <2>6, <2>7
<1>7. ASSUME <<s, c>> \notin DOMAIN E
      PROVE  At(e.to, y) /\ CaptureOf(e) = IF y \in DOMAIN K THEN K[y] ELSE NoCapture
  <2>1. e = Edge(S_DEAD, NoAction)
    BY <1>4, <1>7, NoEdgeTaken
  <2>2. (\A t \in DOMAIN L : L[t] # y) /\ y \notin DOMAIN K
    <3>1. CASE s \in DOMAIN L /\ L[s] = x
      BY <1>2, <1>7, <3>1, NoSuchLabel
    <3>2. CASE \A t \in DOMAIN L : L[t] # x
      <4>1. ASSUME NEW t \in DOMAIN L, L[t] = y PROVE FALSE
        <5>1. t \notin Roots
          BY <1>2, <4>1, PlusFacts DEF Labelled
        <5>2. PICK u \in DOMAIN L, b \in Bytes : L[t] = Plus(L[u], b)
          BY <1>2, <5>1 DEF Reached
        <5>3. L[u] \in Labels /\ Plus(L[u], b) = Plus(x, c)
          BY <1>2, <4>1, <5>2 DEF Labelled
        <5>4. L[u] = x
          BY <5>3, PlusSame
        <5>5. QED
          BY <3>2, <5>4
      <4>2. QED
        BY <1>2, <4>1 DEF Reached
    <3>3. QED
      BY <1>1, <3>1, <3>2
  <2> HIDE DEF e, y
  <2>3. e.to = S_DEAD /\ CaptureOf(e) = NoCapture
    BY <2>1, CaptureIs DEF Edge
  <2>4. At(e.to, y)
    BY <1>1, <2>2, <2>3 DEF At
  <2>5. QED
    BY <2>2, <2>3, <2>4
<1> HIDE DEF e, y
<1>8. QED
  BY <1>5, <1>6, <1>7 DEF e, y

LEMMA CaptureUnasked ==
    ASSUME NEW name \in HeaderNames, name \notin Capturable
    PROVE  CapOf(name) = NoCapture
  BY ParserGood DEF Good, TrieOf, Names, CapOf

\* A reader that has read k bytes of w from a root, and what it would capture.
Halfway(c, root, w, k) ==
    /\ At(c.s, Prefix(root, w, k))
    /\ k > 0 => \A name \in HeaderNames : \A huff \in BOOLEAN :
                   Prefix(root, w, k) = LabelOf(name, huff) => c.mid = CapOf(name)

LEMMA HalfwayNext ==
    ASSUME NEW root \in Roots, NEW w \in Seq(Bytes), NEW k \in 1..Len(w),
           NEW c, Halfway(c, root, w, k - 1)
    PROVE  Halfway(Step("walk", c, w[k]), root, w, k)
<1> DEFINE x == Prefix(root, w, k - 1)
           y == Prefix(root, w, k)
           e == _next(states, c.s, w[k])
           f == Step("walk", c, w[k])
<1>1. f.s = e.to /\ f.mid = CaptureOf(e)
  BY DEF Step
<1>2. y = Plus(x, w[k]) /\ w[k] \in Bytes
  BY PrefixNext
<1>3. x \in Labels
  <2>1. k - 1 \in Nat /\ k - 1 <= Len(w)
    OBVIOUS
  <2>2. QED
    BY <2>1, PrefixIsLabel
<1>4. At(c.s, x)
  BY DEF Halfway
<1> HIDE DEF x, y
<1>5. /\ At(e.to, Plus(x, w[k]))
      /\ \A name \in HeaderNames : \A huff \in BOOLEAN :
            Plus(x, w[k]) = LabelOf(name, huff) => CaptureOf(e) = CapOf(name)
  BY <1>2, <1>3, <1>4, WalkStep
<1> HIDE DEF e, f
<1>6. /\ At(f.s, y)
      /\ \A name \in HeaderNames : \A huff \in BOOLEAN :
            y = LabelOf(name, huff) => f.mid = CapOf(name)
  BY <1>1, <1>2, <1>5
<1>7. QED
  BY <1>6 DEF Halfway, f, y

\* A name that is read out of a table is captured as it is asked for.
LEMMA KeyMatched ==
    ASSUME NEW name \in HeaderNames, NEW huff \in BOOLEAN
    PROVE  _match_header_key(Entry(Spelling(name, huff), huff)) = CapOf(name)
<1> DEFINE w == Spelling(name, huff)
           root == RootOf(huff)
           n == Len(w)
           b == [s |-> root, mid |-> NoCapture]
           Op(c, x) == LET e == _next(states, c.s, x) IN [s |-> e.to, mid |-> CaptureOf(e)]
           R(g) == g = [s \in SUBSET (DOMAIN w) |->
                          IF s = {} THEN b ELSE Op(g[s \ {Max(s)}], w[Max(s)])]
           u == CHOOSE h : R(h)
<1>1. root \in Roots /\ w \in Seq(Bytes)
  BY SpellingFacts
<1>2. n \in Nat /\ DOMAIN w = 1..n
  BY <1>1, LenProperties
<1>3. PICK g : Folded("walk", b, w, n, g)
  BY <1>2, FoldExists
<1>4. \A c, x : Op(c, x) = Step("walk", c, x)
  BY DEF Step
<1>5. _match_header_key(Entry(w, huff)) = u[1..n].mid
  <2> HIDE DEF w
  <2>1. Entry(w, huff).key = w /\ Entry(w, huff).huff = huff
    BY DEF Entry
  <2>2. QED
    BY <1>2, <2>1 DEF _match_header_key, FoldLeft, MapThenFoldSet, RootOf
<1> HIDE DEF Op
<1>6. ASSUME NEW h PROVE R(h) <=> Folded("walk", b, w, n, h)
  BY <1>2, <1>4 DEF Folded
<1>7. R(g)
  BY <1>3, <1>6
<1>8. R(u)
  BY <1>7
<1>9. Folded("walk", b, w, n, u)
  BY <1>6, <1>8
<1>10. PICK v : Folded("walk", b, w, n, v) /\ _match_header_key(Entry(w, huff)) = v[1..n].mid
  BY <1>5, <1>9
<1>11. b.s = root /\ b.mid = NoCapture
  OBVIOUS
<1>12. n = 0 => w = <<>>
  BY <1>1, EmptySeq
<1>13. Label(root, w) = LabelOf(name, huff)
  BY DEF LabelOf
<1> HIDE DEF u, b, w, root
<1> DEFINE T == {k \in Nat : k <= n /\ ~Halfway(v[1..k], root, w, k)}
<1>14. ASSUME NEW k \in Nat, k <= n
       PROVE  v[1..0] = b /\ (k > 0 => v[1..k] = Step("walk", v[1..(k - 1)], w[k]))
  <2>1. n \in Nat /\ k \in Nat /\ k <= n /\ Folded("walk", b, w, n, v)
    BY <1>2, <1>10, <1>14
  <2> HIDE DEF n, T
  <2>2. FoldedTo("walk", b, w, k, v)
    BY <2>1, FoldReaches
  <2>3. QED
    BY <2>2 DEF FoldedTo
<1>15. T = {}
  <2>1. SUFFICES ASSUME T # {} PROVE FALSE
    OBVIOUS
  <2>2. PICK k \in T : \A m \in T : k <= m
    BY <2>1, LeastNumber
  <2>3. Halfway(b, root, w, 0)
    BY <1>1, <1>11, AtRoot, PrefixNone DEF Halfway
  <2>4. k > 0
    BY <1>14, <2>2, <2>3
  <2>5. k - 1 \in Nat /\ k - 1 <= n /\ k - 1 \notin T /\ k \in 1..Len(w)
    BY <1>2, <2>2, <2>4
  <2>6. Halfway(v[1..(k - 1)], root, w, k - 1)
    BY <2>5
  <2>7. Halfway(v[1..k], root, w, k)
    BY <1>1, <1>14, <2>2, <2>4, <2>5, <2>6, HalfwayNext
  <2>8. QED
    BY <2>2, <2>7
<1>16. Halfway(v[1..n], root, w, n)
  BY <1>2, <1>15
<1>17. CASE n > 0
  <2>1. Prefix(root, w, n) = LabelOf(name, huff)
    BY <1>13 DEF Label
  <2>2. v[1..n].mid = CapOf(name)
    BY <1>16, <1>17, <2>1 DEF Halfway
  <2>3. QED
    BY <1>10, <2>2 DEF w
<1>18. CASE n = 0
  <2>1. name \notin Capturable
    BY <1>12, <1>18 DEF w, Spelling, Capturable
  <2>2. v[1..n] = b
    BY <1>14, <1>18
  <2>3. QED
    BY <1>10, <1>11, <2>1, <2>2, CaptureUnasked DEF w
<1>19. QED
  BY <1>2, <1>17, <1>18

LEMMA ParserLoadable == Loadable(Parser)
  BY ParserGood DEF Good

\* Whatever is captured, a byte takes the edge of its row.
LEMMA NextIsRow ==
    ASSUME NEW st \in RowStates, NEW c \in 0..255, RowEdge(st, c) # NoEdge
    PROVE  _next(states, st, c) = RowEdge(st, c) /\ states[st][c] = RowEdge(st, c)
<1> DEFINE d == Parser.dfa
<1>1. d.num_states \in Nat /\ d.num_states >= S_RESERVED /\ RowsKept(d.edges)
  BY ParserLoadable DEF Loadable, Kept
<1>2. st \in 0..(d.num_states - 1)
  <2>1. st \in Nat /\ st < S_RESERVED
    BY DEF RowStates, S_RESERVED, S_FIELD, S_KEY_LEN, S_VAL_LEN, S_IDX7_CONT,
           S_IDX6_CONT, S_IDX4_CONT, S_STG_CONT, S_KEY_LEN_CONT, S_KEY_LEN_CONT_HUFF,
           S_VAL_LEN_CONT, S_VAL_LEN_CONT_HUFF
  <2> HIDE DEF d
  <2>2. QED
    BY <1>1, <2>1 DEF S_RESERVED
<1>3. <<st, c>> \in DOMAIN dfa.edges /\ dfa.edges[<<st, c>>] = RowEdge(st, c)
  BY AllRows DEF Row
<1>4. <<st, c>> \in DOMAIN d.edges /\ d.edges[<<st, c>>] = RowEdge(st, c)
  BY <1>1, <1>3, SMTT(30) DEF RowsKept
<1> HIDE DEF d
<1>5. states[st][c] = RowEdge(st, c)
  BY <1>2, <1>4 DEF states, inject, d
<1>6. QED
  BY <1>5 DEF _next

-----------------------------------------------------------------------------
(* Integers.                                                                 *)

\* Powers and groups are functions on numbers, each value from that of a smaller number.
Smaller_(kind, n) == IF kind = "pow" THEN n - 1 ELSE n \div 128
Base_(kind, n) == IF kind = "pow" THEN n = 0 ELSE n < 128
From(kind, n, y) ==
    IF kind = "pow" THEN 2 * y ELSE <<128 + (n % 128)>> \o y
Least(kind, n) == IF kind = "pow" THEN 1 ELSE <<n>>
Defines(kind, N, f) ==
    f = [n \in N |-> IF Base_(kind, n) THEN Least(kind, n) ELSE From(kind, n, f[Smaller_(kind, n)])]

LEMMA SmallerFacts ==
    ASSUME NEW kind, NEW n \in Nat, ~Base_(kind, n)
    PROVE  Smaller_(kind, n) \in Nat /\ Smaller_(kind, n) < n
  BY DEF Smaller_, Base_

LEMMA UpToExists ==
    ASSUME NEW kind, NEW n \in Nat
    PROVE  \E f : Defines(kind, 0..n, f)
<1> DEFINE T == {k \in Nat : ~\E f : Defines(kind, 0..k, f)}
           V(f, m) == IF Base_(kind, m) THEN Least(kind, m) ELSE From(kind, m, f[Smaller_(kind, m)])
<1>1. SUFFICES ASSUME T # {} PROVE FALSE
  OBVIOUS
<1>2. PICK k \in T : \A m \in T : k <= m
  BY <1>1, LeastNumber
<1>3. k \in Nat
  OBVIOUS
<1>4. CASE k = 0
  <2> DEFINE f == [m \in 0..0 |-> Least(kind, 0)]
  <2>1. \A m \in 0..0 : m = 0
    OBVIOUS
  <2>2. Base_(kind, 0)
    BY DEF Base_
  <2>3. f = [m \in 0..0 |-> V(f, m)]
    BY <2>1, <2>2
  <2>4. Defines(kind, 0..0, f)
    BY <2>3 DEF Defines
  <2>5. QED
    BY <1>4, <2>4
<1>5. CASE k # 0
  <2>1. k - 1 \in Nat /\ k - 1 \notin T
    BY <1>2, <1>5
  <2>2. PICK f : Defines(kind, 0..(k - 1), f)
    BY <2>1
  <2>3. f = [m \in 0..(k - 1) |-> V(f, m)]
    BY <2>2 DEF Defines
  <2>4. \A m \in 0..(k - 1) : f[m] = V(f, m)
    BY <2>3
  <2> DEFINE g == [m \in 0..k |-> IF m = k THEN V(f, k) ELSE f[m]]
  <2>5. \A m \in 0..k : m = k \/ m \in 0..(k - 1)
    BY <1>3
  <2>6. ASSUME NEW m \in 0..k, ~Base_(kind, m)
        PROVE  Smaller_(kind, m) \in 0..k /\ Smaller_(kind, m) # k /\ Smaller_(kind, m) \in 0..(k - 1)
    <3>1. Smaller_(kind, m) \in Nat /\ Smaller_(kind, m) < m
      BY <2>6, SmallerFacts
    <3>2. QED
      BY <1>3, <3>1
  <2>7. \A m \in 0..k : ~Base_(kind, m) => g[Smaller_(kind, m)] = f[Smaller_(kind, m)]
    BY <2>6
  <2>8. \A m \in 0..k : V(g, m) = V(f, m)
    BY <2>7
  <2> HIDE DEF V
  <2>9. \A m \in 0..k : g[m] = V(f, m)
    BY <2>4, <2>5
  <2>12. g = [m \in 0..k |-> g[m]]
    OBVIOUS
  <2> HIDE DEF g
  <2>10. g = [m \in 0..k |-> V(g, m)]
    BY <2>8, <2>9, <2>12
  <2>11. QED
    BY <1>2, <2>10 DEF Defines, V
<1>6. QED
  BY <1>4, <1>5

LEMMA UpToAgree ==
    ASSUME NEW kind, NEW k \in Nat, NEW l \in Nat, NEW f, NEW g,
           Defines(kind, 0..k, f), Defines(kind, 0..l, g), NEW n \in Nat, n <= k, n <= l
    PROVE  f[n] = g[n]
<1> DEFINE T == {m \in Nat : m <= k /\ m <= l /\ f[m] # g[m]}
           V(h, m) == IF Base_(kind, m) THEN Least(kind, m) ELSE From(kind, m, h[Smaller_(kind, m)])
<1>1. SUFFICES ASSUME T # {} PROVE FALSE
  OBVIOUS
<1>2. PICK m \in T : \A j \in T : m <= j
  BY <1>1, LeastNumber
<1>3. m \in 0..k /\ m \in 0..l
  OBVIOUS
<1>4. f = [j \in 0..k |-> V(f, j)] /\ g = [j \in 0..l |-> V(g, j)]
  BY DEF Defines
<1> HIDE DEF V
<1>5. f[m] = V(f, m) /\ g[m] = V(g, m)
  BY <1>3, <1>4
<1>6. V(f, m) = V(g, m)
  <2>1. CASE Base_(kind, m)
    BY <2>1 DEF V
  <2>2. CASE ~Base_(kind, m)
    <3>1. Smaller_(kind, m) \in Nat /\ Smaller_(kind, m) < m
      BY <1>3, <2>2, SmallerFacts
    <3>2. Smaller_(kind, m) <= k /\ Smaller_(kind, m) <= l /\ Smaller_(kind, m) \notin T
      BY <1>2, <1>3, <3>1
    <3>3. f[Smaller_(kind, m)] = g[Smaller_(kind, m)]
      BY <3>1, <3>2
    <3>4. QED
      BY <3>3 DEF V
  <2>3. QED
    BY <2>1, <2>2
<1>7. QED
  BY <1>2, <1>5, <1>6

LEMMA DefinedOnNat ==
    ASSUME NEW kind
    PROVE  \E f : Defines(kind, Nat, f)
<1> DEFINE V(h, m) == IF Base_(kind, m) THEN Least(kind, m) ELSE From(kind, m, h[Smaller_(kind, m)])
           u(n) == CHOOSE f : Defines(kind, 0..n, f)
           h == [n \in Nat |-> u(n)[n]]
<1>1. \A n \in Nat : Defines(kind, 0..n, u(n))
  BY UpToExists
<1> HIDE DEF u
<1>2. \A n \in Nat : u(n) = [m \in 0..n |-> V(u(n), m)]
  BY <1>1 DEF Defines
<1>3. \A n \in Nat : u(n)[n] = V(u(n), n)
  <2> HIDE DEF V
  <2>1. QED
    BY <1>2
<1>4. ASSUME NEW n \in Nat PROVE V(u(n), n) = V(h, n)
  <2>1. CASE Base_(kind, n)
    BY <2>1
  <2>2. CASE ~Base_(kind, n)
    <3> DEFINE m == Smaller_(kind, n)
    <3>1. m \in Nat /\ m < n
      BY <2>2, SmallerFacts
    <3> HIDE DEF m
    <3>2. u(m)[m] = u(n)[m]
      BY <1>1, <3>1, UpToAgree
    <3>3. h[m] = u(n)[m]
      BY <3>1, <3>2
    <3>4. QED
      BY <3>3 DEF m
  <2>3. QED
    BY <2>1, <2>2
<1> HIDE DEF V
<1>5. h = [n \in Nat |-> V(h, n)]
  <2>1. \A n \in Nat : h[n] = V(h, n)
    BY <1>3, <1>4
  <2>2. h = [n \in Nat |-> h[n]]
    OBVIOUS
  <2> HIDE DEF h
  <2>3. QED
    BY <2>1, <2>2
<1>6. Defines(kind, Nat, h)
  BY <1>5 DEF Defines, V
<1>7. QED
  BY <1>6

LEMMA PowIs == \A n \in Nat : Pow2[n] = IF n = 0 THEN 1 ELSE 2 * Pow2[n - 1]
<1> DEFINE R(f) == f = [n \in Nat |-> IF n = 0 THEN 1 ELSE 2 * f[n - 1]]
           u == CHOOSE f : R(f)
<1>1. PICK f : Defines("pow", Nat, f)
  BY DefinedOnNat
<1>2. R(f)
  BY <1>1 DEF Defines, Base_, Least, From, Smaller_
<1>3. R(u)
  BY <1>2
<1>4. Pow2 = u
  BY DEF Pow2
<1> HIDE DEF u
<1>5. QED
  BY <1>3, <1>4

LEMMA GroupsIs ==
    \A r \in Nat : Groups[r] = IF r < 128 THEN <<r>> ELSE <<128 + (r % 128)>> \o Groups[r \div 128]
<1> DEFINE R(f) == f = [r \in Nat |-> IF r < 128 THEN <<r>>
                                      ELSE <<128 + (r % 128)>> \o f[r \div 128]]
           u == CHOOSE f : R(f)
<1>1. PICK f : Defines("groups", Nat, f)
  BY DefinedOnNat
<1>2. R(f)
  BY <1>1 DEF Defines, Base_, Least, From, Smaller_
<1>3. R(u)
  BY <1>2
<1>4. Groups = u
  BY DEF Groups
<1> HIDE DEF u
<1>5. QED
  BY <1>3, <1>4

LEMMA PowFacts ==
    /\ \A n \in Nat : Pow2[n] \in Nat /\ Pow2[n] > 0 /\ Pow2[n + 1] = 2 * Pow2[n]
    /\ \A n \in Nat : Pow2[n + 7] = 128 * Pow2[n]
    /\ \A m, n \in Nat : m <= n => Pow2[m] <= Pow2[n]
<1>1. \A n \in Nat : Pow2[n] \in Nat /\ Pow2[n] > 0
  <2> DEFINE T == {n \in Nat : ~(Pow2[n] \in Nat /\ Pow2[n] > 0)}
  <2>1. SUFFICES ASSUME T # {} PROVE FALSE
    OBVIOUS
  <2>2. PICK n \in T : \A m \in T : n <= m
    BY <2>1, LeastNumber
  <2>3. n # 0
    BY <2>2, PowIs
  <2>4. n - 1 \in Nat /\ n - 1 \notin T
    BY <2>2, <2>3
  <2>5. Pow2[n] = 2 * Pow2[n - 1]
    BY <2>2, <2>3, PowIs
  <2>6. QED
    BY <2>2, <2>4, <2>5
<1>2. \A n \in Nat : Pow2[n + 1] = 2 * Pow2[n]
  <2>1. \A n \in Nat : n + 1 \in Nat /\ n + 1 # 0 /\ (n + 1) - 1 = n
    OBVIOUS
  <2>2. QED
    BY <2>1, PowIs
<1>3. ASSUME NEW n \in Nat PROVE Pow2[n + 7] = 128 * Pow2[n]
  <2>1. /\ Pow2[n + 1] = 2 * Pow2[n] /\ Pow2[(n + 1) + 1] = 2 * Pow2[n + 1]
        /\ Pow2[(n + 2) + 1] = 2 * Pow2[n + 2] /\ Pow2[(n + 3) + 1] = 2 * Pow2[n + 3]
        /\ Pow2[(n + 4) + 1] = 2 * Pow2[n + 4] /\ Pow2[(n + 5) + 1] = 2 * Pow2[n + 5]
        /\ Pow2[(n + 6) + 1] = 2 * Pow2[n + 6]
    BY <1>2
  <2>2. /\ (n + 1) + 1 = n + 2 /\ (n + 2) + 1 = n + 3 /\ (n + 3) + 1 = n + 4
        /\ (n + 4) + 1 = n + 5 /\ (n + 5) + 1 = n + 6 /\ (n + 6) + 1 = n + 7
    OBVIOUS
  <2>3. QED
    BY <1>1, <2>1, <2>2
<1>4. ASSUME NEW m \in Nat, NEW n \in Nat, m <= n PROVE Pow2[m] <= Pow2[n]
  <2> DEFINE T == {j \in Nat : m <= j /\ ~(Pow2[m] <= Pow2[j])}
  <2>1. SUFFICES ASSUME T # {} PROVE FALSE
    BY <1>4
  <2>2. PICK j \in T : \A l \in T : j <= l
    BY <2>1, LeastNumber
  <2>3. j # m
    BY <1>1, <2>2
  <2>4. j - 1 \in Nat /\ m <= j - 1 /\ j - 1 \notin T /\ (j - 1) + 1 = j
    BY <2>2, <2>3
  <2>5. Pow2[j] = 2 * Pow2[j - 1]
    BY <1>2, <2>4
  <2>6. QED
    BY <1>1, <2>2, <2>4, <2>5
<1>5. QED
  BY <1>1, <1>2, <1>3, <1>4

LEMMA DivFacts ==
    ASSUME NEW r \in Nat
    PROVE  /\ r \div 128 \in Nat /\ r % 128 \in 0..127 /\ r = 128 * (r \div 128) + (r % 128)
           /\ r < 128 => r % 128 = r /\ r \div 128 = 0
           /\ r >= 128 => r \div 128 < r
  OBVIOUS

LEMMA GroupsFacts ==
    ASSUME NEW r \in Nat
    PROVE  /\ Groups[r] \in Seq(0..255) /\ Len(Groups[r]) >= 1
           /\ r < 128 => Groups[r] = <<r>>
           /\ r >= 128 => /\ Len(Groups[r]) = Len(Groups[r \div 128]) + 1
                          /\ Groups[r][1] = 128 + (r % 128)
                          /\ \A j \in 1..Len(Groups[r \div 128]) :
                                Groups[r][j + 1] = Groups[r \div 128][j]
<1>1. \A n \in Nat : Groups[n] \in Seq(0..255) /\ Len(Groups[n]) >= 1
  <2> DEFINE T == {n \in Nat : ~(Groups[n] \in Seq(0..255) /\ Len(Groups[n]) >= 1)}
  <2>1. SUFFICES ASSUME T # {} PROVE FALSE
    OBVIOUS
  <2>2. PICK n \in T : \A m \in T : n <= m
    BY <2>1, LeastNumber
  <2>9. n \in Nat
    OBVIOUS
  <2>10. Groups[n] = IF n < 128 THEN <<n>> ELSE <<128 + (n % 128)>> \o Groups[n \div 128]
    BY <2>9, GroupsIs
  <2>11. ~(Groups[n] \in Seq(0..255) /\ Len(Groups[n]) >= 1)
    OBVIOUS
  <2>3. CASE n < 128
    <3>1. Groups[n] = <<n>> /\ n \in 0..255
      BY <2>9, <2>3, <2>10
    <3>2. <<n>> \in Seq(0..255) /\ Len(<<n>>) = 1
      BY <3>1
    <3>3. QED
      BY <2>11, <3>1, <3>2
  <2>4. CASE ~(n < 128)
    <3> DEFINE g == Groups[n \div 128]
    <3>1. n \div 128 \in Nat /\ n \div 128 < n /\ 128 + (n % 128) \in 0..255
      BY <2>4, <2>9, DivFacts
    <3>2. n \div 128 \notin T
      BY <2>2, <2>9, <3>1
    <3>3. g \in Seq(0..255) /\ Len(g) >= 1
      BY <3>1, <3>2
    <3>4. Groups[n] = <<128 + (n % 128)>> \o g
      BY <2>4, <2>10
    <3> HIDE DEF g
    <3> DEFINE x == 128 + (n % 128)
    <3> HIDE DEF x
    <3>5. <<x>> \o g \in Seq(0..255) /\ Len(<<x>> \o g) = 1 + Len(g)
      BY <3>1, <3>3 DEF x
    <3>7. 1 + Len(g) >= 1
      BY <3>3
    <3>8. Groups[n] = <<x>> \o g
      BY <3>4 DEF x
    <3>6. QED
      BY <2>11, <3>5, <3>7, <3>8
  <2>5. QED
    BY <2>3, <2>4
<1>5. Groups[r] = IF r < 128 THEN <<r>> ELSE <<128 + (r % 128)>> \o Groups[r \div 128]
  BY GroupsIs
<1>2. r < 128 => Groups[r] = <<r>>
  BY <1>5
<1>3. CASE r >= 128
  <2> DEFINE g == Groups[r \div 128]
             x == 128 + (r % 128)
  <2>1. g \in Seq(0..255) /\ x \in 0..255
    BY <1>1, DivFacts
  <2>2. Groups[r] = <<x>> \o g
    BY <1>3, <1>5
  <2> HIDE DEF g, x
  <2>3. /\ Len(<<x>> \o g) = Len(g) + 1 /\ (<<x>> \o g)[1] = x
        /\ \A j \in 1..Len(g) : (<<x>> \o g)[j + 1] = g[j]
    BY <2>1
  <2>4. QED
    BY <1>1, <1>2, <1>3, <2>2, <2>3 DEF g, x
<1>4. QED
  BY <1>1, <1>2, <1>3

\* The last group is the one without the flag.
LEMMA LastGroup ==
    ASSUME NEW r \in Nat
    PROVE  Groups[r][Len(Groups[r])] \in 0..127
<1> DEFINE T == {n \in Nat : ~(Groups[n][Len(Groups[n])] \in 0..127)}
<1>1. SUFFICES ASSUME T # {} PROVE FALSE
  OBVIOUS
<1>2. PICK n \in T : \A m \in T : n <= m
  BY <1>1, LeastNumber
<1>3. n \in Nat /\ ~(Groups[n][Len(Groups[n])] \in 0..127)
  OBVIOUS
<1>4. CASE n < 128
  <2>1. Groups[n] = <<n>>
    BY <1>3, <1>4, GroupsFacts
  <2>2. <<n>>[1] = n /\ Len(<<n>>) = 1
    OBVIOUS
  <2>3. QED
    BY <1>3, <1>4, <2>1, <2>2
<1>5. CASE n >= 128
  <2> DEFINE g == Groups[n \div 128]
  <2>1. n \div 128 \in Nat /\ n \div 128 < n
    BY <1>3, <1>5, DivFacts
  <2>2. n \div 128 \notin T
    <3>2. n \in Nat
      OBVIOUS
    <3> HIDE DEF T
    <3>1. QED
      BY <1>2, <2>1, <3>2
  <2>3. g[Len(g)] \in 0..127
    BY <2>1, <2>2
  <2>4. g \in Seq(0..255) /\ Len(g) >= 1
    BY <2>1, GroupsFacts
  <2>5. Len(Groups[n]) = Len(g) + 1 /\ \A j \in 1..Len(g) : Groups[n][j + 1] = g[j]
    BY <1>3, <1>5, GroupsFacts
  <2> HIDE DEF g
  <2>6. Len(g) \in 1..Len(g)
    BY <2>4
  <2>7. QED
    BY <1>3, <2>3, <2>5, <2>6
<1>6. QED
  BY <1>3, <1>4, <1>5

LEMMA FunctionIsSeq ==
    ASSUME NEW S, NEW n \in Nat, NEW s \in [1..n -> S]
    PROVE  s \in Seq(S) /\ Len(s) = n
<1>1. s \in Seq(S)
  BY SeqDef
<1>2. QED
  BY <1>1, LenProperties

\* The bytes of a padded integer.
LEMMA PaddedIs ==
    ASSUME NEW g \in Seq(0..255), Len(g) >= 1, g[Len(g)] \in 0..127, NEW p \in Nat
    PROVE  /\ Padded(g, p) \in Seq(0..255) /\ Len(Padded(g, p)) = Len(g) + p
           /\ \A j \in 1..(Len(g) + p) : Padded(g, p)[j] =
                 (IF j <= Len(g) THEN g[j] ELSE 0)
                 + (IF j >= Len(g) /\ j < Len(g) + p THEN 128 ELSE 0)
<1> DEFINE n == Len(g)
           F(j) == (IF j <= n THEN g[j] ELSE 0) + (IF j >= n /\ j < n + p THEN 128 ELSE 0)
           q == [j \in 1..(n + p) |-> F(j)]
<1>1. n \in Nat /\ n >= 1
  OBVIOUS
<1>2. \A j \in 1..(n + p) : F(j) \in 0..255
  <2>1. \A j \in 1..n : g[j] \in 0..255
    BY ElementOfSeq
  <2>7. g[n] \in 0..127
    OBVIOUS
  <2> HIDE DEF n
  <2>2. SUFFICES ASSUME NEW j \in 1..(n + p) PROVE F(j) \in 0..255
    OBVIOUS
  <2>8. j \in Nat /\ j >= 1
    BY <1>1
  <2>3. CASE j < n
    <3>1. g[j] \in 0..255
      BY <1>1, <2>1, <2>3, <2>8
    <3>2. F(j) = g[j] + 0
      BY <1>1, <2>3, <2>8
    <3>4. \A y \in 0..255 : y + 0 \in 0..255
      OBVIOUS
    <3>5. g[j] + 0 \in 0..255
      BY <3>1, <3>4
    <3> HIDE DEF F
    <3>3. QED
      BY <3>2, <3>5
  <2>4. CASE j = n
    <3>2. F(j) = g[n] + (IF j < n + p THEN 128 ELSE 0)
      BY <1>1, <2>4, <2>8
    <3>4. \A y \in 0..127, z \in {0, 128} : y + z \in 0..255
      OBVIOUS
    <3>5. (IF j < n + p THEN 128 ELSE 0) \in {0, 128}
      OBVIOUS
    <3>6. g[n] + (IF j < n + p THEN 128 ELSE 0) \in 0..255
      BY <2>7, <3>4, <3>5
    <3> HIDE DEF F
    <3>3. QED
      BY <3>2, <3>6
  <2>5. CASE j > n
    <3>2. F(j) = 0 + (IF j < n + p THEN 128 ELSE 0)
      BY <1>1, <2>5, <2>8
    <3>3. QED
      BY <3>2
  <2>6. QED
    BY <1>1, <2>3, <2>4, <2>5, <2>8
<1>3. Padded(g, p) = q
  BY DEF Padded
<1> HIDE DEF F, n
<1>4. q \in Seq(0..255) /\ Len(q) = n + p
  <2>1. n + p \in Nat
    BY <1>1
  <2>2. q \in [1..(n + p) -> 0..255]
    BY <1>2, ZenonT(60)
  <2> HIDE DEF q
  <2>3. QED
    BY <2>1, <2>2, FunctionIsSeq
<1>5. \A j \in 1..(n + p) : q[j] = F(j)
  OBVIOUS
<1> HIDE DEF q
<1>6. QED
  BY <1>3, <1>4, <1>5 DEF F, n

Low(x) == x % 128
High(x) == x \div 128
PaddedOf(q, r) == \E p \in Nat : q = Padded(Groups[r], p)

\* A byte of a padded integer, and those behind it.
LEMMA PaddedFacts ==
    ASSUME NEW r \in Nat, NEW q, PaddedOf(q, r)
    PROVE  /\ q \in Seq(0..255) /\ Len(q) >= 1
           /\ q[1] < 128 => q[1] = r /\ r < 128 /\ Tail(q) = <<>>
           /\ q[1] >= 128 => Low(q[1]) = Low(r) /\ PaddedOf(Tail(q), High(r))
<1>0. PICK p \in Nat : q = Padded(Groups[r], p)
  BY DEF PaddedOf
<1> DEFINE g == Groups[r]
           n == Len(g)
<1>1. g \in Seq(0..255) /\ Len(g) >= 1 /\ g[Len(g)] \in 0..127
  BY GroupsFacts, LastGroup
<1>2. /\ q \in Seq(0..255) /\ Len(q) = n + p
      /\ \A j \in 1..(n + p) : q[j] = (IF j <= n THEN g[j] ELSE 0)
                                      + (IF j >= n /\ j < n + p THEN 128 ELSE 0)
  <2>2. q = Padded(g, p)
    BY <1>0
  <2> HIDE DEF g
  <2>1. QED
    BY <1>1, <2>2, PaddedIs
<1>3. n \in Nat /\ n >= 1 /\ g[1] \in 0..255
  <2> HIDE DEF g
  <2>1. n \in Nat /\ n >= 1
    BY <1>1
  <2>2. QED
    BY <1>1, <2>1, ElementOfSeq
<1>4. q[1] = g[1] + (IF 1 >= n /\ 1 < n + p THEN 128 ELSE 0)
  <2> HIDE DEF g, n
  <2>1. 1 \in 1..(n + p) /\ 1 <= n
    BY <1>3
  <2>2. QED
    BY <1>2, <2>1
<1>5. CASE r >= 128
  <2> DEFINE h == Groups[r \div 128]
             m == Len(h)
             w == Padded(h, p)
  <2>1. h \in Seq(0..255) /\ Len(h) >= 1 /\ h[Len(h)] \in 0..127
    BY DivFacts, GroupsFacts, LastGroup
  <2>2. n = m + 1 /\ g[1] = 128 + (r % 128) /\ \A j \in 1..m : g[j + 1] = h[j]
    BY <1>5, GroupsFacts
  <2>3. /\ w \in Seq(0..255) /\ Len(w) = m + p
        /\ \A j \in 1..(m + p) : w[j] = (IF j <= m THEN h[j] ELSE 0)
                                        + (IF j >= m /\ j < m + p THEN 128 ELSE 0)
    <3> HIDE DEF h
    <3>1. QED
      BY <2>1, PaddedIs
  <2>4. m \in Nat /\ m >= 1
    <3> HIDE DEF h
    <3>1. QED
      BY <2>1
  <2>5. q[1] = 128 + (r % 128) /\ r % 128 \in 0..127
    BY <1>4, <2>2, <2>4, DivFacts
  <2> HIDE DEF g, n, h, m, w
  <2>6. Tail(q) = w
    <3>1. Tail(q) \in Seq(0..255) /\ Len(Tail(q)) = m + p
          /\ \A j \in 1..(m + p) : Tail(q)[j] = q[j + 1]
      <4>1. q \in Seq(0..255) /\ q # <<>> /\ Len(q) - 1 = m + p
        BY <1>2, <2>2, <2>4
      <4>2. QED
        BY <4>1, HeadTailProperties
    <3>2. ASSUME NEW j \in 1..(m + p) PROVE q[j + 1] = w[j]
      <4>1. j \in Nat /\ j >= 1 /\ j + 1 \in 1..(n + p)
        BY <2>2, <2>4
      <4>2. q[j + 1] = (IF j + 1 <= n THEN g[j + 1] ELSE 0)
                       + (IF j + 1 >= n /\ j + 1 < n + p THEN 128 ELSE 0)
        BY <1>2, <4>1
      <4>3. w[j] = (IF j <= m THEN h[j] ELSE 0) + (IF j >= m /\ j < m + p THEN 128 ELSE 0)
        BY <2>3
      <4>4. (j + 1 <= n <=> j <= m) /\ (j + 1 >= n <=> j >= m) /\ (j + 1 < n + p <=> j < m + p)
        BY <2>2, <2>4, <4>1
      <4>5. j <= m => g[j + 1] = h[j]
        BY <2>2, <2>4, <4>1
      <4>6. QED
        BY <4>2, <4>3, <4>4, <4>5
    <3>3. QED
      BY <2>3, <3>1, <3>2, SeqEqual
  <2>7. q[1] % 128 = r % 128 /\ q[1] >= 128
    BY <2>5
  <2>8. Tail(q) = Padded(Groups[r \div 128], p)
    BY <2>6 DEF w, h
  <2>9. ~(q[1] < 128) /\ Len(q) >= 1
    BY <1>2, <1>3, <2>5
  <2>10. QED
    BY <1>2, <2>7, <2>8, <2>9 DEF Low, High, PaddedOf
<1>6. CASE r < 128
  <2>1. g = <<r>>
    BY <1>6, GroupsFacts
  <2>2. n = 1 /\ g[1] = r
    BY <2>1
  <2> HIDE DEF g, n
  <2>3. CASE p = 0
    <3>1. q[1] = r
      BY <1>4, <2>2, <2>3
    <3>2. Tail(q) = <<>>
      <4>4. Len(q) = 1 + 0
        BY <1>2, <2>2, <2>3
      <4>1. Len(q) = 1 /\ Len(q) - 1 = 0 /\ q # <<>>
        BY <4>4
      <4>2. Len(Tail(q)) = 0 /\ Tail(q) \in Seq(0..255)
        BY <1>2, <4>1, HeadTailProperties
      <4>3. QED
        BY <4>2, EmptySeq
    <3>3. QED
      BY <1>2, <1>3, <1>6, <2>2, <2>3, <3>1, <3>2
  <2>4. CASE p > 0
    <3> DEFINE w == Padded(Groups[0], p - 1)
    <3>1. q[1] = r + 128
      BY <1>4, <2>2, <2>4
    <3>2. r \div 128 = 0
      BY <1>6, DivFacts
    <3>3. Groups[0] = <<0>>
      BY GroupsFacts
    <3>4. /\ <<0>> \in Seq(0..255) /\ Len(<<0>>) = 1 /\ <<0>>[1] = 0 /\ 0 \in 0..127
          /\ p - 1 \in Nat /\ 1 + (p - 1) = p
      BY <2>4
    <3>5. /\ w \in Seq(0..255) /\ Len(w) = p
          /\ \A j \in 1..p : w[j] = (IF j <= 1 THEN <<0>>[j] ELSE 0)
                                    + (IF j >= 1 /\ j < p THEN 128 ELSE 0)
      <4> DEFINE z == <<0>>
      <4>1. z \in Seq(0..255) /\ Len(z) = 1 /\ z[Len(z)] \in 0..127 /\ Len(z) >= 1
        BY <3>4
      <4>2. w = Padded(z, p - 1)
        BY <3>3
      <4> HIDE DEF z, w
      <4> DEFINE p1 == p - 1
      <4>3. p1 \in Nat /\ 1 + p1 = p
        BY <3>4
      <4>4. w = Padded(z, p1)
        BY <4>2
      <4> HIDE DEF p1
      <4>5. /\ w \in Seq(0..255) /\ Len(w) = Len(z) + p1
            /\ \A j \in 1..(Len(z) + p1) : w[j] =
                  (IF j <= Len(z) THEN z[j] ELSE 0)
                  + (IF j >= Len(z) /\ j < Len(z) + p1 THEN 128 ELSE 0)
        BY <4>1, <4>3, <4>4, PaddedIs
      <4>6. QED
        BY <4>1, <4>3, <4>5 DEF z
    <3> HIDE DEF w
    <3>6. Tail(q) \in Seq(0..255) /\ Len(Tail(q)) = p
          /\ \A j \in 1..p : Tail(q)[j] = q[j + 1]
      BY <1>2, <2>2, <2>4
    <3>7. ASSUME NEW j \in 1..p PROVE q[j + 1] = w[j]
      <4>1. j \in Nat /\ j >= 1 /\ j + 1 \in 1..(n + p)
        BY <2>2
      <4>2. q[j + 1] = 0 + (IF j < p THEN 128 ELSE 0)
        BY <1>2, <2>2, <4>1
      <4>3. w[j] = (IF j <= 1 THEN <<0>>[j] ELSE 0) + (IF j >= 1 /\ j < p THEN 128 ELSE 0)
        BY <3>5
      <4>4. w[j] = 0 + (IF j < p THEN 128 ELSE 0)
        BY <4>1, <4>3
      <4>5. QED
        BY <4>2, <4>4
    <3>8. Tail(q) = w
      BY <3>5, <3>6, <3>7, SeqEqual
    <3>9. q[1] >= 128 /\ q[1] % 128 = r % 128
      BY <1>6, <3>1
    <3>10. Tail(q) = Padded(Groups[r \div 128], p - 1)
      BY <3>2, <3>8 DEF w
    <3>11. ~(q[1] < 128) /\ Len(q) >= 1
      BY <1>2, <1>6, <2>2, <2>4, <3>1
    <3>12. QED
      BY <1>2, <3>4, <3>9, <3>10, <3>11 DEF Low, High, PaddedOf
  <2>5. QED
    BY <2>3, <2>4
<1>7. QED
  BY <1>5, <1>6

-----------------------------------------------------------------------------
(* The accumulator.                                                          *)

Word == Pow2[IntBits]

LEMMA SumOfGroups ==
    ASSUME NEW k \in Nat, NEW d \in Nat, NEW m \in Nat, NEW P \in Nat
    PROVE  /\ k + (128 * d + m) * P = (k + m * P) + d * (128 * P)
           /\ k + m * P \in Nat /\ d * (128 * P) \in Nat
<1>1. (128 * d + m) * P = m * P + d * (128 * P)
  OBVIOUS
<1>2. m * P \in Nat /\ d * (128 * P) \in Nat /\ (128 * d + m) * P \in Nat
  OBVIOUS
<1> DEFINE a == m * P
           b == d * (128 * P)
           c == (128 * d + m) * P
<1>3. a \in Nat /\ b \in Nat /\ c = a + b
  BY <1>1, <1>2
<1> HIDE DEF a, b, c
<1>4. k + c = (k + a) + b /\ k + a \in Nat
  BY <1>3
<1>5. QED
  BY <1>2, <1>4 DEF a, b, c

LEMMA NoBeyond ==
    ASSUME NEW k \in Nat, NEW r \in Nat, NEW P \in Nat, NEW v \in Nat, k + r * P = v, v < P
    PROVE  r = 0 /\ k = v
<1>1. SUFFICES ASSUME r # 0 PROVE FALSE
  <2>1. r = 0 => r * P = 0
    OBVIOUS
  <2>2. QED
    BY <1>1, <2>1
<1>2. r * P = P + (r - 1) * P /\ (r - 1) * P \in Nat
  <2>1. r - 1 \in Nat
    BY <1>1
  <2>2. QED
    BY <2>1
<1> DEFINE a == (r - 1) * P
           b == r * P
<1>3. a \in Nat /\ b = P + a /\ k + b = v
  BY <1>2
<1> HIDE DEF a, b
<1>4. QED
  BY <1>3

\* What is left of an integer when k is accumulated and the next group is
\* shifted by m.
IntLeft(k, m, v, q) ==
    \E r \in Nat : PaddedOf(q, r) /\ (v < Word => k + r * Pow2[m] = v)

Accumulated(k, m, c) == IF m <= MaxShift THEN (k + (c % 128) * Pow2[m]) % Word ELSE k

LEMMA WordIsNat == Word \in Nat /\ Word > 0
  BY PowFacts, DecoderOK DEF Word

LEMMA AccumulatedIsNat ==
    ASSUME NEW k \in Nat, NEW m \in Nat, NEW c \in 0..255
    PROVE  Accumulated(k, m, c) \in Nat
<1> DEFINE a == k + (c % 128) * Pow2[m]
<1>1. a \in Nat
  <2> DEFINE P == Pow2[m]
             x == c % 128
  <2>1. P \in Nat /\ x \in Nat
    BY PowFacts
  <2> HIDE DEF P, x
  <2>2. x * P \in Nat
    BY <2>1
  <2>3. QED
    BY <2>2 DEF P, x
<1>2. Accumulated(k, m, c) = IF m <= MaxShift THEN a % Word ELSE k
  BY DEF Accumulated
<1> HIDE DEF a
<1>3. QED
  BY <1>1, <1>2, WordIsNat

LEMMA PastTheLastShift ==
    ASSUME WideEnough, NEW m \in Nat, m % 7 = 0, ~(m <= MaxShift)
    PROVE  Word <= Pow2[m]
<1>1. MaxShift \in Nat /\ IntBits \in Nat
  BY DecoderOK
<1>2. IntBits <= m
  <2>1. m >= MaxShift + 7
    BY <1>1 DEF WideEnough
  <2>2. QED
    BY <1>1, <2>1 DEF WideEnough
<1>3. QED
  BY <1>1, <1>2, PowFacts DEF Word

LEMMA IntNext ==
    ASSUME WideEnough, NEW k \in Nat, NEW m \in Nat, m % 7 = 0, NEW v \in Nat, NEW q,
           IntLeft(k, m, v, q)
    PROVE  /\ q \in Seq(0..255) /\ Len(q) >= 1
           /\ q[1] < 128 => Tail(q) = <<>> /\ (v < Word => Accumulated(k, m, q[1]) = v)
           /\ q[1] >= 128 => IntLeft(Accumulated(k, m, q[1]),
                                     IF m <= MaxShift THEN m + 7 ELSE m, v, Tail(q))
<1>1. PICK r \in Nat : PaddedOf(q, r) /\ (v < Word => k + r * Pow2[m] = v)
  BY DEF IntLeft
<1>13. /\ q \in Seq(0..255) /\ Len(q) >= 1
       /\ q[1] < 128 => q[1] = r /\ r < 128 /\ Tail(q) = <<>>
       /\ q[1] >= 128 => Low(q[1]) = Low(r) /\ PaddedOf(Tail(q), High(r))
  BY <1>1, PaddedFacts
<1> DEFINE P == Pow2[m]
           d == r \div 128
           x == r % 128
           k2 == Accumulated(k, m, q[1])
           m2 == IF m <= MaxShift THEN m + 7 ELSE m
<1>2. /\ q \in Seq(0..255) /\ Len(q) >= 1
      /\ q[1] < 128 => q[1] = r /\ r < 128 /\ Tail(q) = <<>>
      /\ q[1] >= 128 => q[1] % 128 = x /\ PaddedOf(Tail(q), d)
  BY <1>13 DEF Low, High
<1>3. P \in Nat /\ Pow2[m + 7] = 128 * P
  BY PowFacts
<1>4. d \in Nat /\ x \in Nat /\ r = 128 * d + x /\ (r < 128 => x = r /\ d = 0)
  BY DivFacts
<1>5. q[1] \in 0..255
  BY <1>2, ElementOfSeq
<1> HIDE DEF P, d, x
<1>6. q[1] % 128 = x
  <2>1. CASE q[1] < 128
    <3>1. q[1] = r /\ r < 128 /\ r % 128 = x
      BY <1>2, <2>1 DEF x
    <3>2. QED
      BY <3>1
  <2>2. CASE q[1] >= 128
    BY <1>2, <2>2
  <2>3. QED
    BY <1>5, <2>1, <2>2
<1>7. v < Word => k2 + d * Pow2[m2] = v
  <2> SUFFICES ASSUME v < Word PROVE k2 + d * Pow2[m2] = v
    OBVIOUS
  <2>1. k + r * P = v
    BY <1>1 DEF P
  <2>2. CASE m <= MaxShift
    <3>1. k2 = (k + x * P) % Word /\ Pow2[m2] = 128 * P
      BY <1>3, <1>6, <2>2 DEF Accumulated, P
    <3>2. /\ k + r * P = (k + x * P) + d * (128 * P)
          /\ k + x * P \in Nat /\ d * (128 * P) \in Nat
      <4>1. /\ k + (128 * d + x) * P = (k + x * P) + d * (128 * P)
            /\ k + x * P \in Nat /\ d * (128 * P) \in Nat
        BY <1>3, <1>4, SumOfGroups
      <4>2. QED
        BY <1>4, <4>1
    <3> DEFINE a == k + x * P
               b == d * (128 * P)
    <3>3. a \in Nat /\ b \in Nat /\ a + b = v
      BY <2>1, <3>2
    <3>4. k2 = a % Word /\ d * Pow2[m2] = b
      BY <3>1
    <3> HIDE DEF a, b, k2, m2
    <3>5. a % Word = a
      BY <3>3, WordIsNat
    <3>6. QED
      BY <3>3, <3>4, <3>5
  <2>3. CASE ~(m <= MaxShift)
    <3>1. v < P
      BY <1>3, <2>3, PastTheLastShift, WordIsNat DEF P
    <3>2. r = 0 /\ k = v
      BY <1>3, <2>1, <3>1, NoBeyond
    <3>3. d = 0
      BY <1>4, <3>2
    <3>4. k2 = k /\ m2 = m
      BY <2>3 DEF Accumulated
    <3>5. d * Pow2[m2] = 0
      BY <1>3, <3>3, <3>4 DEF P
    <3>6. QED
      BY <3>2, <3>4, <3>5
  <2>4. QED
    BY <2>2, <2>3
<1>8. m2 \in Nat
  OBVIOUS
<1>9. k2 \in Nat
  <2>1. ~(m <= MaxShift) => k2 = k
    BY DEF Accumulated
  <2>2. m <= MaxShift => k2 = (k + x * P) % Word
    BY <1>6 DEF Accumulated, P
  <2>3. k + x * P \in Nat
    BY <1>3, <1>4
  <2> DEFINE a == k + x * P
  <2>4. a \in Nat /\ (m <= MaxShift => k2 = a % Word)
    BY <2>2, <2>3
  <2> HIDE DEF a, k2
  <2>5. QED
    BY <2>1, <2>4, WordIsNat
<1> HIDE DEF k2, m2
<1>10. q[1] < 128 => Tail(q) = <<>> /\ (v < Word => k2 = v)
  <2> SUFFICES ASSUME q[1] < 128 PROVE Tail(q) = <<>> /\ (v < Word => k2 = v)
    OBVIOUS
  <2>1. d = 0
    BY <1>2, <1>4
  <2>2. d * Pow2[m2] = 0
    BY <1>8, <2>1, PowFacts
  <2>3. QED
    BY <1>2, <1>7, <1>9, <2>2
<1>11. q[1] >= 128 => IntLeft(k2, m2, v, Tail(q))
  <2> SUFFICES ASSUME q[1] >= 128 PROVE IntLeft(k2, m2, v, Tail(q))
    OBVIOUS
  <2>2. QED
    BY <1>2, <1>4, <1>7 DEF IntLeft
<1>12. QED
  BY <1>2, <1>10, <1>11 DEF k2, m2

Encoded(base, max, v, q) == \E p \in Nat : q = EncodeInt(base, max, v, p)

LEMMA IntFirst ==
    ASSUME NEW base \in Nat, NEW max \in Nat, base + max <= 255,
           NEW v \in Nat, NEW q, Encoded(base, max, v, q)
    PROVE  /\ q \in Seq(0..255) /\ Len(q) >= 1
           /\ v < max => q[1] = base + v /\ Tail(q) = <<>>
           /\ ~(v < max) => q[1] = base + max /\ IntLeft(max, 0, v, Tail(q))
<1>0. PICK p \in Nat : q = EncodeInt(base, max, v, p)
  BY DEF Encoded
<1>1. CASE v < max
  <2>1. q = <<base + v>> /\ base + v \in 0..255
    BY <1>0, <1>1 DEF EncodeInt
  <2> DEFINE x == base + v
  <2> HIDE DEF x
  <2>2. q = <<x>> /\ x \in 0..255
    BY <2>1 DEF x
  <2>3. q \in Seq(0..255) /\ Len(q) = 1 /\ q[1] = x /\ Tail(q) = <<>>
    BY <2>2
  <2>4. QED
    BY <1>1, <2>3 DEF x
<1>2. CASE ~(v < max)
  <2> DEFINE x == base + max
             w == Padded(Groups[v - max], p)
             r == v - max
  <2>1. q = <<x>> \o w /\ x \in 0..255 /\ r \in Nat
    BY <1>0, <1>2 DEF EncodeInt
  <2>2. w \in Seq(0..255)
    <3>1. PaddedOf(w, r)
      BY DEF PaddedOf
    <3> HIDE DEF w, r
    <3>2. QED
      BY <2>1, <3>1, PaddedFacts
  <2>3. max + r * Pow2[0] = v
    <3>1. Pow2[0] = 1
      BY PowIs
    <3>2. max + r = v /\ r \in Int
      BY <2>1
    <3> HIDE DEF r
    <3>3. QED
      BY <3>1, <3>2
  <2>4. IntLeft(max, 0, v, w)
    <3>1. PaddedOf(w, r)
      BY DEF PaddedOf
    <3> HIDE DEF w, r
    <3>2. QED
      BY <2>1, <2>3, <3>1 DEF IntLeft
  <2> HIDE DEF x, w, r
  <2>5. q \in Seq(0..255) /\ Len(q) >= 1 /\ q[1] = x /\ Tail(q) = w
    BY <2>1, <2>2
  <2>6. QED
    BY <1>2, <2>4, <2>5 DEF x
<1>3. QED
  BY <1>1, <1>2

-----------------------------------------------------------------------------
(* The integers of the representations: the state and the prefix they begin  *)
(* with, the state they carry on in, and what is run when they end.          *)

Form(first, cont, base, max, to, kind, flags) ==
    [first |-> first, cont |-> cont, base |-> base, max |-> max,
     to |-> to, kind |-> kind, flags |-> flags]

IndexedForm == Form(S_FIELD, S_IDX7_CONT, 128, 127, S_FIELD, "Indexed", {})
SizeForm == Form(S_FIELD, S_STG_CONT, 32, 31, S_FIELD, "TableSize", {})
NameForm(lit) ==
    Form(S_FIELD, IF lit.add THEN S_IDX6_CONT ELSE S_IDX4_CONT, lit.flags, lit.max,
         S_VAL_LEN, "IdxName", IF lit.add THEN {F_ADD_DT} ELSE {})
KeyForm(huff) ==
    Form(S_KEY_LEN, IF huff THEN S_KEY_LEN_CONT_HUFF ELSE S_KEY_LEN_CONT,
         IF huff THEN 128 ELSE 0, 127, IF huff THEN S_NAME ELSE S_NAME_PLAIN,
         "KeyLen", IF huff THEN {F_HUFF} ELSE {})
ValForm(huff) ==
    Form(S_VAL_LEN, IF huff THEN S_VAL_LEN_CONT_HUFF ELSE S_VAL_LEN_CONT,
         IF huff THEN 128 ELSE 0, 127, S_FIELD, "ValLen", IF huff THEN {F_HUFF} ELSE {})

\* The rows read an integer v of the form.
Reads(f, v) ==
    /\ f.first \in RowStates /\ f.cont \in RowStates /\ F_CONT \notin f.flags
    /\ f.base \in Nat /\ f.max \in Nat /\ f.base + f.max <= 255
    /\ v < f.max => RowEdge(f.first, f.base + v) = Edge(f.to, Action(f.kind, v, f.flags))
    /\ RowEdge(f.first, f.base + f.max) = Edge(f.cont, Action("IntStart", f.max, {}))
    /\ \A c \in 0..255 : RowEdge(f.cont, c) = ContEdge(f.cont, f.kind, f.to, f.flags, c)

LEMMA StatesDiffer ==
    /\ S_FIELD \in RowStates /\ S_KEY_LEN \in RowStates /\ S_VAL_LEN \in RowStates
    /\ ContStates \subseteq RowStates
    /\ S_FIELD \notin LengthStates /\ S_KEY_LEN # S_VAL_LEN
    /\ \A s \in ContStates : s # S_FIELD /\ s \notin LengthStates
  BY DEF RowStates, ContStates, LengthStates, S_FIELD, S_KEY_LEN, S_VAL_LEN, S_IDX7_CONT,
         S_IDX6_CONT, S_IDX4_CONT, S_STG_CONT, S_KEY_LEN_CONT, S_KEY_LEN_CONT_HUFF,
         S_VAL_LEN_CONT, S_VAL_LEN_CONT_HUFF

LEMMA ContIs ==
    ASSUME NEW c
    PROVE  /\ RowEdge(S_IDX7_CONT, c) = ContEdge(S_IDX7_CONT, "Indexed", S_FIELD, {}, c)
           /\ RowEdge(S_IDX6_CONT, c) = ContEdge(S_IDX6_CONT, "IdxName", S_VAL_LEN, {F_ADD_DT}, c)
           /\ RowEdge(S_IDX4_CONT, c) = ContEdge(S_IDX4_CONT, "IdxName", S_VAL_LEN, {}, c)
           /\ RowEdge(S_STG_CONT, c) = ContEdge(S_STG_CONT, "TableSize", S_FIELD, {}, c)
           /\ RowEdge(S_KEY_LEN_CONT, c) =
                 ContEdge(S_KEY_LEN_CONT, "KeyLen", S_NAME_PLAIN, {}, c)
           /\ RowEdge(S_KEY_LEN_CONT_HUFF, c) =
                 ContEdge(S_KEY_LEN_CONT_HUFF, "KeyLen", S_NAME, {F_HUFF}, c)
           /\ RowEdge(S_VAL_LEN_CONT, c) = ContEdge(S_VAL_LEN_CONT, "ValLen", S_FIELD, {}, c)
           /\ RowEdge(S_VAL_LEN_CONT_HUFF, c) =
                 ContEdge(S_VAL_LEN_CONT_HUFF, "ValLen", S_FIELD, {F_HUFF}, c)
  BY DEF RowEdge, EdgeOfCont, LengthStates, S_FIELD, S_KEY_LEN, S_VAL_LEN, S_IDX7_CONT,
         S_IDX6_CONT, S_IDX4_CONT, S_STG_CONT, S_KEY_LEN_CONT, S_KEY_LEN_CONT_HUFF,
         S_VAL_LEN_CONT, S_VAL_LEN_CONT_HUFF

LEMMA FieldIs == \A c : RowEdge(S_FIELD, c) = FieldEdge(c)
  BY DEF RowEdge

LEMMA LengthIs ==
    \A c : /\ RowEdge(S_KEY_LEN, c) = LengthEdge(S_KEY_LEN, c)
           /\ RowEdge(S_VAL_LEN, c) = LengthEdge(S_VAL_LEN, c)
  BY StatesDiffer DEF RowEdge, LengthStates

LEMMA FlagsDiffer == F_CONT # F_ADD_DT /\ F_CONT # F_HUFF /\ F_ADD_DT # F_HUFF
  BY DEF F_CONT, F_ADD_DT, F_HUFF

LEMMA IndexedReads == ASSUME NEW v \in Nat, v # 0 PROVE Reads(IndexedForm, v)
<1> DEFINE f == IndexedForm
<1>1. /\ f.first = S_FIELD /\ f.cont = S_IDX7_CONT /\ f.base = 128 /\ f.max = 127
      /\ f.to = S_FIELD /\ f.kind = "Indexed" /\ f.flags = {}
  BY DEF IndexedForm, Form
<1>2. v < 127 => RowEdge(S_FIELD, 128 + v) = Edge(S_FIELD, Action("Indexed", v, {}))
  <2> SUFFICES ASSUME v < 127 PROVE FieldEdge(128 + v) = Edge(S_FIELD, Action("Indexed", v, {}))
    BY FieldIs
  <2>1. 128 + v > 128 /\ 128 + v # 128 /\ (128 + v) - 128 = v /\ 128 + v # 128 + 127
    OBVIOUS
  <2>2. QED
    BY <2>1 DEF FieldEdge, IntEdge
<1>3. RowEdge(S_FIELD, 128 + 127) = Edge(S_IDX7_CONT, Action("IntStart", 127, {}))
  <2>1. FieldEdge(128 + 127) = Edge(S_IDX7_CONT, Action("IntStart", 127, {}))
    BY DEF FieldEdge, IntEdge
  <2>2. QED
    BY <2>1, FieldIs
<1>4. S_IDX7_CONT \in RowStates /\ S_FIELD \in RowStates
  BY StatesDiffer DEF ContStates
<1> HIDE DEF f
<1>5. Reads(f, v)
  BY <1>1, <1>2, <1>3, <1>4, ContIs DEF Reads
<1>6. QED
  BY <1>5 DEF f

LEMMA SizeReads == ASSUME NEW v \in Nat PROVE Reads(SizeForm, v)
<1> DEFINE f == SizeForm
<1>1. /\ f.first = S_FIELD /\ f.cont = S_STG_CONT /\ f.base = 32 /\ f.max = 31
      /\ f.to = S_FIELD /\ f.kind = "TableSize" /\ f.flags = {}
  BY DEF SizeForm, Form
<1>2. v < 31 => RowEdge(S_FIELD, 32 + v) = Edge(S_FIELD, Action("TableSize", v, {}))
  <2> SUFFICES ASSUME v < 31 PROVE FieldEdge(32 + v) = Edge(S_FIELD, Action("TableSize", v, {}))
    BY FieldIs
  <2>1. 32 + v < 64 /\ 32 + v >= 32 /\ (32 + v) - 32 = v /\ 32 + v # 32 + 31
    OBVIOUS
  <2>2. QED
    BY <2>1 DEF FieldEdge, IntEdge
<1>3. RowEdge(S_FIELD, 32 + 31) = Edge(S_STG_CONT, Action("IntStart", 31, {}))
  <2>1. FieldEdge(32 + 31) = Edge(S_STG_CONT, Action("IntStart", 31, {}))
    BY DEF FieldEdge, IntEdge
  <2>2. QED
    BY <2>1, FieldIs
<1>4. S_STG_CONT \in RowStates /\ S_FIELD \in RowStates
  BY StatesDiffer DEF ContStates
<1> HIDE DEF f
<1>5. Reads(f, v)
  BY <1>1, <1>2, <1>3, <1>4, ContIs DEF Reads
<1>6. QED
  BY <1>5 DEF f

LEMMA NameReads ==
    ASSUME NEW lit \in Literals, NEW v \in Nat, v # 0
    PROVE  Reads(NameForm(lit), v)
<1> DEFINE f == NameForm(lit)
           cont == IF lit.add THEN S_IDX6_CONT ELSE S_IDX4_CONT
           flags == IF lit.add THEN {F_ADD_DT} ELSE {}
<1>1. /\ f.first = S_FIELD /\ f.cont = cont /\ f.base = lit.flags /\ f.max = lit.max
      /\ f.to = S_VAL_LEN /\ f.kind = "IdxName" /\ f.flags = flags
  BY DEF NameForm, Form
<1>2. \/ lit.flags = 64 /\ lit.max = 63 /\ lit.add = TRUE
      \/ lit.flags = 0 /\ lit.max = 15 /\ lit.add = FALSE
      \/ lit.flags = 16 /\ lit.max = 15 /\ lit.add = FALSE
  BY DEF Literals
<1>3. ASSUME NEW x \in Nat, x # 0, x <= lit.max
      PROVE  RowEdge(S_FIELD, lit.flags + x)
                = IntEdge(lit.flags, lit.max, S_VAL_LEN, cont, "IdxName", flags, lit.flags + x)
  <2> DEFINE c == lit.flags + x
  <2>1. CASE lit.flags = 64 /\ lit.max = 63 /\ lit.add = TRUE
    <3>1. c = 64 + x /\ x <= 63
      BY <1>3, <2>1
    <3>2. c > 64 /\ c < 128 /\ c # 64 /\ c # 128
      BY <1>3, <3>1
    <3> HIDE DEF c
    <3>3. FieldEdge(c) = IntEdge(64, 63, S_VAL_LEN, S_IDX6_CONT, "IdxName", {F_ADD_DT}, c)
      BY <3>2, <3>1 DEF FieldEdge
    <3>4. QED
      BY <2>1, <3>3, FieldIs DEF c
  <2>2. CASE lit.flags = 0 /\ lit.max = 15 /\ lit.add = FALSE
    <3>1. c = x /\ x <= 15
      BY <1>3, <2>2
    <3>2. c < 16 /\ c > 0 /\ c \in Nat
      BY <1>3, <3>1
    <3> HIDE DEF c
    <3>3. FieldEdge(c) = IntEdge(0, 15, S_VAL_LEN, S_IDX4_CONT, "IdxName", {}, c)
      BY <3>2, <3>1 DEF FieldEdge
    <3>4. QED
      BY <2>2, <3>3, FieldIs DEF c
  <2>3. CASE lit.flags = 16 /\ lit.max = 15 /\ lit.add = FALSE
    <3>1. c = 16 + x /\ x <= 15
      BY <1>3, <2>3
    <3>2. c < 32 /\ c > 16 /\ c \in Nat
      BY <1>3, <3>1
    <3> HIDE DEF c
    <3>3. FieldEdge(c) = IntEdge(16, 15, S_VAL_LEN, S_IDX4_CONT, "IdxName", {}, c)
      BY <3>2, <3>1 DEF FieldEdge
    <3>4. QED
      BY <2>3, <3>3, FieldIs DEF c
  <2>4. QED
    BY <1>2, <2>1, <2>2, <2>3
<1>4. lit.flags \in Nat /\ lit.max \in Nat /\ lit.max # 0 /\ lit.flags + lit.max <= 255
  BY <1>2
<1>5. cont \in RowStates /\ S_FIELD \in RowStates /\ F_CONT \notin flags
  BY StatesDiffer, FlagsDiffer DEF ContStates
<1>6. v < lit.max => RowEdge(S_FIELD, lit.flags + v) = Edge(S_VAL_LEN, Action("IdxName", v, flags))
  <2> SUFFICES ASSUME v < lit.max
               PROVE  RowEdge(S_FIELD, lit.flags + v) = Edge(S_VAL_LEN, Action("IdxName", v, flags))
    OBVIOUS
  <2> DEFINE base == lit.flags
             max == lit.max
  <2> HIDE DEF cont, flags, base, max
  <2>1. base \in Nat /\ max \in Nat /\ v < max
    BY <1>4 DEF base, max
  <2>2. (base + v) - base = v /\ base + v # base + max /\ v <= max
    BY <2>1
  <2>3. RowEdge(S_FIELD, base + v) = IntEdge(base, max, S_VAL_LEN, cont, "IdxName", flags, base + v)
    BY <1>3, <2>2 DEF base, max
  <2>4. QED
    BY <2>2, <2>3 DEF IntEdge, base
<1>7. RowEdge(S_FIELD, lit.flags + lit.max) = Edge(cont, Action("IntStart", lit.max, {}))
  <2>1. lit.max <= lit.max
    BY <1>4
  <2> HIDE DEF cont, flags
  <2>2. QED
    BY <1>3, <1>4, <2>1 DEF IntEdge
<1>8. \A c : RowEdge(cont, c) = ContEdge(cont, "IdxName", S_VAL_LEN, flags, c)
  BY ContIs
<1> HIDE DEF f, cont, flags
<1>9. Reads(f, v)
  BY <1>1, <1>4, <1>5, <1>6, <1>7, <1>8 DEF Reads
<1>10. QED
  BY <1>9 DEF f

LEMMA LengthReads ==
    ASSUME NEW huff \in BOOLEAN, NEW v \in Nat
    PROVE  Reads(KeyForm(huff), v) /\ Reads(ValForm(huff), v)
<1> DEFINE base == IF huff THEN 128 ELSE 0
           flags == IF huff THEN {F_HUFF} ELSE {}
           kcont == IF huff THEN S_KEY_LEN_CONT_HUFF ELSE S_KEY_LEN_CONT
           kto == IF huff THEN S_NAME ELSE S_NAME_PLAIN
           vcont == IF huff THEN S_VAL_LEN_CONT_HUFF ELSE S_VAL_LEN_CONT
           kf == KeyForm(huff)
           vf == ValForm(huff)
<1>1. /\ kf.first = S_KEY_LEN /\ kf.cont = kcont /\ kf.base = base /\ kf.max = 127
      /\ kf.to = kto /\ kf.kind = "KeyLen" /\ kf.flags = flags
  BY DEF KeyForm, Form
<1>2. /\ vf.first = S_VAL_LEN /\ vf.cont = vcont /\ vf.base = base /\ vf.max = 127
      /\ vf.to = S_FIELD /\ vf.kind = "ValLen" /\ vf.flags = flags
  BY DEF ValForm, Form
<1>3. ASSUME NEW x \in Nat, x <= 127
      PROVE  /\ RowEdge(S_KEY_LEN, base + x)
                   = IntEdge(base, 127, kto, kcont, "KeyLen", flags, base + x)
             /\ RowEdge(S_VAL_LEN, base + x)
                   = IntEdge(base, 127, S_FIELD, vcont, "ValLen", flags, base + x)
  <2> DEFINE c == base + x
  <2>1. (huff => ~(c < 128)) /\ (~huff => c < 128)
    BY <1>3
  <2> HIDE DEF c
  <2>2. /\ LengthEdge(S_KEY_LEN, c) = IntEdge(base, 127, kto, kcont, "KeyLen", flags, c)
        /\ LengthEdge(S_VAL_LEN, c) = IntEdge(base, 127, S_FIELD, vcont, "ValLen", flags, c)
    BY <2>1, StatesDiffer DEF LengthEdge
  <2> HIDE DEF base, kto, kcont, vcont, flags
  <2>3. QED
    BY <2>2, LengthIs DEF c
<1>4. base \in Nat /\ 127 \in Nat /\ base + 127 <= 255
  OBVIOUS
<1>5. /\ kcont \in RowStates /\ vcont \in RowStates /\ F_CONT \notin flags
      /\ S_KEY_LEN \in RowStates /\ S_VAL_LEN \in RowStates
  BY StatesDiffer, FlagsDiffer DEF ContStates
<1>8. \A c : /\ RowEdge(kcont, c) = ContEdge(kcont, "KeyLen", kto, flags, c)
             /\ RowEdge(vcont, c) = ContEdge(vcont, "ValLen", S_FIELD, flags, c)
  BY ContIs
<1> HIDE DEF kf, vf, base, flags, kcont, kto, vcont
<1>6. v < 127 => /\ RowEdge(S_KEY_LEN, base + v) = Edge(kto, Action("KeyLen", v, flags))
                 /\ RowEdge(S_VAL_LEN, base + v) = Edge(S_FIELD, Action("ValLen", v, flags))
  <2> SUFFICES ASSUME v < 127
               PROVE  /\ RowEdge(S_KEY_LEN, base + v) = Edge(kto, Action("KeyLen", v, flags))
                      /\ RowEdge(S_VAL_LEN, base + v) = Edge(S_FIELD, Action("ValLen", v, flags))
    OBVIOUS
  <2>1. (base + v) - base = v /\ base + v # base + 127 /\ v <= 127
    BY <1>4
  <2>2. QED
    BY <1>3, <2>1 DEF IntEdge
<1>7. /\ RowEdge(S_KEY_LEN, base + 127) = Edge(kcont, Action("IntStart", 127, {}))
      /\ RowEdge(S_VAL_LEN, base + 127) = Edge(vcont, Action("IntStart", 127, {}))
  <2>1. 127 \in Nat /\ 127 <= 127
    OBVIOUS
  <2>2. QED
    BY <1>3, <2>1 DEF IntEdge
<1>9. Reads(kf, v)
  BY <1>1, <1>4, <1>5, <1>6, <1>7, <1>8 DEF Reads
<1>10. Reads(vf, v)
  BY <1>2, <1>4, <1>5, <1>6, <1>7, <1>8 DEF Reads
<1>11. QED
  BY <1>9, <1>10 DEF kf, vf

\* The bytes q are those of an integer v of the form that are not read yet.
IntAhead(s, k, m, f, v, q) ==
    \/ s = f.first /\ Encoded(f.base, f.max, v, q)
    \/ s = f.cont /\ IntLeft(k, m, v, q)

\* The edge ends the integer, or it carries on.
Ends(k, m, c, e, f, v) ==
    /\ e.to = f.to
    /\ \E x \in Nat, F \in {f.flags, f.flags \cup {F_CONT}} :
          /\ e.action = Action(f.kind, x, F)
          /\ v < Word => (IF F_CONT \notin F THEN x ELSE Accumulated(k, m, c)) = v
Starts(e, f) == e = Edge(f.cont, Action("IntStart", f.max, {}))
Continues(e, f) == e = Edge(f.cont, Action("IntCont", 0, {}))

LEMMA IntByte ==
    ASSUME WideEnough, NEW f, NEW v \in Nat, Reads(f, v), NEW s, NEW k \in Nat, NEW m \in Nat,
           m % 7 = 0, NEW q, IntAhead(s, k, m, f, v, q), NEW c, c = q[1]
    PROVE  /\ q \in Seq(0..255) /\ Len(q) >= 1 /\ s \in RowStates
           /\ \/ Tail(q) = <<>> /\ Ends(k, m, c, RowEdge(s, c), f, v)
              \/ Starts(RowEdge(s, c), f) /\ IntLeft(f.max, 0, v, Tail(q))
              \/ /\ Continues(RowEdge(s, c), f)
                 /\ IntLeft(Accumulated(k, m, c), IF m <= MaxShift THEN m + 7 ELSE m, v, Tail(q))
<1>0. /\ f.base \in Nat /\ f.max \in Nat /\ f.base + f.max <= 255
      /\ f.first \in RowStates /\ f.cont \in RowStates /\ F_CONT \notin f.flags
  BY DEF Reads
<1>1. CASE s = f.first /\ Encoded(f.base, f.max, v, q)
  <2> DEFINE base == f.base
             max == f.max
  <2>1. Encoded(base, max, v, q)
    BY <1>1
  <2>2. base \in Nat /\ max \in Nat /\ base + max <= 255
    BY <1>0
  <2> HIDE DEF base, max
  <2>3. /\ q \in Seq(0..255) /\ Len(q) >= 1
        /\ v < max => q[1] = base + v /\ Tail(q) = <<>>
        /\ ~(v < max) => q[1] = base + max /\ IntLeft(max, 0, v, Tail(q))
    BY <2>1, <2>2, IntFirst
  <2>4. CASE v < max
    <3>1. RowEdge(s, c) = Edge(f.to, Action(f.kind, v, f.flags))
      BY <1>1, <2>3, <2>4 DEF Reads, base, max
    <3>2. Ends(k, m, c, Edge(f.to, Action(f.kind, v, f.flags)), f, v)
      BY <1>0 DEF Ends, Edge
    <3>3. QED
      BY <1>0, <1>1, <2>3, <2>4, <3>1, <3>2
  <2>5. CASE ~(v < max)
    <3>1. RowEdge(s, c) = Edge(f.cont, Action("IntStart", f.max, {}))
      BY <1>1, <2>3, <2>5 DEF Reads, base, max
    <3>2. IntLeft(f.max, 0, v, Tail(q))
      BY <2>3, <2>5 DEF max
    <3>3. QED
      BY <1>0, <1>1, <2>3, <3>1, <3>2 DEF Starts
  <2>6. QED
    BY <2>4, <2>5
<1>2. CASE s = f.cont /\ IntLeft(k, m, v, q)
  <2>1. /\ q \in Seq(0..255) /\ Len(q) >= 1
        /\ q[1] < 128 => Tail(q) = <<>> /\ (v < Word => Accumulated(k, m, q[1]) = v)
        /\ q[1] >= 128 => IntLeft(Accumulated(k, m, q[1]),
                                  IF m <= MaxShift THEN m + 7 ELSE m, v, Tail(q))
    BY <1>2, IntNext
  <2>2. c \in 0..255
    BY <2>1, ElementOfSeq
  <2>3. RowEdge(s, c) = ContEdge(f.cont, f.kind, f.to, f.flags, c)
    BY <1>2, <2>2 DEF Reads
  <2>4. CASE c < 128
    <3> DEFINE F == f.flags \cup {F_CONT}
               e == Edge(f.to, Action(f.kind, 0, F))
    <3>1. RowEdge(s, c) = e
      BY <2>3, <2>4 DEF ContEdge
    <3>2. F_CONT \in F /\ (v < Word => Accumulated(k, m, c) = v)
      BY <2>1, <2>4
    <3>3. e.to = f.to /\ e.action = Action(f.kind, 0, F)
      BY DEF Edge
    <3> HIDE DEF e
    <3>4. Ends(k, m, c, e, f, v)
      BY <3>2, <3>3 DEF Ends
    <3>5. QED
      BY <1>0, <1>2, <2>1, <2>4, <3>1, <3>4
  <2>5. CASE ~(c < 128)
    <3>1. RowEdge(s, c) = Edge(f.cont, Action("IntCont", 0, {}))
      BY <2>3, <2>5 DEF ContEdge
    <3>2. c >= 128
      BY <2>2, <2>5
    <3>3. IntLeft(Accumulated(k, m, c), IF m <= MaxShift THEN m + 7 ELSE m, v, Tail(q))
      BY <2>1, <3>2
    <3>4. QED
      BY <1>0, <1>2, <2>1, <3>1, <3>3 DEF Continues
  <2>6. QED
    BY <2>4, <2>5
<1>3. QED
  BY <1>1, <1>2 DEF IntAhead

-----------------------------------------------------------------------------
(* What is left of a block, and what the reader owes the tables for it.      *)

Left == SubSeq(block, i + 1, Len(block))
Spelled(entry, name) == \E huff \in BOOLEAN : entry = Entry(Spelling(name, huff), huff)

\* The mirror agrees with a table p of the peer.
Synced(p) ==
    /\ DOMAIN dt = {"entries", "deleted", "max"} /\ dt.deleted \in Nat /\ dt.max \in Nat
    /\ dt.entries \in Seq([key : Seq(0..255), huff : BOOLEAN])
    /\ DOMAIN p = {"added", "kept", "max"} /\ p.kept \in Nat /\ p.kept <= p.max
    /\ p.added \in Seq(HeaderNames)
    /\ dt.max = p.max /\ Len(dt.entries) = Len(p.added) /\ Count = p.kept
    /\ \A j \in 1..Len(p.added) : Spelled(dt.entries[j], p.added[j])

Adds(p, name, add) ==
    IF ~add \/ p.max = 0 THEN p
    ELSE [p EXCEPT !.added = Append(@, name), !.kept = Smaller(@ + 1, p.max)]
Resized(p, size) == [p EXCEPT !.max = size, !.kept = Smaller(@, size)]

\* The peer has added a name, or changed the size of its table, and the mirror not yet.
OwesName(name, add) == name \in HeaderNames /\ \E p : Synced(p) /\ peer = Adds(p, name, add)
OwesSize(v) == \E p : Synced(p) /\ peer = Resized(p, v)

\* An index names an entry of this name, and so does the name that was read last.
EntryIs(idx, name) == _is_valid_hpack_index(idx) /\ Spelled(AtSlot(Slot(idx)), name)
KeyIs(name) == ~(ps.key.source = "table" /\ ps.key.idx = 0) /\ Spelled(KeyOf(ps.key), name)

Ahead(f, v, q) == IntAhead(ps.s, ps.k, ps.m, f, v, q)

\* What is captured is w, and with what the block was to be captured as so far.
Caught(w) ==
    /\ DOMAIN ms = DOMAIN Nothing /\ DOMAIN w = DOMAIN Parser.captures
    /\ \A name \in DOMAIN w : ms[Parser.captures[name]] = w[name]
Settled == "wide" \in odd \/ Caught(want)

\* The peer has sent one more value of a name, and it is not captured yet.
Replaced(w, name, match) == IF name \in DOMAIN w THEN [w EXCEPT ![name] = match] ELSE w
OwesMatch(name, match) == "wide" \in odd \/ \E w : Caught(w) /\ want = Replaced(w, name, match)
OwesIndexed(v) ==
    \/ "wide" \in odd
    \/ /\ v < Word
       /\ IF _is_valid_hpack_index(v)
          THEN \E name \in HeaderNames : EntryIs(v, name) /\ OwesMatch(name, InTable(Slot(v)))
          ELSE Caught(want)

\* The string w with its length in front, and the value of a name, at the block's end.
IsString(u, huff, w) ==
    /\ w \in Seq(0..255) /\ Len(w) <= MAX_BYTES
    /\ \E q : u = q \o w /\ Encoded(IF huff THEN 128 ELSE 0, 127, Len(w), q)
AtEnd(n, huff) == InMessage(Len(block) - n, n, huff)
OwedValue(u, name) ==
    \E huff \in BOOLEAN : \E w : IsString(u, huff, w) /\ OwesMatch(name, AtEnd(Len(w), huff))

\* The bytes w are those of a name the reader has not walked yet.
Walking(name, w) ==
    \E huff \in BOOLEAN, k \in Nat :
        /\ k + Len(w) = Len(Spelling(name, huff))
        /\ \A j \in 1..Len(w) : w[j] = Spelling(name, huff)[k + j]
        /\ At(ps.s, Prefix(RootOf(huff), Spelling(name, huff), k))

\* The bytes t the peer has sent and the reader has not read, by where it stands.
Zero(t) == t = <<128>> /\ ps.s = S_FIELD /\ ps.skip = 0 /\ Synced(peer)
Idle(t) == t = <<>> /\ ps.s = S_FIELD /\ ps.skip = 0 /\ Synced(peer) /\ Settled
IndexedLeft(t) ==
    /\ ps.skip = 0 /\ Synced(peer)
    /\ \E v \in Nat \ {0} : Ahead(IndexedForm, v, t) /\ OwesIndexed(v)
SizeLeft(t) ==
    /\ ps.skip = 0 /\ Settled
    /\ \E v \in 0..(Word - 1) : Ahead(SizeForm, v, t) /\ OwesSize(v)
IndexNameLeft(t) ==
    /\ ps.skip = 0
    /\ \E lit \in Literals, idx \in 1..(Word - 1) : \E q, u, name :
          /\ t = q \o u /\ Ahead(NameForm(lit), idx, q) /\ OwedValue(u, name)
          /\ EntryIs(idx, name) /\ OwesName(name, lit.add)
NewNameLeft(t) ==
    /\ ps.s = S_FIELD /\ ps.skip = 0
    /\ \E lit \in Literals, huff \in BOOLEAN : \E w, u, name :
          /\ t = (<<lit.flags>> \o w) \o u
          /\ IsString(w, huff, Spelling(name, huff))
          /\ OwedValue(u, name) /\ OwesName(name, lit.add)
NameLenLeft(t) ==
    /\ ps.skip = 0 /\ ps.cid = NoCapture
    /\ \E huff \in BOOLEAN : \E q, u, name :
          /\ t = q \o (Spelling(name, huff) \o u)
          /\ Len(Spelling(name, huff)) <= MAX_BYTES
          /\ Ahead(KeyForm(huff), Len(Spelling(name, huff)), q)
          /\ OwedValue(u, name) /\ OwesName(name, ps.add_to_dt)
NameLeft(t) ==
    /\ ps.skip > 0 /\ ps.is_key
    /\ \E w, u, name :
          /\ t = w \o u /\ w \in Seq(0..255) /\ Len(w) = ps.skip /\ Walking(name, w)
          /\ OwedValue(u, name) /\ OwesName(name, ps.add_to_dt) /\ KeyIs(name)
ValueLenLeft(t) ==
    /\ ps.skip = 0
    /\ \E huff \in BOOLEAN : \E q, w, name :
          /\ t = q \o w /\ w \in Seq(0..255) /\ Len(w) <= MAX_BYTES
          /\ Ahead(ValForm(huff), Len(w), q)
          /\ ps.cid = CapOf(name) /\ OwesMatch(name, AtEnd(Len(w), huff))
          /\ OwesName(name, ps.add_to_dt) /\ KeyIs(name)
ValueLeft(t) ==
    /\ ps.skip > 0 /\ ~ps.is_key /\ ps.s = S_FIELD /\ Len(t) = ps.skip
    /\ Synced(peer) /\ Settled

Rest(t) ==
    \/ Idle(t) \/ IndexedLeft(t) \/ SizeLeft(t) \/ IndexNameLeft(t) \/ NewNameLeft(t)
    \/ NameLenLeft(t) \/ NameLeft(t) \/ ValueLenLeft(t) \/ ValueLeft(t)

PsFields == {"s", "k", "m", "skip", "is_key", "cid", "add_to_dt", "key"}
Shape ==
    /\ block \in Seq(0..255) /\ i \in Nat /\ i <= Len(block)
    /\ DOMAIN ps = PsFields /\ ps.k \in Nat /\ ps.m \in Nat /\ ps.m % 7 = 0 /\ ps.skip \in Nat
    /\ ps.is_key \in BOOLEAN /\ ps.add_to_dt \in BOOLEAN

\* An index 0 is among the bytes left, or it has been refused.
Within ==
    \/ ret = 0 /\ "zero" \notin odd /\ Rest(Left)
    \/ ret = 0 /\ "zero" \in odd /\ Zero(Left)
    \/ ret = EBADMSG /\ "zero" \in odd /\ Synced(peer)

Inv == Shape /\ Within

Fitting == WideEnough /\ LengthsFit /\ StaticTableAgrees

LEMMA LeftIs ==
    ASSUME Shape
    PROVE  Left \in Seq(0..255) /\ Len(Left) = Len(block) - i
<1>1. block \in Seq(0..255) /\ i \in Nat /\ i <= Len(block) /\ Len(block) \in Nat
  BY DEF Shape
<1>2. \A j \in (i + 1)..Len(block) : block[j] \in 0..255
  BY <1>1, ElementOfSeq
<1> DEFINE a == i + 1
           n == Len(block)
<1>3. SubSeq(block, a, n) \in Seq(0..255)
      /\ Len(SubSeq(block, a, n)) = IF a <= n THEN n - a + 1 ELSE 0
  <2>1. a \in Int /\ n \in Int
    BY <1>1
  <2>2. \A j \in a..n : block[j] \in 0..255
    BY <1>2
  <2> HIDE DEF a, n
  <2>3. QED
    BY <2>1, <2>2, SubSeqProperties
<1>5. (IF a <= n THEN n - a + 1 ELSE 0) = Len(block) - i
  BY <1>1
<1>4. QED
  BY <1>3, <1>5 DEF Left

LEMMA LeftStep ==
    ASSUME Shape, i < Len(block)
    PROVE  /\ Left # <<>> /\ Len(Left) > 0 /\ Byte = Left[1] /\ Byte \in 0..255
           /\ SubSeq(block, i + 2, Len(block)) = Tail(Left)
<1> DEFINE n == Len(block)
           j == i + 1
<1>1. block \in Seq(0..255) /\ i \in Nat /\ n \in Nat /\ j \in 1..n
  BY DEF Shape
<1>2. Left \in Seq(0..255) /\ Len(Left) > 0 /\ Left # <<>>
  BY <1>1, LeftIs
<1>3. Left[1] = block[j] /\ block[j] \in 0..255
  BY <1>1, ElementOfSeq DEF Left
<1>4. SubSeq(block, i + 2, n) = Tail(Left)
  <2>1. i + 2 = j + 1
    BY <1>1
  <2> HIDE DEF j
  <2>2. SubSeq(block, j + 1, n) = Tail(SubSeq(block, j, n))
    BY <1>1, HeadTailOfSubSeq
  <2>3. QED
    BY <2>1, <2>2 DEF Left, j
<1>5. QED
  BY <1>2, <1>3, <1>4 DEF Byte

LEMMA ReadShifts ==
    ASSUME Shape, _parse_hdr_byte
    PROVE  /\ block' = block /\ i' = i + 1 /\ i' \in Nat /\ i' <= Len(block)
           /\ Left' = Tail(Left) /\ peer' = peer /\ odd' = odd /\ want' = want /\ ret = 0
           /\ Left # <<>> /\ Byte = Left[1] /\ Byte \in 0..255
<1>1. /\ block' = block /\ i' = i + 1 /\ peer' = peer /\ odd' = odd /\ want' = want /\ ret = 0
      /\ i < Len(block)
  BY DEF _parse_hdr_byte, peerVars, Reading
<1>2. i \in Nat /\ Len(block) \in Nat
  BY DEF Shape
<1>3. (i + 1) + 1 = i + 2
  BY <1>2
<1>4. Left' = SubSeq(block, i + 2, Len(block))
  BY <1>1, <1>3 DEF Left
<1>5. QED
  BY <1>1, <1>2, <1>4, LeftStep

LEMMA SentLeft ==
    ASSUME Shape, i = Len(block), NEW bytes \in Seq(0..255)
    PROVE  /\ block \o bytes \in Seq(0..255) /\ i <= Len(block \o bytes)
           /\ SubSeq(block \o bytes, i + 1, Len(block \o bytes)) = bytes
<1>1. block \in Seq(0..255) /\ Len(block) \in Nat /\ Len(bytes) \in Nat
  BY DEF Shape
<1> DEFINE s == block \o bytes
<1>2. s \in Seq(0..255) /\ Len(s) = Len(block) + Len(bytes)
  BY <1>1, ConcatProperties
<1>3. i <= Len(s)
  BY <1>1, <1>2
<1>4. SubSeq(block \o bytes, Len(block) + 1, Len(block) + Len(bytes)) = bytes
  <2> DEFINE t == SubSeq(s, Len(block) + 1, Len(block) + Len(bytes))
             n == Len(block)
             m == Len(bytes)
  <2>1. t \in Seq(0..255) /\ Len(t) = m /\ \A j \in 1..m : t[j] = s[n + j]
    <3> HIDE DEF s, t
    <3>1. n + 1 \in Int /\ n + m \in Int
      BY <1>1
    <3>2. t = SubSeq(s, n + 1, n + m) /\ n + 1 >= 1 /\ n + m <= Len(s)
      BY <1>1, <1>2 DEF t
    <3> HIDE DEF n, m
    <3>3. n \in Nat /\ m \in Nat
      BY <1>1 DEF n, m
    <3> DEFINE a == n + 1
               b == n + m
    <3>4. a \in Int /\ b \in Int /\ b - a + 1 = m /\ t = SubSeq(s, a, b)
          /\ (IF a <= b THEN b - a + 1 ELSE 0) = m /\ Len(s) = b /\ a >= 1
      BY <1>2, <3>2, <3>3 DEF n, m
    <3>5. \A j \in 1..m : a + j - 1 = n + j
      BY <3>3
    <3> HIDE DEF a, b
    <3>9. \A j \in a..b : j \in 1..Len(s)
      BY <3>4
    <3>6. \A j \in a..b : s[j] \in 0..255
      BY <1>2, <3>9, ElementOfSeq
    <3>7. /\ t \in Seq(0..255) /\ Len(t) = (IF a <= b THEN b - a + 1 ELSE 0)
          /\ \A j \in 1..(b - a + 1) : t[j] = s[a + j - 1]
      BY <3>4, <3>6, SubSeqProperties
    <3>8. QED
      BY <3>4, <3>5, <3>7
  <2>2. \A j \in 1..m : s[n + j] = bytes[j]
    BY <1>1
  <2> HIDE DEF t, s
  <2>3. \A j \in 1..m : t[j] = bytes[j]
    BY <2>1, <2>2
  <2>4. t = bytes
    BY <2>1, <2>3, SeqEqual
  <2>5. QED
    BY <2>4 DEF t, s
<1>5. QED
  BY <1>2, <1>3, <1>4

LEMMA ConcatStep ==
    ASSUME NEW S, NEW q \in Seq(S), NEW u \in Seq(S), Len(q) >= 1
    PROVE  /\ q \o u \in Seq(S) /\ Len(q \o u) >= 1 /\ (q \o u)[1] = q[1] /\ q[1] \in S
           /\ Tail(q \o u) = Tail(q) \o u /\ Tail(q) \in Seq(S) /\ Len(Tail(q)) = Len(q) - 1
<1> DEFINE n == Len(q)
           m == Len(u)
           s == q \o u
           t == Tail(q)
<1>1. n \in Nat /\ m \in Nat /\ n >= 1 /\ q # <<>>
  OBVIOUS
<1>2. /\ s \in Seq(S) /\ Len(s) = n + m
      /\ \A j \in 1..(n + m) : s[j] = IF j <= n THEN q[j] ELSE u[j - n]
  BY ConcatProperties
<1>3. t \in Seq(S) /\ Len(t) = n - 1 /\ \A j \in 1..(n - 1) : t[j] = q[j + 1]
  <2>1. t \in Seq(S) /\ Len(t) = n - 1 /\ \A j \in 1..Len(t) : t[j] = q[j + 1]
    BY <1>1, HeadTailProperties
  <2> HIDE DEF t, n
  <2>2. QED
    BY <2>1
<1> HIDE DEF n, m, s, t
<1>4. s # <<>> /\ Len(s) >= 1 /\ s[1] = q[1]
  BY <1>1, <1>2
<1>5. Tail(s) \in Seq(S) /\ Len(Tail(s)) = (n + m) - 1
      /\ \A j \in 1..Len(Tail(s)) : Tail(s)[j] = s[j + 1]
  BY <1>2, <1>4, HeadTailProperties
<1>6. t \o u \in Seq(S) /\ Len(t \o u) = (n - 1) + m
      /\ \A j \in 1..((n - 1) + m) : (t \o u)[j] = IF j <= n - 1 THEN t[j] ELSE u[j - (n - 1)]
  <2>1. /\ t \o u \in Seq(S) /\ Len(t \o u) = Len(t) + Len(u)
        /\ \A j \in 1..(Len(t) + Len(u)) :
              (t \o u)[j] = IF j <= Len(t) THEN t[j] ELSE u[j - Len(t)]
    BY <1>3, ConcatProperties
  <2>2. QED
    BY <1>3, <2>1 DEF m
<1>7. ASSUME NEW j \in 1..((n + m) - 1) PROVE Tail(s)[j] = (t \o u)[j]
  <2>1. j + 1 \in 1..(n + m) /\ j \in Nat /\ j >= 1 /\ j \in 1..Len(Tail(s)) /\ j \in 1..((n - 1) + m)
    BY <1>1, <1>5
  <2>2. Tail(s)[j] = IF j + 1 <= n THEN q[j + 1] ELSE u[(j + 1) - n]
    BY <1>2, <1>5, <2>1
  <2>3. (t \o u)[j] = IF j <= n - 1 THEN t[j] ELSE u[j - (n - 1)]
    BY <1>6, <2>1
  <2>4. (j + 1 <= n <=> j <= n - 1) /\ (j + 1) - n = j - (n - 1)
    BY <1>1, <2>1
  <2>5. j <= n - 1 => t[j] = q[j + 1]
    BY <1>1, <1>3, <2>1
  <2>6. QED
    BY <2>2, <2>3, <2>4, <2>5
<1>8. Len(Tail(s)) = Len(t \o u)
  BY <1>1, <1>5, <1>6
<1>9. Tail(s) = t \o u
  BY <1>5, <1>6, <1>7, <1>8, SeqEqual
<1>10. q[1] \in S
  BY <1>1, ElementOfSeq DEF n
<1>11. QED
  BY <1>2, <1>3, <1>4, <1>9, <1>10 DEF s, t, n

\* A byte of an integer is read, and the integer carries on.
Carries(f, v, q, u) ==
    /\ Left' = Tail(q) \o u /\ Ahead(f, v, Tail(q))'
    /\ Shape' /\ ps'.skip = 0 /\ ps'.add_to_dt = ps.add_to_dt /\ ps'.key = ps.key
    /\ ps'.cid = ps.cid /\ ms' = ms /\ dt' = dt /\ ret' = 0

\* It was the last one, and the action is run with the integer.
Finishes(f, v, u) ==
    /\ Left' = u
    /\ \E e : /\ e.to = f.to /\ e.action[1] = f.kind
              /\ (F_HUFF \in f.flags <=> Flag(e, F_HUFF))
              /\ (F_ADD_DT \in f.flags <=> Flag(e, F_ADD_DT))
              /\ v < Word => Integer(e) = v
              /\ _run_action(e)

LEMMA ActionIs ==
    ASSUME NEW kind, NEW x, NEW F
    PROVE  LET a == Action(kind, x, F)
           IN  a # NoAction /\ a[1] = kind /\ a[2] = x /\ a[3] = F
  BY DEF Action, NoAction

LEMMA ByteTakes ==
    ASSUME _parse_hdr_byte, ps.skip = 0, ps.s \in RowStates, Byte \in 0..255,
           RowEdge(ps.s, Byte) # NoEdge
    PROVE  LET e == RowEdge(ps.s, Byte)
           IN  /\ _next(states, ps.s, Byte) = e /\ states[ps.s][Byte] = e
               /\ \/ e.action[1] = "IntStart" /\ StartInt(e)
                  \/ e.action[1] = "IntCont" /\ ContinueInt(e)
                  \/ _run_action(e)
<1>1. /\ _next(states, ps.s, Byte) = RowEdge(ps.s, Byte)
      /\ states[ps.s][Byte] = RowEdge(ps.s, Byte)
  BY NextIsRow
<1>2. \E e \in {_next(states, ps.s, Byte)} :
          \/ ReadString(e)
          \/ /\ ~InString /\ e.action # NoAction
             /\ \/ e.action[1] = "IntStart" /\ StartInt(e)
                \/ e.action[1] = "IntCont" /\ ContinueInt(e)
                \/ _run_action(e)
  BY DEF _parse_hdr_byte
<1>3. \A e : ~ReadString(e)
  BY DEF ReadString, InString
<1>4. QED
  BY <1>1, <1>2, <1>3

LEMMA ReadsInt ==
    ASSUME WideEnough, Shape, _parse_hdr_byte, ps.skip = 0,
           NEW f, NEW v \in Nat, Reads(f, v), f.kind \notin {"IntStart", "IntCont"},
           NEW q, NEW u \in Seq(0..255), Ahead(f, v, q), Left = q \o u
    PROVE  Carries(f, v, q, u) \/ Finishes(f, v, u)
<1> DEFINE c == q[1]
           e == RowEdge(ps.s, c)
           m2 == IF ps.m <= MaxShift THEN ps.m + 7 ELSE ps.m
<1>1. /\ q \in Seq(0..255) /\ Len(q) >= 1 /\ ps.s \in RowStates
      /\ \/ Tail(q) = <<>> /\ Ends(ps.k, ps.m, c, e, f, v)
         \/ Starts(e, f) /\ IntLeft(f.max, 0, v, Tail(q))
         \/ Continues(e, f) /\ IntLeft(Accumulated(ps.k, ps.m, c), m2, v, Tail(q))
  BY IntByte, ZenonT(60) DEF Ahead, Shape
<1>2. /\ block' = block /\ i' = i + 1 /\ i' \in Nat /\ i' <= Len(block)
      /\ Left' = Tail(q) \o u /\ ret = 0 /\ Byte = c /\ c \in 0..255
  <2>1. /\ block' = block /\ i' = i + 1 /\ i' \in Nat /\ i' <= Len(block)
        /\ Left' = Tail(Left) /\ ret = 0 /\ Byte = Left[1] /\ Byte \in 0..255
    BY ReadShifts
  <2>2. Left[1] = c /\ Tail(Left) = Tail(q) \o u
    BY <1>1, ConcatStep
  <2>3. QED
    BY <2>1, <2>2
<1>3. e # NoEdge
  <2>1. \A kind, x, F, to : Edge(to, Action(kind, x, F)) # NoEdge
    BY ActionIs DEF Edge, NoEdge
  <2>2. e.action # NoAction
    BY <1>1, ActionIs DEF Ends, Starts, Continues, Edge
  <2>3. NoEdge.action = NoAction
    BY DEF NoEdge, Edge
  <2>4. QED
    BY <2>2, <2>3
<1>4. \/ e.action[1] = "IntStart" /\ StartInt(e)
      \/ e.action[1] = "IntCont" /\ ContinueInt(e)
      \/ _run_action(e)
  BY <1>1, <1>2, <1>3, ByteTakes
<1>5. \A x : _run_action(x) => x.action[1] \notin {"IntStart", "IntCont"}
  BY DEF _run_action
<1> HIDE DEF e, c, m2
<1>6. CASE Tail(q) = <<>> /\ Ends(ps.k, ps.m, c, e, f, v)
  <2>1. PICK x \in Nat, F \in {f.flags, f.flags \cup {F_CONT}} :
           /\ e.action = Action(f.kind, x, F)
           /\ v < Word => (IF F_CONT \notin F THEN x ELSE Accumulated(ps.k, ps.m, c)) = v
    BY <1>6 DEF Ends
  <2>2. e.action[1] = f.kind /\ e.action[2] = x /\ e.action[3] = F
    BY <2>1, ActionIs
  <2>3. _run_action(e)
    BY <1>4, <2>2
  <2>4. Left' = u
    BY <1>2, <1>6, ConcatEmptySeq
  <2>5. (F_HUFF \in f.flags <=> Flag(e, F_HUFF)) /\ (F_ADD_DT \in f.flags <=> Flag(e, F_ADD_DT))
    BY <2>1, <2>2, FlagsDiffer DEF Flag
  <2>6. v < Word => Integer(e) = v
    BY <1>2, <2>1, <2>2 DEF Integer, Flag, Accumulated, Word
  <2>7. e.to = f.to
    BY <1>6 DEF Ends
  <2>8. QED
    BY <2>2, <2>3, <2>4, <2>5, <2>6, <2>7 DEF Finishes
<1>7. CASE Starts(e, f) /\ IntLeft(f.max, 0, v, Tail(q))
  <2>1. e.to = f.cont /\ e.action[1] = "IntStart" /\ e.action[2] = f.max
    BY <1>7, ActionIs DEF Starts, Edge
  <2>2. StartInt(e)
    BY <1>4, <1>5, <2>1
  <2>3. /\ DOMAIN ps' = PsFields /\ ps'.s = f.cont /\ ps'.k = f.max /\ ps'.m = 0
        /\ ps'.skip = 0 /\ ps'.is_key = ps.is_key /\ ps'.add_to_dt = ps.add_to_dt
        /\ ps'.key = ps.key /\ ps'.cid = ps.cid /\ ms' = ms /\ dt' = dt /\ ret' = 0
    BY <1>2, <2>1, <2>2 DEF StartInt, Shape, PsFields
  <2>4. Ahead(f, v, Tail(q))'
    BY <1>7, <2>3 DEF Ahead, IntAhead
  <2>5. f.max \in Nat
    BY DEF Reads
  <2>6. Shape'
    BY <1>2, <2>3, <2>5 DEF Shape
  <2>7. QED
    BY <1>2, <2>3, <2>4, <2>6 DEF Carries
<1>8. CASE Continues(e, f) /\ IntLeft(Accumulated(ps.k, ps.m, c), m2, v, Tail(q))
  <2>1. e.to = f.cont /\ e.action[1] = "IntCont"
    BY <1>8, ActionIs DEF Continues, Edge
  <2>2. ContinueInt(e)
    BY <1>4, <1>5, <2>1
  <2>3. /\ DOMAIN ps' = PsFields /\ ps'.s = f.cont
        /\ ps'.k = Accumulated(ps.k, ps.m, c) /\ ps'.m = m2
        /\ ps'.skip = 0 /\ ps'.is_key = ps.is_key /\ ps'.add_to_dt = ps.add_to_dt
        /\ ps'.key = ps.key /\ ps'.cid = ps.cid /\ ms' = ms /\ dt' = dt /\ ret' = 0
    <3>1. CASE ps.m <= MaxShift
      BY <1>2, <2>1, <2>2, <3>1 DEF ContinueInt, Shape, PsFields, Accumulated, m2, Word
    <3>2. CASE ~(ps.m <= MaxShift)
      BY <1>2, <2>1, <2>2, <3>2 DEF ContinueInt, Shape, PsFields, Accumulated, m2
    <3>3. QED
      BY <3>1, <3>2
  <2>4. Ahead(f, v, Tail(q))'
    BY <1>8, <2>3 DEF Ahead, IntAhead
  <2>5. Accumulated(ps.k, ps.m, c) \in Nat /\ m2 \in Nat /\ m2 % 7 = 0
    <3>1. ps.k \in Nat /\ ps.m \in Nat /\ ps.m % 7 = 0
      BY DEF Shape
    <3>2. (ps.m + 7) % 7 = 0 /\ ps.m + 7 \in Nat
      BY <3>1
    <3>3. m2 \in Nat /\ m2 % 7 = 0
      BY <3>1, <3>2 DEF m2
    <3>4. Accumulated(ps.k, ps.m, c) \in Nat
      BY <1>2, <3>1, AccumulatedIsNat
    <3>5. QED
      BY <3>3, <3>4
  <2>6. Shape'
    BY <1>2, <2>3, <2>5 DEF Shape
  <2>7. QED
    BY <1>2, <2>3, <2>4, <2>6 DEF Carries
<1>9. QED
  BY <1>1, <1>6, <1>7, <1>8

-----------------------------------------------------------------------------
(* What a step leaves alone.                                                 *)

LEMMA TablesStay ==
    ASSUME dt' = dt
    PROVE  /\ \A p : Synced(p) => Synced(p)'
           /\ \A idx, name : EntryIs(idx, name) => EntryIs(idx, name)'
  BY DEF Synced, Count, Added, EntryIs, _is_valid_hpack_index, AtSlot, Slot

LEMMA DebtsStay ==
    ASSUME dt' = dt, peer' = peer
    PROVE  /\ Synced(peer) => Synced(peer)'
           /\ \A name, add : OwesName(name, add) => OwesName(name, add)'
           /\ \A v : OwesSize(v) => OwesSize(v)'
<1>1. Synced(peer) => Synced(peer)'
  BY DEF Synced, Count, Added
<1>2. ASSUME NEW name, NEW add, OwesName(name, add) PROVE OwesName(name, add)'
  BY <1>2, TablesStay DEF OwesName
<1>3. ASSUME NEW v, OwesSize(v) PROVE OwesSize(v)'
  BY <1>3, TablesStay DEF OwesSize
<1>4. QED
  BY <1>1, <1>2, <1>3

LEMMA KeyStays ==
    ASSUME dt' = dt, block' = block, ps'.key = ps.key, NEW name, KeyIs(name)
    PROVE  KeyIs(name)'
  BY DEF KeyIs, KeyOf, AtSlot

LEMMA MatchesStay ==
    ASSUME ms' = ms, want' = want, odd' = odd, block' = block
    PROVE  /\ Settled => Settled'
           /\ \A name, match : OwesMatch(name, match) => OwesMatch(name, match)'
           /\ \A u, name : OwedValue(u, name) => OwedValue(u, name)'
<1>1. \A w : Caught(w) => Caught(w)'
  BY DEF Caught
<1>2. Settled => Settled'
  BY DEF Settled, Caught
<1>3. \A name, match : OwesMatch(name, match) => OwesMatch(name, match)'
  BY <1>1 DEF OwesMatch
<1>4. ASSUME NEW u, NEW name, OwedValue(u, name) PROVE OwedValue(u, name)'
  <2>1. PICK huff \in BOOLEAN : \E w : IsString(u, huff, w)
                                       /\ OwesMatch(name, AtEnd(Len(w), huff))
    BY <1>4 DEF OwedValue
  <2>2. PICK w : IsString(u, huff, w) /\ OwesMatch(name, AtEnd(Len(w), huff))
    BY <2>1
  <2>3. PICK match : match = AtEnd(Len(w), huff)
    OBVIOUS
  <2>4. AtEnd(Len(w), huff)' = match
    BY <2>3 DEF AtEnd
  <2>5. OwesMatch(name, match)'
    BY <1>3, <2>2, <2>3
  <2>6. OwesMatch(name, AtEnd(Len(w), huff))'
    BY <2>4, <2>5 DEF OwesMatch
  <2>7. QED
    BY <2>2, <2>6 DEF OwedValue
<1>5. QED
  BY <1>2, <1>3, <1>4

LEMMA IndexStays ==
    ASSUME ms' = ms, want' = want, odd' = odd, block' = block, dt' = dt,
           NEW v, OwesIndexed(v)
    PROVE  OwesIndexed(v)'
<1>1. CASE "wide" \in odd
  BY <1>1 DEF OwesIndexed
<1>2. CASE v < Word /\ _is_valid_hpack_index(v) /\ "wide" \notin odd
  <2>1. PICK name \in HeaderNames : EntryIs(v, name) /\ OwesMatch(name, InTable(Slot(v)))
    BY <1>2 DEF OwesIndexed
  <2>2. _is_valid_hpack_index(v)' /\ Slot(v)' = Slot(v)
    BY <1>2 DEF _is_valid_hpack_index, Count, Added, Slot
  <2>3. EntryIs(v, name)'
    BY <2>1, TablesStay
  <2>4. OwesMatch(name, InTable(Slot(v)))'
    BY <2>1, <2>2 DEF OwesMatch, Caught
  <2>5. QED
    BY <1>2, <2>2, <2>3, <2>4 DEF OwesIndexed
<1>3. CASE v < Word /\ ~_is_valid_hpack_index(v) /\ "wide" \notin odd
  <2>1. Caught(want)'
    BY <1>3 DEF OwesIndexed, Caught
  <2>2. ~_is_valid_hpack_index(v)'
    BY <1>3 DEF _is_valid_hpack_index, Count, Added
  <2>3. QED
    BY <1>3, <2>1, <2>2 DEF OwesIndexed
<1>4. QED
  BY <1>1, <1>2, <1>3 DEF OwesIndexed

\* What the parser captures has a place of its own among the matches.
LEMMA CapturesPlaced ==
    /\ DOMAIN Parser.captures \subseteq HeaderNames
    /\ \A name \in DOMAIN Parser.captures :
          Parser.captures[name] \in DOMAIN Nothing /\ Parser.captures[name] # NoCapture
    /\ \A name, other \in DOMAIN Parser.captures :
          Parser.captures[name] = Parser.captures[other] => name = other
<1>1. PICK L, K : TrieOf(Parser, L, K)
  BY ParserGood DEF Good
<1>2. Names(Parser, K)
  BY <1>1 DEF TrieOf
<1>3. DOMAIN Nothing = 0..(Parser.num_matches - 1)
  BY DEF Nothing
<1> DEFINE n == Parser.num_matches
           c == Parser.captures
<1>4. /\ DOMAIN c \subseteq Capturable /\ n \in Nat
      /\ \A name \in DOMAIN c : c[name] \in Nat /\ c[name] < n
      /\ \A name, other \in DOMAIN c : c[name] = c[other] => name = other
  BY <1>2 DEF Names
<1>5. DOMAIN Nothing = 0..(n - 1)
  BY <1>3
<1> HIDE DEF n, c
<1>6. \A name \in DOMAIN c : c[name] \in DOMAIN Nothing /\ c[name] # NoCapture
  BY <1>4, <1>5 DEF NoCapture
<1>7. QED
  BY <1>4, <1>6 DEF c, Capturable

\* What was owed is captured.
LEMMA MatchPaid ==
    ASSUME NEW name, NEW match, OwesMatch(name, match), want' = want, odd' = odd,
           ms' = IF CapOf(name) = NoCapture THEN ms ELSE [ms EXCEPT ![CapOf(name)] = match]
    PROVE  Settled'
<1>1. CASE "wide" \in odd
  BY <1>1 DEF Settled
<1>2. CASE "wide" \notin odd
  <2>1. PICK w : Caught(w) /\ want = Replaced(w, name, match)
    BY <1>2 DEF OwesMatch
  <2> DEFINE c == Parser.captures
  <2>2. /\ DOMAIN ms = DOMAIN Nothing /\ DOMAIN w = DOMAIN c
        /\ \A other \in DOMAIN w : ms[c[other]] = w[other]
    BY <2>1 DEF Caught
  <2>3. /\ \A other \in DOMAIN c : c[other] \in DOMAIN Nothing /\ c[other] # NoCapture
        /\ \A other, one \in DOMAIN c : c[other] = c[one] => other = one
    BY CapturesPlaced
  <2>4. CapOf(name) = IF name \in DOMAIN c THEN c[name] ELSE NoCapture
    BY DEF CapOf
  <2> HIDE DEF c
  <2>5. DOMAIN ms' = DOMAIN Nothing /\ DOMAIN want = DOMAIN c
    BY <2>1, <2>2 DEF Replaced
  <2>6. \A other \in DOMAIN want : ms'[c[other]] = want[other]
    <3>1. CASE name \in DOMAIN c
      <4>1. ms' = [ms EXCEPT ![c[name]] = match] /\ want = [w EXCEPT ![name] = match]
        BY <2>1, <2>2, <2>3, <2>4, <3>1 DEF Replaced
      <4>2. QED
        BY <2>2, <2>3, <2>5, <3>1, <4>1
    <3>2. CASE name \notin DOMAIN c
      BY <2>1, <2>2, <2>4, <3>2 DEF Replaced
    <3>3. QED
      BY <3>1, <3>2
  <2>7. Caught(want)'
    BY <2>5, <2>6 DEF Caught, c
  <2>8. QED
    BY <2>7 DEF Settled
<1>3. QED
  BY <1>1, <1>2

\* An index of a name is captured as the name is.
LEMMA NamedIs ==
    ASSUME NEW idx, NEW name \in HeaderNames, EntryIs(idx, name)
    PROVE  Named(idx) = CapOf(name) /\ NamedSlot(idx) = Slot(idx)
<1>1. PICK huff \in BOOLEAN : AtSlot(Slot(idx)) = Entry(Spelling(name, huff), huff)
  BY DEF EntryIs, Spelled
<1>2. _match_header_key(AtSlot(Slot(idx))) = CapOf(name)
  BY <1>1, KeyMatched
<1>3. QED
  BY <1>2 DEF EntryIs, Named, NamedSlot

\* The action that is run by its kind.
LEMMA RunIs ==
    ASSUME NEW e, _run_action(e)
    PROVE  /\ e.action[1] = "Indexed" => RunIndexed(e, Integer(e))
           /\ e.action[1] = "IdxName" => RunIdxName(e, Integer(e))
           /\ e.action[1] = "LitName" => RunLitName(e)
           /\ e.action[1] = "KeyLen" => RunKeyLen(e, Integer(e) % (MAX_BYTES + 1))
           /\ e.action[1] = "ValLen" => RunValLen(e, Integer(e) % (MAX_BYTES + 1))
           /\ e.action[1] = "TableSize" => RunTableSize(e, Integer(e))
           /\ e.action[1] = "Err" => RunErr(e)
  BY DEF _run_action

-----------------------------------------------------------------------------
(* A byte of each of the forms.                                              *)

LEMMA FormKinds ==
    /\ IndexedForm.kind = "Indexed" /\ IndexedForm.to = S_FIELD
    /\ SizeForm.kind = "TableSize" /\ SizeForm.to = S_FIELD
    /\ \A lit : NameForm(lit).kind = "IdxName" /\ NameForm(lit).to = S_VAL_LEN
                /\ NameForm(lit).flags = (IF lit.add THEN {F_ADD_DT} ELSE {})
    /\ \A huff : /\ KeyForm(huff).kind = "KeyLen" /\ ValForm(huff).kind = "ValLen"
                 /\ KeyForm(huff).to = (IF huff THEN S_NAME ELSE S_NAME_PLAIN)
                 /\ ValForm(huff).to = S_FIELD
                 /\ KeyForm(huff).flags = (IF huff THEN {F_HUFF} ELSE {})
                 /\ ValForm(huff).flags = (IF huff THEN {F_HUFF} ELSE {})
                 /\ KeyForm(huff).first = S_KEY_LEN /\ ValForm(huff).first = S_VAL_LEN
                 /\ KeyForm(huff).base = (IF huff THEN 128 ELSE 0) /\ KeyForm(huff).max = 127
                 /\ ValForm(huff).base = (IF huff THEN 128 ELSE 0) /\ ValForm(huff).max = 127
  BY DEF IndexedForm, SizeForm, NameForm, KeyForm, ValForm, Form

LEMMA ReadIndexed ==
    ASSUME Fitting, Shape, _parse_hdr_byte, IndexedLeft(Left)
    PROVE  Shape' /\ ret' = 0 /\ Rest(Left)'
<1>1. PICK q : q = Left
  OBVIOUS
<1>2. PICK v \in Nat \ {0} : Ahead(IndexedForm, v, q) /\ OwesIndexed(v)
  BY <1>1 DEF IndexedLeft
<1>3. PICK f : f = IndexedForm
  OBVIOUS
<1>4. ps.skip = 0 /\ Synced(peer)
  BY DEF IndexedLeft
<1>5. q \in Seq(0..255) /\ q # <<>> /\ <<>> \in Seq(0..255) /\ q = q \o <<>>
      /\ Tail(q) \in Seq(0..255) /\ Tail(q) \o <<>> = Tail(q)
  <2>1. q \in Seq(0..255) /\ q # <<>> /\ <<>> \in Seq(0..255)
    BY <1>1, LeftIs, ReadShifts
  <2>2. Tail(q) \in Seq(0..255)
    BY <2>1, HeadTailProperties
  <2>3. QED
    BY <2>1, <2>2, ConcatEmptySeq
<1>6. peer' = peer /\ want' = want /\ odd' = odd /\ block' = block
  BY ReadShifts
<1>7. Carries(f, v, q, <<>>) \/ Finishes(f, v, <<>>)
  <2>1. v \in Nat /\ Reads(f, v) /\ f.kind \notin {"IntStart", "IntCont"} /\ WideEnough
    BY <1>3, IndexedReads, FormKinds DEF Fitting
  <2>2. Ahead(f, v, q) /\ Left = q \o <<>>
    BY <1>1, <1>2, <1>3, <1>5
  <2>3. QED
    BY <1>4, <1>5, <2>1, <2>2, ReadsInt
<1>8. CASE Carries(f, v, q, <<>>)
  <2>1. /\ Left' = Tail(q) /\ Ahead(f, v, Tail(q))' /\ Shape' /\ ps'.skip = 0
        /\ ms' = ms /\ dt' = dt /\ ret' = 0
    BY <1>5, <1>8 DEF Carries
  <2>2. Synced(peer)'
    BY <1>4, <1>6, <2>1, DebtsStay
  <2>5. OwesIndexed(v)'
    BY <1>2, <1>6, <2>1, IndexStays
  <2>3. IndexedLeft(Left)'
    BY <1>3, <2>1, <2>2, <2>5 DEF IndexedLeft
  <2>4. QED
    BY <2>1, <2>3 DEF Rest
<1>9. CASE Finishes(f, v, <<>>)
  <2>1. PICK e : /\ e.to = S_FIELD /\ e.action[1] = "Indexed" /\ _run_action(e)
                 /\ v < Word => Integer(e) = v
    BY <1>3, <1>9, FormKinds DEF Finishes
  <2>2. RunIndexed(e, Integer(e))
    BY <2>1, RunIs
  <2>3. /\ DOMAIN ps' = PsFields /\ ps'.s = S_FIELD /\ ps'.skip = 0 /\ ps'.k = ps.k /\ ps'.m = ps.m
        /\ ps'.is_key = ps.is_key /\ ps'.add_to_dt = FALSE /\ dt' = dt /\ ret' = ret
    BY <1>4, <2>1, <2>2 DEF RunIndexed, Shape, PsFields
  <2>4. Synced(peer)' /\ Left' = <<>>
    BY <1>4, <1>6, <1>9, <2>3, DebtsStay DEF Finishes
  <2>10. ms' = IF Named(Integer(e)) = NoCapture THEN ms
               ELSE [ms EXCEPT ![Named(Integer(e))] = InTable(NamedSlot(Integer(e)))]
    BY <2>2 DEF RunIndexed
  <2>11. Settled'
    <3>1. CASE "wide" \in odd
      BY <1>6, <3>1 DEF Settled
    <3>2. CASE "wide" \notin odd /\ _is_valid_hpack_index(v)
      <4>1. PICK name \in HeaderNames : EntryIs(v, name) /\ OwesMatch(name, InTable(Slot(v)))
        BY <1>2, <3>2 DEF OwesIndexed
      <4>2. Integer(e) = v
        BY <1>2, <2>1, <3>2 DEF OwesIndexed
      <4>3. Named(v) = CapOf(name) /\ NamedSlot(v) = Slot(v)
        BY <4>1, NamedIs
      <4>4. ms' = IF CapOf(name) = NoCapture THEN ms ELSE [ms EXCEPT ![CapOf(name)] = InTable(Slot(v))]
        BY <2>10, <4>2, <4>3
      <4>5. QED
        BY <1>6, <4>1, <4>4, MatchPaid
    <3>3. CASE "wide" \notin odd /\ ~_is_valid_hpack_index(v)
      <4>1. Integer(e) = v /\ Caught(want)
        BY <1>2, <2>1, <3>3 DEF OwesIndexed
      <4>2. ms' = ms
        BY <2>10, <3>3, <4>1 DEF Named
      <4>3. QED
        BY <1>6, <4>1, <4>2, MatchesStay DEF Settled
    <3>4. QED
      BY <3>1, <3>2, <3>3
  <2>5. Idle(Left)'
    BY <2>3, <2>4, <2>11 DEF Idle
  <2>8. block' = block /\ i' \in Nat /\ i' <= Len(block) /\ ret = 0
    BY ReadShifts
  <2>9. ps'.add_to_dt \in BOOLEAN
    BY <2>3
  <2>6. Shape' /\ ret' = 0
    BY <2>3, <2>8, <2>9 DEF Shape
  <2>7. QED
    BY <2>5, <2>6 DEF Rest
<1>10. QED
  BY <1>7, <1>8, <1>9

\* The table shrinks as the peer's does.
LEMMA SizeSynced ==
    ASSUME NEW p, NEW v \in Nat, Synced(p), peer = Resized(p, v), peer' = peer,
           dt' = [dt EXCEPT !.max = v, !.deleted = DeletedTo(Added, @, v)]
    PROVE  Synced(peer)'
<1>1. /\ DOMAIN dt = {"entries", "deleted", "max"} /\ dt.deleted \in Nat /\ dt.max \in Nat
      /\ dt.entries \in Seq([key : Seq(0..255), huff : BOOLEAN])
      /\ DOMAIN p = {"added", "kept", "max"} /\ p.kept \in Nat /\ p.kept <= p.max
      /\ p.added \in Seq(HeaderNames)
      /\ dt.max = p.max /\ Len(dt.entries) = Len(p.added) /\ Added - dt.deleted = p.kept
      /\ \A j \in 1..Len(p.added) : Spelled(dt.entries[j], p.added[j])
  BY DEF Synced, Count
<1>2. /\ DOMAIN dt' = {"entries", "deleted", "max"} /\ dt'.entries = dt.entries
      /\ dt'.max = v /\ dt'.deleted = DeletedTo(Added, dt.deleted, v)
  BY <1>1
<1>3. /\ DOMAIN peer = {"added", "kept", "max"} /\ peer.added = p.added
      /\ peer.max = v /\ peer.kept = Smaller(p.kept, v)
  BY <1>1 DEF Resized
<1>4. Added' = Added /\ Added \in Nat
  BY <1>1, <1>2, DecoderOK DEF Added
<1> DEFINE a == Added
           d == dt.deleted
           k == p.kept
<1>5. a \in Nat /\ d \in Nat /\ k \in Nat /\ a - d = k
  BY <1>1, <1>4
<1>6. /\ dt'.deleted = IF k > v THEN a - v ELSE d
      /\ peer.kept = IF k < v THEN k ELSE v
  BY <1>2, <1>3, <1>5 DEF DeletedTo, Smaller
<1> HIDE DEF a, d, k
<1>7. dt'.deleted \in Nat /\ a - dt'.deleted = peer.kept /\ peer.kept \in Nat /\ peer.kept <= v
  BY <1>5, <1>6
<1>8. Count' = peer.kept
  BY <1>4, <1>7 DEF Count, a
<1>9. QED
  BY <1>1, <1>2, <1>3, <1>7, <1>8 DEF Synced

LEMMA ReadSize ==
    ASSUME Fitting, Shape, _parse_hdr_byte, SizeLeft(Left)
    PROVE  Shape' /\ ret' = 0 /\ Rest(Left)'
<1>1. PICK q : q = Left
  OBVIOUS
<1>2. PICK v \in 0..(Word - 1) : Ahead(SizeForm, v, q) /\ OwesSize(v)
  BY <1>1 DEF SizeLeft
<1>11. v \in Nat /\ v < Word
  BY <1>2, WordIsNat
<1>3. PICK f : f = SizeForm
  OBVIOUS
<1>4. ps.skip = 0 /\ Settled
  BY DEF SizeLeft
<1>5. q \in Seq(0..255) /\ q # <<>> /\ <<>> \in Seq(0..255) /\ q = q \o <<>>
      /\ Tail(q) \in Seq(0..255) /\ Tail(q) \o <<>> = Tail(q)
  <2>1. q \in Seq(0..255) /\ q # <<>> /\ <<>> \in Seq(0..255)
    BY <1>1, LeftIs, ReadShifts
  <2>2. Tail(q) \in Seq(0..255)
    BY <2>1, HeadTailProperties
  <2>3. QED
    BY <2>1, <2>2, ConcatEmptySeq
<1>6. peer' = peer /\ want' = want /\ odd' = odd /\ block' = block
  BY ReadShifts
<1>7. Carries(f, v, q, <<>>) \/ Finishes(f, v, <<>>)
  <2>1. Reads(f, v) /\ f.kind \notin {"IntStart", "IntCont"} /\ WideEnough
    BY <1>3, <1>11, SizeReads, FormKinds DEF Fitting
  <2>2. Ahead(f, v, q) /\ Left = q \o <<>>
    BY <1>1, <1>2, <1>3, <1>5
  <2>3. QED
    BY <1>4, <1>5, <1>11, <2>1, <2>2, ReadsInt
<1>8. CASE Carries(f, v, q, <<>>)
  <2>1. /\ Left' = Tail(q) /\ Ahead(f, v, Tail(q))' /\ Shape' /\ ps'.skip = 0
        /\ ms' = ms /\ dt' = dt /\ ret' = 0
    BY <1>5, <1>8 DEF Carries
  <2>2. OwesSize(v)' /\ Settled'
    BY <1>2, <1>4, <1>6, <2>1, DebtsStay, MatchesStay
  <2>3. SizeLeft(Left)'
    BY <1>2, <1>3, <2>1, <2>2 DEF SizeLeft
  <2>4. QED
    BY <2>1, <2>3 DEF Rest
<1>9. CASE Finishes(f, v, <<>>)
  <2>1. PICK e : e.to = S_FIELD /\ e.action[1] = "TableSize" /\ _run_action(e) /\ Integer(e) = v
    BY <1>3, <1>9, <1>11, FormKinds DEF Finishes
  <2>2. RunTableSize(e, v)
    BY <2>1, RunIs
  <2>3. /\ DOMAIN ps' = PsFields /\ ps'.s = S_FIELD /\ ps'.skip = 0 /\ ps'.k = ps.k /\ ps'.m = ps.m
        /\ ps'.is_key = ps.is_key /\ ps'.add_to_dt = ps.add_to_dt /\ ret' = ret /\ ms' = ms
        /\ dt' = [dt EXCEPT !.max = v, !.deleted = DeletedTo(Added, @, v)]
    BY <1>4, <2>1, <2>2 DEF RunTableSize, Shape, PsFields
  <2>4. Synced(peer)'
    <3>1. PICK p : Synced(p) /\ peer = Resized(p, v)
      BY <1>2 DEF OwesSize
    <3>2. QED
      BY <1>6, <1>11, <2>3, <3>1, SizeSynced
  <2>8. Settled'
    BY <1>4, <1>6, <2>3, MatchesStay
  <2>5. Idle(Left)'
    BY <1>9, <2>3, <2>4, <2>8 DEF Idle, Finishes
  <2>6. Shape' /\ ret' = 0
    BY <2>3, ReadShifts DEF Shape
  <2>7. QED
    BY <2>5, <2>6 DEF Rest
<1>10. QED
  BY <1>7, <1>8, <1>9

LEMMA StringIsSeq ==
    ASSUME NEW huff \in BOOLEAN, NEW w, NEW u, IsString(u, huff, w)
    PROVE  u \in Seq(0..255) /\ w \in Seq(0..255)
<1> DEFINE base == IF huff THEN 128 ELSE 0
           n == Len(w)
<1>1. w \in Seq(0..255) /\ n \in Nat /\ n <= MAX_BYTES
  BY DEF IsString
<1>2. base \in Nat /\ 127 \in Nat /\ base + 127 <= 255
  OBVIOUS
<1>3. PICK q : u = q \o w /\ Encoded(base, 127, n, q)
  BY DEF IsString
<1> HIDE DEF base, n
<1>4. q \in Seq(0..255)
  BY <1>1, <1>2, <1>3, IntFirst
<1>5. u \in Seq(0..255)
  BY <1>1, <1>3, <1>4, ConcatProperties
<1>6. QED
  BY <1>1, <1>5 DEF n

LEMMA ValueIsSeq ==
    ASSUME NEW u, NEW name, OwedValue(u, name)
    PROVE  u \in Seq(0..255)
<1>1. PICK huff \in BOOLEAN : \E w : IsString(u, huff, w)
  BY DEF OwedValue
<1>3. PICK w : IsString(u, huff, w)
  BY <1>1
<1>2. QED
  BY <1>3, StringIsSeq

\* An index that is valid has a slot.
LEMMA KeyOfIndex ==
    ASSUME NEW idx \in Nat, NEW name, NEW p, EntryIs(idx, name), Synced(p),
           ps'.key = InTable(NamedSlot(idx)), dt' = dt
    PROVE  KeyIs(name)'
<1> DEFINE slot == Slot(idx)
           count == Count
           added == Added
<1>1. _is_valid_hpack_index(idx) /\ Spelled(AtSlot(slot), name)
  BY DEF EntryIs
<1>2. slot # 0
  <2>1. dt.deleted \in Nat /\ count = p.kept /\ p.kept \in Nat /\ Len(dt.entries) \in Nat
    BY DEF Synced
  <2>2. Added \in Nat /\ count = added - dt.deleted
    BY <2>1, DecoderOK DEF Count, Added
  <2>3. STATIC_TABLE_SIZE \in Nat /\ Base = STATIC_TABLE_SIZE + 1
    BY DecoderOK DEF STATIC_TABLE_SIZE
  <2>4. idx > 0 /\ idx <= STATIC_TABLE_SIZE + count
    BY <1>1 DEF _is_valid_hpack_index
  <2>5. slot = IF idx <= STATIC_TABLE_SIZE THEN idx
               ELSE (STATIC_TABLE_SIZE + added - idx) + Base
    BY DEF Slot
  <2> HIDE DEF slot, count, added
  <2>6. added \in Nat
    BY <2>2 DEF added
  <2>7. QED
    BY <2>1, <2>2, <2>3, <2>4, <2>5, <2>6
<1>3. ps'.key.source = "table" /\ ps'.key.idx = slot
  BY <1>1 DEF InTable, NamedSlot
<1>5. Spelled(AtSlot(ps.key.idx), name)'
  BY <1>1, <1>3 DEF AtSlot
<1>6. QED
  BY <1>2, <1>3, <1>5 DEF KeyIs, KeyOf

\* A name is read, and its value comes next.
LEMMA ValueNext ==
    ASSUME NEW u, NEW name, OwedValue(u, name)', Left' = u, ps'.s = S_VAL_LEN, ps'.skip = 0,
           NEW add, ps'.add_to_dt = add, OwesName(name, add)', KeyIs(name)',
           ps'.cid = CapOf(name)
    PROVE  ValueLenLeft(Left)'
<1>1. PICK huff \in BOOLEAN :
          \E w : IsString(u, huff, w) /\ OwesMatch(name, AtEnd(Len(w), huff))'
  BY DEF OwedValue
<1>2. PICK w : IsString(u, huff, w) /\ OwesMatch(name, AtEnd(Len(w), huff))'
  BY <1>1
<1>3. PICK q : u = q \o w /\ Encoded(IF huff THEN 128 ELSE 0, 127, Len(w), q)
  BY <1>2 DEF IsString
<1>4. Ahead(ValForm(huff), Len(w), q)'
  BY <1>3, FormKinds DEF Ahead, IntAhead
<1>5. w \in Seq(0..255) /\ Len(w) <= MAX_BYTES
  BY <1>2 DEF IsString
<1>6. OwesName(name, ps.add_to_dt)'
  BY DEF OwesName
<1>7. QED
  BY <1>2, <1>3, <1>4, <1>5, <1>6 DEF ValueLenLeft

LEMMA ReadIndexName ==
    ASSUME Fitting, Shape, _parse_hdr_byte, IndexNameLeft(Left)
    PROVE  Shape' /\ ret' = 0 /\ Rest(Left)'
<1>1. PICK lit \in Literals, idx \in 1..(Word - 1) : \E q, u, name :
          /\ Left = q \o u /\ Ahead(NameForm(lit), idx, q) /\ OwedValue(u, name)
          /\ EntryIs(idx, name) /\ OwesName(name, lit.add)
  BY DEF IndexNameLeft
<1>2. PICK q, u, name :
          /\ Left = q \o u /\ Ahead(NameForm(lit), idx, q) /\ OwedValue(u, name)
          /\ EntryIs(idx, name) /\ OwesName(name, lit.add)
  BY <1>1
<1>3. idx \in Nat /\ idx # 0 /\ idx < Word
  BY <1>1, WordIsNat
<1>4. PICK f : f = NameForm(lit)
  OBVIOUS
<1>5. ps.skip = 0
  BY DEF IndexNameLeft
<1>6. u \in Seq(0..255)
  BY <1>2, ValueIsSeq
<1>7. peer' = peer /\ want' = want /\ odd' = odd /\ block' = block /\ i' \in Nat /\ i' <= Len(block) /\ ret = 0
  BY ReadShifts
<1>8. Carries(f, idx, q, u) \/ Finishes(f, idx, u)
  <2>1. Reads(f, idx) /\ f.kind \notin {"IntStart", "IntCont"} /\ WideEnough
    BY <1>1, <1>3, <1>4, NameReads, FormKinds DEF Fitting
  <2>2. QED
    BY <1>2, <1>3, <1>4, <1>5, <1>6, <2>1, ReadsInt
<1>9. CASE Carries(f, idx, q, u)
  <2>1. Left' = Tail(q) \o u /\ Ahead(f, idx, Tail(q))' /\ Shape' /\ ps'.skip = 0 /\ dt' = dt
        /\ ms' = ms /\ ret' = 0
    BY <1>9 DEF Carries
  <2>2. EntryIs(idx, name)' /\ OwesName(name, lit.add)'
    BY <1>2, <1>7, <2>1, DebtsStay, TablesStay
  <2>5. OwedValue(u, name)'
    BY <1>2, <1>7, <2>1, MatchesStay
  <2>3. IndexNameLeft(Left)'
    BY <1>1, <1>2, <1>4, <2>1, <2>2, <2>5 DEF IndexNameLeft
  <2>4. QED
    BY <2>1, <2>3 DEF Rest
<1>10. CASE Finishes(f, idx, u)
  <2>1. PICK e : /\ e.to = S_VAL_LEN /\ e.action[1] = "IdxName" /\ _run_action(e)
                 /\ Integer(e) = idx /\ (F_ADD_DT \in f.flags <=> Flag(e, F_ADD_DT))
    BY <1>3, <1>4, <1>10, FormKinds DEF Finishes
  <2>2. lit.add \in BOOLEAN /\ (Flag(e, F_ADD_DT) <=> lit.add)
    <3>5. \/ lit.flags = 64 /\ lit.max = 63 /\ lit.add = TRUE
          \/ lit.flags = 0 /\ lit.max = 15 /\ lit.add = FALSE
          \/ lit.flags = 16 /\ lit.max = 15 /\ lit.add = FALSE
      BY DEF Literals
    <3>1. lit.add \in BOOLEAN
      BY <3>5
    <3>2. f.flags = IF lit.add THEN {F_ADD_DT} ELSE {}
      BY <1>4, FormKinds
    <3>3. F_ADD_DT \in f.flags <=> lit.add
      BY <3>1, <3>2
    <3>4. QED
      BY <2>1, <3>1, <3>3
  <2>3. RunIdxName(e, idx)
    BY <2>1, RunIs
  <2>4. /\ DOMAIN ps' = PsFields /\ ps'.s = S_VAL_LEN /\ ps'.skip = 0 /\ ps'.k = ps.k
        /\ ps'.m = ps.m /\ ps'.is_key = ps.is_key /\ ps'.add_to_dt = Flag(e, F_ADD_DT)
        /\ ps'.key = InTable(NamedSlot(idx)) /\ ps'.cid = Named(idx)
        /\ ms' = ms /\ dt' = dt /\ ret' = ret
    BY <1>5, <2>1, <2>3 DEF RunIdxName, Shape, PsFields
  <2>5. ps'.add_to_dt = lit.add
    BY <2>2, <2>4 DEF Flag
  <2>6. OwesName(name, lit.add)'
    BY <1>2, <1>7, <2>4, DebtsStay
  <2>7. KeyIs(name)'
    <3>1. PICK p : Synced(p)
      BY <1>2 DEF OwesName
    <3>2. QED
      BY <1>2, <1>3, <2>4, <3>1, KeyOfIndex
  <2>8. Left' = u
    BY <1>10 DEF Finishes
  <2>12. OwedValue(u, name)'
    BY <1>2, <1>7, <2>4, MatchesStay
  <2>13. ps'.cid = CapOf(name)
    BY <1>2, <2>4, NamedIs DEF OwesName
  <2>9. ValueLenLeft(Left)'
    BY <2>4, <2>5, <2>6, <2>7, <2>8, <2>12, <2>13, ValueNext
  <2>10. Shape' /\ ret' = 0
    BY <1>7, <2>2, <2>4, <2>5 DEF Shape
  <2>11. QED
    BY <2>9, <2>10 DEF Rest
<1>11. QED
  BY <1>8, <1>9, <1>10

LEMMA OneAhead ==
    ASSUME NEW x \in 0..255, NEW w \in Seq(0..255), NEW u \in Seq(0..255)
    PROVE  /\ ((<<x>> \o w) \o u)[1] = x /\ Tail((<<x>> \o w) \o u) = w \o u
<1>1. <<x>> \in Seq(0..255) /\ Len(<<x>>) = 1 /\ <<x>>[1] = x /\ Tail(<<x>>) = <<>>
  OBVIOUS
<1> DEFINE z == w \o u
           o == <<x>>
<1>2. z \in Seq(0..255)
  BY ConcatProperties
<1> HIDE DEF o
<1>3. o \in Seq(0..255) /\ Len(o) >= 1 /\ o[1] = x /\ Tail(o) = <<>>
  BY <1>1 DEF o
<1>4. (o \o w) \o u = o \o z
  BY <1>3, ConcatAssociative, SMTT(30)
<1> HIDE DEF z
<1>8. (o \o z)[1] = o[1] /\ Tail(o \o z) = Tail(o) \o z
  BY <1>2, <1>3, ConcatStep, SMTT(30)
<1>5. (o \o z)[1] = x /\ Tail(o \o z) = <<>> \o z
  BY <1>3, <1>8
<1>6. <<>> \o z = z
  BY <1>2, ConcatEmptySeq
<1>7. QED
  BY <1>4, <1>5, <1>6 DEF o, z

LEMMA LiteralEdge ==
    ASSUME NEW lit \in Literals
    PROVE  /\ lit.add \in BOOLEAN /\ lit.flags \in 0..255
           /\ RowEdge(S_FIELD, lit.flags)
                 = Edge(S_KEY_LEN, Action("LitName", 0, IF lit.add THEN {F_ADD_DT} ELSE {}))
<1>1. \/ lit.flags = 64 /\ lit.max = 63 /\ lit.add = TRUE
      \/ lit.flags = 0 /\ lit.max = 15 /\ lit.add = FALSE
      \/ lit.flags = 16 /\ lit.max = 15 /\ lit.add = FALSE
  BY DEF Literals
<1>2. /\ FieldEdge(64) = Edge(S_KEY_LEN, Action("LitName", 0, {F_ADD_DT}))
      /\ FieldEdge(0) = Edge(S_KEY_LEN, Action("LitName", 0, {}))
      /\ FieldEdge(16) = Edge(S_KEY_LEN, Action("LitName", 0, {}))
  BY DEF FieldEdge
<1>3. CASE lit.flags = 64 /\ lit.max = 63 /\ lit.add = TRUE
  <2>1. lit.add \in BOOLEAN
    BY <1>3
  <2>2. lit.flags \in 0..255
    BY <1>3
  <2>3. (IF lit.add THEN {F_ADD_DT} ELSE {}) = {F_ADD_DT}
    BY <1>3
  <2>4. RowEdge(S_FIELD, 64) = Edge(S_KEY_LEN, Action("LitName", 0, {F_ADD_DT}))
    BY <1>2, FieldIs
  <2>5. QED
    BY <1>3, <2>1, <2>2, <2>3, <2>4
<1>4. CASE lit.flags = 0 /\ lit.max = 15 /\ lit.add = FALSE
  <2>1. lit.add \in BOOLEAN
    BY <1>4
  <2>2. lit.flags \in 0..255
    BY <1>4
  <2>3. (IF lit.add THEN {F_ADD_DT} ELSE {}) = {}
    BY <1>4
  <2>4. RowEdge(S_FIELD, 0) = Edge(S_KEY_LEN, Action("LitName", 0, {}))
    BY <1>2, FieldIs
  <2>5. QED
    BY <1>4, <2>1, <2>2, <2>3, <2>4
<1>5. CASE lit.flags = 16 /\ lit.max = 15 /\ lit.add = FALSE
  <2>1. lit.add \in BOOLEAN
    BY <1>5
  <2>2. lit.flags \in 0..255
    BY <1>5
  <2>3. (IF lit.add THEN {F_ADD_DT} ELSE {}) = {}
    BY <1>5
  <2>4. RowEdge(S_FIELD, 16) = Edge(S_KEY_LEN, Action("LitName", 0, {}))
    BY <1>2, FieldIs
  <2>5. QED
    BY <1>5, <2>1, <2>2, <2>3, <2>4
<1>6. QED
  BY <1>1, <1>3, <1>4, <1>5

LEMMA ReadNewName ==
    ASSUME Fitting, Shape, _parse_hdr_byte, NewNameLeft(Left)
    PROVE  Shape' /\ ret' = 0 /\ Rest(Left)'
<1>1. PICK lit \in Literals, huff \in BOOLEAN : \E w, u, name :
          /\ Left = (<<lit.flags>> \o w) \o u
          /\ IsString(w, huff, Spelling(name, huff)) /\ OwedValue(u, name) /\ OwesName(name, lit.add)
  BY DEF NewNameLeft
<1>2. PICK w, u, name :
          /\ Left = (<<lit.flags>> \o w) \o u
          /\ IsString(w, huff, Spelling(name, huff)) /\ OwedValue(u, name) /\ OwesName(name, lit.add)
  BY <1>1
<1>3. ps.s = S_FIELD /\ ps.skip = 0
  BY DEF NewNameLeft
<1>4. PICK sp : sp = Spelling(name, huff)
  OBVIOUS
<1>5. PICK q : w = q \o sp /\ Encoded(IF huff THEN 128 ELSE 0, 127, Len(sp), q)
  BY <1>2, <1>4 DEF IsString
<1>6. w \in Seq(0..255) /\ u \in Seq(0..255) /\ sp \in Seq(0..255) /\ Len(sp) <= MAX_BYTES
  <2>1. IsString(w, huff, sp)
    BY <1>2, <1>4
  <2>2. w \in Seq(0..255) /\ sp \in Seq(0..255)
    BY <1>1, <2>1, StringIsSeq
  <2>3. u \in Seq(0..255)
    BY <1>2, ValueIsSeq
  <2>4. Len(sp) <= MAX_BYTES
    BY <2>1 DEF IsString
  <2>5. QED
    BY <2>2, <2>3, <2>4
<1>7. q \in Seq(0..255)
  <2> DEFINE base == IF huff THEN 128 ELSE 0
             n == Len(sp)
  <2>1. base \in Nat /\ 127 \in Nat /\ base + 127 <= 255 /\ n \in Nat /\ Encoded(base, 127, n, q)
    BY <1>5, <1>6
  <2> HIDE DEF base, n
  <2>2. QED
    BY <2>1, IntFirst
<1>8. w \o u = q \o (sp \o u)
  BY <1>5, <1>6, <1>7, ConcatAssociative, SMTT(30)
<1>9. peer' = peer /\ want' = want /\ odd' = odd /\ block' = block /\ i' \in Nat /\ i' <= Len(block) /\ ret = 0
      /\ Left' = Tail(Left) /\ Byte = Left[1] /\ Byte \in 0..255
  BY ReadShifts
<1> DEFINE F == IF lit.add THEN {F_ADD_DT} ELSE {}
           e == Edge(S_KEY_LEN, Action("LitName", 0, F))
<1>10. lit.add \in BOOLEAN /\ lit.flags \in 0..255 /\ RowEdge(S_FIELD, lit.flags) = e
  BY <1>1, LiteralEdge
<1>11. Byte = lit.flags /\ Left' = w \o u
  <2> DEFINE x == lit.flags
  <2>1. x \in 0..255 /\ Left = (<<x>> \o w) \o u
    BY <1>2, <1>10, SMTT(30)
  <2> HIDE DEF x
  <2>2. Left[1] = x /\ Tail(Left) = w \o u
    BY <1>6, <2>1, OneAhead
  <2>3. QED
    BY <1>9, <2>2, SMTT(30) DEF x
<1>12. /\ e.to = S_KEY_LEN /\ e.action # NoAction /\ e.action[1] = "LitName"
       /\ e.action[3] = F /\ NoEdge.action = NoAction
  BY ActionIs DEF Edge, NoEdge
<1> HIDE DEF F, e
<1>13. RunLitName(e)
  <2>1. RowEdge(ps.s, Byte) = e /\ e # NoEdge /\ ps.s \in RowStates
    BY <1>3, <1>10, <1>11, <1>12, StatesDiffer
  <2>2. _run_action(e)
    BY <1>3, <1>9, <1>12, <2>1, ByteTakes
  <2>3. QED
    BY <1>12, <2>2, RunIs
<1>14. Flag(e, F_ADD_DT) <=> lit.add
  BY <1>10, <1>12 DEF Flag, F
<1>15. /\ DOMAIN ps' = PsFields /\ ps'.s = S_KEY_LEN /\ ps'.skip = 0 /\ ps'.k = ps.k
       /\ ps'.m = ps.m /\ ps'.is_key = ps.is_key /\ ps'.add_to_dt = Flag(e, F_ADD_DT)
       /\ ps'.cid = NoCapture /\ ms' = ms /\ dt' = dt /\ ret' = ret
  BY <1>3, <1>12, <1>13 DEF RunLitName, Shape, PsFields
<1>16. ps'.add_to_dt = lit.add
  BY <1>10, <1>14, <1>15 DEF Flag
<1>17. OwesName(name, ps.add_to_dt)'
  <2>1. OwesName(name, lit.add)'
    BY <1>2, <1>9, <1>15, DebtsStay
  <2>2. QED
    BY <1>16, <2>1 DEF OwesName
<1>18. Ahead(KeyForm(huff), Len(sp), q)'
  BY <1>5, <1>15, FormKinds DEF Ahead, IntAhead
<1>22. OwedValue(u, name)'
  BY <1>2, <1>9, <1>15, MatchesStay
<1>19. NameLenLeft(Left)'
  BY <1>1, <1>4, <1>6, <1>8, <1>11, <1>15, <1>17, <1>18, <1>22 DEF NameLenLeft
<1>20. Shape' /\ ret' = 0
  BY <1>9, <1>10, <1>15, <1>16 DEF Shape
<1>21. QED
  BY <1>19, <1>20 DEF Rest

\* What is left begins with a string that is to be skipped.
LEMMA PrefixOfLeft ==
    ASSUME NEW b \in Seq(0..255), NEW j \in Nat, j <= Len(b),
           NEW w \in Seq(0..255), NEW u \in Seq(0..255),
           SubSeq(b, j + 1, Len(b)) = w \o u
    PROVE  SubSeq(b, j + 1, j + Len(w)) = w
<1> DEFINE n == Len(b)
           m == Len(w)
           l == Len(u)
           a == j + 1
           t == SubSeq(b, a, n)
<1>1. n \in Nat /\ m \in Nat /\ l \in Nat /\ a \in Nat /\ a = j + 1 /\ j <= n
  OBVIOUS
<1>2. /\ w \o u \in Seq(0..255) /\ Len(w \o u) = m + l
      /\ \A x \in 1..(m + l) : (w \o u)[x] = IF x <= m THEN w[x] ELSE u[x - m]
  BY ConcatProperties
<1>3. \A x \in 1..n : b[x] \in 0..255
  BY ElementOfSeq
<1> HIDE DEF n, m, l, a
<1>4. Len(t) = (IF a <= n THEN n - a + 1 ELSE 0) /\ \A x \in 1..(n - a + 1) : t[x] = b[a + x - 1]
  <2>1. a \in Int /\ n \in Int /\ \A x \in a..n : b[x] \in 0..255
    BY <1>1, <1>3
  <2>2. QED
    BY <2>1, SubSeqProperties
<1>5. t = w \o u
  BY DEF a, n
<1> HIDE DEF t
<1>6. n - a + 1 = m + l
  BY <1>1, <1>2, <1>4, <1>5
<1> DEFINE c == j + m
           s == SubSeq(b, a, c)
<1>7. s \in Seq(0..255) /\ Len(s) = m /\ \A x \in 1..m : s[x] = b[a + x - 1]
  <2>1. c \in Int /\ a \in Int /\ c <= n /\ a >= 1 /\ c - a + 1 = m
        /\ (IF a <= c THEN c - a + 1 ELSE 0) = m
    BY <1>1, <1>6
  <2>2. \A x \in a..c : x \in 1..n
    BY <1>1, <2>1
  <2>3. \A x \in a..c : b[x] \in 0..255
    BY <1>3, <2>2
  <2> HIDE DEF c
  <2>4. QED
    BY <2>1, <2>3, SubSeqProperties
<1> HIDE DEF s
<1>8. ASSUME NEW x \in 1..m PROVE s[x] = w[x]
  <2>1. x \in 1..(m + l) /\ x \in 1..(n - a + 1) /\ x <= m
    BY <1>1, <1>6
  <2>2. QED
    BY <1>2, <1>4, <1>5, <1>7, <2>1
<1>9. s = w
  BY <1>7, <1>8, SeqEqual DEF m
<1>10. QED
  BY <1>9 DEF s, a, m

LEMMA LengthKept ==
    ASSUME WideEnough, NEW n \in Nat, n <= MAX_BYTES
    PROVE  n < Word /\ n % (MAX_BYTES + 1) = n
<1>1. MAX_BYTES \in Nat /\ MAX_BYTES < Word /\ Word \in Nat
  BY WordIsNat, DecoderOK DEF WideEnough, Word
<1>2. QED
  BY <1>1

\* The string that comes next is the name, and the key refers to it.
LEMMA KeyAhead ==
    ASSUME block' \in Seq(0..255), i' \in Nat, i' <= Len(block'),
           NEW name, NEW huff \in BOOLEAN, NEW sp \in Seq(0..255), sp = Spelling(name, huff),
           NEW u \in Seq(0..255), Left' = sp \o u, ps'.key = InMessage(i', Len(sp), huff)
    PROVE  KeyIs(name)'
<1>1. PICK b \in Seq(0..255) : b = block'
  OBVIOUS
<1>2. PICK j \in Nat : j = i'
  OBVIOUS
<1>3. SubSeq(b, j + 1, Len(b)) = sp \o u /\ j <= Len(b)
  BY <1>1, <1>2 DEF Left
<1>4. SubSeq(b, j + 1, j + Len(sp)) = sp
  BY <1>3, PrefixOfLeft, SMTT(30)
<1>5. ps'.key.source = "msg" /\ ps'.key.idx = j /\ ps'.key.len = Len(sp) /\ ps'.key.huff = huff
  BY <1>2 DEF InMessage
<1>6. KeyOf(ps.key)' = Entry(sp, huff)
  BY <1>1, <1>4, <1>5 DEF KeyOf
<1>7. Spelled(Entry(sp, huff), name)
  BY DEF Spelled
<1>8. Spelled(KeyOf(ps.key), name)'
  BY <1>6, <1>7 DEF Spelled
<1>9. QED
  BY <1>5, <1>8 DEF KeyIs

\* A name is walked from the root of its coding, a byte at a time.
LEMMA WalkingStarts ==
    ASSUME NEW name \in HeaderNames, NEW huff \in BOOLEAN, NEW sp, sp = Spelling(name, huff),
           ps'.s = RootOf(huff)
    PROVE  Walking(name, sp)'
<1> DEFINE root == RootOf(huff)
<1>1. root \in Roots /\ sp \in Seq(Bytes)
  BY SpellingFacts
<1>2. Len(sp) \in Nat
  BY <1>1, LenProperties
<1>3. At(root, Prefix(root, sp, 0))
  BY <1>1, AtRoot, PrefixNone
<1>4. 0 + Len(sp) = Len(sp) /\ \A j \in 1..Len(sp) : sp[j] = sp[0 + j]
  BY <1>2
<1>5. At(ps.s, Prefix(RootOf(huff), Spelling(name, huff), 0))'
  BY <1>3
<1>6. QED
  BY <1>4, <1>5 DEF Walking

LEMMA WalkingNext ==
    ASSUME NEW name \in HeaderNames, NEW w \in Seq(0..255), Walking(name, w), Len(w) >= 1,
           NEW e, e = _next(states, ps.s, w[1])
    PROVE  /\ Len(w) = 1 => CaptureOf(e) = CapOf(name)
           /\ ps'.s = e.to => Walking(name, Tail(w))'
<1>1. PICK huff \in BOOLEAN, k \in Nat :
        /\ k + Len(w) = Len(Spelling(name, huff))
        /\ \A j \in 1..Len(w) : w[j] = Spelling(name, huff)[k + j]
        /\ At(ps.s, Prefix(RootOf(huff), Spelling(name, huff), k))
  BY DEF Walking
<1>2. PICK sp : sp = Spelling(name, huff)
  OBVIOUS
<1>3. PICK root : root = RootOf(huff)
  OBVIOUS
<1>4. root \in Roots /\ sp \in Seq(Bytes) /\ LabelOf(name, huff) = Label(root, sp)
  BY <1>1, <1>2, <1>3, SpellingFacts DEF LabelOf
<1>5. PICK n \in Nat : n = Len(w)
  BY LenProperties
<1>6. PICK m \in Nat : m = Len(sp)
  BY <1>4, LenProperties
<1>7. k \in Nat /\ k + n = m /\ n >= 1 /\ \A j \in 1..n : w[j] = sp[k + j]
  BY <1>1, <1>2, <1>5, <1>6
<1>8. k + 1 \in 1..m /\ (k + 1) - 1 = k /\ k <= m /\ w[1] = sp[k + 1]
  <2>1. 1 \in 1..n /\ k + 1 \in 1..m /\ (k + 1) - 1 = k /\ k <= m
    BY <1>7
  <2>2. QED
    BY <1>7, <2>1
<1>9. Prefix(root, sp, k + 1) = Plus(Prefix(root, sp, k), sp[k + 1]) /\ sp[k + 1] \in Bytes
  <2>1. PICK l : l = k + 1
    OBVIOUS
  <2>2. l \in 1..Len(sp) /\ l - 1 = k
    BY <1>6, <1>8, <2>1
  <2>3. Prefix(root, sp, l) = Plus(Prefix(root, sp, l - 1), sp[l]) /\ sp[l] \in Bytes
    BY <1>4, <2>2, PrefixNext
  <2>4. QED
    BY <2>1, <2>2, <2>3
<1>10. Prefix(root, sp, k) \in Labels
  BY <1>4, <1>6, <1>8, PrefixIsLabel
<1>11. PICK x \in Labels : x = Prefix(root, sp, k)
  BY <1>10
<1>12. PICK c \in Bytes : c = w[1]
  BY <1>8, <1>9
<1>13. At(ps.s, x)
  BY <1>1, <1>2, <1>3, <1>11
<1>14. /\ At(e.to, Plus(x, c))
       /\ \A other \in HeaderNames : \A coded \in BOOLEAN :
             Plus(x, c) = LabelOf(other, coded) => CaptureOf(e) = CapOf(other)
  BY <1>12, <1>13, WalkStep
<1>15. Plus(x, c) = Prefix(root, sp, k + 1)
  BY <1>8, <1>9, <1>11, <1>12
<1>16. ASSUME n = 1 PROVE CaptureOf(e) = CapOf(name)
  <2>1. k + 1 = m
    BY <1>7, <1>16
  <2>2. Plus(x, c) = LabelOf(name, huff)
    BY <1>4, <1>6, <1>15, <2>1 DEF Label
  <2>3. QED
    BY <1>14, <2>2
<1>17. ASSUME ps'.s = e.to PROVE Walking(name, Tail(w))'
  <2>1. w # <<>>
    BY <1>5, <1>7, EmptySeq
  <2>2. Tail(w) \in Seq(0..255) /\ Len(Tail(w)) = Len(w) - 1
        /\ \A j \in 1..Len(Tail(w)) : Tail(w)[j] = w[j + 1]
    BY <2>1, HeadTailProperties
  <2>3. PICK t : t = Tail(w)
    OBVIOUS
  <2>4. Len(t) = n - 1 /\ \A j \in 1..(n - 1) : t[j] = w[j + 1]
    BY <1>5, <2>2, <2>3
  <2>5. PICK l \in Nat : l = k + 1
    BY <1>7
  <2>6. l + Len(t) = m
    BY <1>7, <2>4, <2>5
  <2>7. \A j \in 1..Len(t) : t[j] = sp[l + j]
    <3>1. \A j \in 1..(n - 1) : j + 1 \in 1..n /\ k + (j + 1) = l + j
      BY <1>7, <2>5
    <3>2. QED
      BY <1>7, <2>4, <3>1
  <2>8. At(e.to, Prefix(root, sp, l))
    BY <1>14, <1>15, <2>5
  <2>9. At(ps.s, Prefix(RootOf(huff), Spelling(name, huff), l))'
    BY <1>2, <1>3, <1>17, <2>8
  <2>10. QED
    BY <1>2, <1>6, <2>3, <2>6, <2>7, <2>9 DEF Walking
<1>18. QED
  BY <1>5, <1>16, <1>17

LEMMA ReadNameLen ==
    ASSUME Fitting, Shape, _parse_hdr_byte, NameLenLeft(Left)
    PROVE  Shape' /\ ret' = 0 /\ Rest(Left)'
<1>1. PICK add \in BOOLEAN : add = ps.add_to_dt
  BY DEF Shape
<1>2. PICK huff \in BOOLEAN : \E q, u, name :
          /\ Left = q \o (Spelling(name, huff) \o u)
          /\ Len(Spelling(name, huff)) <= MAX_BYTES
          /\ Ahead(KeyForm(huff), Len(Spelling(name, huff)), q)
          /\ OwedValue(u, name) /\ OwesName(name, add)
  BY <1>1 DEF NameLenLeft
<1>3. PICK q, u, name :
          /\ Left = q \o (Spelling(name, huff) \o u)
          /\ Len(Spelling(name, huff)) <= MAX_BYTES
          /\ Ahead(KeyForm(huff), Len(Spelling(name, huff)), q)
          /\ OwedValue(u, name) /\ OwesName(name, add)
  BY <1>2
<1>4. PICK sp : sp = Spelling(name, huff)
  OBVIOUS
<1>5. PICK f : f = KeyForm(huff)
  OBVIOUS
<1>6. ps.skip = 0 /\ ps.cid = NoCapture
  BY DEF NameLenLeft
<1>7. sp \in Seq(0..255) /\ Len(sp) \in Nat /\ Len(sp) <= MAX_BYTES
  <2>1. name \in HeaderNames
    BY <1>3 DEF OwesName
  <2>2. sp \in Seq(0..255)
    BY <1>4, <2>1, SpellingOK DEF Spelling
  <2>3. QED
    BY <1>3, <1>4, <2>2
<1>8. PICK n \in Nat : n = Len(sp)
  BY <1>7
<1>9. u \in Seq(0..255) /\ sp \o u \in Seq(0..255)
  BY <1>3, <1>7, ValueIsSeq, ConcatProperties
<1>10. n < Word /\ n % (MAX_BYTES + 1) = n
  BY <1>7, <1>8, LengthKept DEF Fitting
<1>11. peer' = peer /\ want' = want /\ odd' = odd /\ block' = block /\ i' = i + 1 /\ i' \in Nat /\ i' <= Len(block) /\ ret = 0
  BY ReadShifts
<1>12. Carries(f, n, q, sp \o u) \/ Finishes(f, n, sp \o u)
  <2>1. Reads(f, n) /\ f.kind \notin {"IntStart", "IntCont"} /\ WideEnough
    BY <1>2, <1>5, LengthReads, FormKinds DEF Fitting
  <2>2. Ahead(f, n, q) /\ Left = q \o (sp \o u)
    BY <1>3, <1>4, <1>5, <1>8
  <2>3. QED
    BY <1>6, <1>9, <2>1, <2>2, ReadsInt
<1>13. CASE Carries(f, n, q, sp \o u)
  <2>1. /\ Left' = Tail(q) \o (sp \o u) /\ Ahead(f, n, Tail(q))' /\ Shape' /\ ps'.skip = 0
        /\ ps'.add_to_dt = add /\ ps'.cid = NoCapture /\ ms' = ms /\ dt' = dt /\ ret' = 0
    BY <1>1, <1>6, <1>13 DEF Carries
  <2>2. OwesName(name, add)'
    BY <1>3, <1>11, <2>1, DebtsStay
  <2>3. OwesName(name, ps.add_to_dt)'
    BY <2>1, <2>2 DEF OwesName
  <2>6. OwedValue(u, name)'
    BY <1>3, <1>11, <2>1, MatchesStay
  <2>4. NameLenLeft(Left)'
    BY <1>2, <1>4, <1>5, <1>7, <1>8, <2>1, <2>3, <2>6 DEF NameLenLeft
  <2>5. QED
    BY <2>1, <2>4 DEF Rest
<1>14. CASE Finishes(f, n, sp \o u)
  <2>1. PICK e : /\ e.to = RootOf(huff) /\ e.action[1] = "KeyLen" /\ _run_action(e) /\ Integer(e) = n
                 /\ (F_HUFF \in f.flags <=> Flag(e, F_HUFF))
    BY <1>2, <1>5, <1>10, <1>14, FormKinds DEF Finishes, RootOf
  <2>2. Flag(e, F_HUFF) = huff
    <3>1. f.flags = IF huff THEN {F_HUFF} ELSE {}
      BY <1>5, FormKinds
    <3>2. F_HUFF \in f.flags <=> huff
      BY <1>2, <3>1
    <3>3. Flag(e, F_HUFF) \in BOOLEAN
      BY DEF Flag
    <3>4. QED
      BY <1>2, <2>1, <3>2, <3>3
  <2>3. RunKeyLen(e, n)
    BY <1>10, <2>1, RunIs
  <2>4. /\ DOMAIN ps' = PsFields /\ ps'.skip = n /\ ps'.k = ps.k /\ ps'.m = ps.m
        /\ ps'.is_key = TRUE /\ ps'.add_to_dt = ps.add_to_dt
        /\ ps'.key = InMessage(i + 1, n, Flag(e, F_HUFF))
        /\ (n = 0 => ps'.s = S_VAL_LEN) /\ (n # 0 => ps'.s = RootOf(huff))
        /\ ps'.cid = NoCapture /\ ms' = ms /\ dt' = dt /\ ret' = ret
    BY <1>6, <2>1, <2>3 DEF RunKeyLen, Shape, PsFields
  <2>5. OwesName(name, add)' /\ ps'.add_to_dt = add
    BY <1>1, <1>3, <1>11, <2>4, DebtsStay
  <2>6. OwesName(name, ps.add_to_dt)'
    BY <2>5 DEF OwesName
  <2>7. Left' = sp \o u
    BY <1>14 DEF Finishes
  <2>8. ps'.key = InMessage(i', Len(sp), huff)
    BY <1>8, <1>11, <2>2, <2>4
  <2>9. block' \in Seq(0..255) /\ i' <= Len(block')
    BY <1>11 DEF Shape
  <2>10. KeyIs(name)'
    BY <1>2, <1>4, <1>7, <1>9, <1>11, <2>7, <2>8, <2>9, KeyAhead
  <2>11. ps'.is_key \in BOOLEAN
    BY <2>4
  <2>12. Shape' /\ ret' = 0
    BY <1>11, <2>4, <2>9, <2>11 DEF Shape
  <2>16. OwedValue(u, name)' /\ name \in HeaderNames
    BY <1>3, <1>11, <2>4, MatchesStay DEF OwesName
  <2>13. CASE n = 0
    <3>1. Left' = u
      <4>1. sp = <<>>
        BY <1>7, <1>8, <2>13, EmptySeq
      <4>2. QED
        BY <1>9, <2>7, <4>1, ConcatEmptySeq
    <3>4. CapOf(name) = NoCapture
      <4>1. name \notin Capturable
        BY <1>2, <1>4, <1>7, <1>8, <2>13, EmptySeq DEF Spelling, Capturable
      <4>2. QED
        BY <2>16, <4>1, CaptureUnasked
    <3>2. ValueLenLeft(Left)'
      BY <2>4, <2>5, <2>10, <2>13, <2>16, <3>1, <3>4, ValueNext
    <3>3. QED
      BY <2>12, <3>2 DEF Rest
  <2>14. CASE n # 0
    <3>1. ps'.skip > 0 /\ ps'.is_key /\ ps'.skip = Len(sp)
      BY <1>8, <2>4, <2>14
    <3>4. Walking(name, sp)'
      BY <1>2, <1>4, <1>7, <2>4, <2>14, <2>16, WalkingStarts
    <3>2. NameLeft(Left)'
      BY <1>7, <2>6, <2>7, <2>10, <2>16, <3>1, <3>4 DEF NameLeft
    <3>3. QED
      BY <2>12, <3>2 DEF Rest
  <2>15. QED
    BY <2>13, <2>14
<1>15. QED
  BY <1>12, <1>13, <1>14

LEMMA ByteSkipped ==
    ASSUME _parse_hdr_byte, ps.skip > 0
    PROVE  ReadString(_next(states, ps.s, Byte))
<1>1. InString /\ \E e \in {_next(states, ps.s, Byte)} : ReadString(e) \/ ~InString
  BY DEF _parse_hdr_byte, InString
<1>2. QED
  BY <1>1

LEMMA ReadName ==
    ASSUME Fitting, Shape, _parse_hdr_byte, NameLeft(Left)
    PROVE  Shape' /\ ret' = 0 /\ Rest(Left)'
<1>1. PICK add \in BOOLEAN : add = ps.add_to_dt
  BY DEF Shape
<1>2. PICK w, u, name :
          /\ Left = w \o u /\ w \in Seq(0..255) /\ Len(w) = ps.skip /\ Walking(name, w)
          /\ OwedValue(u, name) /\ OwesName(name, add) /\ KeyIs(name)
  BY <1>1 DEF NameLeft
<1>3. ps.skip \in Nat /\ ps.skip > 0 /\ ps.is_key
  BY DEF NameLeft, Shape
<1>4. u \in Seq(0..255) /\ Len(w) >= 1
  BY <1>2, <1>3, ValueIsSeq
<1>5. /\ peer' = peer /\ want' = want /\ odd' = odd /\ block' = block /\ i' \in Nat /\ i' <= Len(block) /\ ret = 0
      /\ Left' = Tail(Left) /\ Byte = Left[1]
  BY ReadShifts
<1>6. /\ Left' = Tail(w) \o u /\ Tail(w) \in Seq(0..255) /\ Len(Tail(w)) = ps.skip - 1
      /\ Byte = w[1]
  <2>1. Tail(w \o u) = Tail(w) \o u /\ Tail(w) \in Seq(0..255) /\ Len(Tail(w)) = Len(w) - 1
        /\ (w \o u)[1] = w[1]
    BY <1>2, <1>4, ConcatStep
  <2>2. QED
    BY <1>2, <1>5, <2>1
<1>7. PICK e : ReadString(e) /\ e = _next(states, ps.s, Byte)
  BY <1>3, ByteSkipped
<1>8. /\ DOMAIN ps' = PsFields /\ ps'.skip = ps.skip - 1 /\ ps'.k = ps.k /\ ps'.m = ps.m
      /\ ps'.is_key = ps.is_key /\ ps'.add_to_dt = ps.add_to_dt /\ ps'.key = ps.key
      /\ (ps.skip = 1 => ps'.s = S_VAL_LEN) /\ (ps.skip # 1 => ps'.s = e.to)
      /\ ps'.cid = CaptureOf(e) /\ ms' = ms /\ dt' = dt /\ ret' = ret
  BY <1>3, <1>7 DEF ReadString, Shape, PsFields
<1>9. OwesName(name, add)' /\ ps'.add_to_dt = add
  BY <1>1, <1>2, <1>5, <1>8, DebtsStay
<1>10. OwesName(name, ps.add_to_dt)'
  BY <1>9 DEF OwesName
<1>11. KeyIs(name)'
  BY <1>2, <1>5, <1>8, KeyStays
<1>12. Shape' /\ ret' = 0
  <2>1. ps'.skip \in Nat
    BY <1>3, <1>8
  <2>2. QED
    BY <1>5, <1>8, <2>1 DEF Shape
<1>16. OwedValue(u, name)'
  BY <1>2, <1>5, <1>8, MatchesStay
<1>17. /\ Len(w) = 1 => CaptureOf(e) = CapOf(name)
       /\ ps'.s = e.to => Walking(name, Tail(w))'
  <2>1. name \in HeaderNames
    BY <1>2 DEF OwesName
  <2>2. e = _next(states, ps.s, w[1])
    BY <1>6, <1>7
  <2>3. QED
    BY <1>2, <1>4, <2>1, <2>2, WalkingNext
<1>13. CASE ps.skip = 1
  <2>1. Left' = u
    <3>1. Tail(w) = <<>>
      <4> DEFINE t == Tail(w)
      <4>1. t \in Seq(0..255) /\ Len(t) = 0
        BY <1>6, <1>13
      <4> HIDE DEF t
      <4>2. t = <<>>
        BY <4>1, EmptySeq
      <4>3. QED
        BY <4>2 DEF t
    <3>2. QED
      BY <1>4, <1>6, <3>1, ConcatEmptySeq
  <2>2. ValueLenLeft(Left)'
    BY <1>2, <1>8, <1>9, <1>11, <1>13, <1>16, <1>17, <2>1, ValueNext
  <2>3. QED
    BY <1>12, <2>2 DEF Rest
<1>14. CASE ps.skip # 1
  <2>1. ps'.skip > 0 /\ ps'.is_key /\ ps'.skip = Len(Tail(w))
    BY <1>3, <1>6, <1>8, <1>14
  <2>2. NameLeft(Left)'
    BY <1>6, <1>8, <1>10, <1>11, <1>14, <1>16, <1>17, <2>1 DEF NameLeft
  <2>3. QED
    BY <1>12, <2>2 DEF Rest
<1>15. QED
  BY <1>13, <1>14

-----------------------------------------------------------------------------
(* The value ends the representation, and the mirror adds what the peer did. *)

\* The new entry is the name the key refers to, and the oldest make room.
LEMMA AddSynced ==
    ASSUME NEW name, NEW add \in BOOLEAN, OwesName(name, add), KeyIs(name), peer' = peer,
           IF add THEN _add_dynamic_table_entry(ps.key) ELSE dt' = dt
    PROVE  Synced(peer)'
<1>1. name \in HeaderNames
  BY DEF OwesName
<1>2. PICK p : Synced(p) /\ peer = Adds(p, name, add)
  BY DEF OwesName
<1>3. /\ DOMAIN dt = {"entries", "deleted", "max"} /\ dt.deleted \in Nat /\ dt.max \in Nat
      /\ dt.entries \in Seq([key : Seq(0..255), huff : BOOLEAN])
      /\ DOMAIN p = {"added", "kept", "max"} /\ p.kept \in Nat /\ p.kept <= p.max
      /\ p.added \in Seq(HeaderNames)
      /\ dt.max = p.max /\ Len(dt.entries) = Len(p.added) /\ Added - dt.deleted = p.kept
      /\ \A j \in 1..Len(p.added) : Spelled(dt.entries[j], p.added[j])
  BY <1>2 DEF Synced, Count
<1>4. Added \in Nat /\ Added = OldEntries + Len(dt.entries) /\ OldEntries \in Nat
  BY <1>3, DecoderOK DEF Added
<1>5. CASE ~add
  <2>1. peer = p /\ dt' = dt
    BY <1>2, <1>5 DEF Adds
  <2>2. QED
    BY <1>2, <2>1, DebtsStay
<1>6. CASE add
  <2> DEFINE key == KeyOf(ps.key)
  <2>1. Spelled(key, name) /\ key \in [key : Seq(0..255), huff : BOOLEAN]
    <3>1. PICK huff \in BOOLEAN : key = Entry(Spelling(name, huff), huff)
      BY DEF KeyIs, Spelled
    <3>2. Spelling(name, huff) \in Seq(0..255)
      BY <1>1, SpellingOK DEF Spelling
    <3>3. QED
      BY <3>1, <3>2 DEF Entry, KeyIs
  <2> HIDE DEF key
  <2>2. dt' = IF dt.max = 0 THEN [dt EXCEPT !.deleted = Added]
              ELSE [dt EXCEPT !.entries = Append(@, key),
                              !.deleted = DeletedTo(Added + 1, @, dt.max)]
    BY <1>6 DEF _add_dynamic_table_entry, KeyIs, key
  <2>3. CASE p.max = 0
    <3>1. peer = p
      BY <1>2, <2>3 DEF Adds
    <3>2. /\ DOMAIN dt' = DOMAIN dt /\ dt'.entries = dt.entries /\ dt'.max = dt.max
          /\ dt'.deleted = Added
      BY <1>3, <2>2, <2>3
    <3>3. Added' = Added
      BY <3>2 DEF Added
    <3>4. Count' = 0
      BY <1>4, <3>2, <3>3 DEF Count
    <3>5. p.kept = 0
      BY <1>3, <2>3
    <3>6. QED
      BY <1>3, <1>4, <3>1, <3>2, <3>4, <3>5 DEF Synced
  <2>4. CASE p.max # 0
    <3>1. /\ DOMAIN dt' = DOMAIN dt /\ dt'.entries = Append(dt.entries, key) /\ dt'.max = dt.max
          /\ dt'.deleted = DeletedTo(Added + 1, dt.deleted, dt.max)
      BY <1>3, <2>2, <2>4
    <3>2. /\ DOMAIN peer = DOMAIN p /\ peer.added = Append(p.added, name) /\ peer.max = p.max
          /\ peer.kept = Smaller(p.kept + 1, p.max)
      BY <1>2, <1>3, <1>6, <2>4 DEF Adds
    <3>3. PICK n \in Nat : n = Len(p.added) /\ n = Len(dt.entries)
      BY <1>3
    <3>4. /\ dt'.entries \in Seq([key : Seq(0..255), huff : BOOLEAN]) /\ Len(dt'.entries) = n + 1
          /\ \A j \in 1..n : dt'.entries[j] = dt.entries[j]
          /\ dt'.entries[n + 1] = key
      BY <1>3, <2>1, <3>1, <3>3, AppendProperties
    <3>5. /\ peer.added \in Seq(HeaderNames) /\ Len(peer.added) = n + 1
          /\ \A j \in 1..n : peer.added[j] = p.added[j]
          /\ peer.added[n + 1] = name
      BY <1>1, <1>3, <3>2, <3>3, AppendProperties
    <3>6. ASSUME NEW j \in 1..(n + 1)
          PROVE  Spelled(dt'.entries[j], peer.added[j])
      <4>1. j \in 1..n \/ j = n + 1
        OBVIOUS
      <4>2. QED
        BY <1>3, <2>1, <3>3, <3>4, <3>5, <4>1
    <3>7. Added' = Added + 1
      BY <1>4, <3>3, <3>4 DEF Added
    <3> DEFINE a == Added
               d == dt.deleted
               k == p.kept
               x == p.max
    <3>8. a \in Nat /\ d \in Nat /\ k \in Nat /\ x \in Nat /\ x # 0 /\ a - d = k /\ k <= x
          /\ dt'.deleted = (IF (a + 1) - d > x THEN (a + 1) - x ELSE d)
          /\ peer.kept = (IF k + 1 < x THEN k + 1 ELSE x)
      BY <1>3, <1>4, <2>4, <3>1, <3>2 DEF DeletedTo, Smaller
    <3> HIDE DEF a, d, k, x
    <3>9. dt'.deleted \in Nat /\ (a + 1) - dt'.deleted = peer.kept /\ peer.kept \in Nat
          /\ peer.kept <= x
      BY <3>8
    <3>10. Count' = peer.kept /\ peer.kept <= peer.max
      BY <3>2, <3>7, <3>9 DEF Count, a, x
    <3>11. QED
      BY <1>3, <3>1, <3>2, <3>4, <3>5, <3>6, <3>9, <3>10 DEF Synced
  <2>5. QED
    BY <2>3, <2>4
<1>7. QED
  BY <1>5, <1>6

LEMMA ReadValueLen ==
    ASSUME Fitting, Shape, _parse_hdr_byte, ValueLenLeft(Left)
    PROVE  Shape' /\ ret' = 0 /\ Rest(Left)'
<1>1. PICK add \in BOOLEAN : add = ps.add_to_dt
  BY DEF Shape
<1>2. PICK huff \in BOOLEAN : \E q, w, name :
          /\ Left = q \o w /\ w \in Seq(0..255) /\ Len(w) <= MAX_BYTES
          /\ Ahead(ValForm(huff), Len(w), q)
          /\ ps.cid = CapOf(name) /\ OwesMatch(name, AtEnd(Len(w), huff))
          /\ OwesName(name, add) /\ KeyIs(name)
  BY <1>1 DEF ValueLenLeft
<1>3. PICK q, w, name :
          /\ Left = q \o w /\ w \in Seq(0..255) /\ Len(w) <= MAX_BYTES
          /\ Ahead(ValForm(huff), Len(w), q)
          /\ ps.cid = CapOf(name) /\ OwesMatch(name, AtEnd(Len(w), huff))
          /\ OwesName(name, add) /\ KeyIs(name)
  BY <1>2
<1>4. PICK f : f = ValForm(huff)
  OBVIOUS
<1>5. ps.skip = 0
  BY DEF ValueLenLeft
<1>6. PICK n \in Nat : n = Len(w)
  BY <1>3
<1>7. n < Word /\ n % (MAX_BYTES + 1) = n
  BY <1>3, <1>6, LengthKept DEF Fitting
<1>8. /\ peer' = peer /\ want' = want /\ odd' = odd /\ block' = block /\ ret = 0
      /\ i' = i + 1 /\ i' \in Nat /\ i' <= Len(block) /\ Left' = Tail(Left) /\ Left # <<>>
  BY ReadShifts
<1>9. Carries(f, n, q, w) \/ Finishes(f, n, w)
  <2>1. Reads(f, n) /\ f.kind \notin {"IntStart", "IntCont"} /\ WideEnough
    BY <1>2, <1>4, LengthReads, FormKinds DEF Fitting
  <2>2. Ahead(f, n, q) /\ Left = q \o w /\ w \in Seq(0..255)
    BY <1>3, <1>4, <1>6
  <2>3. QED
    BY <1>5, <2>1, <2>2, ReadsInt
<1>10. CASE Carries(f, n, q, w)
  <2>1. /\ Left' = Tail(q) \o w /\ Ahead(f, n, Tail(q))' /\ Shape' /\ ps'.skip = 0
        /\ ps'.add_to_dt = add /\ ps'.key = ps.key
        /\ ps'.cid = ps.cid /\ ms' = ms /\ dt' = dt /\ ret' = 0
    BY <1>1, <1>10 DEF Carries
  <2>2. OwesName(name, add)' /\ KeyIs(name)'
    BY <1>3, <1>8, <2>1, DebtsStay, KeyStays
  <2>3. OwesName(name, ps.add_to_dt)'
    BY <2>1, <2>2 DEF OwesName
  <2>6. OwesMatch(name, AtEnd(Len(w), huff))'
    <3>1. PICK match : match = AtEnd(Len(w), huff)
      OBVIOUS
    <3>2. OwesMatch(name, match)' /\ AtEnd(Len(w), huff)' = match
      BY <1>3, <1>8, <2>1, <3>1, MatchesStay DEF AtEnd
    <3>3. QED
      BY <3>2 DEF OwesMatch
  <2>4. ValueLenLeft(Left)'
    BY <1>2, <1>3, <1>4, <1>6, <2>1, <2>2, <2>3, <2>6 DEF ValueLenLeft
  <2>5. QED
    BY <2>1, <2>4 DEF Rest
<1>11. CASE Finishes(f, n, w)
  <2>1. PICK e : e.to = S_FIELD /\ e.action[1] = "ValLen" /\ _run_action(e) /\ Integer(e) = n
                 /\ (F_HUFF \in f.flags <=> Flag(e, F_HUFF))
    BY <1>4, <1>7, <1>11, FormKinds DEF Finishes
  <2>2. RunValLen(e, n)
    BY <1>7, <2>1, RunIs
  <2>3. /\ DOMAIN ps' = PsFields /\ ps'.s = S_FIELD /\ ps'.skip = n /\ ps'.k = ps.k
        /\ ps'.m = ps.m /\ ps'.is_key = FALSE /\ ps'.add_to_dt = ps.add_to_dt /\ ret' = ret
        /\ IF add THEN _add_dynamic_table_entry(ps.key) ELSE dt' = dt
    BY <1>1, <2>1, <2>2 DEF RunValLen, Shape, PsFields
  <2>4. Synced(peer)'
    BY <1>1, <1>3, <1>8, <2>3, AddSynced
  <2>5. Left' = w
    BY <1>11 DEF Finishes
  <2>10. Flag(e, F_HUFF) = huff
    <3>1. f.flags = IF huff THEN {F_HUFF} ELSE {}
      BY <1>4, FormKinds
    <3>2. F_HUFF \in f.flags <=> huff
      BY <1>2, <3>1
    <3>3. Flag(e, F_HUFF) \in BOOLEAN
      BY DEF Flag
    <3>4. QED
      BY <1>2, <2>1, <3>2, <3>3
  <2>11. i + 1 = Len(block) - n
    <3>1. Left \in Seq(0..255) /\ Len(Left) = Len(block) - i
      BY LeftIs
    <3>2. Len(Tail(Left)) = Len(Left) - 1
      BY <1>8, <3>1, HeadTailProperties
    <3>3. Len(block) \in Nat /\ i \in Nat
      BY DEF Shape
    <3>4. n = Len(Left) - 1
      BY <1>6, <1>8, <2>5, <3>2
    <3>5. QED
      BY <3>1, <3>3, <3>4
  <2>12. Settled'
    <3>1. PICK match : match = AtEnd(Len(w), huff)
      OBVIOUS
    <3>2. match = InMessage(i + 1, n, Flag(e, F_HUFF))
      BY <1>6, <2>10, <2>11, <3>1 DEF AtEnd
    <3>3. ms' = IF CapOf(name) = NoCapture THEN ms ELSE [ms EXCEPT ![CapOf(name)] = match]
      BY <1>3, <2>2, <3>2 DEF RunValLen
    <3>4. QED
      BY <1>3, <1>8, <3>1, <3>3, MatchPaid
  <2>6. Shape' /\ ret' = 0
    <3>1. ps'.is_key \in BOOLEAN
      BY <2>3
    <3>2. QED
      BY <1>8, <2>3, <3>1 DEF Shape
  <2>7. CASE n = 0
    <3>1. w = <<>>
      BY <1>3, <1>6, <2>7, EmptySeq
    <3>2. Idle(Left)'
      BY <2>3, <2>4, <2>5, <2>7, <2>12, <3>1 DEF Idle
    <3>3. QED
      BY <2>6, <3>2 DEF Rest
  <2>8. CASE n # 0
    <3>1. ps'.skip > 0 /\ ~ps'.is_key /\ Len(Left') = ps'.skip
      BY <1>6, <2>3, <2>5, <2>8
    <3>2. ValueLeft(Left)'
      BY <2>3, <2>4, <2>12, <3>1 DEF ValueLeft
    <3>3. QED
      BY <2>6, <3>2 DEF Rest
  <2>9. QED
    BY <2>7, <2>8
<1>12. QED
  BY <1>9, <1>10, <1>11

LEMMA ReadValue ==
    ASSUME Fitting, Shape, _parse_hdr_byte, ValueLeft(Left)
    PROVE  Shape' /\ ret' = 0 /\ Rest(Left)'
<1>1. PICK t : t = Left
  OBVIOUS
<1>2. ps.skip \in Nat /\ ps.skip > 0 /\ ~ps.is_key /\ ps.s = S_FIELD /\ Len(t) = ps.skip
      /\ Synced(peer) /\ Settled
  BY <1>1 DEF ValueLeft, Shape
<1>3. t \in Seq(0..255) /\ t # <<>>
  BY <1>1, LeftIs, ReadShifts
<1>4. /\ peer' = peer /\ want' = want /\ odd' = odd /\ block' = block /\ i' \in Nat /\ i' <= Len(block) /\ ret = 0
      /\ Left' = Tail(t)
  BY <1>1, ReadShifts
<1>5. Tail(t) \in Seq(0..255) /\ Len(Tail(t)) = ps.skip - 1
  BY <1>2, <1>3, HeadTailProperties
<1>6. PICK e : ReadString(e)
  BY <1>2, ByteSkipped
<1>7. /\ DOMAIN ps' = PsFields /\ ps'.skip = ps.skip - 1 /\ ps'.k = ps.k /\ ps'.m = ps.m
      /\ ps'.is_key = ps.is_key /\ ps'.add_to_dt = ps.add_to_dt /\ ps'.s = ps.s
      /\ ms' = ms /\ dt' = dt /\ ret' = ret
  BY <1>2, <1>6 DEF ReadString, Shape, PsFields
<1>8. Synced(peer)' /\ Settled'
  BY <1>2, <1>4, <1>7, DebtsStay, MatchesStay
<1>9. Shape' /\ ret' = 0
  <2>1. ps'.skip \in Nat
    BY <1>2, <1>7
  <2>2. QED
    BY <1>4, <1>7, <2>1 DEF Shape
<1>10. CASE ps.skip = 1
  <2>1. Left' = <<>>
    <3>1. PICK u \in Seq(0..255) : u = Tail(t)
      BY <1>5
    <3>2. Len(u) = 0
      BY <1>5, <1>10, <3>1
    <3>3. QED
      BY <1>4, <3>1, <3>2, EmptySeq
  <2>2. Idle(Left)'
    BY <1>2, <1>7, <1>8, <1>10, <2>1 DEF Idle
  <2>3. QED
    BY <1>9, <2>2 DEF Rest
<1>11. CASE ps.skip # 1
  <2>1. ps'.skip > 0 /\ Len(Left') = ps'.skip
    BY <1>2, <1>4, <1>5, <1>7, <1>11
  <2>2. ValueLeft(Left)'
    BY <1>2, <1>7, <1>8, <2>1 DEF ValueLeft
  <2>3. QED
    BY <1>9, <2>2 DEF Rest
<1>12. QED
  BY <1>10, <1>11

LEMMA ZeroEdge == RowEdge(S_FIELD, 128) = Edge(S_DEAD, Action("Err", 0, {}))
<1>1. FieldEdge(128) = Edge(S_DEAD, Action("Err", 0, {}))
  BY DEF FieldEdge
<1>2. QED
  BY <1>1, FieldIs

\* The index 0 is refused.
LEMMA ReadZero ==
    ASSUME Shape, _parse_hdr_byte, Zero(Left)
    PROVE  Shape' /\ ret' = EBADMSG /\ Synced(peer)'
<1>1. ps.s = S_FIELD /\ ps.skip = 0 /\ Synced(peer) /\ Left = <<128>>
  BY DEF Zero
<1>2. /\ peer' = peer /\ block' = block /\ i' \in Nat /\ i' <= Len(block)
      /\ Byte = 128 /\ Byte \in 0..255
  BY <1>1, ReadShifts
<1> DEFINE e == Edge(S_DEAD, Action("Err", 0, {}))
<1>3. /\ e.to = S_DEAD /\ e.action # NoAction /\ e.action[1] = "Err"
      /\ NoEdge.action = NoAction /\ RowEdge(S_FIELD, 128) = e
  BY ActionIs, ZeroEdge DEF Edge, NoEdge
<1> HIDE DEF e
<1>4. RunErr(e)
  <2>1. RowEdge(ps.s, Byte) = e /\ e # NoEdge /\ ps.s \in RowStates
    BY <1>1, <1>2, <1>3, StatesDiffer
  <2>2. _run_action(e)
    BY <1>1, <1>2, <1>3, <2>1, ByteTakes
  <2>3. QED
    BY <1>3, <2>2, RunIs
<1>5. /\ DOMAIN ps' = PsFields /\ ps'.skip = 0 /\ ps'.k = ps.k /\ ps'.m = ps.m
      /\ ps'.is_key = ps.is_key /\ ps'.add_to_dt = ps.add_to_dt /\ dt' = dt /\ ret' = EBADMSG
  BY <1>1, <1>4 DEF RunErr, Shape, PsFields
<1>6. Synced(peer)'
  BY <1>1, <1>2, <1>5, DebtsStay
<1>7. Shape'
  BY <1>2, <1>5 DEF Shape
<1>8. QED
  BY <1>5, <1>6, <1>7

\* Whatever is left, reading a byte of it leaves what the forms describe.
LEMMA ReadKeeps ==
    ASSUME Fitting, Inv, _parse_hdr_byte
    PROVE  Inv'
<1>1. Shape /\ Within
  BY DEF Inv
<1>2. odd' = odd /\ ret = 0 /\ Left # <<>> /\ EBADMSG # 0
  BY <1>1, ReadShifts DEF EBADMSG
<1>3. CASE "zero" \notin odd /\ Rest(Left)
  <2>1. ~Idle(Left)
    BY <1>2 DEF Idle
  <2>2. Shape' /\ ret' = 0 /\ Rest(Left)'
    BY <1>1, <1>3, <2>1, ReadIndexed, ReadSize, ReadIndexName, ReadNewName, ReadNameLen,
       ReadName, ReadValueLen, ReadValue DEF Rest
  <2>3. Within'
    BY <1>2, <1>3, <2>2 DEF Within
  <2>4. QED
    BY <2>2, <2>3 DEF Inv
<1>4. CASE "zero" \in odd /\ Zero(Left)
  <2>1. Shape' /\ ret' = EBADMSG /\ Synced(peer)'
    BY <1>1, <1>4, ReadZero
  <2>2. Within'
    BY <1>2, <1>4, <2>1 DEF Within
  <2>3. QED
    BY <2>1, <2>2 DEF Inv
<1>5. QED
  BY <1>1, <1>2, <1>3, <1>4 DEF Within

-----------------------------------------------------------------------------
(* What the peer sends.                                                      *)

LEMMA EdgeActs ==
    ASSUME NEW to, NEW kind, NEW x, NEW F
    PROVE  Edge(to, Action(kind, x, F)).action # NoAction
  BY ActionIs DEF Edge

\* A byte is left, and where it is none of a string the row has an edge for it.
Awaits(t) ==
    t # <<>> /\ (ps.skip = 0 => ps.s \in RowStates /\ RowEdge(ps.s, t[1]).action # NoAction)

LEMMA AheadAwaits ==
    ASSUME WideEnough, Shape, NEW f, NEW v \in Nat, Reads(f, v), NEW q, Ahead(f, v, q)
    PROVE  /\ q \in Seq(0..255) /\ Len(q) >= 1 /\ Awaits(q)
           /\ \A u \in Seq(0..255) : Awaits(q \o u)
<1> DEFINE c == q[1]
           e == RowEdge(ps.s, c)
           m2 == IF ps.m <= MaxShift THEN ps.m + 7 ELSE ps.m
<1>1. ps.k \in Nat /\ ps.m \in Nat /\ ps.m % 7 = 0
  BY DEF Shape
<1>2. /\ q \in Seq(0..255) /\ Len(q) >= 1 /\ ps.s \in RowStates
      /\ \/ Tail(q) = <<>> /\ Ends(ps.k, ps.m, c, e, f, v)
         \/ Starts(e, f) /\ IntLeft(f.max, 0, v, Tail(q))
         \/ Continues(e, f) /\ IntLeft(Accumulated(ps.k, ps.m, c), m2, v, Tail(q))
  BY <1>1, IntByte DEF Ahead
<1>3. /\ q \in Seq(0..255) /\ Len(q) >= 1 /\ ps.s \in RowStates
      /\ Ends(ps.k, ps.m, c, e, f, v) \/ Starts(e, f) \/ Continues(e, f)
  BY <1>2
<1>4. e.action # NoAction
  <2> HIDE DEF e
  <2>1. CASE Ends(ps.k, ps.m, c, e, f, v)
    BY <2>1, ActionIs DEF Ends
  <2>2. CASE Starts(e, f)
    BY <2>2, ActionIs DEF Starts, Edge
  <2>3. CASE Continues(e, f)
    BY <2>3, ActionIs DEF Continues, Edge
  <2>4. QED
    BY <1>3, <2>1, <2>2, <2>3
<1>5. q # <<>>
  BY <1>3, EmptySeq
<1>6. ASSUME NEW u \in Seq(0..255) PROVE q \o u # <<>> /\ (q \o u)[1] = q[1]
  <2>1. Len(q \o u) >= 1 /\ (q \o u)[1] = q[1]
    BY <1>3, ConcatStep
  <2>2. QED
    BY <2>1, EmptySeq
<1>7. QED
  BY <1>3, <1>4, <1>5, <1>6 DEF Awaits

\* Between two representations nothing is left, and else the reader has what it awaits.
LEMMA RestAwaits ==
    ASSUME Fitting, Shape, NEW t, Rest(t)
    PROVE  Idle(t) \/ Awaits(t)
<1>0. WideEnough
  BY DEF Fitting
<1>1. CASE IndexedLeft(t)
  <2>1. PICK v \in Nat \ {0} : Ahead(IndexedForm, v, t)
    BY <1>1 DEF IndexedLeft
  <2>2. PICK f : f = IndexedForm
    OBVIOUS
  <2>3. QED
    BY <1>0, <2>1, <2>2, IndexedReads, AheadAwaits
<1>2. CASE SizeLeft(t)
  <2>1. PICK v \in 0..(Word - 1) : Ahead(SizeForm, v, t)
    BY <1>2 DEF SizeLeft
  <2>2. PICK f : f = SizeForm
    OBVIOUS
  <2>3. v \in Nat
    BY WordIsNat
  <2>4. QED
    BY <1>0, <2>1, <2>2, <2>3, SizeReads, AheadAwaits
<1>3. CASE IndexNameLeft(t)
  <2>1. PICK lit \in Literals, idx \in 1..(Word - 1) : \E q, u, name :
            t = q \o u /\ Ahead(NameForm(lit), idx, q) /\ OwedValue(u, name)
    BY <1>3 DEF IndexNameLeft
  <2>2. PICK q, u, name : t = q \o u /\ Ahead(NameForm(lit), idx, q) /\ OwedValue(u, name)
    BY <2>1
  <2>3. PICK f : f = NameForm(lit)
    OBVIOUS
  <2>4. idx \in Nat /\ idx # 0
    BY WordIsNat
  <2>5. Reads(f, idx)
    BY <2>1, <2>3, <2>4, NameReads
  <2>6. u \in Seq(0..255)
    BY <2>2, ValueIsSeq
  <2>7. QED
    BY <1>0, <2>2, <2>3, <2>4, <2>5, <2>6, AheadAwaits
<1>4. CASE NewNameLeft(t)
  <2>1. PICK lit \in Literals, huff \in BOOLEAN : \E w, u, name :
            /\ t = (<<lit.flags>> \o w) \o u
            /\ IsString(w, huff, Spelling(name, huff)) /\ OwedValue(u, name)
    BY <1>4 DEF NewNameLeft
  <2>2. PICK w, u, name :
            /\ t = (<<lit.flags>> \o w) \o u
            /\ IsString(w, huff, Spelling(name, huff)) /\ OwedValue(u, name)
    BY <2>1
  <2>3. PICK x \in 0..255 : x = lit.flags
    BY <2>1, LiteralEdge, SMTT(30)
  <2>4. w \in Seq(0..255) /\ u \in Seq(0..255)
    BY <2>1, <2>2, StringIsSeq, ValueIsSeq
  <2>5. t[1] = x
    BY <2>2, <2>3, <2>4, OneAhead, ZenonT(60)
  <2>6. PICK o \in Seq(0..255) : o = <<x>> /\ Len(o) = 1
    <3>1. <<x>> \in Seq(0..255) /\ Len(<<x>>) = 1
      OBVIOUS
    <3>2. QED
      BY <3>1
  <2>7. o \o w \in Seq(0..255) /\ Len(o \o w) >= 1
    BY <2>4, <2>6, ConcatStep
  <2>8. t # <<>>
    <3>1. Len((o \o w) \o u) >= 1
      BY <2>4, <2>7, ConcatStep
    <3>2. t = (o \o w) \o u
      BY <2>2, <2>3, <2>6
    <3>3. QED
      BY <3>1, <3>2, EmptySeq
  <2>9. RowEdge(S_FIELD, x).action # NoAction
    BY <2>1, <2>3, LiteralEdge, EdgeActs
  <2>10. QED
    BY <1>4, <2>5, <2>8, <2>9, StatesDiffer DEF NewNameLeft, Awaits
<1>5. CASE NameLenLeft(t)
  <2>1. PICK huff \in BOOLEAN : \E q, u, name :
            /\ t = q \o (Spelling(name, huff) \o u)
            /\ Ahead(KeyForm(huff), Len(Spelling(name, huff)), q)
            /\ OwedValue(u, name) /\ name \in HeaderNames
    BY <1>5 DEF NameLenLeft, OwesName
  <2>2. PICK q, u, name :
            /\ t = q \o (Spelling(name, huff) \o u)
            /\ Ahead(KeyForm(huff), Len(Spelling(name, huff)), q)
            /\ OwedValue(u, name) /\ name \in HeaderNames
    BY <2>1
  <2>3. PICK sp \in Seq(0..255) : sp = Spelling(name, huff)
    BY <2>2, SpellingOK DEF Spelling
  <2>4. PICK f : f = KeyForm(huff)
    OBVIOUS
  <2>5. PICK n \in Nat : n = Len(sp)
    BY <2>3
  <2>6. u \in Seq(0..255) /\ sp \o u \in Seq(0..255)
    BY <2>2, <2>3, ValueIsSeq, ConcatProperties
  <2>7. QED
    BY <1>0, <2>1, <2>2, <2>3, <2>4, <2>5, <2>6, LengthReads, AheadAwaits
<1>6. CASE NameLeft(t)
  <2>1. PICK w, u, name : t = w \o u /\ w \in Seq(0..255) /\ Len(w) = ps.skip /\ OwedValue(u, name)
    BY <1>6 DEF NameLeft
  <2>2. Len(w) >= 1 /\ u \in Seq(0..255) /\ ps.skip # 0
    BY <1>6, <2>1, ValueIsSeq DEF NameLeft, Shape
  <2>3. Len(w \o u) >= 1
    BY <2>1, <2>2, ConcatStep
  <2>4. QED
    BY <2>1, <2>2, <2>3, EmptySeq DEF Awaits
<1>7. CASE ValueLenLeft(t)
  <2>1. PICK huff \in BOOLEAN : \E q, w :
            t = q \o w /\ w \in Seq(0..255) /\ Ahead(ValForm(huff), Len(w), q)
    BY <1>7 DEF ValueLenLeft
  <2>2. PICK q, w : t = q \o w /\ w \in Seq(0..255) /\ Ahead(ValForm(huff), Len(w), q)
    BY <2>1
  <2>3. PICK f : f = ValForm(huff)
    OBVIOUS
  <2>4. PICK n \in Nat : n = Len(w)
    BY <2>2
  <2>5. QED
    BY <1>0, <2>1, <2>2, <2>3, <2>4, LengthReads, AheadAwaits
<1>8. CASE ValueLeft(t)
  BY <1>8, EmptySeq DEF ValueLeft, Awaits, Shape
<1>9. QED
  BY <1>1, <1>2, <1>3, <1>4, <1>5, <1>6, <1>7, <1>8 DEF Rest

LEMMA OnlyIdle ==
    ASSUME Fitting, Shape, NEW t, t = <<>>, Rest(t)
    PROVE  Idle(t)
  BY RestAwaits DEF Awaits

LEMMA FormFirsts ==
    /\ IndexedForm.first = S_FIELD /\ IndexedForm.base = 128 /\ IndexedForm.max = 127
    /\ SizeForm.first = S_FIELD /\ SizeForm.base = 32 /\ SizeForm.max = 31
    /\ \A lit : NameForm(lit).first = S_FIELD /\ NameForm(lit).base = lit.flags
                /\ NameForm(lit).max = lit.max
  BY DEF IndexedForm, SizeForm, NameForm, Form

\* The peer sends when nothing is left and both tables agree.
LEMMA Sends ==
    ASSUME Fitting, Inv, MaySend, NEW bytes \in Seq(0..255), Emits(bytes)
    PROVE  /\ Shape' /\ Left' = bytes /\ ps' = ps /\ ms' = ms /\ dt' = dt /\ ret' = 0
           /\ block \in Seq(0..255) /\ block' = block \o bytes
           /\ ps.s = S_FIELD /\ ps.skip = 0 /\ Synced(peer) /\ Settled /\ "zero" \notin odd
<1>1. Shape /\ Within /\ ret = 0 /\ i = Len(block)
  BY DEF Inv, MaySend
<1>2. block' = block \o bytes /\ i' = i /\ ps' = ps /\ ms' = ms /\ dt' = dt /\ ret' = ret
  BY DEF Emits
<1>3. /\ block \o bytes \in Seq(0..255) /\ i <= Len(block \o bytes)
      /\ SubSeq(block \o bytes, i + 1, Len(block \o bytes)) = bytes
  BY <1>1, SentLeft
<1>4. Left' = bytes
  BY <1>2, <1>3 DEF Left
<1>5. Shape'
  BY <1>1, <1>2, <1>3 DEF Shape
<1>6. PICK t : t = Left
  OBVIOUS
<1>7. t = <<>>
  <2>1. t \in Seq(0..255) /\ Len(t) = 0
    BY <1>1, <1>6, LeftIs DEF Shape
  <2>2. QED
    BY <2>1, EmptySeq
<1>8. "zero" \notin odd /\ Rest(t)
  BY <1>1, <1>6, <1>7 DEF Within, EBADMSG, Zero
<1>9. Idle(t)
  BY <1>1, <1>7, <1>8, OnlyIdle
<1>10. QED
  BY <1>1, <1>2, <1>4, <1>5, <1>8, <1>9 DEF Idle, Shape

LEMMA SentRest ==
    ASSUME Fitting, Inv, MaySend, NEW bytes \in Seq(0..255), Emits(bytes),
           "zero" \notin odd', Rest(Left)'
    PROVE  Inv'
  BY Sends DEF Inv, Within

\* What is sent is ahead of the reader.
LEMMA AheadWhenSent ==
    ASSUME Fitting, Inv, MaySend, NEW f, f.first = S_FIELD, NEW v \in Nat, Reads(f, v),
           NEW q, Encoded(f.base, f.max, v, q)
    PROVE  q \in Seq(0..255) /\ Len(q) >= 1
  BY IntFirst DEF Reads

\* The peer sends one more value of a name.
LEMMA NewMatch ==
    ASSUME Settled, ms' = ms, odd' = odd, NEW name, NEW match, Wants(name, match)
    PROVE  OwesMatch(name, match)'
<1>1. CASE "wide" \in odd
  BY <1>1 DEF OwesMatch
<1>2. CASE Caught(want)
  <2>1. PICK w : w = want
    OBVIOUS
  <2>2. Caught(w)'
    BY <1>2, <2>1 DEF Caught
  <2>3. want' = Replaced(w, name, match)
    BY <2>1 DEF Wants, Replaced
  <2>4. QED
    BY <2>2, <2>3 DEF OwesMatch, Replaced
<1>3. QED
  BY <1>1, <1>2 DEF Settled

\* The peer's index names the mirror's entry.
LEMMA NamedAlike ==
    ASSUME Fitting, Synced(peer), NEW idx \in Nat \ {0}, PeerValid(idx)
    PROVE  /\ PeerName(idx) \in HeaderNames /\ EntryIs(idx, PeerName(idx))
           /\ Slot(idx) = IF idx <= STATIC_TABLE_SIZE THEN idx ELSE Base + PeerNumber(idx) - 1
<1> DEFINE size == STATIC_TABLE_SIZE
           a == Added
           n == a - (idx - size) + 1
<1>1. size \in Nat /\ Base = size + 1 /\ AppendixA \in Seq(HeaderNames) /\ size = Len(AppendixA)
      /\ OldEntries \in Nat /\ OldName \in HeaderNames
  BY DecoderOK DEF STATIC_TABLE_SIZE
<1>2. /\ dt.deleted \in Nat /\ peer.kept \in Nat /\ Added - dt.deleted = peer.kept
      /\ dt.entries \in Seq([key : Seq(0..255), huff : BOOLEAN])
      /\ peer.added \in Seq(HeaderNames) /\ Len(dt.entries) = Len(peer.added)
      /\ \A j \in 1..Len(peer.added) : Spelled(dt.entries[j], peer.added[j])
  BY DEF Synced, Count
<1>3. a = OldEntries + Len(peer.added) /\ a \in Nat /\ a - dt.deleted = peer.kept /\ PeerAdded = a
  BY <1>1, <1>2 DEF Added, PeerAdded
<1>4. idx <= size + peer.kept
  BY DEF PeerValid
<1>5. PeerNumber(idx) = n
  BY <1>3 DEF PeerNumber
<1>6. _is_valid_hpack_index(idx)
  BY <1>2, <1>4 DEF _is_valid_hpack_index, Count
<1>7. CASE idx <= size
  <2>1. PeerName(idx) = AppendixA[idx] /\ idx \in 1..size
    BY <1>1, <1>7 DEF PeerName
  <2>2. AppendixA[idx] \in HeaderNames
    BY <1>1, <2>1, ElementOfSeq
  <2>3. Slot(idx) = idx /\ idx < Base
    BY <1>1, <1>7 DEF Slot
  <2>4. AtSlot(Slot(idx)) = Entry(Huff[AppendixA[idx]], TRUE)
    BY <2>1, <2>3 DEF AtSlot, Fitting, StaticTableAgrees
  <2>5. Spelled(AtSlot(Slot(idx)), PeerName(idx))
    BY <2>1, <2>4 DEF Spelled, Spelling
  <2>6. QED
    BY <1>6, <1>7, <2>1, <2>2, <2>3, <2>5 DEF EntryIs
<1>8. CASE ~(idx <= size)
  <2>1. Slot(idx) = (size + a - idx) + Base
    BY <1>8 DEF Slot
  <2> DEFINE slot == Slot(idx)
  <2>2. PeerName(idx) = IF n <= OldEntries THEN OldName ELSE peer.added[n - OldEntries]
    BY <1>5, <1>8 DEF PeerName
  <2> DEFINE kept == peer.kept
  <2>0. /\ size \in Nat /\ a \in Nat /\ kept \in Nat /\ dt.deleted \in Nat /\ OldEntries \in Nat
        /\ a - dt.deleted = kept /\ idx > size /\ idx <= size + kept /\ Base = size + 1
    BY <1>1, <1>2, <1>3, <1>4, <1>8
  <2> HIDE DEF a, size, kept
  <2>9. slot = (size + a - idx) + Base
    BY <2>1
  <2> HIDE DEF slot
  <2>3. /\ n \in Int /\ n >= 1 /\ n <= a /\ slot - Base = n - 1 /\ ~(slot < Base)
        /\ slot - Base - OldEntries + 1 = n - OldEntries
    BY <2>0, <2>9
  <2>8. slot \in Int /\ Base \in Int
    BY <2>0, <2>9
  <2> HIDE DEF n
  <2>10. Slot(idx) = Base + PeerNumber(idx) - 1 /\ ~(idx <= STATIC_TABLE_SIZE)
    <3>1. slot = Base + n - 1
      BY <2>3, <2>8
    <3>2. QED
      BY <1>5, <1>8, <3>1 DEF slot, size
  <2>4. AtSlot(slot) = IF n - 1 < OldEntries THEN Entry(Huff[OldName], TRUE)
                       ELSE dt.entries[n - OldEntries]
    BY <2>3 DEF AtSlot
  <2>5. CASE n <= OldEntries
    <3>1. n - 1 < OldEntries
      BY <1>1, <2>3, <2>5
    <3>2. PeerName(idx) = OldName /\ AtSlot(slot) = Entry(Huff[OldName], TRUE)
      BY <2>2, <2>4, <2>5, <3>1
    <3>3. Spelled(AtSlot(slot), PeerName(idx))
      BY <3>2 DEF Spelled, Spelling
    <3>4. QED
      BY <1>1, <1>6, <2>10, <3>2, <3>3 DEF EntryIs, slot
  <2>6. CASE ~(n <= OldEntries)
    <3>1. ~(n - 1 < OldEntries) /\ n - OldEntries \in 1..Len(peer.added)
      BY <1>1, <1>2, <1>3, <2>3, <2>6
    <3>2. /\ PeerName(idx) = peer.added[n - OldEntries]
          /\ AtSlot(slot) = dt.entries[n - OldEntries]
      BY <2>2, <2>4, <2>6, <3>1
    <3>3. peer.added[n - OldEntries] \in HeaderNames
      BY <1>2, <3>1, ElementOfSeq
    <3>4. Spelled(AtSlot(slot), PeerName(idx))
      BY <1>2, <3>1, <3>2
    <3>5. QED
      BY <1>6, <2>10, <3>2, <3>3, <3>4 DEF EntryIs, slot
  <2>7. QED
    BY <2>5, <2>6
<1>9. QED
  BY <1>7, <1>8

LEMMA SendsIndexed ==
    ASSUME Fitting, Inv, MaySend, NEW idx \in PeerIndices \cup WideIndices, NEW pad \in Nat,
           SendIndexed(idx, pad)
    PROVE  Inv'
<1>1. idx \in Nat \ {0}
  BY WordIsNat, DecoderOK DEF Word
<1>2. PICK f : f = IndexedForm
  OBVIOUS
<1>3. PICK q : q = EncodeInt(128, 127, idx, pad)
  OBVIOUS
<1>4. /\ Reads(f, idx) /\ f.first = S_FIELD /\ f.base = 128 /\ f.max = 127
      /\ Encoded(f.base, f.max, idx, q)
  BY <1>1, <1>2, <1>3, IndexedReads, FormFirsts DEF Encoded
<1>5. q \in Seq(0..255)
  BY <1>1, <1>4, AheadWhenSent
<1>6. Emits(q) /\ peer' = peer /\ odd' \subseteq odd \cup {"wide"}
  BY <1>3 DEF SendIndexed
<1>7. /\ Left' = q /\ ps' = ps /\ ms' = ms /\ dt' = dt
      /\ ps.s = S_FIELD /\ ps.skip = 0 /\ Synced(peer) /\ Settled /\ "zero" \notin odd
  BY <1>5, <1>6, Sends
<1>8. Synced(peer)'
  BY <1>6, <1>7, DebtsStay
<1>9. Ahead(f, idx, q)'
  BY <1>4, <1>7 DEF Ahead, IntAhead
<1>12. OwesIndexed(idx)'
  <2>1. CASE "wide" \in odd'
    BY <2>1 DEF OwesIndexed
  <2>2. CASE "wide" \notin odd'
    <3>1. odd' = odd /\ idx \notin WideIndices
      BY <2>2 DEF SendIndexed
    <3>2. idx < Word
      BY <3>1 DEF Word, Fitting, LengthsFit
    <3>3. PICK name, match :
             /\ name = PeerName(idx)
             /\ match = InTable(IF idx <= STATIC_TABLE_SIZE THEN idx
                                ELSE Base + PeerNumber(idx) - 1)
      OBVIOUS
    <3>4. CASE PeerValid(idx)
      <4>1. name \in HeaderNames /\ EntryIs(idx, name) /\ match = InTable(Slot(idx))
        BY <1>1, <1>7, <3>3, <3>4, NamedAlike
      <4>2. OwesMatch(name, match)'
        BY <1>7, <3>1, <3>3, <3>4, NewMatch DEF SendIndexed
      <4>3. EntryIs(idx, name)' /\ _is_valid_hpack_index(idx)' /\ Slot(idx)' = Slot(idx)
        BY <1>7, <4>1, TablesStay DEF EntryIs, _is_valid_hpack_index, Slot, Count, Added
      <4>4. OwesMatch(name, InTable(Slot(idx)))'
        BY <4>1, <4>2, <4>3 DEF OwesMatch
      <4>5. QED
        BY <3>2, <4>1, <4>3, <4>4 DEF OwesIndexed
    <3>5. CASE ~PeerValid(idx)
      <4>1. ~_is_valid_hpack_index(idx)
        BY <1>7, <3>5 DEF Synced, PeerValid, _is_valid_hpack_index
      <4>2. ~_is_valid_hpack_index(idx)'
        BY <1>7, <4>1 DEF _is_valid_hpack_index, Count, Added
      <4>3. want' = want
        BY <3>5 DEF SendIndexed
      <4>4. Caught(want)'
        BY <1>7, <2>2, <3>1, <4>3 DEF Settled, Caught
      <4>5. QED
        BY <3>2, <4>2, <4>4 DEF OwesIndexed
    <3>6. QED
      BY <3>4, <3>5
  <2>3. QED
    BY <2>1, <2>2
<1>10. IndexedLeft(Left)'
  BY <1>1, <1>2, <1>7, <1>8, <1>9, <1>12 DEF IndexedLeft
<1>11. QED
  BY <1>5, <1>6, <1>7, <1>10, SentRest DEF Rest

LEMMA SendsTableSize ==
    ASSUME Fitting, Inv, MaySend, NEW size \in PeerSizes, NEW pad \in Nat,
           SendTableSize(size, pad)
    PROVE  Inv'
<1>1. size \in Nat /\ size < Word /\ size \in 0..(Word - 1)
  BY WordIsNat, DecoderOK DEF Word, Fitting, LengthsFit
<1>2. PICK f : f = SizeForm
  OBVIOUS
<1>3. PICK q : q = EncodeInt(32, 31, size, pad)
  OBVIOUS
<1>4. /\ Reads(f, size) /\ f.first = S_FIELD /\ f.base = 32 /\ f.max = 31
      /\ Encoded(f.base, f.max, size, q)
  BY <1>1, <1>2, <1>3, SizeReads, FormFirsts DEF Encoded
<1>5. q \in Seq(0..255)
  BY <1>1, <1>4, AheadWhenSent
<1>6. Emits(q) /\ odd' = odd /\ want' = want /\ peer' = Resized(peer, size)
  BY <1>3 DEF SendTableSize, Resized
<1>7. /\ Left' = q /\ ps' = ps /\ ms' = ms /\ dt' = dt
      /\ ps.s = S_FIELD /\ ps.skip = 0 /\ Synced(peer) /\ Settled /\ "zero" \notin odd
  BY <1>5, <1>6, Sends
<1>8. OwesSize(size)'
  <2>1. PICK p : p = peer
    OBVIOUS
  <2>2. Synced(p)'
    BY <1>7, <2>1, TablesStay
  <2>3. QED
    BY <1>6, <2>1, <2>2 DEF OwesSize, Resized
<1>9. Ahead(f, size, q)'
  BY <1>4, <1>7 DEF Ahead, IntAhead
<1>12. Settled'
  BY <1>6, <1>7 DEF Settled, Caught
<1>10. SizeLeft(Left)'
  BY <1>1, <1>2, <1>7, <1>8, <1>9, <1>12 DEF SizeLeft
<1>11. QED
  BY <1>5, <1>6, <1>7, <1>10, SentRest DEF Rest

LEMMA SendsIndexZero ==
    ASSUME Fitting, Inv, SendIndexZero
    PROVE  Inv'
<1>0. <<128>> \in Seq(0..255)
  OBVIOUS
<1>1. PICK q \in Seq(0..255) : q = <<128>>
  BY <1>0
<1>2. MaySend /\ Emits(q) /\ peer' = peer /\ "zero" \in odd'
  BY <1>1 DEF SendIndexZero
<1>3. /\ Shape' /\ Left' = q /\ ps' = ps /\ dt' = dt /\ ret' = 0
      /\ ps.s = S_FIELD /\ ps.skip = 0 /\ Synced(peer)
  BY <1>1, <1>2, Sends
<1>4. Synced(peer)'
  BY <1>2, <1>3, DebtsStay
<1>5. Zero(Left)'
  BY <1>1, <1>3, <1>4 DEF Zero
<1>6. QED
  BY <1>2, <1>3, <1>5 DEF Inv, Within

LEMMA NewDebt ==
    ASSUME Synced(peer), dt' = dt, NEW name \in HeaderNames, NEW add, PeerAdds(name, add)
    PROVE  OwesName(name, add)'
<1>1. PICK p : p = peer
  OBVIOUS
<1>2. Synced(p)'
  BY <1>1, TablesStay
<1>3. peer' = Adds(p, name, add)
  BY <1>1 DEF PeerAdds, Adds
<1>4. QED
  BY <1>2, <1>3 DEF OwesName, Adds

LEMMA EncodedValue ==
    ASSUME Fitting, NEW v \in PeerValues, NEW pad \in Nat
    PROVE  \E w : IsString(EncodeValue(v, pad), v.huff, w) /\ Len(w) = v.len /\ v.huff \in BOOLEAN
<1> DEFINE w == [j \in 1..v.len |-> 1]
           u == EncodeValue(v, pad)
<1>1. v.len \in Nat /\ v.huff \in BOOLEAN /\ v.len <= MAX_BYTES
  BY DecoderOK DEF Value, Fitting, LengthsFit
<1>2. w \in Seq(0..255) /\ Len(w) = v.len
  <2> DEFINE n == v.len
  <2>1. n \in Nat
    BY <1>1
  <2> HIDE DEF n
  <2>2. [j \in 1..n |-> 1] \in [1..n -> 0..255]
    OBVIOUS
  <2>3. [j \in 1..n |-> 1] \in Seq(0..255) /\ Len([j \in 1..n |-> 1]) = n
    BY <2>1, <2>2, FunctionIsSeq
  <2>4. QED
    BY <2>3 DEF n
<1> HIDE DEF w
<1> DEFINE q == EncodeInt(IF v.huff THEN 128 ELSE 0, 127, Len(w), pad)
<1>3. u = q \o w
  BY DEF EncodeValue, EncodeString, w
<1>4. Encoded(IF v.huff THEN 128 ELSE 0, 127, Len(w), q)
  BY DEF Encoded
<1> HIDE DEF q, u
<1>5. IsString(u, v.huff, w)
  BY <1>1, <1>2, <1>3, <1>4 DEF IsString
<1>6. QED
  BY <1>1, <1>2, <1>5 DEF u

LEMMA EncodedValueIsSeq ==
    ASSUME Fitting, NEW v \in PeerValues, NEW pad \in Nat
    PROVE  EncodeValue(v, pad) \in Seq(0..255)
  BY EncodedValue, StringIsSeq

LEMMA ValueSent ==
    ASSUME Fitting, NEW v \in PeerValues, NEW pad \in Nat, NEW name,
           OwesMatch(name, AtEnd(v.len, v.huff))'
    PROVE  OwedValue(EncodeValue(v, pad), name)'
<1>1. PICK w : IsString(EncodeValue(v, pad), v.huff, w) /\ Len(w) = v.len /\ v.huff \in BOOLEAN
  BY EncodedValue
<1>2. OwesMatch(name, AtEnd(Len(w), v.huff))'
  BY <1>1
<1>3. QED
  BY <1>1, <1>2 DEF OwedValue

LEMMA SendsIndexedName ==
    ASSUME Fitting, Inv, MaySend, NEW idx \in PeerIndices, NEW lit \in Literals,
           NEW v \in PeerValues, NEW pad \in Nat, SendIndexedName(idx, lit, v, pad)
    PROVE  Inv'
<1>1. idx \in Nat \ {0} /\ idx \in 1..(Word - 1)
  BY WordIsNat, DecoderOK DEF Word, Fitting, LengthsFit
<1>2. PICK f : f = NameForm(lit)
  OBVIOUS
<1>3. PICK q : q = EncodeInt(lit.flags, lit.max, idx, pad)
  OBVIOUS
<1>4. /\ Reads(f, idx) /\ f.first = S_FIELD /\ Encoded(f.base, f.max, idx, q)
  BY <1>1, <1>2, <1>3, NameReads, FormFirsts DEF Encoded
<1>5. q \in Seq(0..255)
  BY <1>1, <1>4, AheadWhenSent
<1>6. PICK u : u = EncodeValue(v, pad)
  OBVIOUS
<1>7. u \in Seq(0..255)
  BY <1>6, EncodedValueIsSeq
<1>8. PICK bytes \in Seq(0..255) : bytes = q \o u
  BY <1>5, <1>7, ConcatProperties
<1>9. PICK name : name = PeerName(idx)
  OBVIOUS
<1>10. Emits(bytes) /\ odd' = odd /\ PeerValid(idx) /\ PeerAdds(name, lit.add)
  BY <1>3, <1>6, <1>8, <1>9 DEF SendIndexedName
<1>11. /\ Left' = bytes /\ ps' = ps /\ ms' = ms /\ dt' = dt /\ block' = block \o bytes
       /\ block \in Seq(0..255)
       /\ ps.s = S_FIELD /\ ps.skip = 0 /\ Synced(peer) /\ Settled /\ "zero" \notin odd
  BY <1>10, Sends
<1>12. name \in HeaderNames /\ EntryIs(idx, name)
  BY <1>1, <1>9, <1>10, <1>11, NamedAlike
<1>13. EntryIs(idx, name)' /\ OwesName(name, lit.add)'
  BY <1>10, <1>11, <1>12, NewDebt, TablesStay
<1>17. Wants(name, AtEnd(v.len, v.huff)')
  <2>1. (block \o q) \o u = block'
    BY <1>5, <1>7, <1>8, <1>11, ConcatAssociative, SMTT(30)
  <2>2. Wants(name, InMessage(Len((block \o q) \o u) - v.len, v.len, v.huff))
    BY <1>3, <1>6, <1>9 DEF SendIndexedName
  <2>3. QED
    BY <2>1, <2>2 DEF AtEnd
<1>18. OwedValue(u, name)'
  <2>1. PICK match : match = AtEnd(v.len, v.huff)'
    OBVIOUS
  <2>2. OwesMatch(name, match)'
    BY <1>10, <1>11, <1>17, <2>1, NewMatch
  <2>3. OwesMatch(name, AtEnd(v.len, v.huff))'
    BY <2>1, <2>2 DEF OwesMatch
  <2>4. QED
    BY <1>6, <2>3, ValueSent
<1>14. Ahead(f, idx, q)'
  BY <1>4, <1>11 DEF Ahead, IntAhead
<1>15. IndexNameLeft(Left)'
  BY <1>1, <1>2, <1>8, <1>11, <1>13, <1>14, <1>18 DEF IndexNameLeft
<1>16. QED
  BY <1>10, <1>11, <1>15, SentRest DEF Rest

LEMMA SendsNewName ==
    ASSUME Fitting, Inv, MaySend, NEW name \in PeerNames, NEW huff \in BOOLEAN,
           NEW lit \in Literals, NEW v \in PeerValues, NEW pad \in Nat,
           SendNewName(name, huff, lit, v, pad)
    PROVE  Inv'
<1>1. name \in HeaderNames
  BY DecoderOK
<1>2. PICK sp : sp = Spelling(name, huff)
  OBVIOUS
<1>3. sp \in Seq(0..255) /\ Len(sp) <= MAX_BYTES
  BY <1>1, <1>2, SpellingOK DEF Spelling, Fitting, LengthsFit
<1>4. PICK w : w = EncodeString(sp, huff, 0)
  OBVIOUS
<1>5. IsString(w, huff, sp)
  <2>1. Encoded(IF huff THEN 128 ELSE 0, 127, Len(sp),
                EncodeInt(IF huff THEN 128 ELSE 0, 127, Len(sp), 0))
    BY DEF Encoded
  <2>2. QED
    BY <1>3, <1>4, <2>1 DEF EncodeString, IsString
<1>6. w \in Seq(0..255)
  BY <1>5, StringIsSeq
<1>7. PICK u : u = EncodeValue(v, pad)
  OBVIOUS
<1>8. u \in Seq(0..255)
  BY <1>7, EncodedValueIsSeq
<1>9. PICK bytes : bytes = (<<lit.flags>> \o w) \o u
  OBVIOUS
<1>16. <<lit.flags>> \in Seq(0..255)
  <2>1. lit.flags \in 0..255
    BY LiteralEdge
  <2>2. QED
    BY <2>1
<1>10. bytes \in Seq(0..255)
  <2>3. <<lit.flags>> \o w \in Seq(0..255)
    BY <1>6, <1>16, ConcatProperties
  <2>4. QED
    BY <1>8, <1>9, <2>3, ConcatProperties
<1>11. Emits(bytes) /\ odd' = odd /\ PeerAdds(name, lit.add)
  BY <1>2, <1>4, <1>7, <1>9 DEF SendNewName, Spelling
<1>12. /\ Left' = bytes /\ ps' = ps /\ ms' = ms /\ dt' = dt /\ block' = block \o bytes
       /\ block \in Seq(0..255)
       /\ ps.s = S_FIELD /\ ps.skip = 0 /\ Synced(peer) /\ Settled /\ "zero" \notin odd
  BY <1>10, <1>11, Sends
<1>13. OwesName(name, lit.add)'
  BY <1>1, <1>11, <1>12, NewDebt
<1>17. Wants(name, AtEnd(v.len, v.huff)')
  <2>1. PICK head : head = <<lit.flags>> \o w
    OBVIOUS
  <2>2. head \in Seq(0..255)
    BY <1>6, <1>16, <2>1, ConcatProperties
  <2>3. (block \o head) \o u = block'
    <3>1. block' = block \o (head \o u)
      BY <1>9, <1>12, <2>1
    <3>2. block \in Seq(0..255)
      BY <1>12
    <3>3. (block \o head) \o u = block \o (head \o u)
      BY <1>8, <2>2, <3>2, ConcatAssociative, SMTT(30)
    <3>4. QED
      BY <3>1, <3>3
  <2>4. Wants(name, InMessage(Len((block \o head) \o u) - v.len, v.len, v.huff))
    <3>1. head = <<lit.flags>> \o EncodeString(IF huff THEN Huff[name] ELSE Plain[name], huff, 0)
      BY <1>2, <1>4, <2>1 DEF Spelling
    <3>2. QED
      BY <1>7, <3>1 DEF SendNewName
  <2>5. QED
    BY <2>3, <2>4 DEF AtEnd
<1>18. OwedValue(u, name)'
  <2>1. PICK match : match = AtEnd(v.len, v.huff)'
    OBVIOUS
  <2>2. OwesMatch(name, match)'
    BY <1>11, <1>12, <1>17, <2>1, NewMatch
  <2>3. OwesMatch(name, AtEnd(v.len, v.huff))'
    BY <2>1, <2>2 DEF OwesMatch
  <2>4. QED
    BY <1>7, <2>3, ValueSent
<1>14. NewNameLeft(Left)'
  BY <1>2, <1>5, <1>9, <1>12, <1>13, <1>18, ZenonT(60) DEF NewNameLeft
<1>15. QED
  BY <1>10, <1>11, <1>12, <1>14, SentRest DEF Rest

-----------------------------------------------------------------------------
(* The invariant.                                                            *)

LEMMA FreshState ==
    /\ DOMAIN _new_http2_parse_state = PsFields /\ _new_http2_parse_state.s = S_FIELD
    /\ _new_http2_parse_state.k = 0 /\ _new_http2_parse_state.m = 0
    /\ _new_http2_parse_state.skip = 0 /\ _new_http2_parse_state.is_key = FALSE
    /\ _new_http2_parse_state.add_to_dt = FALSE
  BY DEF _new_http2_parse_state, PsFields

\* Of a new block nothing is captured, and nothing was to be.
LEMMA FreshMatches ==
    /\ DOMAIN NothingWanted = DOMAIN Parser.captures
    /\ \A name \in DOMAIN NothingWanted : Nothing[Parser.captures[name]] = NothingWanted[name]
<1>1. \A name \in DOMAIN Parser.captures : Parser.captures[name] \in DOMAIN Nothing
  BY CapturesPlaced
<1>2. \A mid \in DOMAIN Nothing : Nothing[mid] = NoMatch
  BY DEF Nothing
<1>3. QED
  BY <1>1, <1>2 DEF NothingWanted

LEMMA FreshInv ==
    ASSUME block = <<>>, i = 0, ret = 0, odd = {}, ps = _new_http2_parse_state,
           ms = Nothing, want = NothingWanted, Synced(peer)
    PROVE  Inv
<1>1. Left = <<>>
  BY DEF Left
<1>6. Settled
  BY FreshMatches DEF Settled, Caught
<1>2. Idle(Left)
  BY <1>1, <1>6, FreshState DEF Idle
<1>3. ps.is_key \in BOOLEAN /\ ps.add_to_dt \in BOOLEAN
  BY FreshState
<1>4. Shape
  BY <1>3, FreshState DEF Shape
<1>5. QED
  BY <1>2, <1>4 DEF Inv, Within, Rest

LEMMA InvInit ==
    ASSUME Init
    PROVE  Inv
<1>1. Synced(peer)
  <2>1. /\ dt = [entries |-> <<>>, deleted |-> 0, max |-> DefaultMaxSize]
        /\ peer = [added |-> <<>>, kept |-> OldEntries, max |-> DefaultMaxSize]
    BY DEF Init
  <2>2. OldEntries \in Nat /\ DefaultMaxSize \in Nat /\ OldEntries <= DefaultMaxSize
    BY DecoderOK
  <2>3. Count = OldEntries
    BY <2>1, <2>2 DEF Count, Added
  <2>4. QED
    BY <2>1, <2>2, <2>3 DEF Synced
<1>2. QED
  BY <1>1, FreshInv DEF Init

\* Between two blocks the tables agree, whatever the first came to.
LEMMA SyncedAtEnd ==
    ASSUME Fitting, Inv, ret # 0 \/ i = Len(block)
    PROVE  Synced(peer)
<1>1. Shape /\ Within
  BY DEF Inv
<1>2. CASE ret = 0 /\ "zero" \notin odd /\ Rest(Left)
  <2>1. PICK t : t = Left
    OBVIOUS
  <2>2. t \in Seq(0..255) /\ Len(t) = 0
    BY <1>1, <1>2, <2>1, LeftIs DEF Shape
  <2>3. t = <<>>
    BY <2>2, EmptySeq
  <2>4. Idle(t)
    BY <1>1, <1>2, <2>1, <2>3, OnlyIdle
  <2>5. QED
    BY <2>4 DEF Idle
<1>3. CASE Zero(Left)
  BY <1>3 DEF Zero
<1>4. QED
  BY <1>1, <1>2, <1>3 DEF Within

LEMMA InvNext ==
    ASSUME Fitting, Inv, [Next]_vars
    PROVE  Inv'
<1>1. CASE _parse_hdr_byte
  BY <1>1, ReadKeeps
<1>2. CASE SendRepresentation
  <2>1. MaySend
    BY <1>2 DEF SendRepresentation
  <2>2. PICK pad \in Pads :
          \/ \E idx \in PeerIndices \union WideIndices : SendIndexed(idx, pad)
          \/ \E idx \in PeerIndices, lit \in Literals, v \in PeerValues :
                SendIndexedName(idx, lit, v, pad)
          \/ \E name \in PeerNames, huff \in BOOLEAN, lit \in Literals, v \in PeerValues :
                SendNewName(name, huff, lit, v, pad)
          \/ \E size \in PeerSizes : SendTableSize(size, pad)
    BY <1>2 DEF SendRepresentation
  <2>3. pad \in Nat
    BY DecoderOK
  <2>4. QED
    BY <2>1, <2>2, <2>3, SendsIndexed, SendsIndexedName, SendsNewName, SendsTableSize
<1>3. CASE SendIndexZero
  BY <1>3, SendsIndexZero
<1>4. CASE NextBlock
  <2>1. /\ block' = <<>> /\ i' = 0 /\ ret' = 0 /\ odd' = {} /\ ps' = _new_http2_parse_state
        /\ ms' = Nothing /\ want' = NothingWanted
        /\ dt' = dt /\ peer' = peer /\ (ret # 0 \/ i = Len(block))
    BY <1>4 DEF NextBlock
  <2>2. Synced(peer)'
    BY <2>1, SyncedAtEnd, DebtsStay
  <2>3. Left' = <<>>
    BY <2>1 DEF Left
  <2>8. Settled'
    BY <2>1, FreshMatches DEF Settled, Caught
  <2>4. Idle(Left)'
    BY <2>1, <2>2, <2>3, <2>8, FreshState DEF Idle
  <2>5. ps'.is_key \in BOOLEAN /\ ps'.add_to_dt \in BOOLEAN
    BY <2>1, FreshState
  <2>6. Shape'
    BY <2>1, <2>5, FreshState DEF Shape
  <2>7. QED
    BY <2>1, <2>4, <2>6 DEF Inv, Within, Rest
<1>5. CASE UNCHANGED vars
  <2>1. /\ block' = block /\ i' = i /\ ps' = ps /\ dt' = dt /\ ret' = ret /\ peer' = peer
        /\ odd' = odd /\ ms' = ms /\ want' = want
    BY <1>5 DEF vars
  <2>2. Shape' /\ Left' = Left
    BY <2>1 DEF Inv, Shape, Left
  <2>3. ASSUME NEW t, Rest(t) PROVE Rest(t)'
    <3>1. Idle(t) => Idle(t)'
      BY <2>1, DebtsStay, MatchesStay DEF Idle
    <3>2. IndexedLeft(t) => IndexedLeft(t)'
      BY <2>1, DebtsStay, IndexStays DEF IndexedLeft, Ahead
    <3>3. SizeLeft(t) => SizeLeft(t)'
      BY <2>1, DebtsStay, MatchesStay DEF SizeLeft, Ahead
    <3>4. IndexNameLeft(t) => IndexNameLeft(t)'
      BY <2>1, DebtsStay, TablesStay, MatchesStay DEF IndexNameLeft, Ahead
    <3>5. NewNameLeft(t) => NewNameLeft(t)'
      BY <2>1, DebtsStay, MatchesStay DEF NewNameLeft
    <3>6. NameLenLeft(t) => NameLenLeft(t)'
      BY <2>1, MatchesStay, ZenonT(60) DEF NameLenLeft, Ahead, OwesName, Synced, Count, Added
    <3>7. NameLeft(t) => NameLeft(t)'
      <4>1. \A name, w : Walking(name, w) => Walking(name, w)'
        BY <2>1 DEF Walking
      <4>2. \A name : OwesName(name, ps.add_to_dt) => OwesName(name, ps.add_to_dt)'
        BY <2>1 DEF OwesName, Synced, Count, Added
      <4>3. QED
        BY <2>1, <4>1, <4>2, KeyStays, MatchesStay DEF NameLeft
    <3>8. ValueLenLeft(t) => ValueLenLeft(t)'
      <4>1. \A name : OwesName(name, ps.add_to_dt) => OwesName(name, ps.add_to_dt)'
        BY <2>1 DEF OwesName, Synced, Count, Added
      <4>2. \A name, n, huff : OwesMatch(name, AtEnd(n, huff)) => OwesMatch(name, AtEnd(n, huff))'
        BY <2>1 DEF OwesMatch, Caught, AtEnd
      <4>3. \A f, v, q : Ahead(f, v, q) => Ahead(f, v, q)'
        BY <2>1 DEF Ahead
      <4>4. QED
        BY <2>1, <4>1, <4>2, <4>3, KeyStays DEF ValueLenLeft
    <3>9. ValueLeft(t) => ValueLeft(t)'
      BY <2>1, DebtsStay, MatchesStay DEF ValueLeft
    <3>10. QED
      BY <2>3, <3>1, <3>2, <3>3, <3>4, <3>5, <3>6, <3>7, <3>8, <3>9 DEF Rest
  <2>4. QED
    BY <2>1, <2>2, <2>3, DebtsStay DEF Inv, Within, Zero
<1>6. QED
  BY <1>1, <1>2, <1>3, <1>4, <1>5 DEF Next

-----------------------------------------------------------------------------
(* The properties of HpackDecoder.                                           *)

LEMMA ReadInStep ==
    ASSUME Fitting, Inv
    PROVE  InStep
<1>1. Shape /\ Within
  BY DEF Inv
<1>2. PICK t : t = Left
  OBVIOUS
<1>3. ASSUME AllRead PROVE ps.s = S_FIELD /\ ps.skip = 0
  <2>1. t \in Seq(0..255) /\ Len(t) = 0
    BY <1>1, <1>2, <1>3, LeftIs DEF Shape, AllRead
  <2>2. t = <<>>
    BY <2>1, EmptySeq
  <2>3. Rest(t)
    BY <1>1, <1>2, <1>3, <2>2 DEF Within, AllRead, EBADMSG, Zero
  <2>4. QED
    BY <1>1, <2>2, <2>3, OnlyIdle DEF Idle
<1>4. ASSUME Reading, ~InString PROVE states[ps.s][Byte].action # NoAction
  <2>1. /\ t # <<>> /\ Byte = t[1] /\ Byte \in 0..255 /\ ret = 0
    BY <1>1, <1>2, <1>4, LeftStep DEF Reading
  <2>2. ps.skip = 0
    BY <1>1, <1>4 DEF InString, Shape
  <2>7. NoEdge.action = NoAction
    BY DEF NoEdge, Edge
  <2>3. CASE Rest(t)
    <3>1. Awaits(t)
      BY <1>1, <2>1, <2>3, RestAwaits DEF Idle
    <3>2. ps.s \in RowStates /\ RowEdge(ps.s, Byte).action # NoAction
      BY <2>1, <2>2, <3>1 DEF Awaits
    <3>3. QED
      BY <2>1, <2>7, <3>2, NextIsRow
  <2>4. CASE Zero(t)
    <3>1. ps.s = S_FIELD /\ Byte = 128
      BY <2>1, <2>4 DEF Zero
    <3>2. RowEdge(ps.s, Byte).action # NoAction /\ ps.s \in RowStates
      BY <3>1, ZeroEdge, EdgeActs, StatesDiffer
    <3>3. QED
      BY <2>1, <2>7, <3>2, NextIsRow
  <2>5. QED
    BY <1>1, <1>2, <2>1, <2>3, <2>4 DEF Within, EBADMSG
<1>5. QED
  BY <1>3, <1>4 DEF InStep

LEMMA ZeroIsRefused ==
    ASSUME Fitting, Inv
    PROVE  IndexZeroRefused
<1>1. Shape /\ Within
  BY DEF Inv
<1>2. CASE ret # 0
  BY <1>1, <1>2 DEF Within, IndexZeroRefused
<1>3. CASE ret = 0 /\ i = Len(block)
  <2>1. PICK t : t = Left
    OBVIOUS
  <2>2. t \in Seq(0..255) /\ Len(t) = 0
    BY <1>1, <1>3, <2>1, LeftIs DEF Shape
  <2>3. t = <<>>
    BY <2>2, EmptySeq
  <2>4. ~Zero(t)
    BY <2>3 DEF Zero
  <2>5. QED
    BY <1>1, <1>3, <2>1, <2>4 DEF Within, IndexZeroRefused, EBADMSG
<1>4. QED
  BY <1>2, <1>3 DEF IndexZeroRefused

LEMMA TablesAgree ==
    ASSUME Fitting, Inv
    PROVE  TableAgrees
<1> SUFFICES ASSUME AllRead
             PROVE  /\ Len(dt.entries) = Len(peer.added) /\ Count = peer.kept
                    /\ \A j \in DOMAIN peer.added :
                          dt.entries[j].key = IF dt.entries[j].huff THEN Huff[peer.added[j]]
                                                                    ELSE Plain[peer.added[j]]
  BY DEF TableAgrees
<1>1. Synced(peer)
  BY SyncedAtEnd DEF AllRead
<1>2. ASSUME NEW j \in DOMAIN peer.added PROVE Spelled(dt.entries[j], peer.added[j])
  <2>1. peer.added \in Seq(HeaderNames)
        /\ \A n \in 1..Len(peer.added) : Spelled(dt.entries[n], peer.added[n])
    BY <1>1 DEF Synced
  <2>2. DOMAIN peer.added = 1..Len(peer.added)
    BY <2>1
  <2>3. QED
    BY <2>1, <2>2
<1>3. ASSUME NEW j \in DOMAIN peer.added
      PROVE  dt.entries[j].key = IF dt.entries[j].huff THEN Huff[peer.added[j]]
                                                       ELSE Plain[peer.added[j]]
  <2>1. PICK huff \in BOOLEAN :
            dt.entries[j] = Entry(Spelling(peer.added[j], huff), huff)
    BY <1>2 DEF Spelled
  <2>2. QED
    BY <2>1 DEF Entry, Spelling
<1>4. QED
  BY <1>1, <1>3 DEF Synced

LEMMA AllCaptured ==
    ASSUME Fitting, Inv
    PROVE  CapturesAgree
<1> SUFFICES ASSUME AllRead, "wide" \notin odd
             PROVE  \A name \in DOMAIN want : ms[Parser.captures[name]] = want[name]
  BY DEF CapturesAgree
<1>1. Shape /\ Within
  BY DEF Inv
<1>2. PICK t : t = Left
  OBVIOUS
<1>3. t \in Seq(0..255) /\ Len(t) = 0
  BY <1>1, <1>2, LeftIs DEF Shape, AllRead
<1>4. t = <<>>
  BY <1>3, EmptySeq
<1>5. Rest(t)
  BY <1>1, <1>2, <1>4 DEF Within, AllRead, EBADMSG, Zero
<1>6. Idle(t)
  BY <1>1, <1>4, <1>5, OnlyIdle
<1>7. QED
  BY <1>6 DEF Idle, Settled, Caught

LEMMA Invariant == ASSUME Fitting PROVE Spec => []Inv
<1>1. Init => Inv
  BY InvInit
<1>2. Inv /\ [Next]_vars => Inv'
  BY InvNext
<1>3. QED
  BY <1>1, <1>2, PTL DEF Spec

\* Whatever names are captured, and however the peer encodes what it sends, the
\* reader takes the first byte of a representation for that, and meets no byte
\* it has no edge for.
THEOREM ReaderInStep == ASSUME Fitting PROVE Spec => []InStep
<1>1. Inv => InStep
  BY ReadInStep
<1>2. QED
  BY <1>1, Invariant, PTL

\* A block is refused for an index 0, and for nothing else the peer sends.
THEOREM OnlyZeroRefused == ASSUME Fitting PROVE Spec => []IndexZeroRefused
<1>1. Inv => IndexZeroRefused
  BY ZeroIsRefused
<1>2. QED
  BY <1>1, Invariant, PTL

\* The mirror holds the names the peer added, in order, and as many are left.
THEOREM MirrorAgrees == ASSUME Fitting PROVE Spec => []TableAgrees
<1>1. Inv => TableAgrees
  BY TablesAgree
<1>2. QED
  BY <1>1, Invariant, PTL

\* Whichever names are captured, however the peer spells them, encodes its integers
\* and uses its tables: what is read of a block is captured as the last value the
\* block gives each name, where it lies and as long and coded as it was sent.
THEOREM LastValueCaptured == ASSUME Fitting PROVE Spec => []CapturesAgree
<1>1. Inv => CapturesAgree
  BY AllCaptured
<1>2. QED
  BY <1>1, Invariant, PTL

-----------------------------------------------------------------------------
(* The reader stays within its types.                                        *)

\* A place among the matches, or none.
Places == {NoCapture} \cup DOMAIN Nothing

\* An edge of a row leads to a row or a root, and comes with no more than a prefix holds.
RowShape(e) ==
    \E to \in 2..15, x \in 0..127 : \E kind, F :
        kind # "Capture" /\ e = Edge(to, Action(kind, x, F))

LEMMA PrefixShape ==
    ASSUME NEW base, NEW max, NEW to, NEW cont, NEW kind, NEW F, NEW c,
           base \in Nat /\ max \in 0..127 /\ to \in 2..15 /\ cont \in 2..15,
           kind # "Capture" /\ c \in base..(base + max)
    PROVE  RowShape(IntEdge(base, max, to, cont, kind, F, c))
<1>1. CASE c = base + max
  <2>1. IntEdge(base, max, to, cont, kind, F, c) = Edge(cont, Action("IntStart", max, {}))
    BY <1>1 DEF IntEdge
  <2>2. "IntStart" # "Capture"
    OBVIOUS
  <2>3. QED
    BY <2>1, <2>2 DEF RowShape
<1>2. CASE c # base + max
  <2>1. IntEdge(base, max, to, cont, kind, F, c) = Edge(to, Action(kind, c - base, F))
    BY <1>2 DEF IntEdge
  <2>2. c - base \in 0..127
    OBVIOUS
  <2>3. QED
    BY <2>1, <2>2 DEF RowShape
<1>3. QED
  BY <1>1, <1>2

LEMMA ContShape ==
    ASSUME NEW from \in 2..15, NEW kind, kind # "Capture", NEW to \in 2..15, NEW F, NEW c
    PROVE  RowShape(ContEdge(from, kind, to, F, c))
<1>1. 0 \in 0..127 /\ "IntCont" # "Capture"
  OBVIOUS
<1>2. QED
  BY <1>1 DEF RowShape, ContEdge

LEMMA NumberedStates ==
    /\ S_DEAD = 2 /\ S_FIELD = 3 /\ S_KEY_LEN = 4 /\ S_VAL_LEN = 5 /\ S_NAME = 6
    /\ S_IDX7_CONT = 7 /\ S_IDX6_CONT = 8 /\ S_IDX4_CONT = 9 /\ S_STG_CONT = 10
    /\ S_KEY_LEN_CONT = 11 /\ S_KEY_LEN_CONT_HUFF = 12
    /\ S_VAL_LEN_CONT = 13 /\ S_VAL_LEN_CONT_HUFF = 14 /\ S_NAME_PLAIN = 15 /\ S_RESERVED = 16
  BY DEF S_DEAD, S_FIELD, S_KEY_LEN, S_VAL_LEN, S_NAME, S_IDX7_CONT, S_IDX6_CONT, S_IDX4_CONT,
         S_STG_CONT, S_KEY_LEN_CONT, S_KEY_LEN_CONT_HUFF, S_VAL_LEN_CONT, S_VAL_LEN_CONT_HUFF,
         S_NAME_PLAIN, S_RESERVED

LEMMA FieldShape ==
    ASSUME NEW c \in 0..255
    PROVE  RowShape(FieldEdge(c))
<1>10. S_FIELD \in 2..15 /\ S_VAL_LEN \in 2..15 /\ S_IDX7_CONT \in 2..15
       /\ S_IDX6_CONT \in 2..15 /\ S_IDX4_CONT \in 2..15 /\ S_STG_CONT \in 2..15
  BY NumberedStates
<1>1. CASE c = 128
  <2>1. FieldEdge(c) = Edge(S_DEAD, Action("Err", 0, {}))
    BY <1>1 DEF FieldEdge
  <2>2. S_DEAD \in 2..15 /\ 0 \in 0..127 /\ "Err" # "Capture"
    BY NumberedStates
  <2>3. QED
    BY <2>1, <2>2 DEF RowShape
<1>2. CASE c > 128
  <2>1. FieldEdge(c) = IntEdge(128, 127, S_FIELD, S_IDX7_CONT, "Indexed", {}, c)
    BY <1>2 DEF FieldEdge
  <2>2. 128 \in Nat /\ 127 \in 0..127 /\ c \in 128..(128 + 127) /\ "Indexed" # "Capture"
    BY <1>2
  <2>3. QED
    BY <1>10, <2>1, <2>2, PrefixShape
<1>3. CASE c = 64
  <2>1. FieldEdge(c) = Edge(S_KEY_LEN, Action("LitName", 0, {F_ADD_DT}))
    BY <1>3 DEF FieldEdge
  <2>2. S_KEY_LEN \in 2..15 /\ 0 \in 0..127 /\ "LitName" # "Capture"
    BY NumberedStates
  <2>3. QED
    BY <2>1, <2>2 DEF RowShape
<1>4. CASE c > 64 /\ c < 128
  <2>1. FieldEdge(c) = IntEdge(64, 63, S_VAL_LEN, S_IDX6_CONT, "IdxName", {F_ADD_DT}, c)
    BY <1>4 DEF FieldEdge
  <2>2. 64 \in Nat /\ 63 \in 0..127 /\ c \in 64..(64 + 63) /\ "IdxName" # "Capture"
    BY <1>4
  <2>3. QED
    BY <1>10, <2>1, <2>2, PrefixShape
<1>5. CASE c >= 32 /\ c < 64
  <2>1. FieldEdge(c) = IntEdge(32, 31, S_FIELD, S_STG_CONT, "TableSize", {}, c)
    BY <1>5 DEF FieldEdge
  <2>2. 32 \in Nat /\ 31 \in 0..127 /\ c \in 32..(32 + 31) /\ "TableSize" # "Capture"
    BY <1>5
  <2>3. QED
    BY <1>10, <2>1, <2>2, PrefixShape
<1>6. CASE c = 16 \/ c = 0
  <2>1. FieldEdge(c) = Edge(S_KEY_LEN, Action("LitName", 0, {}))
    BY <1>6 DEF FieldEdge
  <2>2. S_KEY_LEN \in 2..15 /\ 0 \in 0..127 /\ "LitName" # "Capture"
    BY NumberedStates
  <2>3. QED
    BY <2>1, <2>2 DEF RowShape
<1>7. CASE c > 16 /\ c < 32
  <2>1. FieldEdge(c) = IntEdge(16, 15, S_VAL_LEN, S_IDX4_CONT, "IdxName", {}, c)
    BY <1>7 DEF FieldEdge
  <2>2. 16 \in Nat /\ 15 \in 0..127 /\ c \in 16..(16 + 15) /\ "IdxName" # "Capture"
    BY <1>7
  <2>3. QED
    BY <1>10, <2>1, <2>2, PrefixShape
<1>8. CASE c > 0 /\ c < 16
  <2>1. FieldEdge(c) = IntEdge(0, 15, S_VAL_LEN, S_IDX4_CONT, "IdxName", {}, c)
    BY <1>8 DEF FieldEdge
  <2>2. 0 \in Nat /\ 15 \in 0..127 /\ c \in 0..(0 + 15) /\ "IdxName" # "Capture"
    BY <1>8
  <2>3. QED
    BY <1>10, <2>1, <2>2, PrefixShape
<1>9. QED
  BY <1>1, <1>2, <1>3, <1>4, <1>5, <1>6, <1>7, <1>8

LEMMA LengthShape ==
    ASSUME NEW st, NEW c \in 0..255
    PROVE  RowShape(LengthEdge(st, c))
<1>1. S_NAME \in 2..15 /\ S_NAME_PLAIN \in 2..15 /\ S_FIELD \in 2..15
      /\ S_KEY_LEN_CONT \in 2..15 /\ S_KEY_LEN_CONT_HUFF \in 2..15
      /\ S_VAL_LEN_CONT \in 2..15 /\ S_VAL_LEN_CONT_HUFF \in 2..15
  BY NumberedStates
<1>2. "KeyLen" # "Capture" /\ "ValLen" # "Capture"
  OBVIOUS
<1>3. CASE c < 128
  <2>1. 0 \in Nat /\ 127 \in 0..127 /\ c \in 0..(0 + 127)
    BY <1>3
  <2>2. RowShape(IntEdge(0, 127, S_NAME_PLAIN, S_KEY_LEN_CONT, "KeyLen", {}, c))
    BY <1>1, <1>2, <2>1, PrefixShape
  <2>3. RowShape(IntEdge(0, 127, S_FIELD, S_VAL_LEN_CONT, "ValLen", {}, c))
    BY <1>1, <1>2, <2>1, PrefixShape
  <2>4. QED
    BY <1>3, <2>2, <2>3 DEF LengthEdge
<1>4. CASE ~(c < 128)
  <2>1. 128 \in Nat /\ 127 \in 0..127 /\ c \in 128..(128 + 127)
    BY <1>4
  <2>2. RowShape(IntEdge(128, 127, S_NAME, S_KEY_LEN_CONT_HUFF, "KeyLen", {F_HUFF}, c))
    BY <1>1, <1>2, <2>1, PrefixShape
  <2>3. RowShape(IntEdge(128, 127, S_FIELD, S_VAL_LEN_CONT_HUFF, "ValLen", {F_HUFF}, c))
    BY <1>1, <1>2, <2>1, PrefixShape
  <2>4. QED
    BY <1>4, <2>2, <2>3 DEF LengthEdge
<1>5. QED
  BY <1>3, <1>4

LEMMA RowsShaped ==
    ASSUME NEW st \in RowStates, NEW c \in 0..255
    PROVE  RowShape(RowEdge(st, c))
<1>1. CASE st = S_FIELD
  BY <1>1, FieldShape DEF RowEdge
<1>2. CASE st \in LengthStates
  BY <1>2, LengthShape, StatesDiffer DEF RowEdge, LengthStates
<1>3. CASE st \in ContStates
  <2>1. /\ "Indexed" # "Capture" /\ "IdxName" # "Capture" /\ "TableSize" # "Capture"
        /\ "KeyLen" # "Capture" /\ "ValLen" # "Capture"
    OBVIOUS
  <2>2. /\ ContStates \subseteq 2..15 /\ S_NAME \in 2..15 /\ S_NAME_PLAIN \in 2..15
        /\ S_FIELD \in 2..15 /\ S_VAL_LEN \in 2..15
    BY NumberedStates DEF ContStates
  <2>3. PICK to \in 2..15 : \E kind, F :
           kind # "Capture" /\ RowEdge(st, c) = ContEdge(st, kind, to, F, c)
    BY <1>3, <2>1, <2>2, ContIs DEF ContStates
  <2>4. QED
    BY <1>3, <2>2, <2>3, ContShape
<1>4. QED
  BY <1>1, <1>2, <1>3 DEF RowStates, LengthStates, ContStates

\* An edge leads to a state there is and captures into a match there is; the value of
\* any other action is one a prefix holds.
EdgeFits(e) ==
    /\ e.to \in 0..(Parser.dfa.num_states - 1) /\ CaptureOf(e) \in Places
    /\ e.action # NoAction /\ e.action[1] # "Capture" => e.action[2] \in 0..127

LEMMA StatesReserved == Parser.dfa.num_states \in Nat /\ Parser.dfa.num_states >= S_RESERVED
  BY ParserLoadable DEF Loadable, Kept

LEMMA ActionParts ==
    ASSUME NEW kind, NEW x, NEW F
    PROVE  /\ Action(kind, x, F)[1] = kind /\ Action(kind, x, F)[2] = x
           /\ Action(kind, x, F) # NoAction
  BY DEF Action, NoAction

LEMMA RowFits ==
    ASSUME NEW e, RowShape(e)
    PROVE  EdgeFits(e) /\ e # NoEdge
<1> DEFINE n == Parser.dfa.num_states
<1>1. PICK to \in 2..15, x \in 0..127 : \E kind, F : kind # "Capture" /\ e = Edge(to, Action(kind, x, F))
  BY DEF RowShape
<1>2. PICK kind, F : kind # "Capture" /\ e = Edge(to, Action(kind, x, F))
  BY <1>1
<1> DEFINE a == Action(kind, x, F)
<1>3. a[1] = kind /\ a[2] = x /\ a # NoAction
  BY ActionParts
<1>4. e.to = to /\ e.action = a
  BY <1>2 DEF Edge
<1>10. kind # "Capture"
  BY <1>2
<1> HIDE DEF a
<1>5. n \in Nat /\ n >= 16
  BY StatesReserved, NumberedStates
<1> HIDE DEF n
<1>6. to \in 0..(n - 1)
  BY <1>5
<1>7. CaptureOf(e) = NoCapture
  BY <1>3, <1>4, <1>10 DEF CaptureOf
<1>8. NoEdge.action = NoAction
  BY DEF NoEdge, Edge
<1>9. QED
  BY <1>3, <1>4, <1>6, <1>7, <1>8 DEF EdgeFits, Places, n

LEMMA DeadFits == EdgeFits(Edge(S_DEAD, NoAction))
<1> DEFINE n == Parser.dfa.num_states
<1>1. n \in Nat /\ n >= 16 /\ S_DEAD = 2
  BY StatesReserved, NumberedStates
<1> HIDE DEF n
<1>2. S_DEAD \in 0..(n - 1)
  BY <1>1
<1>3. QED
  BY <1>2, CaptureIs DEF EdgeFits, Places, Edge, n

\* Whatever byte is read in whatever state.
LEMMA NextFits ==
    ASSUME NEW s \in 0..(Parser.dfa.num_states - 1), NEW c \in Bytes
    PROVE  EdgeFits(_next(states, s, c))
<1> DEFINE E == Parser.dfa.edges
           n == Parser.dfa.num_states
<1>1. CASE s \in RowStates
  <2>1. c \in 0..255
    BY DEF Bytes
  <2>2. EdgeFits(RowEdge(s, c)) /\ RowEdge(s, c) # NoEdge
    BY <1>1, <2>1, RowsShaped, RowFits
  <2>3. QED
    BY <1>1, <2>1, <2>2, NextIsRow
<1>3. CASE <<s, c>> \notin DOMAIN E
  BY <1>3, NoEdgeTaken, DeadFits
<1>4. CASE s \notin RowStates /\ <<s, c>> \in DOMAIN E
  <2>1. PICK L, K : TrieOf(Parser, L, K)
    BY ParserGood DEF Good
  <2>2. Labelled(n, L) /\ GoesOn(E, L, K) /\ Names(Parser, K)
    BY <2>1 DEF TrieOf, IsTrie
  <2>3. s \in DOMAIN L
    BY <1>4, <2>2 DEF GoesOn
  <2>4. PICK t \in DOMAIN L \ Roots : E[<<s, c>>] = Edge(t, ActionAt(K, L[t]))
    BY <1>4, <2>2, <2>3 DEF GoesOn
  <2>5. t \in FreeStates /\ t < n /\ n \in Nat
    BY <2>2, <2>4 DEF Labelled
  <2>6. t \in Nat /\ t # 0
    BY <2>5, NumberedStates DEF FreeStates
  <2> DEFINE a == ActionAt(K, L[t])
  <2>7. CaptureOf(Edge(t, a)) \in Places /\ (a # NoAction => a[1] = "Capture")
    <3>1. CASE L[t] \in DOMAIN K
      <4>1. PICK name \in DOMAIN Parser.captures, huff \in BOOLEAN : L[t] = LabelOf(name, huff)
        BY <2>2, <3>1 DEF Names
      <4>2. K[L[t]] = Parser.captures[name]
        BY <2>2, <4>1 DEF Names
      <4>3. Parser.captures[name] \in DOMAIN Nothing
        BY CapturesPlaced
      <4>4. a = capture(K[L[t]])
        BY <3>1 DEF ActionAt
      <4>5. CaptureOf(Edge(t, a)) = K[L[t]]
        BY <4>4, CaptureIs
      <4>6. a[1] = "Capture"
        BY <4>4, ActionParts DEF capture
      <4>7. QED
        BY <4>2, <4>3, <4>5, <4>6 DEF Places
    <3>2. CASE L[t] \notin DOMAIN K
      <4>1. a = NoAction
        BY <3>2 DEF ActionAt
      <4>2. QED
        BY <4>1, CaptureIs DEF Places
    <3>3. QED
      BY <3>1, <3>2
  <2> HIDE DEF a, n, E
  <2>8. t \in 0..(n - 1)
    BY <2>5, <2>6
  <2>9. Edge(t, a).to = t /\ Edge(t, a).action = a
    BY DEF Edge
  <2>10. EdgeFits(Edge(t, a))
    BY <2>7, <2>8, <2>9 DEF EdgeFits, n
  <2>11. _next(states, s, c) = Edge(t, a)
    BY <1>4, <2>4, <2>6, EdgeTaken DEF E, a
  <2>12. QED
    BY <2>10, <2>11
<1>5. QED
  BY <1>1, <1>3, <1>4

\* The mirror agrees with the table the peer had before what is still owed for it.
Tabled == \E p : Synced(p)

LEMMA AlwaysTabled ==
    ASSUME Inv
    PROVE  Tabled
<1> PICK t : t = Left
  OBVIOUS
<1>1. Rest(t) => Tabled
  <2>1. (Idle(t) \/ IndexedLeft(t) \/ ValueLeft(t)) => Tabled
    BY DEF Idle, IndexedLeft, ValueLeft, Tabled
  <2>2. SizeLeft(t) => Tabled
    BY DEF SizeLeft, OwesSize, Tabled
  <2>3. \A name, add : OwesName(name, add) => Tabled
    BY DEF OwesName, Tabled
  <2>4. (IndexNameLeft(t) \/ NewNameLeft(t)) => Tabled
    BY <2>3 DEF IndexNameLeft, NewNameLeft
  <2>5. (NameLenLeft(t) \/ NameLeft(t) \/ ValueLenLeft(t)) => Tabled
    BY <2>3 DEF NameLenLeft, NameLeft, ValueLenLeft
  <2>6. QED
    BY <2>1, <2>2, <2>4, <2>5 DEF Rest
<1>2. Synced(peer) => Tabled
  BY DEF Tabled
<1>3. QED
  BY <1>1, <1>2 DEF Inv, Within, Zero

\* An index that is valid names an entry of some name.
LEMMA ValidNamed ==
    ASSUME Fitting, Tabled, NEW idx \in Nat, _is_valid_hpack_index(idx)
    PROVE  \E name \in HeaderNames : EntryIs(idx, name)
<1> DEFINE size == STATIC_TABLE_SIZE
           a == Added
           slot == Slot(idx)
<1>1. size \in Nat /\ Base = size + 1 /\ AppendixA \in Seq(HeaderNames) /\ size = Len(AppendixA)
      /\ OldEntries \in Nat /\ OldName \in HeaderNames
  BY DecoderOK DEF STATIC_TABLE_SIZE
<1>2. PICK p : Synced(p)
  BY DEF Tabled
<1>3. /\ dt.deleted \in Nat /\ p.kept \in Nat /\ a - dt.deleted = p.kept
      /\ dt.entries \in Seq([key : Seq(0..255), huff : BOOLEAN])
      /\ p.added \in Seq(HeaderNames) /\ Len(dt.entries) = Len(p.added)
      /\ \A j \in 1..Len(p.added) : Spelled(dt.entries[j], p.added[j])
  BY <1>2 DEF Synced, Count
<1>4. a = OldEntries + Len(p.added) /\ Len(p.added) \in Nat
  BY <1>3 DEF Added
<1>5. idx > 0 /\ idx <= size + p.kept
  BY <1>3 DEF _is_valid_hpack_index, Count
<1>6. SUFFICES \E name \in HeaderNames : Spelled(AtSlot(slot), name)
  BY DEF EntryIs
<1>7. CASE idx <= size
  <2>1. idx \in 1..size
    BY <1>1, <1>5, <1>7
  <2>2. AppendixA[idx] \in HeaderNames
    BY <1>1, <2>1, ElementOfSeq
  <2>3. slot = idx /\ idx < Base
    BY <1>1, <1>7 DEF Slot
  <2>4. AtSlot(slot) = Entry(Huff[AppendixA[idx]], TRUE)
    BY <2>1, <2>3 DEF AtSlot, Fitting, StaticTableAgrees
  <2>5. QED
    BY <2>2, <2>4 DEF Spelled, Spelling
<1>8. CASE ~(idx <= size)
  <2>1. slot = (size + a - idx) + Base
    BY <1>8 DEF Slot
  <2> DEFINE j == slot - Base - OldEntries + 1
             m == Len(p.added)
             kept == p.kept
  <2>2. /\ size \in Nat /\ m \in Nat /\ kept \in Nat /\ dt.deleted \in Nat /\ OldEntries \in Nat
        /\ a = OldEntries + m /\ a - dt.deleted = kept /\ idx > size /\ idx <= size + kept
        /\ Base = size + 1
    BY <1>1, <1>3, <1>4, <1>5, <1>8
  <2> HIDE DEF size, a, m, kept, slot
  <2>3. ~(slot < Base) /\ (~(slot - Base < OldEntries) => j \in 1..m)
    BY <2>1, <2>2
  <2>4. AtSlot(slot) = IF slot - Base < OldEntries THEN Entry(Huff[OldName], TRUE)
                       ELSE dt.entries[j]
    BY <2>3 DEF AtSlot
  <2>5. CASE slot - Base < OldEntries
    BY <1>1, <2>4, <2>5 DEF Spelled, Spelling
  <2>6. CASE ~(slot - Base < OldEntries)
    <3>1. j \in 1..Len(p.added)
      BY <2>3, <2>6 DEF m
    <3> HIDE DEF j
    <3>2. p.added[j] \in HeaderNames /\ Spelled(dt.entries[j], p.added[j])
      BY <1>3, <3>1, ElementOfSeq
    <3>3. QED
      BY <2>4, <2>6, <3>2
  <2>7. QED
    BY <2>5, <2>6
<1>9. QED
  BY <1>7, <1>8

\* An index is captured at a match there is.
LEMMA NamedFits ==
    ASSUME Fitting, Tabled, NEW idx \in Nat
    PROVE  Named(idx) \in Places
<1>1. CASE ~_is_valid_hpack_index(idx)
  BY <1>1 DEF Named, Places
<1>2. CASE _is_valid_hpack_index(idx)
  <2>1. PICK name \in HeaderNames : EntryIs(idx, name)
    BY <1>2, ValidNamed
  <2>2. Named(idx) = CapOf(name)
    BY <2>1, NamedIs
  <2>3. CapOf(name) \in Places
    BY CapturesPlaced DEF CapOf, Places
  <2>4. QED
    BY <2>2, <2>3
<1>3. QED
  BY <1>1, <1>2

LEMMA AccumulatedFits ==
    ASSUME NEW k \in Nat, k < Word, NEW m \in Nat, NEW c \in 0..255
    PROVE  Accumulated(k, m, c) \in Nat /\ Accumulated(k, m, c) < Word
<1> DEFINE b == k + (c % 128) * Pow2[m]
<1>1. b \in Nat
  <2> DEFINE P == Pow2[m]
             x == c % 128
  <2>1. P \in Nat /\ x \in Nat
    BY PowFacts
  <2> HIDE DEF P, x
  <2>2. x * P \in Nat
    BY <2>1
  <2>3. QED
    BY <2>2 DEF P, x
<1>2. Word \in Nat /\ Word > 0
  BY WordIsNat
<1>3. Accumulated(k, m, c) = IF m <= MaxShift THEN b % Word ELSE k
  BY DEF Accumulated
<1> HIDE DEF b, Word
<1>4. b % Word \in 0..(Word - 1)
  BY <1>1, <1>2
<1>5. QED
  BY <1>2, <1>3, <1>4

\* The reader's registers are within their ranges.
Bounded ==
    /\ ps.s \in 0..(Parser.dfa.num_states - 1) /\ ps.k < Word /\ ps.skip <= MAX_BYTES
    /\ ps.cid \in Places /\ DOMAIN ms = DOMAIN Nothing

LEMMA FreshBounded ==
    LET fresh == _new_http2_parse_state
    IN  /\ fresh.s \in 0..(Parser.dfa.num_states - 1) /\ fresh.k < Word
        /\ fresh.skip <= MAX_BYTES /\ fresh.cid \in Places
<1> DEFINE fresh == _new_http2_parse_state
<1>1. fresh.s = 3 /\ fresh.k = 0 /\ fresh.skip = 0
  BY FreshState, NumberedStates
<1>2. fresh.cid = NoCapture
  BY DEF _new_http2_parse_state
<1>3. Word > 0 /\ MAX_BYTES \in Nat
  BY WordIsNat, DecoderOK
<1> DEFINE n == Parser.dfa.num_states
<1>4. n \in Nat /\ n >= 16
  BY StatesReserved, NumberedStates
<1> HIDE DEF n
<1>5. 3 \in 0..(n - 1)
  BY <1>4
<1>6. QED
  BY <1>1, <1>2, <1>3, <1>5 DEF Places, n

\* A byte of a string.
LEMMA StringBounded ==
    ASSUME Shape, Bounded, NEW e, EdgeFits(e), ReadString(e)
    PROVE  Bounded'
<1> DEFINE n == Parser.dfa.num_states
<1>1. /\ DOMAIN ps = PsFields /\ ps.skip \in Nat /\ ps.skip > 0 /\ ms' = ms
      /\ ps' = [ps EXCEPT !.skip = ps.skip - 1,
                          !.s = IF ~ps.is_key THEN ps.s
                                ELSE IF ps.skip = 1 THEN S_VAL_LEN ELSE e.to,
                          !.cid = IF ps.is_key THEN CaptureOf(e) ELSE ps.cid]
  BY DEF Shape, ReadString, InString
<1>2. /\ ps'.skip = ps.skip - 1 /\ ps'.k = ps.k
      /\ ps'.s \in {ps.s, S_VAL_LEN, e.to} /\ ps'.cid \in {CaptureOf(e), ps.cid}
  BY <1>1 DEF PsFields
<1>3. n \in Nat /\ n >= 16 /\ S_VAL_LEN = 5
  BY StatesReserved, NumberedStates
<1> HIDE DEF n
<1>4. S_VAL_LEN \in 0..(n - 1)
  BY <1>3
<1>5. ps'.skip <= MAX_BYTES
  BY <1>1, <1>2, DecoderOK DEF Bounded
<1>6. QED
  BY <1>1, <1>2, <1>4, <1>5 DEF Bounded, EdgeFits, n

\* A byte of an integer that carries on.
LEMMA IntBounded ==
    ASSUME MAX_BYTES >= 127, MAX_BYTES < Word, Shape, Bounded, Byte \in 0..255, NEW e, EdgeFits(e),
           \/ e.action # NoAction /\ e.action[1] = "IntStart" /\ StartInt(e)
           \/ ContinueInt(e)
    PROVE  Bounded'
<1>1. /\ DOMAIN ps = PsFields /\ ps.k \in Nat /\ ps.k < Word /\ ps.m \in Nat
  BY DEF Shape, Bounded
<1>2. CASE e.action # NoAction /\ e.action[1] = "IntStart" /\ StartInt(e)
  <2>1. e.action[2] \in 0..127
    BY <1>2 DEF EdgeFits
  <2>5. \A x \in 0..127 : x < Word
    BY WordIsNat, DecoderOK
  <2>2. e.action[2] < Word
    BY <2>1, <2>5
  <2>3. /\ ps'.s = e.to /\ ps'.k = e.action[2] /\ ps'.skip = ps.skip /\ ps'.cid = ps.cid /\ ms' = ms
    BY <1>1, <1>2 DEF StartInt, PsFields
  <2>4. QED
    BY <2>2, <2>3 DEF Bounded, EdgeFits
<1>3. CASE ContinueInt(e)
  <2>1. Accumulated(ps.k, ps.m, Byte) < Word
    BY <1>1, AccumulatedFits
  <2>2. ps'.k = Accumulated(ps.k, ps.m, Byte) /\ ps'.s = e.to /\ ps'.skip = ps.skip
        /\ ps'.cid = ps.cid /\ ms' = ms
    BY <1>1, <1>3 DEF ContinueInt, Accumulated, Word, PsFields
  <2>3. QED
    BY <2>1, <2>2 DEF Bounded, EdgeFits
<1>4. QED
  BY <1>2, <1>3

LEMMA IntegerIsNat ==
    ASSUME Shape, Bounded, Byte \in 0..255, NEW e, EdgeFits(e), e.action # NoAction,
           e.action[1] # "Capture"
    PROVE  Integer(e) \in Nat
<1>1. e.action[2] \in Nat
  BY DEF EdgeFits
<1>2. ps.k \in Nat /\ ps.m \in Nat
  BY DEF Shape
<1>3. Accumulated(ps.k, ps.m, Byte) \in Nat
  BY <1>2, AccumulatedIsNat
<1>4. Integer(e) \in {e.action[2], Accumulated(ps.k, ps.m, Byte)}
  BY DEF Integer, Accumulated, Word
<1>5. QED
  BY <1>1, <1>3, <1>4

\* An action that is run.
LEMMA ActionBounded ==
    ASSUME Fitting, Shape, Bounded, Tabled, Byte \in 0..255, NEW e, EdgeFits(e),
           e.action # NoAction, _run_action(e)
    PROVE  Bounded'
<1> DEFINE v == Integer(e)
           len == v % (MAX_BYTES + 1)
           kind == e.action[1]
<1>1. kind \in {"Indexed", "IdxName", "LitName", "KeyLen", "ValLen", "TableSize", "Err"}
  BY DEF _run_action
<1>2. v \in Nat
  <2>1. kind # "Capture"
    BY <1>1
  <2>2. QED
    BY <2>1, IntegerIsNat
<1>3. len \in Nat /\ len <= MAX_BYTES
  <2> HIDE DEF v
  <2>1. QED
    BY <1>2, DecoderOK
<1>4. Named(v) \in Places
  BY <1>2, NamedFits
<1>5. DOMAIN ps = PsFields
  BY DEF Shape
<1>6. NoCapture \in Places /\ \A mid \in Places : mid = NoCapture \/ mid \in DOMAIN Nothing
  BY DEF Places
<1>7. /\ kind = "Indexed" => RunIndexed(e, v)
      /\ kind = "IdxName" => RunIdxName(e, v)
      /\ kind = "LitName" => RunLitName(e)
      /\ kind = "KeyLen" => RunKeyLen(e, len)
      /\ kind = "ValLen" => RunValLen(e, len)
      /\ kind = "TableSize" => RunTableSize(e, v)
      /\ kind = "Err" => RunErr(e)
  BY RunIs
<1> HIDE DEF v, len, kind
<1>8. /\ ps'.k = ps.k /\ ps'.s \in {e.to, S_VAL_LEN} /\ ps'.skip \in {ps.skip, len}
      /\ ps'.cid \in {ps.cid, NoCapture, Named(v)} /\ DOMAIN ms' = DOMAIN ms
  <2>1. CASE kind = "Indexed"
    BY <1>5, <1>7, <2>1 DEF RunIndexed, PsFields
  <2>2. CASE kind = "IdxName"
    BY <1>5, <1>7, <2>2 DEF RunIdxName, PsFields
  <2>3. CASE kind = "LitName"
    BY <1>5, <1>7, <2>3 DEF RunLitName, PsFields
  <2>4. CASE kind = "KeyLen"
    BY <1>5, <1>7, <2>4 DEF RunKeyLen, PsFields
  <2>5. CASE kind = "ValLen"
    BY <1>5, <1>7, <2>5 DEF RunValLen, PsFields
  <2>6. CASE kind = "TableSize"
    BY <1>5, <1>7, <2>6 DEF RunTableSize, PsFields
  <2>7. CASE kind = "Err"
    BY <1>5, <1>7, <2>7 DEF RunErr, PsFields
  <2>8. QED
    BY <1>1, <2>1, <2>2, <2>3, <2>4, <2>5, <2>6, <2>7 DEF kind
<1> DEFINE n == Parser.dfa.num_states
<1>9. n \in Nat /\ n >= 16 /\ S_VAL_LEN = 5
  BY StatesReserved, NumberedStates
<1> HIDE DEF n
<1>10. S_VAL_LEN \in 0..(n - 1)
  BY <1>9
<1>11. QED
  BY <1>3, <1>4, <1>6, <1>8, <1>10 DEF Bounded, EdgeFits, n

LEMMA BoundedNext ==
    ASSUME Fitting, MAX_BYTES >= 127, Inv, Bounded, [Next]_vars
    PROVE  Bounded'
<1>1. CASE _parse_hdr_byte
  <2>1. Shape /\ Tabled
    BY AlwaysTabled DEF Inv
  <2>2. Byte \in 0..255
    BY <1>1, <2>1, ReadShifts
  <2>3. PICK e : /\ e = _next(states, ps.s, Byte)
                 /\ \/ ReadString(e)
                    \/ /\ e.action # NoAction
                       /\ \/ e.action[1] = "IntStart" /\ StartInt(e)
                          \/ ContinueInt(e)
                          \/ _run_action(e)
    BY <1>1 DEF _parse_hdr_byte
  <2>4. EdgeFits(e)
    BY <2>2, <2>3, NextFits DEF Bounded, Bytes
  <2>5. MAX_BYTES < Word
    BY DEF Fitting, WideEnough, Word
  <2>6. QED
    BY <2>1, <2>2, <2>3, <2>4, <2>5, StringBounded, IntBounded, ActionBounded
<1>2. CASE SendRepresentation \/ SendIndexZero \/ UNCHANGED vars
  <2>1. ps' = ps /\ ms' = ms
    BY <1>2 DEF SendRepresentation, SendIndexZero, SendIndexed, SendIndexedName, SendNewName,
                SendTableSize, Emits, vars
  <2>2. QED
    BY <2>1 DEF Bounded
<1>3. CASE NextBlock
  <2>1. ps' = _new_http2_parse_state /\ ms' = Nothing
    BY <1>3 DEF NextBlock
  <2>2. QED
    BY <2>1, FreshBounded DEF Bounded
<1>4. QED
  BY <1>1, <1>2, <1>3 DEF Next

\* The automaton panicked over no name, and has no more matches than there is room for.
LEMMA ParserRight == Parser.dfa.panicked = FALSE /\ Parser.num_matches <= MAX_MATCHES
  BY ParserGood DEF Good, TrieOf, Calm, Names

LEMMA WellTyped ==
    ASSUME Fits(Parser.dfa), Inv, Bounded
    PROVE  TypeOK
<1>1. /\ i \in Nat /\ Len(block) \in Nat /\ i <= Len(block)
      /\ ps.k \in Nat /\ ps.m \in Nat /\ ps.skip \in Nat
  BY DEF Inv, Shape
<1>2. ret \in {0, EBADMSG}
  BY DEF Inv, Within
<1>3. Word \in Nat /\ MAX_BYTES \in Nat
  BY WordIsNat, DecoderOK
<1>4. ps.k \in 0..(Pow2[IntBits] - 1)
  <2>1. ps.k < Word
    BY DEF Bounded
  <2>2. ps.k \in 0..(Word - 1)
    BY <1>1, <1>3, <2>1
  <2>3. QED
    BY <2>2 DEF Word
<1>5. ps.skip \in 0..MAX_BYTES
  BY <1>1, <1>3 DEF Bounded
<1>6. Count \in 0..Added
  <2>1. PICK p : Synced(p)
    BY AlwaysTabled DEF Tabled
  <2>2. Count \in Nat /\ dt.deleted \in Nat /\ Len(dt.entries) \in Nat /\ OldEntries \in Nat
    BY <2>1, DecoderOK DEF Synced
  <2>3. QED
    BY <2>2 DEF Count, Added
<1>7. ParserFits
  BY ParserRight DEF ParserFits
<1>8. QED
  BY <1>1, <1>2, <1>4, <1>5, <1>6, <1>7 DEF TypeOK, Bounded, Places

\* Of an automaton the loader takes, and whatever names it captures: the reader stays in
\* its states, its accumulator in its width and its lengths in their mask, it captures
\* into matches there are, and building the automaton met no conflict.
THEOREM ReaderTyped ==
    ASSUME Fitting, MAX_BYTES >= 127, Fits(Parser.dfa)
    PROVE  Spec => []TypeOK
<1>1. Init => Bounded
  BY FreshBounded DEF Init, Bounded
<1>2. Inv /\ Bounded /\ [Next]_vars => Bounded'
  BY BoundedNext
<1>3. Inv /\ Bounded => TypeOK
  BY WellTyped
<1>4. QED
  BY <1>1, <1>2, <1>3, Invariant, PTL DEF Spec
===============================================================================
