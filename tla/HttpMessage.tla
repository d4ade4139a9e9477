---------------------------- MODULE HttpMessage ----------------------------
(***************************************************************************)
(* What there is to read in an HTTP/1.1 message, said of the whole message *)
(* at once and without any notion of a parser.  A message is a sequence of *)
(* bytes, counted from 1; a range of it is its first byte and its length.  *)
(***************************************************************************)
EXTENDS Integers, Sequences, FiniteSetsExt

CR == "CR"
LF == "LF"
SP == "SP"
TAB == "TAB"
COLON == "COLON"
NUL == "NUL"

Nothing == [from |-> 0, len |-> 0]
Bytes(from, to) == IF to < from THEN Nothing ELSE [from |-> from, len |-> to - from + 1]

\* The first place from p on that holds none of the given bytes, or one of them.
SkipAll(m, p, bytes) == Min({q \in p..(Len(m) + 1) : q = Len(m) + 1 \/ m[q] \notin bytes})
FindAny(m, p, bytes) == Min({q \in p..(Len(m) + 1) : q = Len(m) + 1 \/ m[q] \in bytes})

(***************************************************************************)
(* Lines.  A line ends with LF or CR LF.                                   *)
(***************************************************************************)
LineStarts(m) == {p \in 2..Len(m) : m[p - 1] = LF}

\* Where the empty lines behind the first line end.
EmptyLineEnds(m) ==
    {p \in LineStarts(m) : m[p] = LF}
        \union {p + 1 : p \in {q \in LineStarts(m) : q < Len(m) /\ m[q] = CR /\ m[q + 1] = LF}}

(***************************************************************************)
(* Header fields.  White space around the colon is none of the value, and  *)
(* a value ends with its line, or before a CR.  Of the fields of one name, *)
(* the last that has a value counts.                                       *)
(***************************************************************************)
Same(fold, a, b) == a = b \/ (a \in DOMAIN fold /\ fold[a] = b)

IsAt(m, fold, p, string) ==
    /\ p + Len(string) - 1 <= Len(m)
    /\ \A k \in DOMAIN string : Same(fold, m[p + k - 1], string[k])

ValueOnLine(m, fold, name, p) ==
    LET colon == SkipAll(m, p + Len(name), {SP, TAB})
        value == SkipAll(m, colon + 1, {SP, TAB})
    IN  IF IsAt(m, fold, p, name) /\ colon <= Len(m) /\ m[colon] = COLON /\ value <= Len(m)
        THEN Bytes(value, FindAny(m, value, {CR, LF}) - 1)
        ELSE Nothing

FieldValue(m, fold, name) ==
    LET found == {p \in LineStarts(m) : ValueOnLine(m, fold, name, p) # Nothing}
    IN  IF found = {} THEN Nothing ELSE ValueOnLine(m, fold, name, Max(found))

(***************************************************************************)
(* The start line: three words, of which the last of a status line, its    *)
(* reason, may be empty and may hold spaces.  A prefix of NUL bytes is     *)
(* none of it.                                                             *)
(***************************************************************************)
StartLineEnd(m) == FindAny(m, 1, {LF}) - 1

StartLine(m) ==
    LET first == SkipAll(m, 1, {NUL})
        end == IF StartLineEnd(m) > 0 /\ m[StartLineEnd(m)] = CR
               THEN StartLineEnd(m) - 1 ELSE StartLineEnd(m)
        sp1 == FindAny(m, first, {SP, CR, LF})
        sp2 == FindAny(m, sp1 + 1, {SP, CR, LF})
    IN  [first |-> Bytes(first, sp1 - 1),
         second |-> Bytes(sp1 + 1, sp2 - 1),
         third |-> Bytes(sp2 + 1, end),
         spaced |-> /\ sp2 <= Len(m) /\ m[sp1] = SP /\ m[sp2] = SP
                    /\ \A p \in (sp2 + 1)..end : m[p] # CR]

Word(m, r) == SubSeq(m, r.from, r.from + r.len - 1)
Is(m, fold, r, string) == r.len = Len(string) /\ IsAt(m, fold, r.from, string)

HasStartLine(m) == StartLineEnd(m) < Len(m)

IsStatusLine(m, fold, version, codeLen) ==
    LET l == StartLine(m)
    IN  l.spaced /\ Is(m, fold, l.first, version) /\ l.second.len = codeLen

\* A request line whose method is neither a known one with more letters behind it
\* nor begins with a version, which is no token.
IsRequestLine(m, fold, version, methods) ==
    LET l == StartLine(m)
    IN  /\ l.spaced /\ l.first.len > 0 /\ l.second.len > 0 /\ l.third.len > 0
        /\ \A p \in l.third.from..(l.third.from + l.third.len - 1) : m[p] # SP
        /\ ~IsAt(m, fold, l.first.from, version)
        /\ \A k \in DOMAIN methods :
               IsAt(m, fold, l.first.from, methods[k]) => Is(m, fold, l.first, methods[k])

KnownMethod(m, fold, methods) ==
    \E k \in DOMAIN methods : Is(m, fold, StartLine(m).first, methods[k])
=============================================================================
