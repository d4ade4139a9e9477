--------------------------- MODULE MCDynamicTable ---------------------------
(* A small header alphabet for TLC.  Sizes are scaled: an entry accounts for *)
(* 1 byte by itself, and 2 bytes of a name or a value are kept.              *)
EXTENDS DynamicTable

CONSTANTS a, b, x, y

MCNames == {a, b}
MCValues == {x, y}
MCPatterns == {a}
MCStaticTable == <<[name |-> a, val |-> x]>>

\* The name b and the value y are longer than what an entry keeps of them.
MCNameLen == [n \in Names |-> IF n = a THEN 1 ELSE 3]
MCValueLen == [v \in Values |-> IF v = x THEN 1 ELSE 3]
=============================================================================
