---------------------------- MODULE SuffixMirror ----------------------------
(***************************************************************************)
(* What a mirror of an HPACK dynamic table owes its reader.  It sees every *)
(* addition the encoder makes and may forget entries whenever it likes,    *)
(* but only the oldest ones: what it holds is always the newest end of the *)
(* additions, so that an index, which counts back from the newest, names   *)
(* the encoder's own entry or nothing.                                     *)
(***************************************************************************)
EXTENDS Integers, Sequences

CONSTANT Fields

VARIABLES added, held

Suffixes(s) == {SubSeq(s, i, Len(s)) : i \in 1..(Len(s) + 1)}

Init == added = <<>> /\ held = <<>>

Add(f) ==
    /\ added' = Append(added, f)
    /\ held' \in Suffixes(Append(held, f))

Forget ==
    /\ held' \in Suffixes(held)
    /\ UNCHANGED added

Next == Forget \/ \E f \in Fields : Add(f)

Spec == Init /\ [][Next]_<<added, held>>
=============================================================================
