----------------------------- MODULE HpackDecoder -----------------------------
(***************************************************************************)
(* The reader of a header block: _parse_hdr_byte and _run_action           *)
(* (beeper/src/http2/parser.bpf.c) feed the bytes of a block to the        *)
(* automaton of Hpack one at a time.                                       *)
(*                                                                         *)
(* The peer's HPACK encoder is part of the model: it sends one             *)
(* representation after the other, in any encoding RFC 7541 allows, and    *)
(* remembers what a reader is to make of them (want).  An entry of the     *)
(* dynamic table counts one unit; what its size and the failures to add it *)
(* do to the table is the subject of DynamicTable.                         *)
(***************************************************************************)
EXTENDS Hpack

CONSTANTS
    Captures,           \* the names a caller captures, in the order it asks
    IntBits, MaxShift,  \* the accumulator of an integer (32 bits), its last shift (28)
    MAX_BYTES,          \* the mask a length is cut by
    Base,               \* DYNAMIC_TABLE_BASE
    AppendixA,          \* the names of the static table, as RFC 7541 lists them
    OldEntries, OldName,\* how many entries blocks before added, all of this name
    DefaultMaxSize,     \* the entries a table holds at first
    PeerIndices, PeerNames, PeerSizes,  \* what the peer sends of it all,
    PeerValues,         \* the values: their length and whether they are coded,
    Pads,               \* the zero groups an integer is padded with,
    WideIndices,        \* and indices wider than the accumulator
    MaxFields           \* bound: the representations the peer sends

Value == [len : Nat, huff : BOOLEAN]

Pow2[n \in Nat] == IF n = 0 THEN 1 ELSE 2 * Pow2[n - 1]

ASSUME DecoderOK ==
    /\ Captures \in Seq({n \in HeaderNames : Plain[n] # <<>> /\ Huff[n] # <<>>})
    /\ OldName \in HeaderNames
    /\ IntBits \in Nat /\ MaxShift \in Nat /\ MAX_BYTES \in Nat
    /\ AppendixA \in Seq(HeaderNames) /\ Base = Len(AppendixA) + 1
    /\ OldEntries \in Nat /\ DefaultMaxSize \in Nat /\ OldEntries <= DefaultMaxSize
    /\ PeerIndices \subseteq Nat \ {0} /\ PeerNames \subseteq HeaderNames
    /\ PeerValues \subseteq Value /\ PeerSizes \subseteq Nat /\ Pads \subseteq Nat
    /\ WideIndices \subseteq Nat /\ \A w \in WideIndices : w >= Pow2[IntBits]
    /\ MaxFields \in Nat

VARIABLES
    block,  \* the bytes of the block the peer has sent
    i,      \* how many of them are read
    ps,     \* struct http2_parse_state
    ms,     \* pres->ms, what is captured
    dt,     \* the mirror of the dynamic table
    ret,    \* what the parser returns for the block, so far
    peer,   \* the peer's dynamic table
    want,   \* what the block is to be captured as
    odd,    \* whether it holds an index 0, or one too wide for the accumulator
    fields  \* the representations sent

vars == <<block, i, ps, ms, dt, ret, peer, want, odd, fields>>
peerVars == <<block, peer, want, odd, fields>>

Parser == FoldLeft(capture_hdr, NewParser, Captures)
states == inject(Parser.dfa)
static_table == populate_static_table
STATIC_TABLE_SIZE == Len(AppendixA)
EBADMSG == -1

NoMatch == [source |-> "none", idx |-> 0, len |-> 0, huff |-> FALSE]
InMessage(at, len, huff) == [source |-> "msg", idx |-> at, len |-> len, huff |-> huff]
InTable(slot) == [source |-> "table", idx |-> slot, len |-> 0, huff |-> FALSE]
Nothing == [mid \in 0..(Parser.num_matches - 1) |-> NoMatch]
NothingWanted == [name \in DOMAIN Parser.captures |-> NoMatch]
NoCapture == -1

_new_http2_parse_state ==
    [s |-> S_FIELD, k |-> 0, m |-> 0, skip |-> 0, is_key |-> FALSE,
     cid |-> NoCapture, add_to_dt |-> FALSE, key |-> InMessage(0, 0, FALSE)]

-----------------------------------------------------------------------------
(* The mirror of the table.                                                  *)

Entry(key, huff) == [key |-> key, huff |-> huff]
Added == OldEntries + Len(dt.entries)       \* the additions ever made
Count == Added - dt.deleted

_is_valid_hpack_index(idx) == idx > 0 /\ idx <= STATIC_TABLE_SIZE + Count

Slot(idx) == IF idx <= STATIC_TABLE_SIZE THEN idx
             ELSE (STATIC_TABLE_SIZE + Added - idx) + Base

AtSlot(slot) ==
    IF slot < Base THEN static_table[slot]
    ELSE IF slot - Base < OldEntries THEN Entry(Huff[OldName], TRUE)
    ELSE dt.entries[slot - Base - OldEntries + 1]

CaptureOf(e) ==
    IF e.action # NoAction /\ e.action[1] = "Capture" THEN e.action[2] ELSE NoCapture

\* The match id of a name that is read out of a table.
_match_header_key(entry) ==
    LET Step(acc, c) ==
            LET e == _next(states, acc.s, c)
            IN  [s |-> e.to, mid |-> CaptureOf(e)]
    IN  FoldLeft(Step, [s |-> IF entry.huff THEN S_NAME ELSE S_NAME_PLAIN,
                        mid |-> NoCapture], entry.key).mid

\* The oldest entries go until max_size are left.
DeletedTo(added, deleted, max) == IF added - deleted > max THEN added - max ELSE deleted

\* A name the match ps.key refers to, in a table or in the block.
KeyOf(key) ==
    IF key.source = "table" THEN AtSlot(key.idx)
    ELSE Entry(SubSeq(block, key.idx + 1, key.idx + key.len), key.huff)

\* Mutant: of a name out of the block the coding is forgotten.
_add_dynamic_table_entry_plain(key) ==
    dt' = IF key.source = "table" /\ key.idx = 0 THEN dt
          ELSE IF dt.max = 0 THEN [dt EXCEPT !.deleted = Added]
          ELSE [dt EXCEPT !.entries = Append(@, Entry(KeyOf(key).key, key.source = "table")),
                          !.deleted = DeletedTo(Added + 1, @, dt.max)]

_add_dynamic_table_entry(key) ==
    dt' = IF key.source = "table" /\ key.idx = 0 THEN dt       \* -ENOENT
          ELSE IF dt.max = 0 THEN [dt EXCEPT !.deleted = Added]
          ELSE [dt EXCEPT !.entries = Append(@, KeyOf(key)),
                          !.deleted = DeletedTo(Added + 1, @, dt.max)]

-----------------------------------------------------------------------------
(* One byte of the block.                                                    *)

Reading == i < Len(block) /\ ret = 0
Byte == block[i + 1]
InString == ps.skip > 0

Flag(e, f) == f \in e.action[3]

\* The integer that ends with this byte.
Integer(e) ==
    IF ~Flag(e, F_CONT) THEN e.action[2]
    ELSE IF ps.m <= MaxShift THEN (ps.k + (Byte % 128) * Pow2[ps.m]) % Pow2[IntBits]
    ELSE ps.k

\* A byte of a string.  Those of a name walk the trie, and the last one captures.
ReadString(e) ==
    /\ InString
    /\ ps' = [ps EXCEPT !.skip = @ - 1,
                        !.s = IF ~ps.is_key THEN @
                              ELSE IF ps.skip = 1 THEN S_VAL_LEN ELSE e.to,
                        !.cid = IF ps.is_key THEN CaptureOf(e) ELSE @]
    /\ UNCHANGED <<ms, dt, ret>>

StartInt(e) ==
    /\ ps' = [ps EXCEPT !.s = e.to, !.k = e.action[2], !.m = 0]
    /\ UNCHANGED <<ms, dt, ret>>

\* Mutant: the groups of an integer are not shifted.
ContinueIntUnshifted(e) ==
    /\ ps' = IF ps.m <= MaxShift
             THEN [ps EXCEPT !.s = e.to, !.k = (@ + (Byte % 128)) % Pow2[IntBits], !.m = @ + 7]
             ELSE [ps EXCEPT !.s = e.to]
    /\ UNCHANGED <<ms, dt, ret>>

ContinueInt(e) ==
    /\ ps' = IF ps.m <= MaxShift
             THEN [ps EXCEPT !.s = e.to, !.m = @ + 7,
                             !.k = (@ + (Byte % 128) * Pow2[ps.m]) % Pow2[IntBits]]
             ELSE [ps EXCEPT !.s = e.to]
    /\ UNCHANGED <<ms, dt, ret>>

\* The capture of a name that is an index.
Named(idx) ==
    IF _is_valid_hpack_index(idx) THEN _match_header_key(AtSlot(Slot(idx))) ELSE NoCapture
NamedSlot(idx) == IF _is_valid_hpack_index(idx) THEN Slot(idx) ELSE 0

RunIndexed(e, v) ==
    \E mid \in {Named(v)}, slot \in {NamedSlot(v)} :
        /\ ps' = [ps EXCEPT !.s = e.to, !.add_to_dt = FALSE, !.cid = NoCapture,
                            !.key = InTable(slot)]
        /\ ms' = IF mid = NoCapture THEN ms ELSE [ms EXCEPT ![mid] = InTable(slot)]
        /\ UNCHANGED <<dt, ret>>

RunIdxName(e, v) ==
    /\ ps' = [ps EXCEPT !.s = e.to, !.add_to_dt = Flag(e, F_ADD_DT),
                        !.cid = Named(v), !.key = InTable(NamedSlot(v))]
    /\ UNCHANGED <<ms, dt, ret>>

RunLitName(e) ==
    /\ ps' = [ps EXCEPT !.s = e.to, !.add_to_dt = Flag(e, F_ADD_DT), !.cid = NoCapture]
    /\ UNCHANGED <<ms, dt, ret>>

\* Mutant: a name without a byte is left to the string that never comes.
RunKeyLenNoEmpty(e, len) ==
    /\ ps' = [ps EXCEPT !.s = e.to, !.key = InMessage(i + 1, len, Flag(e, F_HUFF)),
                        !.skip = len, !.is_key = TRUE]
    /\ UNCHANGED <<ms, dt, ret>>

RunKeyLen(e, len) ==
    /\ ps' = [ps EXCEPT !.s = IF len = 0 THEN S_VAL_LEN ELSE e.to,
                        !.key = InMessage(i + 1, len, Flag(e, F_HUFF)),
                        !.skip = len, !.is_key = TRUE]
    /\ UNCHANGED <<ms, dt, ret>>

RunValLen(e, len) ==
    /\ ps' = [ps EXCEPT !.s = e.to, !.cid = NoCapture, !.skip = len, !.is_key = FALSE]
    /\ ms' = IF ps.cid = NoCapture THEN ms
             ELSE [ms EXCEPT ![ps.cid] = InMessage(i + 1, len, Flag(e, F_HUFF))]
    /\ IF ps.add_to_dt THEN _add_dynamic_table_entry(ps.key) ELSE UNCHANGED dt
    /\ UNCHANGED ret

RunTableSize(e, v) ==
    /\ ps' = [ps EXCEPT !.s = e.to]
    /\ dt' = [dt EXCEPT !.max = v, !.deleted = DeletedTo(Added, @, v)]
    /\ UNCHANGED <<ms, ret>>

\* Mutant: index 0 is skipped like any index that names no entry.
RunErrSkipped(e) ==
    /\ ps' = [ps EXCEPT !.s = S_FIELD]
    /\ UNCHANGED <<ms, dt, ret>>

RunErr(e) ==
    /\ ps' = [ps EXCEPT !.s = e.to]
    /\ ret' = EBADMSG
    /\ UNCHANGED <<ms, dt>>

\* The action of the edge that was taken, with the integer it stands for.
_run_action(e) ==
    \E kind \in {e.action[1]}, v \in {Integer(e)} :
        \/ kind = "Indexed" /\ RunIndexed(e, v)
        \/ kind = "IdxName" /\ RunIdxName(e, v)
        \/ kind = "LitName" /\ RunLitName(e)
        \/ kind = "KeyLen" /\ RunKeyLen(e, v % (MAX_BYTES + 1))
        \/ kind = "ValLen" /\ RunValLen(e, v % (MAX_BYTES + 1))
        \/ kind = "TableSize" /\ RunTableSize(e, v)
        \/ kind = "Err" /\ RunErr(e)

_parse_hdr_byte ==
    /\ Reading
    /\ \E e \in {_next(states, ps.s, Byte)} :
          \/ ReadString(e)
          \/ /\ ~InString /\ e.action # NoAction
             /\ \/ e.action[1] = "IntStart" /\ StartInt(e)
                \/ e.action[1] = "IntCont" /\ ContinueInt(e)
                \/ _run_action(e)
    /\ i' = i + 1
    /\ UNCHANGED peerVars

-----------------------------------------------------------------------------
(* The peer's encoder (RFC 7541, sections 5 and 6).                          *)

Groups[r \in Nat] == IF r < 128 THEN <<r>> ELSE <<128 + (r % 128)>> \o Groups[r \div 128]

\* The groups of an integer, padded with zero ones.
Padded(groups, pad) ==
    [j \in 1..(Len(groups) + pad) |->
        (IF j <= Len(groups) THEN groups[j] ELSE 0)
        + (IF j >= Len(groups) /\ j < Len(groups) + pad THEN 128 ELSE 0)]

EncodeInt(flags, max, v, pad) ==
    IF v < max THEN <<flags + v>> ELSE <<flags + max>> \o Padded(Groups[v - max], pad)

EncodeString(bytes, huff, pad) ==
    EncodeInt(IF huff THEN 128 ELSE 0, 127, Len(bytes), pad) \o bytes
EncodeValue(v, pad) == EncodeString([j \in 1..v.len |-> 1], v.huff, pad)

\* How a literal field is introduced: it is added, not added, or never indexed.
Literals == {[flags |-> 64, max |-> 63, add |-> TRUE],
             [flags |-> 0, max |-> 15, add |-> FALSE],
             [flags |-> 16, max |-> 15, add |-> FALSE]}

PeerAdded == OldEntries + Len(peer.added)
PeerValid(idx) == idx <= STATIC_TABLE_SIZE + peer.kept
PeerNumber(idx) == PeerAdded - (idx - STATIC_TABLE_SIZE) + 1
PeerName(idx) ==
    IF idx <= STATIC_TABLE_SIZE THEN AppendixA[idx]
    ELSE IF PeerNumber(idx) <= OldEntries THEN OldName
    ELSE peer.added[PeerNumber(idx) - OldEntries]

Smaller(a, b) == IF a < b THEN a ELSE b

\* The reader has caught up with the peer, which may send some more.
MaySend == ret = 0 /\ i = Len(block) /\ fields < MaxFields

Emits(bytes) ==
    /\ block' = block \o bytes
    /\ fields' = fields + 1
    /\ UNCHANGED <<i, ps, ms, dt, ret>>

\* The block captures the last value of every name that is asked for.
Wants(name, match) ==
    want' = IF name \in DOMAIN want THEN [want EXCEPT ![name] = match] ELSE want

PeerAdds(name, add) ==
    peer' = IF ~add \/ peer.max = 0 THEN peer
            ELSE [peer EXCEPT !.added = Append(@, name),
                              !.kept = Smaller(@ + 1, peer.max)]

\* An index past both tables is malformed, and names nothing to capture; one too
\* wide for the accumulator may be read as any other.
SendIndexed(idx, pad) ==
    /\ Emits(EncodeInt(128, 127, idx, pad))
    /\ IF PeerValid(idx)
       THEN Wants(PeerName(idx),
                  InTable(IF idx <= STATIC_TABLE_SIZE THEN idx
                          ELSE Base + PeerNumber(idx) - 1))
       ELSE UNCHANGED want
    /\ odd' = IF idx \in WideIndices THEN odd \union {"wide"} ELSE odd
    /\ UNCHANGED peer

SendIndexedName(idx, lit, v, pad) ==
    LET head == EncodeInt(lit.flags, lit.max, idx, pad)
        val  == EncodeValue(v, pad)
    IN  /\ PeerValid(idx)
        /\ Emits(head \o val)
        /\ Wants(PeerName(idx), InMessage(Len(block \o head \o val) - v.len, v.len, v.huff))
        /\ PeerAdds(PeerName(idx), lit.add)
        /\ UNCHANGED odd

SendNewName(name, huff, lit, v, pad) ==
    LET head == <<lit.flags>> \o EncodeString(IF huff THEN Huff[name] ELSE Plain[name], huff, 0)
        val  == EncodeValue(v, pad)
    IN  /\ Emits(head \o val)
        /\ Wants(name, InMessage(Len(block \o head \o val) - v.len, v.len, v.huff))
        /\ PeerAdds(name, lit.add)
        /\ UNCHANGED odd

SendTableSize(size, pad) ==
    /\ Emits(EncodeInt(32, 31, size, pad))
    /\ peer' = [peer EXCEPT !.max = size, !.kept = Smaller(@, size)]
    /\ UNCHANGED <<want, odd>>

SendIndexZero ==
    /\ MaySend
    /\ Emits(<<128>>)
    /\ odd' = odd \union {"zero"}
    /\ UNCHANGED <<peer, want>>

SendRepresentation ==
    /\ MaySend
    /\ \E pad \in Pads :
          \/ \E idx \in PeerIndices \union WideIndices : SendIndexed(idx, pad)
          \/ \E idx \in PeerIndices, lit \in Literals, v \in PeerValues :
                SendIndexedName(idx, lit, v, pad)
          \/ \E name \in PeerNames, huff \in BOOLEAN, lit \in Literals, v \in PeerValues :
                SendNewName(name, huff, lit, v, pad)
          \/ \E size \in PeerSizes : SendTableSize(size, pad)

\* The block ends, and the next one begins.
NextBlock ==
    /\ ret # 0 \/ i = Len(block)
    /\ block # <<>>
    /\ block' = <<>> /\ i' = 0 /\ ret' = 0 /\ odd' = {}
    /\ ps' = _new_http2_parse_state /\ ms' = Nothing /\ want' = NothingWanted
    /\ UNCHANGED <<dt, peer, fields>>

-----------------------------------------------------------------------------
Init ==
    /\ block = <<>> /\ i = 0 /\ ret = 0 /\ odd = {} /\ fields = 0
    /\ ps = _new_http2_parse_state /\ ms = Nothing /\ want = NothingWanted
    /\ dt = [entries |-> <<>>, deleted |-> 0, max |-> DefaultMaxSize]
    /\ peer = [added |-> <<>>, kept |-> OldEntries, max |-> DefaultMaxSize]

Next ==
    \/ _parse_hdr_byte
    \/ SendRepresentation
    \/ SendIndexZero
    \/ NextBlock

Spec == Init /\ [][Next]_vars

-----------------------------------------------------------------------------
(* Properties.                                                               *)

\* What the theorems ask of the constants, and TLC evaluates for its own: the last
\* group the accumulator takes fills it, a length fits into it, what the peer
\* sends fits into both (indices too wide for it excepted), and the static table
\* is spelled as RFC 7541 lists it.
WideEnough == MaxShift % 7 = 0 /\ IntBits <= MaxShift + 7 /\ MAX_BYTES < Pow2[IntBits]
LengthsFit ==
    /\ \A v \in PeerValues : v.len <= MAX_BYTES
    /\ \A name \in PeerNames : Len(Plain[name]) <= MAX_BYTES /\ Len(Huff[name]) <= MAX_BYTES
    /\ \A v \in PeerIndices \union PeerSizes : v < Pow2[IntBits]
StaticTableAgrees ==
    \A idx \in 1..STATIC_TABLE_SIZE : static_table[idx] = Entry(Huff[AppendixA[idx]], TRUE)

\* What the peer has sent so far is read, and not refused.
AllRead == i = Len(block) /\ ret = 0

ParserFits ==
    ~Parser.dfa.panicked /\ Parser.num_matches <= MAX_MATCHES /\ Fits(Parser.dfa)

\* The reader is well typed: the accumulator stays within its width, and what
\* was loaded fits into the program whatever a caller asked for.
TypeOK ==
    /\ i \in 0..Len(block) /\ ret \in {0, EBADMSG}
    /\ ps.s \in 0..(Parser.dfa.num_states - 1) /\ ps.k \in 0..(Pow2[IntBits] - 1)
    /\ ps.m \in Nat /\ ps.skip \in 0..MAX_BYTES
    /\ ps.cid \in {NoCapture} \union DOMAIN ms
    /\ DOMAIN ms = DOMAIN Nothing
    /\ Count \in 0..Added
    /\ ParserFits

\* However the peer spells its names, encodes and pads its integers and uses
\* its tables, each header asked for is captured as the last value the block
\* gives it, at the place and with the length and the coding it was sent with,
\* and nothing else is captured.
CapturesAgree ==
    AllRead /\ "wide" \notin odd =>
        \A name \in DOMAIN want : ms[Parser.captures[name]] = want[name]

\* The reader is at the first byte of a representation exactly when the peer's
\* representation is over, and outside of a string it stands in no state that
\* has no edge for a byte, so that no representation is read out of step, an
\* index too wide included.
InStep ==
    /\ AllRead => ps.s = S_FIELD /\ ps.skip = 0
    /\ Reading /\ ~InString => states[ps.s][Byte].action # NoAction

\* The names the mirror added are those the peer added, in order, and as many
\* of them are left.
TableAgrees ==
    AllRead =>
        /\ Len(dt.entries) = Len(peer.added) /\ Count = peer.kept
        /\ \A j \in DOMAIN peer.added :
              dt.entries[j].key = IF dt.entries[j].huff THEN Huff[peer.added[j]]
                                                        ELSE Plain[peer.added[j]]

\* A block is refused for an index 0, and for nothing else the peer sends.
IndexZeroRefused == (ret # 0 \/ i = Len(block)) => (ret = EBADMSG <=> "zero" \in odd)
=============================================================================
