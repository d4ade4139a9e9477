---------------------------- MODULE DynamicTable ----------------------------
(***************************************************************************)
(* The mirror of one connection's HPACK dynamic table that beeper keeps in *)
(* the BPF maps dynamic_table_info and dynamic_table                       *)
(* (beeper/src/http2/parser.bpf.c), fed with the header blocks its peer    *)
(* sends.                                                                  *)
(*                                                                         *)
(* The parser never talks to the peer: it only watches the representations *)
(* go by, so an index is read correctly exactly as long as the mirror and  *)
(* the peer's encoder number the same entries the same way.  The peer is   *)
(* therefore part of the model: `sent' is every field it ever added to its *)
(* table and `peer' the size of the table it still keeps.  The parser is   *)
(* synchronous in the stream, so the peer's emission of a representation   *)
(* and the parser's reading of it are one step; the eviction loop takes    *)
(* one step per entry.                                                     *)
(***************************************************************************)
EXTENDS Integers, Sequences

CONSTANTS
    Names, Values,     \* header names and values, abstract
    Patterns,          \* the names a client registered with capture_hdr
    NameLen, ValueLen, \* their decoded lengths
    EntryOverhead,     \* the 32 bytes an entry accounts for by itself
    FieldMaxLen,       \* HEADER_FIELD_MAXLEN
    StaticTable,       \* the HPACK static table, a sequence of fields
    Base,              \* DYNAMIC_TABLE_BASE
    MaxIdx,            \* 0xffff, the largest idx an http_match holds
    DefaultMaxSize,    \* 4096
    PeerSizes,         \* the sizes the peer's encoder switches its table to
    SettingsSizes,     \* the SETTINGS_HEADER_TABLE_SIZE values it announces
    MapMayBeFull,      \* whether bpf_map_update_elem may find the map full
    MaxAdds,           \* bound: the additions of the peer in one connection
    NoName, NoValue

Field == [name : Names, val : Values]

ASSUME ConstantsOK ==
    /\ Patterns \subseteq Names /\ NoName \notin Names /\ NoValue \notin Values
    /\ NameLen \in [Names -> Nat] /\ ValueLen \in [Values -> Nat]
    /\ EntryOverhead \in Nat \ {0} /\ FieldMaxLen \in Nat
    /\ StaticTable \in Seq(Field) /\ Base = Len(StaticTable) + 1
    /\ MaxIdx \in Nat /\ MaxIdx >= Base /\ DefaultMaxSize \in Nat
    /\ PeerSizes \subseteq Nat /\ SettingsSizes \subseteq Nat
    /\ MapMayBeFull \in BOOLEAN /\ MaxAdds \in Nat

VARIABLES
    dt_info,        \* struct dynamic_table_info of the connection
    dynamic_table,  \* the connection's entries, by the slot they are stored in
    pc,             \* what the parser is in the middle of
    ps,             \* the field being added while the eviction loop runs
    ms,             \* pres->ms, one match per pattern
    peer,           \* the peer's table: how many entries it keeps, its limit
    sent,           \* history: every field the peer added to its table
    stored,         \* history: every entry the mirror added
    block           \* history: every field of the block being read

vars == <<dt_info, dynamic_table, pc, ps, ms, peer, sent, stored, block>>
mirror == <<dt_info, dynamic_table, stored>>

STATIC_TABLE_SIZE == Len(StaticTable)
Info == [count : Nat, size : Nat, max_size : Nat, deleted : Nat, dirty : {0, 1}]
Entry == [name : Names, val : Values, size : Nat]
Match == [source : {"none", "msg", "table"}, idx : Nat, val : Values \cup {NoValue}]
Pending == [cid : Patterns \cup {NoName}, name : Names \cup {NoName},
            val : Values \cup {NoValue}, size : Nat]
Sent == [name : Names, val : Values, upto : Nat]
StoredEntry == [name : Names, val : Values, size : Nat, upto : Nat]
FieldOf(e) == [name |-> e.name, val |-> e.val]
NoMatch == [source |-> "none", idx |-> 0, val |-> NoValue]
NoField == [cid |-> NoName, name |-> NoName, val |-> NoValue, size |-> 0]

-----------------------------------------------------------------------------
(* The peer: an HPACK encoder (RFC 7541, sections 4 and 6), as the parser    *)
(* and its tests rely on it.                                                 *)

PeerEntrySize(f) == NameLen[f.name] + ValueLen[f.val] + EntryOverhead

\* The size of the first n additions of a history, and of the peer's last k.
SizeUpto(h, n) == IF n = 0 THEN 0 ELSE h[n].upto
SentSize(n) == SizeUpto(sent, n)
PeerSize(k) == SentSize(Len(sent)) - SentSize(Len(sent) - k)

\* It keeps as many of its newest entries as leave `room' bytes.
PeerKeeps(k, limit, room) ==
    /\ k \in 0..peer.count
    /\ PeerSize(k) + room <= limit
    /\ k < peer.count => PeerSize(k + 1) + room > limit

PeerAdds(f) ==
    LET size == PeerEntrySize(f)
    IN  /\ Len(sent) < MaxAdds
        /\ sent' = Append(sent, [name |-> f.name, val |-> f.val,
                                 upto |-> SentSize(Len(sent)) + size])
        /\ \/ size > peer.max /\ peer' = [peer EXCEPT !.count = 0]
           \/ \E k \in 0..peer.count : /\ PeerKeeps(k, peer.max, size)
                                       /\ peer' = [peer EXCEPT !.count = k + 1]

PeerResizes(v) ==
    \E k \in 0..peer.count : /\ PeerKeeps(k, v, 0)
                             /\ peer' = [count |-> k, max |-> v]

\* The indices that name an entry of its tables, and what they name.
PeerIndices == 1..(STATIC_TABLE_SIZE + peer.count)
PeerField(i) == IF i <= STATIC_TABLE_SIZE
                THEN StaticTable[i]
                ELSE sent[Len(sent) - (i - STATIC_TABLE_SIZE) + 1]

-----------------------------------------------------------------------------
(* What an index of the stream resolves to in the mirror.                    *)

TrimLen(n) == IF NameLen[n] > FieldMaxLen THEN FieldMaxLen ELSE NameLen[n]

_is_valid_hpack_index(i) == i > 0 /\ i <= STATIC_TABLE_SIZE + dt_info.count

\* Mutant: the index forgets the evicted entries.
GetIndexNoDeleted(i) == (STATIC_TABLE_SIZE + dt_info.count - i) + Base

_get_dynamic_table_index(i) ==
    (STATIC_TABLE_SIZE + dt_info.count + dt_info.deleted - i) + Base

\* The entry a slot addresses, slots below Base being static indices.
Stored(slot) == slot \in 1..STATIC_TABLE_SIZE \/ slot \in DOMAIN dynamic_table
StoredField(slot) == IF slot < Base THEN StaticTable[slot] ELSE dynamic_table[slot]

\* The slot a valid index is reported and named by, 0 for one that does not
\* fit a match.
Slot(i) ==
    LET slot == IF i > STATIC_TABLE_SIZE THEN _get_dynamic_table_index(i) ELSE i
    IN  IF _is_valid_hpack_index(i) /\ slot <= MaxIdx THEN slot ELSE 0

\* The entry _get_table_entry finds: none once the table is dirty.
Finds(i) ==
    /\ _is_valid_hpack_index(i)
    /\ i > STATIC_TABLE_SIZE => /\ dt_info.dirty = 0
                                /\ _get_dynamic_table_index(i) \in DOMAIN dynamic_table
Found(i) == StoredField(IF i > STATIC_TABLE_SIZE
                        THEN _get_dynamic_table_index(i) ELSE i)

\* The name an index captures, if a pattern matches it.
CapturedName(i) ==
    IF Finds(i) /\ Found(i).name \in Patterns THEN Found(i).name ELSE NoName

\* What get_match reports for a pattern: the value, or nothing.
Reported(m) ==
    {v \in Values : \/ m.source = "msg" /\ v = m.val
                    \/ /\ m.source = "table"
                       /\ Stored(m.idx)
                       /\ v = StoredField(m.idx).val}

-----------------------------------------------------------------------------
Init ==
    /\ dt_info = [count |-> 0, size |-> 0, max_size |-> DefaultMaxSize,
                  deleted |-> 0, dirty |-> 0]
    /\ dynamic_table = <<>>
    /\ pc = "field" /\ ps = NoField
    /\ ms = [n \in Patterns |-> NoMatch]
    /\ peer = [count |-> 0, max |-> DefaultMaxSize]
    /\ sent = <<>> /\ stored = <<>> /\ block = {}

\* The value of a field whose name a pattern matched is captured where it is.
TakeValue(cid, v) ==
    ms' = IF cid = NoName THEN ms
          ELSE [ms EXCEPT ![cid] = [source |-> "msg", idx |-> 0, val |-> v]]

\* An indexed field: both halves are in a table, the match names the slot.
Indexed(i) ==
    /\ pc = "field"
    /\ block' = block \cup {[name |-> PeerField(i).name, val |-> PeerField(i).val]}
    /\ ms' = IF CapturedName(i) = NoName THEN ms
             ELSE [ms EXCEPT ![CapturedName(i)] =
                       [source |-> "table", idx |-> Slot(i), val |-> NoValue]]
    /\ UNCHANGED <<mirror, pc, ps, peer, sent>>

\* A literal field the peer does not add to its table.
Literal(f, cid) ==
    /\ pc = "field"
    /\ block' = block \cup {f}
    /\ TakeValue(cid, f.val)
    /\ UNCHANGED <<mirror, pc, ps, peer, sent>>

\* Mutant: a cut Huffman string is refused without marking the table dirty.
StartAddNotDirty(name, len, cid, v, cut) ==
    \/ /\ dt_info.dirty = 1 \/ name = NoName \/ cut
       /\ TakeValue(cid, v)
       /\ UNCHANGED <<mirror, pc, ps>>
    \/ /\ dt_info.dirty = 0 /\ name # NoName /\ ~cut
       /\ pc' = "add"
       /\ ps' = [cid |-> cid, name |-> name, val |-> v,
                 size |-> len + ValueLen[v] + EntryOverhead]
       /\ UNCHANGED <<mirror, ms>>

\* _add_dynamic_table_entry up to the eviction loop, for a field of the name
\* `name', `len' bytes long as far as it can be read, unless it cannot be read
\* at all (NoName).  `cut' tells a Huffman coded string was too long to keep.
\* The caller ignores the error.
StartAdd(name, len, cid, v, cut) ==
    \/ /\ dt_info.dirty = 1 \/ name = NoName
       /\ TakeValue(cid, v)
       /\ UNCHANGED <<mirror, pc, ps>>
    \/ /\ dt_info.dirty = 0 /\ name # NoName /\ cut
       /\ dt_info' = [dt_info EXCEPT !.dirty = 1]
       /\ TakeValue(cid, v)
       /\ UNCHANGED <<dynamic_table, stored, pc, ps>>
    \/ /\ dt_info.dirty = 0 /\ name # NoName /\ ~cut
       /\ pc' = "add"
       /\ ps' = [cid |-> cid, name |-> name, val |-> v,
                 size |-> len + ValueLen[v] + EntryOverhead]
       /\ UNCHANGED <<mirror, ms>>

\* The name of the entry a literal's name index is read back from.
IndexedName(i) == IF Stored(Slot(i)) THEN StoredField(Slot(i)).name ELSE NoName

AddIndexedName(i, v, huff) ==
    LET f    == [name |-> PeerField(i).name, val |-> v]
        name == IndexedName(i)
    IN  /\ pc = "field"
        /\ PeerAdds(f)
        /\ block' = block \cup {f}
        /\ StartAdd(name, IF name = NoName THEN 0 ELSE TrimLen(name),
                    CapturedName(i), v, huff /\ ValueLen[v] > FieldMaxLen)

LiteralIndexedName(i, v) ==
    Literal([name |-> PeerField(i).name, val |-> v], CapturedName(i))

AddNewName(f, huff) ==
    /\ pc = "field"
    /\ PeerAdds(f)
    /\ block' = block \cup {f}
    /\ StartAdd(f.name, NameLen[f.name],
                IF f.name \in Patterns THEN f.name ELSE NoName, f.val,
                huff /\ (NameLen[f.name] > FieldMaxLen \/ ValueLen[f.val] > FieldMaxLen))

LiteralNewName(f) == Literal(f, IF f.name \in Patterns THEN f.name ELSE NoName)

-----------------------------------------------------------------------------
(* The eviction loop, and the two ways out of it.                            *)

Evicting == pc \in {"add", "resize"}
Oldest == Base + dt_info.deleted
\* Mutants: the loop evicts for an exact fit, or not for an oversized field.
EvictsMoreExactFit ==
    /\ dt_info.count > 0
    /\ dt_info.size + ps.size >= dt_info.max_size
    /\ Oldest \in DOMAIN dynamic_table
EvictsMoreNotOversized ==
    /\ dt_info.count > 0
    /\ dt_info.size + ps.size > dt_info.max_size
    /\ ps.size <= dt_info.max_size
    /\ Oldest \in DOMAIN dynamic_table

EvictsMore ==
    /\ dt_info.count > 0
    /\ dt_info.size + ps.size > dt_info.max_size
    /\ Oldest \in DOMAIN dynamic_table

\* Mutants: an eviction accounts for the new field, for nothing, or leaves the
\* entry in the map.
EvictOldestNewSize ==
    /\ Evicting
    /\ EvictsMore
    /\ dt_info' = [dt_info EXCEPT !.size = @ - ps.size, !.count = @ - 1, !.deleted = @ + 1]
    /\ dynamic_table' = [s \in DOMAIN dynamic_table \ {Oldest} |-> dynamic_table[s]]
    /\ UNCHANGED <<pc, ps, ms, peer, sent, stored, block>>
EvictOldestNotShrinking ==
    /\ Evicting
    /\ EvictsMore
    /\ dt_info' = [dt_info EXCEPT !.count = @ - 1, !.deleted = @ + 1]
    /\ dynamic_table' = [s \in DOMAIN dynamic_table \ {Oldest} |-> dynamic_table[s]]
    /\ UNCHANGED <<pc, ps, ms, peer, sent, stored, block>>
EvictOldestKept ==
    /\ Evicting
    /\ EvictsMore
    /\ dt_info' = [dt_info EXCEPT !.size = @ - dynamic_table[Oldest].size,
                                  !.count = @ - 1, !.deleted = @ + 1]
    /\ UNCHANGED <<dynamic_table, pc, ps, ms, peer, sent, stored, block>>

EvictOldest ==
    /\ Evicting
    /\ EvictsMore
    /\ dt_info' = [dt_info EXCEPT !.size = @ - dynamic_table[Oldest].size,
                                  !.count = @ - 1, !.deleted = @ + 1]
    /\ dynamic_table' = [s \in DOMAIN dynamic_table \ {Oldest} |-> dynamic_table[s]]
    /\ UNCHANGED <<pc, ps, ms, peer, sent, stored, block>>

EndAdd ==
    /\ pc' = "field" /\ ps' = NoField
    /\ TakeValue(ps.cid, ps.val)
    /\ UNCHANGED <<peer, sent, block>>

\* The size of the first n entries the mirror ever added.
StoredSize(n) == SizeUpto(stored, n)

Fits == dt_info.size + ps.size <= dt_info.max_size

\* Mutant: the slot counts the live entries only.
NextSlotOfCount == Base + dt_info.count

\* The slot is the running count of the additions.
NextSlot == Base + dt_info.count + dt_info.deleted

Insert ==
    /\ pc = "add" /\ ~EvictsMore /\ Fits
    /\ LET entry == [name |-> ps.name, val |-> ps.val, size |-> ps.size]
       IN  /\ dynamic_table' = [s \in DOMAIN dynamic_table \cup {NextSlot} |->
                                  IF s = NextSlot THEN entry ELSE dynamic_table[s]]
           /\ stored' = Append(stored, [name |-> ps.name, val |-> ps.val, size |-> ps.size,
                                       upto |-> StoredSize(Len(stored)) + ps.size])
    /\ dt_info' = [dt_info EXCEPT !.size = @ + ps.size, !.count = @ + 1]
    /\ EndAdd

\* Mutants: a failed update is accounted for as if it had succeeded.
MapFullCounted ==
    /\ pc = "add" /\ ~EvictsMore /\ Fits
    /\ MapMayBeFull
    /\ dt_info' = [dt_info EXCEPT !.count = @ + 1]
    /\ UNCHANGED <<dynamic_table, stored>>
    /\ EndAdd
MapFullSized ==
    /\ pc = "add" /\ ~EvictsMore /\ Fits
    /\ MapMayBeFull
    /\ dt_info' = [dt_info EXCEPT !.size = @ + ps.size]
    /\ UNCHANGED <<dynamic_table, stored>>
    /\ EndAdd

InsertFindsMapFull ==
    /\ pc = "add" /\ ~EvictsMore /\ Fits
    /\ MapMayBeFull
    /\ UNCHANGED mirror
    /\ EndAdd

\* A field larger than the table is not inserted, and has emptied it.
DropOversized ==
    /\ pc = "add" /\ ~EvictsMore /\ ~Fits
    /\ UNCHANGED mirror
    /\ EndAdd

\* A dynamic table size update in a header block.
TableSizeUpdate(v) ==
    /\ pc = "field"
    /\ PeerResizes(v)
    /\ dt_info' = [dt_info EXCEPT !.max_size = v]
    /\ pc' = "resize"
    /\ UNCHANGED <<dynamic_table, ps, ms, sent, stored, block>>

EndResize ==
    /\ pc = "resize" /\ ~EvictsMore
    /\ pc' = "field"
    /\ UNCHANGED <<mirror, ps, ms, peer, sent, block>>

\* A SETTINGS frame of the peer sets the limit and evicts nothing.
Settings(v) ==
    /\ pc = "field"
    /\ dt_info' = [dt_info EXCEPT !.max_size = v]
    /\ UNCHANGED <<dynamic_table, stored, pc, ps, ms, peer, sent, block>>

\* The caller is done with the captures and parses the next block.
NextBlock ==
    /\ pc = "field"
    /\ ms' = [n \in Patterns |-> NoMatch]
    /\ block' = {}
    /\ UNCHANGED <<mirror, pc, ps, peer, sent>>

Next ==
    \/ \E i \in PeerIndices : Indexed(i)
    \/ \E i \in PeerIndices, v \in Values : LiteralIndexedName(i, v)
    \/ \E i \in PeerIndices, v \in Values, h \in BOOLEAN : AddIndexedName(i, v, h)
    \/ \E f \in Field : LiteralNewName(f)
    \/ \E f \in Field, h \in BOOLEAN : AddNewName(f, h)
    \/ EvictOldest
    \/ Insert
    \/ InsertFindsMapFull
    \/ DropOversized
    \/ \E v \in PeerSizes : TableSizeUpdate(v)
    \/ EndResize
    \/ \E v \in SettingsSizes : Settings(v)
    \/ NextBlock

Spec == Init /\ [][Next]_vars

-----------------------------------------------------------------------------
(* Properties.                                                               *)

\* Every state is a well-typed one: the C counters never go below zero.
TypeOK ==
    /\ dt_info \in Info
    /\ DOMAIN dynamic_table \subseteq Nat
    /\ \A s \in DOMAIN dynamic_table : dynamic_table[s] \in Entry
    /\ pc \in {"field", "add", "resize"}
    /\ ps \in Pending
    /\ ms \in [Patterns -> Match]
    /\ peer \in [count : Nat, max : Nat]
    /\ sent \in Seq(Sent)
    /\ stored \in Seq(StoredEntry)
    /\ block \subseteq Field

\* The store holds exactly the entries from `deleted' on, as they were added:
\* no eviction leaves an entry behind or takes one that is still counted.
StoreIsWindow ==
    /\ Len(stored) = dt_info.deleted + dt_info.count
    /\ DOMAIN dynamic_table = Base + dt_info.deleted .. NextSlot - 1
    /\ \A s \in DOMAIN dynamic_table :
          /\ FieldOf(dynamic_table[s]) = FieldOf(stored[s - Base + 1])
          /\ dynamic_table[s].size = stored[s - Base + 1].size

\* The size the eviction loop decides by is that of the entries held, across
\* every eviction, refused addition and resize.
SizeIsWindow ==
    dt_info.size = StoredSize(Len(stored)) - StoredSize(dt_info.deleted)

\* An index of the peer that the mirror finds an entry for, in a block or for
\* a caller of get_dt_entry, is the field the peer means by it.
IndicesAgree ==
    pc = "field" => \A i \in PeerIndices :
        Finds(i) => FieldOf(Found(i)) = FieldOf(PeerField(i))

\* It finds an entry for every one of them, unless it says it has drifted.
IndicesFound ==
    pc = "field" /\ dt_info.dirty = 0 => \A i \in PeerIndices : Finds(i)

\* A value reported for a header is one the peer sent for it in this block.
NeverWrongHeader ==
    \A n \in Patterns : \A v \in Reported(ms[n]) : [name |-> n, val |-> v] \in block

\* Every slot is given to one entry only, in increasing order, and an entry is
\* never rewritten, so that a match taken earlier cannot come to mean another
\* field.
SlotsNeverReused ==
    [][\A s \in DOMAIN dynamic_table' :
          IF s \in DOMAIN dynamic_table
          THEN dynamic_table'[s] = dynamic_table[s]
          ELSE s >= Base + Len(stored)]_vars

\* The additions of the peer the mirror is done with.
Settled == IF pc = "add" THEN Len(sent) - 1 ELSE Len(sent)

Abs == INSTANCE SuffixMirror WITH
    Fields <- Field,
    added  <- [j \in 1..Settled |-> FieldOf(sent[j])],
    held   <- IF dt_info.dirty = 1 THEN <<>>
              ELSE [j \in 1..dt_info.count |-> FieldOf(dynamic_table[Oldest + j - 1])]

\* What the mirror answers from is at every step the newest end of the peer's
\* additions: no step drops an addition in the middle.
Mirrors == Abs!Spec
=============================================================================
